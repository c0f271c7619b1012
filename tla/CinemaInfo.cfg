SPECIFICATION Spec
CONSTANTS
  c1 = c1  c2 = c2
  NoCinema = NoCinema
  Cinemas = {c1, c2}
  MaxCalls = 3
INVARIANT InfoInv
INVARIANT SheetOfTapped
PROPERTY TopSheetWhole
