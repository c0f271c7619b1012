SPECIFICATION Spec
CONSTANTS
  f1 = f1  f2 = f2
  NoFilm = NoFilm
  Films = {f1, f2}
  Window = 7
  MaxDay = 2
  MaxFetches = 2
INVARIANT TypeOK
INVARIANT SlotOfChosenShow
INVARIANT PastOnlyOnOldPage
INVARIANT ShowtimesInv
PROPERTY SpinnerEnds
