SPECIFICATION FairSpec
CONSTANTS
  a = a  b = b  n = n
  NoUser = NoUser
  Blank = Blank
  Users = {a}
  Names = {n}
  MaxTickets = 1
  MaxFetches = 2
INVARIANT EditShowsStored
INVARIANT HeaderFresh
INVARIANT OrdersComplete
INVARIANT ProfileInv
PROPERTY PagesFill
