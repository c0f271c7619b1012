SPECIFICATION FairSpec
CONSTANTS
  a1 = a1  d1 = d1  d2 = d2  s1 = s1  s2 = s2  x = x  y = y
  NoShow = NoShow
  Devices = {d1}
  Accounts = {a1}
  AccountOf <- SameAccount
  Shows = {s1}
  Seats = {x}
  MaxSeats = 1
  Methods = {"upi", "card"}
  MaxFetches = 3
  MaxPays = 2
INVARIANT QueueInv
PROPERTY LoadingEnds
PROPERTY PaidSeatsGetSold
PROPERTY ImplementsLedger
