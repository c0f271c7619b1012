SPECIFICATION Spec
CONSTANTS
  a1 = a1  d1 = d1  d2 = d2  s1 = s1  s2 = s2  x = x  y = y
  NoShow = NoShow
  Devices = {d1}
  Accounts = {a1}
  AccountOf <- SameAccount
  Shows = {s1, s2}
  Seats = {x, y}
  MaxSeats = 2
  Methods = {"upi", "card"}
  MaxFetches = 1
  MaxPays = 2
SYMMETRY SeatSymmetry
INVARIANT SoldSeatsWerePaid
