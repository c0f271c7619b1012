SPECIFICATION Spec
CONSTANTS
  a1 = a1  d1 = d1  d2 = d2  s1 = s1  s2 = s2  x = x  y = y
  NoShow = NoShow
  Devices = {d1, d2}
  Accounts = {a1}
  AccountOf <- SameAccount
  Shows = {s1}
  Seats = {x}
  MaxSeats = 1
  Methods = {"upi", "card"}
  MaxFetches = 1
  MaxPays = 1
SYMMETRY SeatSymmetry
INVARIANT NoDoubleBooking
