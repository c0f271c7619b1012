SPECIFICATION FairSpec
CONSTANTS
  u1 = u1  u2 = u2
  NoUser = NoUser
  Users = {u1, u2}
  MaxCalls = 1
  MaxPages = 3
  MaxInbox = 2
  MaxKills = 2
INVARIANT ConfirmedHasData
INVARIANT MainHasUser
INVARIANT SessionInv
INVARIANT SplashNeedsConnection
INVARIANT StaySignedIn
PROPERTY SplashEnds
