SPECIFICATION FairSpec
CONSTANTS
  MaxFetches = 3
  MaxEvents = 3
INVARIANT HomeInv
INVARIANT FilmsKept
INVARIANT FilmsNeedPosition
PROPERTY HomeRecovers
