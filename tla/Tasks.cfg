SPECIFICATION FairSpec
CONSTANTS
  x = x
  y = y
  Plan <- PlanEdit
  NoHash = NoHash
  None = None
  Unreadable = Unreadable
  Empty = Empty
  Unset = Unset
  MaxToken = 2
  MaxDeletions = 1
  Lag = 1
  Disturbances <- AllOnce
  MaxDisturbances = 1
INVARIANTS TypeOK DeletedUnlessRefused TriggersAreBounded
PROPERTIES ImplementsTrigger ServiceIsKept Converges TokenIsFollowed
