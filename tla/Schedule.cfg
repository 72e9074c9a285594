SPECIFICATION FairSpec
\* The clock stops at its bound and the controller rests.
CHECK_DEADLOCK FALSE
CONSTANTS
  Lag = 1
  MaxTime = 4
  MaxEdits = 3
  Disturbances <- Occurrences
  MaxDisturbances = 3
INVARIANTS TypeOK NeverEarly StartedOnce
PROPERTIES EveryTimeIsServed
