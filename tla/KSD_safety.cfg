SPECIFICATION FairSpec
\* The bounded environment may run out of edits and faults, and the controller
\* then rests: its further reconciliations change nothing.
CHECK_DEADLOCK FALSE
CONSTANTS
  dev = dev
  prod = prod
  Deployments <- OneDeployment
  StageOf <- StageOfOne
  Plan <- PlanOne
  NoHash = NoHash
  MaxLag = 1
  MaxFaults = 2
  MaxContexts = 1
INVARIANTS TypeOK RecordedWasSent AppliedWasSent CacheMovesForward JobFollowsEvent
PROPERTIES ImplementsTrigger Converges
