SPECIFICATION FairSpec
\* The bounded environment may run out of edits and faults, and the controller
\* then rests: its further reconciliations change nothing.
CHECK_DEADLOCK FALSE
CONSTANTS
  dev = dev
  prod = prod
  Deployments <- TwoDeployments
  StageOf <- StageOfTwo
  Plan <- PlanTwo
  NoHash = NoHash
  MaxLag = 0
  MaxFaults = 0
  MaxContexts = 4
INVARIANTS OneTracePerVersion
PROPERTIES TriggeredOnce Converges
