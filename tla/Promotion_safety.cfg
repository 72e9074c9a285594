SPECIFICATION FairSpec
\* All events are handled in the end, and a panic blocks the rest for good.
CHECK_DEADLOCK FALSE
CONSTANTS
  p1 = p1
  p2 = p2
  p3 = p3
  p4 = p4
  dev = dev
  prod = prod
  t1 = t1
  t2 = t2
  Keptn = Keptn
  NoOne = NoOne
  Promotions <- FourPromotions
  StageOf <- StageOfFour
  TagOf <- TagOfFour
  Defect <- DefectOfFour
  atomOfBase = atomOfBase
  atomOfStage = atomOfStage
  Trees <- SmallTrees
  Depth <- DepthOfTrees
  OrigFiles <- ValuesOfBase
  StageFiles <- ValuesOfStage
  Names <- AllNames
  Paths <- KeyPaths
  Service <- Svc
  Stage <- Dev
  Rest <- RestOfSvc
  Clones <- TagClones
  Targets <- StageClones
  NewStages = {prod}
  Retries = 2
  Disturbances <- AllKinds
  MaxDisturbances = 2
INVARIANTS TypeOK Serialised FailedMeansUntouched MergeIsRight PromotedIsComplete
PROPERTIES EveryEventIsAnswered ImplementsTask NothingOverwritten
