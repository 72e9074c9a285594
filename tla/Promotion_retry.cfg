SPECIFICATION FairSpec
\* All events are handled in the end, and a panic blocks the rest for good.
CHECK_DEADLOCK FALSE
CONSTANTS
  p1 = p1
  p2 = p2
  p3 = p3
  p4 = p4
  dev = dev
  prod = prod
  t1 = t1
  t2 = t2
  Keptn = Keptn
  NoOne = NoOne
  Promotions <- TwoPromotions
  StageOf <- StageOfTwo
  TagOf <- TagOfTwo
  Defect <- DefectOfTwo
  atomOfBase = atomOfBase
  atomOfStage = atomOfStage
  Trees <- SmallTrees
  Depth <- DepthOfTrees
  OrigFiles <- ValuesOfBase
  StageFiles <- ValuesOfStage
  Names <- AllNames
  Paths <- KeyPaths
  Service <- Svc
  Stage <- Dev
  Rest <- RestOfSvc
  Clones <- TagClones
  Targets <- StageClones
  NewStages = {}
  Retries = 6
  Disturbances <- OnlyPushes
  MaxDisturbances = 1
PROPERTIES PromotedIsFinished
