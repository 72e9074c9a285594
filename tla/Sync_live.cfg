SPECIFICATION FairSpec
\* After the last commit is recorded every reconciliation changes nothing.
CHECK_DEADLOCK FALSE
CONSTANTS
  project = project
  deployment = deployment
  a = a
  b = b
  x = x
  y = y
  z = z
  a1 = a1
  a2 = a2
  b1 = b1
  Delivery = Delivery
  NoSpec = NoSpec
  NoArtifact = NoArtifact
  Absent = Absent
  Bare = Bare
  NoTag = NoTag
  Objects <- TwoObjects
  Services <- TwoServices
  Order <- OrderOfTwo
  Commits <- PlanSeparate
  ObjectLag = 1
  StatusLag = 0
  MaxBranch = 20
  Disturbances <- OnlyCrashes
  MaxDisturbances = 2
  Foreign <- NoObjects
PROPERTIES Synchronises SuccessfulMeansDelivered
