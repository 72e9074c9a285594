SPECIFICATION Spec
\* After the last commit is recorded every reconciliation changes nothing.
CHECK_DEADLOCK FALSE
CONSTANTS
  project = project
  deployment = deployment
  a = a
  b = b
  x = x
  y = y
  z = z
  a1 = a1
  a2 = a2
  b1 = b1
  Delivery = Delivery
  NoSpec = NoSpec
  NoArtifact = NoArtifact
  Absent = Absent
  Bare = Bare
  NoTag = NoTag
  Objects <- TwoObjects
  Services <- TwoServices
  Order <- OrderOfTwo
  Commits <- PlanNewService
  ObjectLag = 0
  StatusLag = 0
  MaxBranch = 20
  Disturbances <- NoKinds
  MaxDisturbances = 0
  Foreign <- NoObjects
PROPERTIES SuccessfulMeansDelivered
