SPECIFICATION Spec
\* After the last commit is recorded every reconciliation changes nothing.
CHECK_DEADLOCK FALSE
CONSTANTS
  project = project
  deployment = deployment
  a = a
  b = b
  x = x
  y = y
  z = z
  a1 = a1
  a2 = a2
  b1 = b1
  Delivery = Delivery
  NoSpec = NoSpec
  NoArtifact = NoArtifact
  Absent = Absent
  Bare = Bare
  NoTag = NoTag
  Objects <- TwoObjects
  Services <- TwoServices
  Order <- OrderOfTwo
  Commits <- PlanTogether
  ObjectLag = 1
  StatusLag = 1
  MaxBranch = 5
  Disturbances <- AllKinds
  MaxDisturbances = 2
  Foreign <- Bares
INVARIANTS TypeOK TagsAreTraceable
PROPERTIES RecordedMeansApplied OverwritesAreAllowed
