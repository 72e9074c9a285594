SPECIFICATION FairSpec
CONSTANTS
  stages = stages
  sequences = sequences
  first = first
  second = second
  Inputs <- TwoInputs
  MaxVersion = 2
  Composable <- Fitting
  Orders <- OneOrder
  None = None
  NotYet = NotYet
  Initial = Initial
  Lag <- LagOfAll
  MaxDeletions = 1
  Disturbances <- AllOnce
  MaxDisturbances = 1
INVARIANTS TypeOK RecordIsPushed DeletedUnlessRefused
PROPERTIES RecordFollowsStages ShipyardFollowsStages
