SPECIFICATION Spec
CONSTANTS
  stages = stages
  sequences = sequences
  first = first
  second = second
  Inputs <- TwoInputs
  MaxVersion = 2
  Composable <- Fitting
  Orders <- TwoOrders
  None = None
  NotYet = NotYet
  Initial = Initial
  Lag <- Fresh
  MaxDeletions = 1
  Disturbances <- OneRefusal
  MaxDisturbances = 1
INVARIANT DeletedMeansGone
