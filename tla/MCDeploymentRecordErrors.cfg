SPECIFICATION Spec
CONSTANTS
  Deployments <- AllDeployments
  Inputs <- SampleInputs
  FailRandomly = TRUE
  RetryMax = 0
  MaxRequests = 1
  MaxFaults = 0
  MaxDepth = 5
CHECK_DEADLOCK FALSE
INVARIANT RecordErrorsTriggered
