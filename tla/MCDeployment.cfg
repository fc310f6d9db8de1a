SPECIFICATION FairSpec
CONSTANTS
  Deployments <- AllDeployments
  Inputs <- SampleInputs
  FailRandomly = TRUE
  RetryMax = 1
  MaxRequests = 2
  MaxFaults = 2
  MaxDepth = 5
CHECK_DEADLOCK FALSE
INVARIANTS TypeOK DirectCalls
PROPERTIES OneProcess EveryRequestAnswered
