SPECIFICATION Spec
CONSTANTS
  ElectionTimeoutMin = 10
  ElectionTimeoutMax = 20
  Delay = 2
  Tolerated = 6
INVARIANT NoNeedlessElection
INVARIANT FailureIsDetected
PROPERTY FailureLeadsToElection
