CONSTANTS
  NoState = NoState
  MaxItems = 5
  MaxEpochs = 2
  MaxRestarts = 2
  Jobs <- ResumeJobs
CHECK_DEADLOCK FALSE
SPECIFICATION Spec
INVARIANT SameSamplesResumed
PROPERTY EpochsAreWhole
