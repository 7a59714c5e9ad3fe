CONSTANTS
  NoState = NoState
  MaxItems = 5
  MaxEpochs = 2
  MaxRestarts = 2
  Jobs <- SmallJobs
CHECK_DEADLOCK FALSE
SPECIFICATION Spec
INVARIANT NothingRepeated
