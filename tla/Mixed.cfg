\* Combined and parallel datasets: saved, killed and resumed.
CONSTANTS
    NoState = NoState
    Jobs <- AllJobs
    Grain = 6
    MaxEpochs = 3
    MaxBatches = 8
    MaxRestarts = 2
CHECK_DEADLOCK FALSE
SPECIFICATION Spec
INVARIANT EpochWhole
INVARIANT MixResumed
INVARIANT OneStreamBatches
INVARIANT CyclesContinue
