\* optimize() and map(): every kind of job, each on a small instance.
CONSTANTS
    Cpus = 2
    Jobs <- OptimizeJobs
    MaxRestarts = 1
SPECIFICATION FairSpec
INVARIANT WorkIsSplit
INVARIANT FinishedComplete
INVARIANT KeepsOrder
INVARIANT AlignedLayout
INVARIANT CheckpointBacked
INVARIANT ErrorsSurface
INVARIANT InputsStay
INVARIANT ExistingKept
 
PROPERTY ProcessingEnds
