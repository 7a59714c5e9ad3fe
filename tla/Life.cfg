\* A dataset is written by the first epoch of a CacheDataLoader, opened and read.
CONSTANTS
    Jobs <- FillJobs
    OpenJobs <- WaysToOpen
    Opened <- OpenedJob
    Way <- Open
    ReadJobs <- WaysToRead
CHECK_DEADLOCK FALSE
SPECIFICATION LifeSpec
INVARIANT IndexWhole
INVARIANT ChunksReadOnce
INVARIANT NeverStale
INVARIANT Undisturbed
INVARIANT InHandUsable
PROPERTY FillingEnds
PROPERTY OpeningEnds
