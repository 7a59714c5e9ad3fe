CONSTANTS
  MaxSize = 4
  Datasets <- SmallDatasets
  Layouts <- SmallLayouts
  Requests <- SmallRequests
SPECIFICATION SubsetSpec
INVARIANT NothingTwice
INVARIANT RanksAgree
INVARIANT WorkersInStep
INVARIANT SplitsDisjoint
INVARIANT SubsetRead
INVARIANT LastReaderDeletes
