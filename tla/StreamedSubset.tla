--------------------------- MODULE StreamedSubset ---------------------------
(***************************************************************************)
(* A StreamingDataset from its index to its workers: the subset it reads is *)
(* fixed when it is made (Subsets), the walk of Assignment deals that out,  *)
(* and every worker learns which chunks to leave to others (SkipDeletion).  *)
(***************************************************************************)
EXTENDS Assignment, Subsets, SkipDeletion

CONSTANTS
    Requests    \* what users ask for: [index, share, shuffled, shares, mixed]

\* index is the dataset, share and shuffled are its `subsample` and `shuffle`; shares
\* and mixed are `splits` and `shuffle` of train_test_split, << >> if it is not called.
ASSUME RequestAssumption == \A r \in Requests :
    /\ r.index \in Seq(Nat) \ {<< >>}
    /\ r.share \in Nat \ {0} /\ r.shuffled \in BOOLEAN /\ r.mixed \in BOOLEAN
    /\ r.shares \in Seq(Nat) /\ SumFunction(r.shares) <= Grain

VARIABLES
    request,  \* what was asked for
    whole,    \* the subset of the dataset
    splits,   \* its splits; << >> if it is not split
    mine      \* the subset that is read: the whole one, or one of the splits

subsetVars == <<request, whole, splits, mine>>

index == request.index

\* The sizes of the chunks of the subset are what Assignment walks over.
SubsetSizes ==
    LET all == GenerateIntervals(index, mine)
    IN  [k \in DOMAIN all |-> all[k].to - all[k].from]

SubsetInit ==
    /\ request \in Requests
    /\ whole \in Subsample(index, request.share, request.shuffled)
    /\ splits \in IF request.shares = << >> THEN {<< >>}
                  ELSE TrainTestSplit(whole, request.shares, request.mixed)
    /\ mine \in IF splits = << >> THEN {whole} ELSE ToSet(splits)
    /\ sizes = SubsetSizes
    /\ Begin

SubsetSpec == SubsetInit /\ [][Next /\ UNCHANGED subsetVars]_<<vars, subsetVars>>

-----------------------------------------------------------------------------
(* What StreamingDataset.__iter__ tells a worker. *)

\* The plans of the workers of the node of rank r, as they are cut out of all
\* plans.  The start multiplies the first rank by the workers of the whole node:
\* nodes with several ranks, but for the first, look at nobody's plans.
NodePlans(r) ==
    LET firstRank == (r \div layout.ranksPerNode) * layout.ranksPerNode
        perNode == layout.ranksPerNode * layout.workers
        start == firstRank * perNode
    IN  [w \in {v \in 0 .. perNode - 1 : start + v \in WorkerIds(layout)} |-> plan[start + w]]

Disabled(r) == ToDisable(NodePlans(r), layout.workers, layout.batch)

-----------------------------------------------------------------------------
(* Properties. *)

\* The subset is in the order of the index and has no chunk twice.
Plain(s) == \A j, k \in DOMAIN s.files : j < k => s.files[j] < s.files[k]

\* train_test_split: the splits are non-overlapping parts of the dataset, each of
\* the size asked for ("multiple non-overlapping subsets").  A dataset that was
\* subsampled in another order than that of its index is left out: its regions are
\* mixed up.
SplitsDisjoint ==
    splits # << >> =>
        /\ \A i \in DOMAIN splits :
              ItemsIn(splits[i].roi) = ShareOf(ItemsIn(whole.roi), request.shares[i])
        /\ Plain(whole) =>
              /\ \A i \in DOMAIN splits : ItemsOf(splits[i]) \subseteq ItemsOf(whole)
              /\ \A i, j \in DOMAIN splits :
                    i # j => ItemsOf(splits[i]) \cap ItemsOf(splits[j]) = {}

\* The item that sample i of chunk k of the walk is (np.arange over the interval).
Read(k, i) == ItemAt(index, mine, k, GenerateIntervals(index, mine)[k].from + i)

\* Without drop_last the first walk reads exactly the items of the subset, and
\* reading it place by place (__getitem__) gives the same, in the order of its chunks.
SubsetRead ==
    Dealt /\ pass = "first" /\ ~layout.dropLast =>
        /\ GivenTo(WorkerIds(layout)) = ItemsIn(mine.roi)
        /\ UNION {UNION {{Read(plan[w][n].chunk, i) : i \in plan[w][n].first .. plan[w][n].last - 1} :
                            n \in DOMAIN plan[w]} : w \in WorkerIds(layout)} = ItemsOf(mine)
        /\ {Access(index, mine, p) : p \in 0 .. ItemsIn(mine.roi) - 1} = ItemsOf(mine)

\* When a loader asks for the last item worker w of rank r has of chunk c: the
\* batches that are handed out before.
AskedAt(plans, r, w, c) ==
    LET upto(n) == FoldSeq(LAMBDA i, sum : Size(i) + sum, 0, SubSeq(plans[w], 1, n))
        last == Max({n \in DOMAIN plans[w] : plans[w][n].chunk = c})
        b == (upto(last) - 1) \div layout.batch
        batches(v) == (FoldSeq(LAMBDA i, sum : Size(i) + sum, layout.batch - 1, plans[v]))
                      \div layout.batch
    IN  FoldSet(LAMBDA v, sum : Min({batches(v), IF v < w THEN b + 1 ELSE b}) + sum, 0,
                WorkersOfRank(layout.workers, r))

\* No interval is shorter than a batch.
LongIntervals == \A w \in WorkerIds(layout) : \A n \in DOMAIN plan[w] :
    Size(plan[w][n]) >= layout.batch

\* Of a shared chunk one worker is left to delete it, and no worker of its rank
\* reads the chunk after it (the docstring of
\* _find_chunks_per_workers_on_which_to_skip_deletion).
LastReaderDeletes ==
    Dealt /\ LongIntervals => \A r \in 0 .. WorldSize(layout) - 1 : \A c \in DOMAIN Disabled(r) :
        LET plans == NodePlans(r)
            readers == {w \in DOMAIN plans : Parts(plans, w, c) > 0}
            free == readers \ Disabled(r)[c]
        IN  /\ Cardinality(free) = 1
            /\ \A w \in free : \A v \in readers :
                  v \div layout.workers = w \div layout.workers =>
                      AskedAt(plans, w \div layout.workers, v, c)
                          <= AskedAt(plans, w \div layout.workers, w, c)
=============================================================================
