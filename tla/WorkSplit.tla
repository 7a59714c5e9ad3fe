----------------------------- MODULE WorkSplit -----------------------------
(***************************************************************************)
(* How the data processor shares its items among the workers of all nodes  *)
(* (processing/data_processor.py with utilities/packing.py).  Items are     *)
(* the positions 1 .. n of the list the user gave.                          *)
(***************************************************************************)
EXTENDS Integers, Sequences, FiniteSets, FiniteSetsExt, SequencesExt

\* Wrong: the last worker starts one item late.
FirstItemLate(n, size, world, w) ==
    LET base == n \div world  rem == n % world
    IN  w * base + (IF w > world - rem THEN w - (world - rem) ELSE 0)
        + (IF w = world - 1 /\ w > 0 THEN 1 ELSE 0)

\* Wrong: the chunk size is ignored.
FirstItemEven(n, size, world, w) ==
    LET base == n \div world  rem == n % world
    IN  w * base + (IF w > world - rem THEN w - (world - rem) ELSE 0)

\* num_items_cumsum_per_worker: how many items the workers before w have.  With
\* a chunk size every worker but the last has the same number of full chunks;
\* without one the last workers take the remainder, one item each.
FirstItem(n, size, world, w) ==
    IF size > 0
    THEN w * (((n \div size) \div world) * size)
    ELSE LET base == n \div world  rem == n % world
         IN  w * base + (IF w > world - rem THEN w - (world - rem) ELSE 0)

\* _map_items_to_workers_sequentially (size = 0: no align_chunking).
Sequentially(n, size, world) ==
    [w \in 0 .. world - 1 |->
        LET from == FirstItem(n, size, world, w)
            to == IF w = world - 1 THEN n ELSE FirstItem(n, size, world, w + 1)
        IN  [i \in 1 .. to - from |-> from + i]]

\* sorted(..., reverse=True), which keeps the order of equal weights.
ByWeight(weights) ==
    SortSeq([i \in DOMAIN weights |-> i],
            LAMBDA i, j : weights[i] > weights[j] \/ (weights[i] = weights[j] /\ i < j))

Load(weights, list) == FoldSeq(LAMBDA i, sum : weights[i] + sum, 0, list)

\* The first of the bins with the least weight in them.
Lightest(bins, weights) ==
    LET load == [b \in DOMAIN bins |-> Load(weights, bins[b])]
        least == Min({load[b] : b \in DOMAIN bins})
    IN  Min({b \in DOMAIN bins : load[b] = least})

\* _pack_greedily: the heaviest item that is left goes to the lightest bin.
Pack(weights, world) ==
    FoldLeft(LAMBDA bins, i : [bins EXCEPT ![Lightest(bins, weights)] = Append(@, i)],
             [w \in 0 .. world - 1 |-> << >>], ByWeight(weights))

\* _map_items_to_workers_weighted: each bin is shuffled before it is handed out.
Weighted(weights, world) ==
    LET bins == Pack(weights, world)
    IN  {lists \in [0 .. world - 1 -> UNION {SetToSeqs(ToSet(bins[w])) : w \in DOMAIN bins}] :
            \A w \in DOMAIN bins : ToSet(lists[w]) = ToSet(bins[w])}
=============================================================================
