------------------------------ MODULE Subsets ------------------------------
(***************************************************************************)
(* Which part of a dataset is read: the subsample a StreamingDataset takes  *)
(* of its chunks (utilities/dataset_utilities.py, subsample.py), how        *)
(* train_test_split divides it further, and the intervals ChunksConfig and  *)
(* the item loader make of it (streaming/config.py, item_loader.py).        *)
(*                                                                         *)
(* An index is the sequence of the sizes of its chunks, in items (in blocks *)
(* for the TokensLoader).  A subset names chunks by their place in the      *)
(* index, a chunk possibly more than once, and what to read of each:        *)
(* [files |-> << chunk, ... >>, roi |-> << <<from, to>>, ... >>].           *)
(***************************************************************************)
EXTENDS Integers, Sequences, FiniteSets, FiniteSetsExt, SequencesExt, Functions

\* Shares of a dataset are counted in quarters, which floats hold exactly.
Grain == 4

\* int(n * share)
ShareOf(n, share) == (n * share) \div Grain

\* The samples of each region, and of the first k of them (np.cumsum).
RegionSizes(roi) == [k \in DOMAIN roi |-> roi[k][2] - roi[k][1]]
CumSum(roi, k) == SumFunctionOnSet(RegionSizes(roi), 1 .. k)
ItemsIn(roi) == CumSum(roi, Len(roi))

Nothing == [files |-> << >>, roi |-> << >>]

\* generate_roi: every chunk in full.
Whole(index) == [files |-> [c \in DOMAIN index |-> c],
                 roi |-> [c \in DOMAIN index |-> <<0, index[c]>>]]

\* shuffle_lists_together: both lists in the same, arbitrary order.
ShuffledTogether(s) ==
    {[files |-> [k \in DOMAIN p |-> s.files[p[k]]], roi |-> [k \in DOMAIN p |-> s.roi[p[k]]]] :
        p \in SetToSeqs(DOMAIN s.files)}

Orders(s, shuffle) == IF shuffle THEN ShuffledTogether(s) ELSE {s}

\* Where a subset is cut to take count items of it: the chunk in which the count is
\* reached, the place in that chunk, and the first chunk of what is left.
Match(s, count) == Min({k \in DOMAIN s.roi : CumSum(s.roi, k) >= count})
Cut(s, count) == s.roi[Match(s, count)][2] - (CumSum(s.roi, Match(s, count)) - count)
Exact(s, count) == CumSum(s.roi, Match(s, count)) = count
NextChunk(s, count) == IF Exact(s, count) THEN Match(s, count) + 1 ELSE Match(s, count)

\* subsample_filenames_and_roi: the first count items.
TakeFirst(s, count) ==
    IF count = 0 THEN Nothing
    ELSE [files |-> SubSeq(s.files, 1, Match(s, count)),
          roi |-> [k \in 1 .. Match(s, count) |->
                      IF k = Match(s, count) THEN <<s.roi[k][1], Cut(s, count)>> ELSE s.roi[k]]]

\* Wrong: what is left keeps all of the chunk that was cut.
LeaveAll(s, count) ==
    IF count = 0 THEN s
    ELSE [files |-> SubSeq(s.files, NextChunk(s, count), Len(s.files)),
          roi |-> SubSeq(s.roi, NextChunk(s, count), Len(s.roi))]

\* subsample_filenames_and_roi: what is left after them; the chunk that was cut is
\* read on from there.
LeaveFirst(s, count) ==
    IF count = 0 THEN s
    ELSE [files |-> SubSeq(s.files, NextChunk(s, count), Len(s.files)),
          roi |-> [k \in 1 .. Len(s.roi) - NextChunk(s, count) + 1 |->
                      IF k = 1 /\ ~Exact(s, count) THEN <<Cut(s, count), s.roi[Match(s, count)][2]>>
                      ELSE s.roi[NextChunk(s, count) + k - 1]]]

\* Place k of the first full copies of n chunks each.
InCopy(k, n) == [copy |-> (k - 1) \div n + 1, chunk |-> ((k - 1) % n) + 1]

\* So many of the orders in full, one after the other, then count items of the next.
Joined(orders, n, copies, count) ==
    LET at(k) == InCopy(k, n)
        part == TakeFirst(orders[copies + 1], count)
    IN  [files |-> [k \in 1 .. n * copies |-> orders[at(k).copy].files[at(k).chunk]] \o part.files,
         roi |-> [k \in 1 .. n * copies |-> orders[at(k).copy].roi[at(k).chunk]] \o part.roi]

\* subsample_streaming_dataset: the subsets a share may give.  A share of one is
\* the index as it is; of a larger one every full copy is ordered anew.
Subsample(index, share, shuffle) ==
    IF share = Grain THEN {Whole(index)}
    ELSE LET copies == share \div Grain
             count == ShareOf(ItemsIn(Whole(index).roi), share % Grain)
         IN  {Joined(orders, Len(index), copies, count) :
                 orders \in [1 .. copies + 1 -> Orders(Whole(index), shuffle)]}

\* The chunks of a subset as the index lists them.
InIndexOrder(chunks) ==
    [k \in 1 .. Cardinality(chunks) |->
        CHOOSE c \in chunks : Cardinality({d \in chunks : d <= c}) = k]

\* What is left of s when the first counts are taken, one after the other.
Leftovers(s, counts) ==
    LET left[n \in 0 .. Len(counts)] ==
            IF n = 0 THEN s ELSE LeaveFirst(left[n - 1], counts[n])
    IN  left

\* train_test_split: the splits a subset may be divided into; none where it raises.
\* The chunks are those of the subset but listed as the index lists them, while
\* the regions keep the order of the subset.
TrainTestSplit(subset, shares, shuffle) ==
    LET chunks == InIndexOrder(ToSet(subset.files))
        all == [files |-> chunks, roi |-> subset.roi]
        counts == [n \in DOMAIN shares |-> ShareOf(ItemsIn(subset.roi), shares[n])]
    IN  IF Len(chunks) # Len(subset.roi) THEN {}
        ELSE {[n \in DOMAIN shares |-> TakeFirst(Leftovers(s, counts)[n - 1], counts[n])] :
                 s \in Orders(all, shuffle)}

\* Wrong: a region of interest is taken as if it began with its chunk.
GenerateFromZero(index, subset) ==
    LET begin(k) == FoldSeq(LAMBDA c, sum : index[c] + sum, 0, SubSeq(subset.files, 1, k - 1))
    IN  [k \in DOMAIN subset.files |->
            [begin |-> begin(k), from |-> begin(k),
             to |-> begin(k) + subset.roi[k][2] - subset.roi[k][1],
             end |-> begin(k) + index[subset.files[k]]]]

\* generate_intervals, for the chunks in the order of the subset
\* (load_subsampled_chunks): where each chunk begins and ends when they are laid
\* out one after the other, and the region to read in between.
GenerateIntervals(index, subset) ==
    LET begin(k) == FoldSeq(LAMBDA c, sum : index[c] + sum, 0, SubSeq(subset.files, 1, k - 1))
    IN  [k \in DOMAIN subset.files |->
            [begin |-> begin(k), from |-> begin(k) + subset.roi[k][1],
             to |-> begin(k) + subset.roi[k][2], end |-> begin(k) + index[subset.files[k]]]]

\* An item: its chunk and its place in it, as the item loader is asked for it.
ItemAt(index, subset, k, i) == <<subset.files[k], i - GenerateIntervals(index, subset)[k].begin>>

\* ChunksConfig._get_chunk_index_from_index: the item a place of the whole subset
\* stands for.
Access(index, subset, place) ==
    LET before(k) == CumSum(subset.roi, k - 1)
        k == CHOOSE n \in DOMAIN subset.files :
                before(n) <= place /\ place < before(n + 1)
    IN  ItemAt(index, subset, k, GenerateIntervals(index, subset)[k].from + place - before(k))

\* The items of the regions of a subset.
ItemsOf(subset) ==
    UNION {{<<subset.files[k], i>> : i \in subset.roi[k][1] .. subset.roi[k][2] - 1} :
           k \in DOMAIN subset.files}
=============================================================================
