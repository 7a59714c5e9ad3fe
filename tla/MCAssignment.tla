---------------------------- MODULE MCAssignment ----------------------------
(* Instances of Assignment and StreamedSubset for TLC. *)
EXTENDS StreamedSubset

CONSTANTS MaxSize   \* the samples of the largest chunk

\* Two or three chunks; an empty one as TokensLoader makes of a chunk that is
\* shorter than a block.
SmallDatasets == [1 .. 2 -> 0 .. MaxSize] \union [1 .. 3 -> 1 .. MaxSize]

SmallLayouts ==
    {l \in [nodes : {1, 2}, ranksPerNode : {1, 2}, workers : {1, 2}, batch : {1, 2, 3},
            dropLast : BOOLEAN] :
        l.nodes * l.ranksPerNode * l.workers <= 4}

\* All of a dataset.
All(d) == [index |-> d, share |-> Grain, shuffled |-> FALSE, shares |-> << >>, mixed |-> FALSE]

\* All of every dataset; parts, copies and splits of some.
SmallRequests ==
    {All(d) : d \in SmallDatasets}
    \union
    {[All(<<3, 2>>) EXCEPT !.share = 2, !.shuffled = TRUE],
     [All(<<2, 0, 3>>) EXCEPT !.share = 3],
     [All(<<3, 1>>) EXCEPT !.share = 6],
     [All(<<4>>) EXCEPT !.share = 9, !.shuffled = TRUE],
     [All(<<3, 2>>) EXCEPT !.shares = <<2, 1>>, !.mixed = TRUE],
     [All(<<2, 4>>) EXCEPT !.shares = <<0, 3, 1>>],
     [All(<<4, 3, 3>>) EXCEPT !.share = 3, !.shares = <<2, 2>>],
     [All(<<2, 3>>) EXCEPT !.share = 3, !.shuffled = TRUE, !.shares = <<1, 3>>]}
=============================================================================
