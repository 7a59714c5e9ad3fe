------------------------- MODULE MCResumableLoader -------------------------
(* Instances of ResumableLoader for TLC. *)
EXTENDS ResumableLoader, Budgets, TLC

CONSTANTS MaxItems   \* the samples of the largest job

\* The ways to cut n samples into at most two intervals.
Cuts(n) == IF n = 0 THEN {<< >>} ELSE {<<n>>} \union {<<a, n - a>> : a \in 1 .. n - 1}

Plans(layout, n) ==
    LET rank == layout.ranksPerNode - 1
        items == [w \in 0 .. layout.workers - 1 |-> Share(layout, n, rank * layout.workers + w)]
        cuts == UNION {Cuts(items[w]) : w \in DOMAIN items}
    IN  {p \in [DOMAIN items -> cuts] : \A w \in DOMAIN p : p[w] \in Cuts(items[w])}

Plain == [shuffle |-> TRUE, seed |-> 0, batch |-> 1, data |-> 1, force |-> FALSE]

\* The last rank of one or two, which gets the left-over samples, with one to three
\* workers: every worker has its share of the samples, cut anyhow.
SmallJobs ==
    UNION {LET layout == [nodes |-> 1, ranksPerNode |-> r, workers |-> m, batch |-> b,
                          dropLast |-> FALSE]
           IN  {[made |-> [Plain EXCEPT !.batch = b], others |-> {}, plan |-> p] : p \in Plans(layout, n * r + r - 1)} :
           <<r, n, m, b>> \in (1 .. 2) \X (1 .. MaxItems) \X (1 .. 3) \X (1 .. 2)}

\* The settings are changed before the epoch is resumed.
ChangedJobs ==
    {[made |-> Plain, plan |-> (0 :> <<2, 2>> @@ 1 :> <<3>>),
      others |-> {[Plain EXCEPT !.seed = 1], [Plain EXCEPT !.shuffle = FALSE],
                  [Plain EXCEPT !.data = 2]}],
     [made |-> [Plain EXCEPT !.batch = 2], plan |-> (0 :> <<2, 2>> @@ 1 :> <<3>>),
      others |-> {[Plain EXCEPT !.batch = 2, !.seed = 1, !.force = TRUE],
                  [Plain EXCEPT !.batch = 2, !.shuffle = FALSE, !.force = TRUE]}],
     [made |-> [Plain EXCEPT !.batch = 2], plan |-> (0 :> <<2, 3>>),
      others |-> {Plain, [Plain EXCEPT !.batch = 3]}]}

ResumeJobs == SmallJobs \union ChangedJobs
=============================================================================
