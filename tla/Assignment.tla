----------------------------- MODULE Assignment -----------------------------
(***************************************************************************)
(* Who reads what in an epoch: the walk that deals the chunks of a dataset *)
(* out to the loader workers of all ranks                                  *)
(* (_associate_chunks_and_intervals_to_workers) and, from the second epoch *)
(* of several nodes on, the shuffle within each node and the second walk   *)
(* (streaming/shuffle.py, FullShuffle).                                    *)
(*                                                                         *)
(* A pass lists the chunks, in any order a shuffle may give them, counts    *)
(* their samples, and then walks over the list: it cuts the chunks where a  *)
(* worker's budget is spent, so that a chunk may end up split between       *)
(* workers, ranks and nodes.  One step of the walk is one turn of its inner *)
(* loop.  Chunks are numbered from one, workers (of all ranks) from zero.   *)
(***************************************************************************)
EXTENDS Naturals, Sequences, Functions, Budgets

CONSTANTS
    Datasets,   \* the datasets: sequences of chunk sizes, in samples to read
    Layouts     \* the shapes of a job, see LayoutAssumption

ASSUME DatasetAssumption == \A d \in Datasets : d \in Seq(Nat)

ASSUME LayoutAssumption ==
    Layouts \subseteq [nodes : Nat \ {0}, ranksPerNode : Nat \ {0}, workers : Nat \ {0},
                       batch : Nat \ {0}, dropLast : BOOLEAN]

VARIABLES
    sizes,    \* sizes[c]: the samples of chunk c in the region of interest
    layout,   \* the job: nodes, ranks, workers per rank, batch size, drop_last
    pass,     \* "first", or "again" after a shuffle within the nodes
    stage,    \* "list" the chunks, then "walk" over them
    unlisted, \* the chunks that wait to be listed, each with the node it is for
    order,    \* indexes: the list
    items,    \* num_items: the samples of the list
    at,       \* where the walk is in the list
    from,     \* the first sample of the current chunk nobody has yet
    rank,     \* the worker the inner loop looks at
    budget,   \* num_items_per_workers: what each worker may still take
    plan      \* plan[w]: the intervals of worker w, in order

job == <<sizes, layout>>
list == <<pass, stage, unlisted, order, items>>
vars == <<job, list, at, from, rank, budget, plan>>

-----------------------------------------------------------------------------
NoPlan(l) == [w \in WorkerIds(l) |-> << >>]

-----------------------------------------------------------------------------
(* The list. *)

\* The next chunk of the list.  In the first pass this is any chunk (a random
\* permutation, or the chunks as they are); after a shuffle within the nodes any
\* chunk of the first node that has one left.
List ==
    /\ stage = "list"
    /\ \E e \in unlisted :
          /\ \A f \in unlisted : e.node <= f.node
          /\ unlisted' = unlisted \ {e}
          /\ order' = Append(order, e.chunk)
          /\ items' = items + sizes[e.chunk]
    /\ UNCHANGED <<job, pass, stage, at, from, rank, budget, plan>>

\* The samples are counted: fix the budgets and start the walk.
Deal ==
    /\ stage = "list"
    /\ unlisted = {}
    /\ stage' = "walk"
    /\ budget' = Shares(layout, items)
    /\ UNCHANGED <<job, pass, unlisted, order, items, at, from, rank, plan>>

-----------------------------------------------------------------------------
(* The walk. *)

Walking == stage = "walk" /\ at <= Len(order)
Dealt == stage = "walk" /\ at > Len(order)

\* What is left of the current chunk.
Rest == sizes[order[at]] - from

Give(w, first, last) ==
    plan' = [plan EXCEPT ![w] = Append(@, [chunk |-> order[at], first |-> first, last |-> last])]

ToNextChunk == at' = at + 1 /\ from' = 0 /\ rank' = 0

\* A worker whose budget is spent is passed over.
PassOver ==
    /\ Walking
    /\ rank < GlobalNumWorkers(layout)
    /\ budget[rank] = 0
    /\ rank' = rank + 1
    /\ UNCHANGED <<job, list, at, from, budget, plan>>

\* A chunk without samples is given to nobody.
SkipEmpty ==
    /\ Walking
    /\ rank < GlobalNumWorkers(layout)
    /\ budget[rank] > 0
    /\ Rest = 0
    /\ ToNextChunk
    /\ UNCHANGED <<job, list, budget, plan>>

\* Wrong: the rest of a chunk that was split starts at its beginning again.
SplitFromStart ==
    /\ Walking
    /\ rank < GlobalNumWorkers(layout)
    /\ budget[rank] > 0
    /\ Rest > budget[rank]
    /\ Give(rank, from, from + budget[rank])
    /\ from' = 0
    /\ budget' = [budget EXCEPT ![rank] = 0]
    /\ rank' = rank + 1
    /\ UNCHANGED <<job, list, at>>

\* The chunk is larger than the budget: the worker gets its beginning, and the
\* loop goes on with the rest.
Split ==
    /\ Walking
    /\ rank < GlobalNumWorkers(layout)
    /\ budget[rank] > 0
    /\ Rest > budget[rank]
    /\ Give(rank, from, from + budget[rank])
    /\ from' = from + budget[rank]
    /\ budget' = [budget EXCEPT ![rank] = 0]
    /\ rank' = rank + 1
    /\ UNCHANGED <<job, list, at>>

\* Wrong: a chunk without samples is not passed by.
TakeWholeEmpty ==
    /\ Walking
    /\ rank < GlobalNumWorkers(layout)
    /\ budget[rank] > 0
    /\ Rest <= budget[rank]
    /\ Give(rank, from, sizes[order[at]])
    /\ budget' = [budget EXCEPT ![rank] = @ - Rest]
    /\ ToNextChunk
    /\ UNCHANGED <<job, list>>

\* The worker gets all that is left of the chunk.
TakeWhole ==
    /\ Walking
    /\ rank < GlobalNumWorkers(layout)
    /\ budget[rank] > 0
    /\ Rest > 0 /\ Rest <= budget[rank]
    /\ Give(rank, from, sizes[order[at]])
    /\ budget' = [budget EXCEPT ![rank] = @ - Rest]
    /\ ToNextChunk
    /\ UNCHANGED <<job, list>>

\* Every budget is spent: what is left of the chunk is dropped.
Drop ==
    /\ Walking
    /\ rank = GlobalNumWorkers(layout)
    /\ ToNextChunk
    /\ UNCHANGED <<job, list, budget, plan>>

-----------------------------------------------------------------------------
(* The shuffle within the nodes. *)

\* A later epoch of several nodes: the chunks of every worker are listed anew,
\* node by node.  A chunk that two workers share is listed twice.
Reshuffle ==
    /\ Dealt
    /\ pass = "first"
    /\ layout.nodes > 1
    /\ pass' = "again"
    /\ stage' = "list"
    /\ unlisted' = UNION {{[node |-> NodeOf(layout, w), worker |-> w, place |-> i,
                            chunk |-> plan[w][i].chunk] : i \in DOMAIN plan[w]} :
                          w \in WorkerIds(layout)}
    /\ order' = << >> /\ items' = 0
    /\ at' = 1 /\ from' = 0 /\ rank' = 0
    /\ plan' = NoPlan(layout)
    /\ UNCHANGED <<job, budget>>

Settled == Dealt /\ UNCHANGED vars

-----------------------------------------------------------------------------
\* The start of an epoch, for given sizes.
Begin ==
    /\ layout \in Layouts
    /\ pass = "first"
    /\ stage = "list"
    /\ unlisted = {[node |-> 0, worker |-> 0, place |-> c, chunk |-> c] : c \in DOMAIN sizes}
    /\ order = << >> /\ items = 0
    /\ at = 1 /\ from = 0 /\ rank = 0
    /\ budget = [w \in WorkerIds(layout) |-> 0]
    /\ plan = NoPlan(layout)

Init == sizes \in Datasets /\ Begin

Walk == PassOver \/ SkipEmpty \/ Split \/ TakeWhole \/ Drop

Next == List \/ Deal \/ Walk \/ Reshuffle \/ Settled

Spec == Init /\ [][Next]_vars

-----------------------------------------------------------------------------
(* Properties. *)

Entries == [node : Nat, worker : Nat, place : Nat, chunk : DOMAIN sizes]
Intervals == [chunk : DOMAIN sizes, first : Nat, last : Nat]

\* Budgets, cursors and intervals stay in range, and an interval is a non-empty
\* part of its chunk.
TypeOK ==
    /\ sizes \in Seq(Nat) /\ layout \in Layouts
    /\ pass \in {"first", "again"} /\ stage \in {"list", "walk"}
    /\ unlisted \subseteq Entries
    /\ order \in Seq(DOMAIN sizes) /\ items \in Nat
    /\ at \in 1 .. Len(order) + 1 /\ from \in Nat
    /\ Walking => from <= sizes[order[at]]
    /\ rank \in 0 .. GlobalNumWorkers(layout)
    /\ budget \in [WorkerIds(layout) -> Nat]
    /\ plan \in [WorkerIds(layout) -> Seq(Intervals)]
    /\ \A w \in WorkerIds(layout) : \A i \in DOMAIN plan[w] :
          plan[w][i].first < plan[w][i].last /\ plan[w][i].last <= sizes[plan[w][i].chunk]

ListedOnce(c) == \A i, j \in DOMAIN order : order[i] = c /\ order[j] = c => i = j

Overlap(a, b) == a.chunk = b.chunk /\ a.first < b.last /\ b.first < a.last

\* No sample goes to two workers, or to one worker twice, unless the walk was
\* given its chunk twice.  In the first epoch and on a single node it never is;
\* in a later epoch of several nodes it is, when the first walk split it.
NothingTwice == \A v, w \in WorkerIds(layout) :
    \A i \in DOMAIN plan[v], j \in DOMAIN plan[w] :
        Overlap(plan[v][i], plan[w][j]) /\ ListedOnce(plan[v][i].chunk) => v = w /\ i = j

Given(w) == SumFunction([i \in DOMAIN plan[w] |-> plan[w][i].last - plan[w][i].first])
GivenTo(ws) == SumFunction([w \in ws |-> Given(w)])
RankWorkers(r) == {w \in WorkerIds(layout) : RankOf(layout, w) = r}

\* Every sample of the walk is given to some worker; with drop_last every rank gets the
\* same number, every worker whole batches, and fewer samples are lost than one batch for
\* every rank ("ensure all the processes receive the same number of items").
RanksAgree ==
    Dealt =>
        LET lost == items - GivenTo(WorkerIds(layout))
        IN  IF ~layout.dropLast THEN lost = 0
            ELSE /\ lost < layout.batch * WorldSize(layout)
                 /\ \A q, r \in 0 .. WorldSize(layout) - 1 :
                       GivenTo(RankWorkers(q)) = GivenTo(RankWorkers(r))
                 /\ \A w \in WorkerIds(layout) : Given(w) % layout.batch = 0

\* Batches line up for the loader: when it takes a batch of each worker in
\* turn, no worker has more batches than the worker before it, but for the one
\* that got the left-over samples of the last rank.
WorkersInStep ==
    Dealt => \A v, w \in WorkerIds(layout) :
        /\ RankOf(layout, v) = RankOf(layout, w) /\ v < w
        /\ layout.dropLast \/ RankOf(layout, w) # WorldSize(layout) - 1
        => Given(w) <= Given(v) /\ Given(v) <= Given(w) + layout.batch
=============================================================================
