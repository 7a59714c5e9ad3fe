---------------------------- MODULE SkipDeletion ----------------------------
(***************************************************************************)
(* Which workers of a node must leave a chunk alone because another one     *)
(* reads it later (_find_chunks_per_workers_on_which_to_skip_deletion in    *)
(* utilities/shuffle.py).  The code replays, rank by rank, how a loader     *)
(* takes batches from its workers in turn until the chunk is read.          *)
(*                                                                         *)
(* plan[w] is what worker w of the node reads: intervals of chunks.         *)
(* Workers are numbered from zero, those of a rank one after the other.     *)
(***************************************************************************)
EXTENDS Integers, Sequences, FiniteSets, FiniteSetsExt, SequencesExt

Size(interval) == interval.last - interval.first

\* How often worker w has the chunk.
Parts(plan, w, c) == Len(SelectSeq(plan[w], LAMBDA i : i.chunk = c))

\* _get_shared_chunks: the chunks that are listed more than once.
SharedChunks(plan) ==
    {c \in UNION {{plan[w][i].chunk : i \in DOMAIN plan[w]} : w \in DOMAIN plan} :
        FoldSet(LAMBDA w, sum : Parts(plan, w, c) + sum, 0, DOMAIN plan) > 1}

\* _aggregate_shared_chunks_per_rank
WorkersOfRank(workers, r) == r * workers .. (r + 1) * workers - 1
RanksWith(plan, workers, c) ==
    {w \div workers : w \in {v \in DOMAIN plan : Parts(plan, v, c) > 0}}

\* One turn of the replay for chunk c.  turn: the worker asked next; carry: what
\* the batch begun lacks, 0 for none; counter: the samples taken; open: the parts
\* of the chunk that are not read yet; queue: what each worker of the rank has left.
Turn(st, workers, batch, c) ==
    LET busy == {w \in DOMAIN st.queue : st.queue[w] # << >>}
        batches == IF st.carry > 0 THEN 0
                   ELSE Max({0, Min({st.queue[w][1].size : w \in busy}) \div batch - 1})
        queue == [w \in DOMAIN st.queue |->
                     IF w \in busy THEN [st.queue[w] EXCEPT ![1].size = @ - batches * batch]
                     ELSE << >>]
        turn == st.turn + batches * Cardinality(busy)
        counter == st.counter + batches * batch * Cardinality(busy)
        w == turn % workers
        take == IF st.carry > 0 THEN st.carry ELSE batch
        size == queue[w][1].size
        open == IF queue[w][1].chunk = c THEN st.open - 1 ELSE st.open
        carry == IF take = batch /\ size < batch THEN batch - size ELSE 0
    IN  IF queue[w] = << >>
        THEN [st EXCEPT !.turn = turn + 1, !.queue = queue, !.counter = counter]
        ELSE IF size > take
        THEN [st EXCEPT !.turn = turn + 1, !.carry = 0, !.counter = counter + take,
                        !.queue = [queue EXCEPT ![w][1].size = @ - take]]
        ELSE [st EXCEPT !.turn = IF open = 0 \/ carry > 0 THEN turn ELSE turn + 1,
                        !.carry = carry, !.counter = counter + take, !.open = open,
                        !.queue = [queue EXCEPT ![w] = Tail(@)]]

\* The turns until chunk c is read on rank r.  After at most two turns of every
\* worker an interval is used up.
Replay(plan, workers, batch, r, c) ==
    LET me(w) == r * workers + w
        start == [turn |-> 0, carry |-> 0, counter |-> 0,
                  open |-> FoldSet(LAMBDA w, sum : Parts(plan, me(w), c) + sum, 0, 0 .. workers - 1),
                  queue |-> [w \in 0 .. workers - 1 |->
                                [i \in DOMAIN plan[me(w)] |->
                                    [chunk |-> plan[me(w)][i].chunk, size |-> Size(plan[me(w)][i])]]]]
        intervals == FoldSet(LAMBDA w, sum : Len(plan[me(w)]) + sum, 0, 0 .. workers - 1)
    IN  FoldLeft(LAMBDA st, n : IF st.open = 0 THEN st ELSE Turn(st, workers, batch, c),
                 start, [n \in 1 .. 3 * workers * (intervals + 1) |-> n])

\* Wrong: the replay is taken to end one turn later.
LastReaderAfter(plan, workers, batch, c) ==
    LET end == [r \in RanksWith(plan, workers, c) |-> Replay(plan, workers, batch, r, c)]
        most == Max({end[r].counter : r \in DOMAIN end})
        rank == Min({r \in DOMAIN end : end[r].counter = most})
    IN  rank * workers + ((end[rank].turn + 1) % workers)

\* The worker that is taken to read chunk c last: of the rank with most samples read
\* by then.
LastReader(plan, workers, batch, c) ==
    LET end == [r \in RanksWith(plan, workers, c) |-> Replay(plan, workers, batch, r, c)]
        most == Max({end[r].counter : r \in DOMAIN end})
        rank == Min({r \in DOMAIN end : end[r].counter = most})
    IN  rank * workers + (end[rank].turn % workers)

\* The workers that must not delete a chunk.
ToDisable(plan, workers, batch) ==
    [c \in SharedChunks(plan) |->
        {w \in DOMAIN plan : Parts(plan, w, c) > 0} \ {LastReader(plan, workers, batch, c)}]

\* _map_node_worker_rank_to_chunk_indexes_to_not_delete
NotToDelete(disable, w) == {c \in DOMAIN disable : w \in disable[c]}
=============================================================================
