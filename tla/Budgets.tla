------------------------------ MODULE Budgets ------------------------------
(***************************************************************************)
(* How many samples of an epoch each loader worker gets: the first half of  *)
(* _associate_chunks_and_intervals_to_workers (utilities/shuffle.py).  A    *)
(* layout is a record of the nodes of a job, its ranks per node, the loader *)
(* workers of a rank, the batch size and drop_last.                         *)
(***************************************************************************)
EXTENDS Naturals

WorldSize(l) == l.nodes * l.ranksPerNode
GlobalNumWorkers(l) == WorldSize(l) * l.workers
WorkerIds(l) == 0 .. GlobalNumWorkers(l) - 1
RankOf(l, w) == w \div l.workers
NodeOf(l, w) == RankOf(l, w) \div l.ranksPerNode

\* Wrong: what is left over goes to a worker even with drop_last.
ShareKeepingRest(l, n, w) ==
    LET batchesOfRank == (n \div l.batch) \div WorldSize(l)
        extra == batchesOfRank % l.workers
        left == n - l.batch * WorldSize(l) * batchesOfRank
        me == w % l.workers
    IN  l.batch * (batchesOfRank \div l.workers + (IF me < extra THEN 1 ELSE 0))
        + (IF RankOf(l, w) = WorldSize(l) - 1 /\ me = extra THEN left ELSE 0)

\* Wrong: the last workers of a rank get the batches that do not divide evenly.
ShareLastFirst(l, n, w) ==
    LET batchesOfRank == (n \div l.batch) \div WorldSize(l)
        extra == batchesOfRank % l.workers
        left == n - l.batch * WorldSize(l) * batchesOfRank
        me == w % l.workers
    IN  l.batch * (batchesOfRank \div l.workers + (IF me >= l.workers - extra THEN 1 ELSE 0))
        + (IF ~l.dropLast /\ RankOf(l, w) = WorldSize(l) - 1 /\ me = extra THEN left ELSE 0)

\* The budget of a worker: its share of the whole batches of its rank, the
\* first workers one batch more.  Unless drop_last, one worker of the last rank
\* also gets everything that is left over.
Share(l, n, w) ==
    LET batchesOfRank == (n \div l.batch) \div WorldSize(l)
        extra == batchesOfRank % l.workers
        left == n - l.batch * WorldSize(l) * batchesOfRank
        me == w % l.workers
    IN  l.batch * (batchesOfRank \div l.workers + (IF me < extra THEN 1 ELSE 0))
        + (IF ~l.dropLast /\ RankOf(l, w) = WorldSize(l) - 1 /\ me = extra THEN left ELSE 0)

Shares(l, n) == [w \in WorkerIds(l) |-> Share(l, n, w)]
=============================================================================
