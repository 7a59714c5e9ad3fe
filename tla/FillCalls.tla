----------------------------- MODULE FillCalls -----------------------------
(***************************************************************************)
(* The calls of CacheDataLoader, and the jobs of CacheFilling they lead to  *)
(* (streaming/dataloader.py).  A call is                                    *)
(*   sampler, iterable   whether a sampler of the user, or an iterable       *)
(*                       dataset, is passed                                 *)
(*   own                 the caches the dataset has as attributes: their     *)
(*                       limits, as records of size and bytes               *)
(*   dir                 whether there is a cache_dir                        *)
(*   chunkBytes, batchSize, workers                                         *)
(* with 0 for None, and job: what it does not decide.                        *)
(***************************************************************************)
EXTENDS Integers, Sequences

\* CacheDataset gives the cache it makes the batch size as chunk_size.
Limits(c) == IF c.own = << >> THEN [size |-> c.batchSize, bytes |-> c.chunkBytes] ELSE c.own[1]

\* BinaryWriter wants one of chunk_size and chunk_bytes.
WriterRefused(l) == l.size = 0 <=> l.bytes = 0

LoaderRefused(c) ==
    \/ c.sampler \/ c.iterable
    \/ Len(c.own) > 1
    \/ c.own = << >> /\ ~c.dir
    \/ WriterRefused(Limits(c))

\* CacheDataset loads items twice; two coroutines are never the same.
Unsteady(c) ==
    IF c.own # << >> THEN {} ELSE IF c.job.async THEN 0 .. c.job.items - 1 ELSE c.job.unsteady

\* The process itself writes the cache if there are no workers.  What it leaves when its
\* loop ends early is not modelled.
EndsEarly(c) == c.job.leaves \/ c.job.async \/ Unsteady(c) # {}

JobsOf(c) ==
    LET l == Limits(c)
    IN  IF LoaderRefused(c) \/ (c.workers = 0 /\ EndsEarly(c)) THEN {}
        ELSE {[items |-> c.job.items, ranks |-> c.job.ranks,
               workers |-> IF c.workers = 0 THEN 1 ELSE c.workers,
               batch |-> IF c.batchSize = 0 THEN 1 ELSE c.batchSize,
               size |-> c.job.size, limit |-> IF l.bytes = 0 THEN l.size ELSE l.bytes,
               bytes |-> l.bytes # 0, async |-> c.job.async,
               slow |-> c.job.slow /\ c.workers > 0,
               unsteady |-> Unsteady(c),
               leaves |-> c.job.leaves, again |-> c.job.again, seeded |-> c.job.seeded]}
=============================================================================
