---------------------------- MODULE CacheFilling ----------------------------
(***************************************************************************)
(* The first epoch of a CacheDataLoader: the worker processes of all ranks  *)
(* read the dataset of the user and write it into chunks, and the indexes   *)
(* they leave are merged into one (streaming/sampler.py, writer.py, cache.py *)
(* and the cache classes of dataloader.py).                                 *)
(*                                                                         *)
(* The batch sampler gives every worker a range of consecutive indexes.  A  *)
(* worker adds the items of a batch in their order, or in any order if the  *)
(* dataset of the user is asynchronous.                                     *)
(*                                                                         *)
(* A job is one such epoch:                                                 *)
(*   items        the length of the dataset                                 *)
(*   ranks        how many training processes there are, each with          *)
(*   workers      that many worker processes                                *)
(*   batch        batch_size                                                *)
(*   size         size[i]: what item i counts in a chunk: 1 with chunk_size, *)
(*                its bytes with chunk_bytes                                *)
(*   limit        chunk_size or chunk_bytes                                 *)
(*   bytes        whether it is chunk_bytes                                 *)
(*   async        whether __getitem__ is asynchronous                       *)
(*   slow         whether a worker may take too long to end                 *)
(*   unsteady     the items that come out differently when they are loaded  *)
(*                twice, which the CacheDataset refuses until one came out    *)
(*                the same                                                  *)
(*   leaves       whether a rank may leave its loop early                   *)
(*   again        whether a second epoch is looked at, which reads the      *)
(*                chunks in an order every rank draws from its own          *)
(*                generator, and                                            *)
(*   seeded       whether these draw the same                               *)
(***************************************************************************)
EXTENDS IndexNames, Sequences, SequencesExt, Functions

CONSTANTS Jobs   \* the jobs to look at

ASSUME JobAssumption ==
    \A j \in Jobs : /\ j.items \in Nat /\ j.ranks \in Nat \ {0} /\ j.workers \in Nat \ {0}
                    /\ j.batch \in Nat \ {0} /\ j.limit \in Nat \ {0}
                    /\ \A i \in 0 .. j.items - 1 : j.size[i] \in Nat \ {0} /\ (~j.bytes => j.size[i] = 1)
                    /\ j.unsteady \subseteq 0 .. j.items - 1

VARIABLES
    job,       \* the job
    left,      \* the indexes each worker has not added yet
    items,     \* _serialized_items of each writer
    low,       \* _min_index of each writer; None
    high,      \* _max_index
    count,     \* _per_sample_num_items or _per_sample_num_bytes
    chunks,    \* the chunks each writer has written
    worker,    \* "adding", "indexing", "ended" or "killed"; "failed" by an assertion
    files,     \* the writers whose index file is there
    main,      \* "iterating", "merging", "writing", "ready", "reading", "dealt" or "failed"
    quit,      \* the ranks that left the first epoch before its end
    deal,      \* the order each rank has drawn the chunks in for its second epoch
    index,     \* the merged index
    published  \* "no", "half" while it is being written, or "yes"

writer == <<items, low, high, count, chunks>>
vars == <<job, left, writer, worker, files, main, quit, deal, index, published>>

None == -1

Ranks == 0 .. job.ranks - 1
Writers == 0 .. job.ranks * job.workers - 1
RankOf(w) == w \div job.workers

-----------------------------------------------------------------------------
(* The batch sampler. *)

\* Where the range of worker w ends: the last worker of a rank takes the rest of the
\* rank's indexes, the last rank the rest of all.
End(w) ==
    LET inRank == w % job.workers
        start == RankOf(w) * (job.items \div job.ranks)
    IN  IF inRank < job.workers - 1
        THEN start + (inRank + 1) * (job.items \div (job.ranks * job.workers))
        ELSE IF RankOf(w) = job.ranks - 1 THEN job.items
        ELSE start + (job.items \div job.ranks)

Start(w) ==
    RankOf(w) * (job.items \div job.ranks)
    + (w % job.workers) * (job.items \div (job.ranks * job.workers))

Share(w) == Start(w) .. End(w) - 1

\* A rank for which there is no batch fails when it looks at its last one.
NoBatches(r) == \A w \in Writers : RankOf(w) = r => Share(w) = {}

\* Rank r has got all its batches, or left before, and tells its workers to end.
Received(r) == r \in quit \/ \A w \in Writers : RankOf(w) = r => left[w] = {}

\* The sampler gives out the batches of the workers in turn, an empty one for a worker
\* that has none left, so that each worker gets those of its own range.
BatchOf(w, i) == (i - Start(w)) \div job.batch

\* The indexes worker w may add next: those left of its batch.
Due(w) ==
    LET first == Min(left[w])
    IN  IF job.async THEN {i \in left[w] : BatchOf(w, i) = BatchOf(w, first)} ELSE {first}

-----------------------------------------------------------------------------
(* A writer: BinaryWriter.add_item and done. *)

Filled(from, to, sum) == sum + SumFunctionOnSet(job.size, from .. to)

\* Wrong: the item that does not fit is written too.
ScanGreedy(have, first, from, sum) ==
    LET end == Min({i \in from .. job.items : i \notin have})
        over == {i \in from .. end - 1 : Filled(from, i, sum) > job.limit}
    IN  IF over = {} THEN [chunk |-> {}, low |-> first, high |-> end,
                           count |-> Filled(from, end - 1, sum)]
        ELSE [chunk |-> first .. Min(over), low |-> None, high |-> None, count |-> 0]

\* _should_write and _create_chunk: go on from the first index that was not counted
\* yet, over those that are there.  The first that does not fit ends the chunk, and
\* is in it only if it is alone.
Scan(have, first, from, sum) ==
    LET end == Min({i \in from .. job.items : i \notin have})
        over == {i \in from .. end - 1 : Filled(from, i, sum) > job.limit}
    IN  IF over = {} THEN [chunk |-> {}, low |-> first, high |-> end,
                           count |-> Filled(from, end - 1, sum)]
        ELSE [chunk |-> IF Min(over) = first THEN {first} ELSE first .. Min(over) - 1,
              low |-> None, high |-> None, count |-> 0]

\* The items of a chunk in their order; they follow one another.
Ordered(s) == [p \in 1 .. Cardinality(s) |-> Min(s) + p - 1]

\* add_item: an item below the chunk that is being collected starts it anew, an item
\* beyond its end waits.
AddItem(w, i) ==
    LET have == items[w] \union {i}
        first == IF low[w] = None THEN Min(have) ELSE i
        s == CASE low[w] = None \/ i < low[w] -> Scan(have, first, first, 0)
               [] i = high[w] -> Scan(have, low[w], high[w], count[w])
               [] OTHER -> [chunk |-> {}, low |-> low[w], high |-> high[w], count |-> count[w]]
    IN  /\ items' = [items EXCEPT ![w] = have \ s.chunk]
        /\ low' = [low EXCEPT ![w] = s.low]
        /\ high' = [high EXCEPT ![w] = s.high]
        /\ count' = [count EXCEPT ![w] = s.count]
        /\ chunks' = [chunks EXCEPT ![w] = IF s.chunk = {} THEN @ ELSE Append(@, Ordered(s.chunk))]

\* CacheDataset: until a worker has added an item, it loads each one twice and both
\* must be the same.
Refused(w, i) == items[w] = {} /\ chunks[w] = << >> /\ i \in job.unsteady

\* The batch is given up; the error reaches the rank and ends its loop.
AddRefused(w) ==
    /\ worker[w] = "adding"
    /\ left[w] # {}
    /\ \E i \in Due(w) :
         /\ Refused(w, i)
         /\ left' = [left EXCEPT ![w] = {n \in @ : BatchOf(w, n) # BatchOf(w, i)}]
    /\ quit' = quit \union {RankOf(w)}
    /\ UNCHANGED <<job, writer, worker, files, main, deal, index, published>>

\* A worker loads an item of its batch and adds it.
Add(w) ==
    /\ worker[w] = "adding"
    /\ left[w] # {}
    /\ \E i \in Due(w) :
         /\ ~Refused(w, i)
         /\ left' = [left EXCEPT ![w] = @ \ {i}]
         /\ AddItem(w, i)
    /\ UNCHANGED <<job, worker, files, main, quit, deal, index, published>>

\* What the assertions of _create_chunk want of the last chunk.
Sound(s) == /\ s = Min(s) .. Max(s)
            /\ job.bytes \/ Cardinality(s) <= job.limit

\* Wrong: a writer with nothing left leaves no index file.
DoneEarly(w) ==
    /\ worker[w] = "adding"
    /\ Received(RankOf(w))
    /\ items[w] # {} => Sound(items[w])
    /\ chunks' = [chunks EXCEPT ![w] = IF items[w] = {} THEN @ ELSE Append(@, Ordered(items[w]))]
    /\ items' = [items EXCEPT ![w] = {}]
    /\ IF items[w] = {}
       THEN worker' = [worker EXCEPT ![w] = "ended"] /\ UNCHANGED files
       ELSE worker' = [worker EXCEPT ![w] = "indexing"] /\ files' = files \union {w}
    /\ UNCHANGED <<job, left, low, high, count, main, quit, deal, index, published>>

\* done(): the items that are left make the last chunk, and the index file is opened;
\* without any chunk there is none.
Done(w) ==
    /\ worker[w] = "adding"
    /\ Received(RankOf(w))
    /\ items[w] # {} => Sound(items[w])
    /\ chunks' = [chunks EXCEPT ![w] = IF items[w] = {} THEN @ ELSE Append(@, Ordered(items[w]))]
    /\ items' = [items EXCEPT ![w] = {}]
    /\ IF chunks'[w] = << >>
       THEN worker' = [worker EXCEPT ![w] = "ended"] /\ UNCHANGED files
       ELSE worker' = [worker EXCEPT ![w] = "indexing"] /\ files' = files \union {w}
    /\ UNCHANGED <<job, left, low, high, count, main, quit, deal, index, published>>

\* An assertion fails: the worker dies without an index file.
DoneFails(w) ==
    /\ worker[w] = "adding"
    /\ Received(RankOf(w))
    /\ items[w] # {} /\ ~Sound(items[w])
    /\ worker' = [worker EXCEPT ![w] = "failed"]
    /\ UNCHANGED <<job, left, writer, files, main, quit, deal, index, published>>

\* The index file is written.
WriteIndex(w) ==
    /\ worker[w] = "indexing"
    /\ worker' = [worker EXCEPT ![w] = "ended"]
    /\ UNCHANGED <<job, left, writer, files, main, quit, deal, index, published>>

\* The loader waits some seconds for its workers and then kills them.
Kill(w) ==
    /\ job.slow
    /\ main[RankOf(w)] = "iterating"
    /\ worker[w] \in {"adding", "indexing"} /\ Received(RankOf(w))
    /\ worker' = [worker EXCEPT ![w] = "killed"]
    /\ UNCHANGED <<job, left, writer, files, main, quit, deal, index, published>>

\* The training loop is left early.
Leave(r) ==
    /\ job.leaves
    /\ main[r] = "iterating" /\ ~Received(r)
    /\ quit' = quit \union {r}
    /\ UNCHANGED <<job, left, writer, worker, files, main, deal, index, published>>

-----------------------------------------------------------------------------
(* The training processes: _shutdown_workers and BinaryWriter.merge. *)

To(r, state) == main' = [main EXCEPT ![r] = state]

\* The workers of the rank have ended.
Shutdown(r) ==
    /\ main[r] = "iterating"
    /\ \A w \in Writers : RankOf(w) = r => worker[w] \in {"ended", "killed", "failed"}
    /\ To(r, "merging")
    /\ UNCHANGED <<job, left, writer, worker, files, quit, deal, index, published>>

\* Rank 0 looks until there are as many index files as workers.
AllThere == Cardinality(files) = Cardinality(Writers)

\* The whole index: the files in the order of their names.
Merged == FlattenSeq([i \in 1 .. Cardinality(Writers) |->
                         IF ByName(Writers, i) \in files THEN chunks[ByName(Writers, i)] ELSE << >>])

\* It reads them and removes them, and opens the index file.  A file of another rank
\* that is only half written cannot be read.
Merge ==
    /\ main[0] = "merging"
    /\ AllThere
    /\ IF \E w \in files : worker[w] # "ended"
       THEN To(0, "failed") /\ UNCHANGED <<files, index, published>>
       ELSE /\ To(0, "writing")
            /\ files' = {}
            /\ index' = Merged
            /\ published' = "half"
    /\ UNCHANGED <<job, left, writer, worker, quit, deal>>

Publish ==
    /\ main[0] = "writing"
    /\ published' = "yes"
    /\ To(0, "ready")
    /\ UNCHANGED <<job, left, writer, worker, files, quit, deal, index>>

\* The other ranks wait until the index file is there.
SeeIndex(r) ==
    /\ r # 0 /\ main[r] = "merging"
    /\ published # "no"
    /\ To(r, "ready")
    /\ UNCHANGED <<job, left, writer, worker, files, quit, deal, index, published>>

\* The next epoch reads the index, which another rank may not have written yet.
ReadIndex(r) ==
    /\ main[r] = "ready"
    /\ To(r, IF published = "yes" THEN "reading" ELSE "failed")
    /\ UNCHANGED <<job, left, writer, worker, files, quit, deal, index, published>>

-----------------------------------------------------------------------------
(* The second epoch: the chunks are dealt out to the ranks, and to their workers. *)

Chunks == 1 .. Len(index)

\* Wrong: as if there were one rank.
DealtAlone(r, k) == {deal[r][p] : p \in {p \in Chunks : (p - 1) % job.workers = k}}

\* The chunks worker k of rank r reads.
Dealt(r, k) ==
    {deal[r][p] : p \in {p \in Chunks : /\ (p - 1) % job.ranks = r
                                      /\ ((p - 1) \div job.ranks) % job.workers = k}}

\* A rank draws its order; one without a chunk has no batch.
Deal(r) ==
    /\ job.again
    /\ main[r] = "reading"
    /\ \E order \in SetToSeqs(Chunks) :
         /\ job.seeded => \A q \in Ranks : deal[q] \in {<< >>, order}
         /\ deal' = [deal EXCEPT ![r] = order]
    /\ To(r, IF Len(index) > r THEN "dealt" ELSE "failed")
    /\ UNCHANGED <<job, left, writer, worker, files, quit, index, published>>

-----------------------------------------------------------------------------
Init ==
    /\ job \in Jobs
    /\ left = [w \in Writers |-> Share(w)]
    /\ items = [w \in Writers |-> {}]
    /\ low = [w \in Writers |-> None] /\ high = [w \in Writers |-> None]
    /\ count = [w \in Writers |-> 0]
    /\ chunks = [w \in Writers |-> << >>]
    /\ worker = [w \in Writers |-> IF NoBatches(RankOf(w)) THEN "failed" ELSE "adding"]
    /\ files = {}
    /\ main = [r \in Ranks |-> IF NoBatches(r) THEN "failed" ELSE "iterating"]
    /\ quit = {} /\ deal = [r \in Ranks |-> << >>]
    /\ index = << >> /\ published = "no"

WorkerStep(w) == Add(w) \/ AddRefused(w) \/ Done(w) \/ DoneFails(w) \/ WriteIndex(w)
MainStep(r) == Shutdown(r) \/ SeeIndex(r) \/ ReadIndex(r)

Next ==
    \/ Merge \/ Publish
    \/ \E w \in Writers : WorkerStep(w) \/ Kill(w)
    \/ \E r \in Ranks : MainStep(r) \/ Deal(r) \/ Leave(r)

Spec == Init /\ [][Next]_vars

\* Every process goes on; no worker has to be killed.
Ids == 0 .. Max({j.ranks * j.workers : j \in Jobs}) - 1
Fairness ==
    /\ WF_vars(Merge \/ Publish)
    /\ \A p \in Ids : /\ WF_vars(p \in Writers /\ WorkerStep(p))
                      /\ WF_vars(p \in Ranks /\ MainStep(p))
FairSpec == Spec /\ Fairness

-----------------------------------------------------------------------------
(* Properties. *)

\* A batch whose items come in any order has to fit into a chunk.
InOrder == ~job.async \/ \A w \in Writers : \A a \in Share(w) :
                             Filled(a, Min({a + job.batch, End(w)}) - 1, 0) <= job.limit

\* No item of a batch that comes in any order is too large for a chunk.
EachFits == job.async => \A i \in 0 .. job.items - 1 : job.size[i] <= job.limit

\* The chunks are in the order of the dataset, with no item left out or repeated, and
\* none is fuller than allowed, but for an item that is too large, or the last of a
\* worker whose batches do not fit (the sampler, the writer and merge).  An item that is
\* too large and comes before its turn is written out of order, and the files of more
\* than ten writers are.  When a rank leaves its loop early its workers still end with
\* an index, and the merged one is taken for whole.
IndexWhole ==
    published # "no" /\ quit = {} =>
        /\ EachFits /\ Cardinality(Writers) <= 10 =>
              FlattenSeq(index) = [p \in 1 .. job.items |-> p - 1]
        /\ \A c \in ToSet(index) :
             /\ c # << >>
             /\ (InOrder \/ ~job.bytes) => Len(c) = 1 \/ Filled(c[1], c[Len(c)], 0) <= job.limit

\* Every rank comes to read the index, if each worker has an item to write and ends
\* in time.  A half-written file may stop a rank; if that is rank 0 the others wait
\* for ever (BinaryWriter.merge).
FillingEnds ==
    (InOrder /\ ~job.slow /\ ~job.leaves /\ job.unsteady = {}
             /\ \A w \in Writers : Share(w) # {}) =>
        <>[](main[0] = "failed" \/ \A r \in Ranks : main[r] \in {"reading", "dealt", "failed"})

\* In the second epoch every chunk is read by one worker of one rank, if the ranks draw
\* the same order (CacheBatchSampler).
ChunksReadOnce ==
    (\A r \in Ranks : main[r] = "dealt") /\ (job.ranks = 1 \/ job.seeded) =>
        \A c \in Chunks :
            Cardinality({p \in Ranks \X (0 .. job.workers - 1) : c \in Dealt(p[1], p[2])}) = 1
=============================================================================
