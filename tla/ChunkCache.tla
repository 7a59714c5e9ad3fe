----------------------------- MODULE ChunkCache -----------------------------
(***************************************************************************)
(* The chunk cache of one node: the workers that read a streamed dataset   *)
(* through one cache directory (streaming/reader.py with streaming/config,  *)
(* streaming/downloader and the PyTree item loader).                        *)
(*                                                                         *)
(* A worker is two threads.  Its reader (BinaryReader.read) consumes the   *)
(* chunks of its plan in order; its PrepareChunksThread downloads them     *)
(* ahead of the reader and deletes what the reader has consumed.  The      *)
(* workers share the chunk files, the per-chunk lock count (<chunk>.cnt)   *)
(* and the per-chunk download lock (<chunk>.lock).                          *)
(*                                                                         *)
(* Every queue of a worker receives the chunks of the plan in plan order,  *)
(* so a queue is a pair of cursors into the plan: the download queue holds  *)
(* Plan[taken+1 ..], the delete queue Plan[received+1 .. retired] and the   *)
(* list of chunks to be deleted Plan[evicted+1 .. received].  Only the      *)
(* force-download queue is a sequence of its own.                           *)
(***************************************************************************)
EXTENDS Naturals, Sequences, FiniteSets

CONSTANTS
    Workers,         \* the processes that share the cache directory
    Chunks,          \* the chunks of the dataset, all of size one
    Plan,            \* Plan[w]: the chunks worker w reads in this epoch, in order
    MaxPreDownload,  \* max_pre_download
    MaxCacheSize,    \* max_cache_size, in chunks; 0 when it is not set
    NumNodes,        \* the nodes the dataset is spread over
    WarmCaches,      \* the sets of chunks an epoch may find in the directory
    LockPattern,     \* LockPattern[c]: the chunks whose lock the glob of c matches
    SlowDownloads,   \* TRUE: a wait may outlast _FORCE_DOWNLOAD_TIME
    WaitsExpire,     \* TRUE: a wait may outlast _MAX_WAIT_TIME
    MayAbandon,      \* TRUE: a reader may be dropped in the middle of an epoch
    NoWorker,        \* nobody holds the download lock
    NoChunk          \* the thread has no chunk in hand

ASSUME PlanAssumption ==
    /\ IsFiniteSet(Workers) /\ IsFiniteSet(Chunks)
    /\ NoWorker \notin Workers /\ NoChunk \notin Chunks
    /\ Plan \in [Workers -> Seq(Chunks)]
    /\ \A w \in Workers : /\ Plan[w] # << >>
                          /\ \A i, j \in DOMAIN Plan[w] : Plan[w][i] = Plan[w][j] => i = j

ASSUME SizeAssumption ==
    /\ MaxPreDownload \in Nat \ {0}
    /\ MaxCacheSize \in Nat
    /\ NumNodes \in Nat \ {0}
    /\ WarmCaches \subseteq SUBSET Chunks
    /\ LockPattern \in [Chunks -> SUBSET Chunks]
    /\ {SlowDownloads, WaitsExpire, MayAbandon} \subseteq BOOLEAN

VARIABLES
    onDisk,      \* the complete chunk files in the cache directory
    lockCount,   \* lockCount[c]: the number in <chunk>.cnt, 0 without the file
    fileLock,    \* fileLock[c]: who holds the <chunk>.lock the directory links
    reader,      \* where the reader of each worker is
    pos,         \* the plan index the reader is at
    requested,   \* requested_force_download of the current wait
    retired,     \* how many chunks the reader has handed to the delete queue
    thread,      \* where the prepare thread of each worker is
    target,      \* the chunk the thread works on
    forced,      \* TRUE while the thread serves a forced download
    stopping,    \* TRUE once the thread has met the end token
    taken,       \* how many chunks the thread took from the download queue
    received,    \* how many chunks it took from the delete queue
    evicted,     \* how many chunks it popped from _chunks_index_to_be_deleted
    counter,     \* _pre_download_counter
    forceQueue   \* _force_download_queue

shared == <<onDisk, lockCount, fileLock>>
readerVars == <<reader, pos, requested, retired>>
threadVars == <<thread, target, forced, stopping, taken, received, evicted, counter>>
vars == <<shared, readerVars, threadVars, forceQueue>>

ReaderStates == {"look", "wait", "open", "retire", "reading", "done", "failed", "abandoned"}
ThreadStates == {"top", "pick", "mark", "claim", "fetch", "copy", "receive", "scan",
                 "delete", "remove", "unlock", "exited", "crashed"}

-----------------------------------------------------------------------------
(* The files every worker sees. *)

\* _increment_local_lock and _decrement_local_lock, each under the FileLock of
\* the count; a decrement without a count file leaves it absent.
Increment(c) == lockCount' = [lockCount EXCEPT ![c] = @ + 1]
Decrement(c) == lockCount' = [lockCount EXCEPT ![c] = IF @ = 0 THEN 0 ELSE @ - 1]

\* The chunks some thread is downloading; their partial files also count for
\* the folder size, with any part of their final size.
Partial == {target[w] : w \in {v \in Workers : thread[v] = "copy"}}

\* _delete_chunks_when_processed: the node's share does not fit in the cache.
DeleteWhenProcessed == MaxCacheSize > 0 /\ Cardinality(Chunks) \div NumNodes > MaxCacheSize

\* _can_delete_chunk may return True, and may return False.
EnoughPrefetched(w) == counter[w] + 1 >= MaxPreDownload
MayEvict(w) == IF DeleteWhenProcessed
               THEN EnoughPrefetched(w)
               ELSE Cardinality(onDisk) + Cardinality(Partial) >= MaxCacheSize
MayKeep(w) == IF DeleteWhenProcessed
              THEN ~EnoughPrefetched(w)
              ELSE Cardinality(onDisk) < MaxCacheSize

-----------------------------------------------------------------------------
(* The reader: BinaryReader.read and PyTreeLoader.load_item_from_chunk. *)

Wanted(w) == Plan[w][pos[w]]

\* The first look at the chunk file, before the wait loop.
Look(w) ==
    /\ reader[w] = "look"
    /\ reader' = [reader EXCEPT ![w] = IF Wanted(w) \in onDisk THEN "open" ELSE "wait"]
    /\ UNCHANGED <<shared, pos, requested, retired, threadVars, forceQueue>>

\* Wrong: a poll takes a file that is still being copied for the chunk.
FindPartial(w) ==
    /\ reader[w] = "wait"
    /\ Wanted(w) \in onDisk \union Partial
    /\ reader' = [reader EXCEPT ![w] = "open"]
    /\ UNCHANGED <<shared, pos, requested, retired, threadVars, forceQueue>>

\* A poll of the wait loop finds the complete file.
Find(w) ==
    /\ reader[w] = "wait"
    /\ Wanted(w) \in onDisk
    /\ reader' = [reader EXCEPT ![w] = "open"]
    /\ UNCHANGED <<shared, pos, requested, retired, threadVars, forceQueue>>

\* The wait outlasts _FORCE_DOWNLOAD_TIME.  The request is sent once, and also
\* when the file has shown up in this very poll.
RequestForceDownload(w) ==
    /\ SlowDownloads
    /\ reader[w] = "wait"
    /\ ~requested[w]
    /\ requested' = [requested EXCEPT ![w] = TRUE]
    /\ forceQueue' = [forceQueue EXCEPT ![w] = Append(@, Wanted(w))]
    /\ UNCHANGED <<shared, reader, pos, retired, threadVars>>

\* The wait outlasts _MAX_WAIT_TIME and raises FileNotFoundError.
GiveUp(w) ==
    /\ WaitsExpire
    /\ reader[w] = "wait"
    /\ requested[w]
    /\ reader' = [reader EXCEPT ![w] = "failed"]
    /\ UNCHANGED <<shared, pos, requested, retired, threadVars, forceQueue>>

\* open() of the file that was seen; the file may be gone by now.
Open(w) ==
    /\ reader[w] = "open"
    /\ reader' = [reader EXCEPT ![w] = IF Wanted(w) \notin onDisk THEN "failed"
                                       ELSE IF pos[w] = 1 THEN "reading" ELSE "retire"]
    /\ UNCHANGED <<shared, pos, requested, retired, threadVars, forceQueue>>

\* The first item of a new chunk is loaded: release and hand over the previous
\* chunk.
Retire(w) ==
    /\ reader[w] = "retire"
    /\ Decrement(Plan[w][pos[w] - 1])
    /\ retired' = [retired EXCEPT ![w] = @ + 1]
    /\ reader' = [reader EXCEPT ![w] = "reading"]
    /\ UNCHANGED <<onDisk, fileLock, pos, requested, threadVars, forceQueue>>

\* The other items of a chunk come from the open handle; then the next chunk.
NextChunk(w) ==
    /\ reader[w] = "reading"
    /\ pos[w] < Len(Plan[w])
    /\ pos' = [pos EXCEPT ![w] = @ + 1]
    /\ requested' = [requested EXCEPT ![w] = FALSE]
    /\ reader' = [reader EXCEPT ![w] = "look"]
    /\ UNCHANGED <<shared, retired, threadVars, forceQueue>>

\* The last index of the epoch: hand over the current chunk as well and put the
\* end token in the download queue.  The join that follows is bounded.
Finish(w) ==
    /\ reader[w] = "reading"
    /\ pos[w] = Len(Plan[w])
    /\ Decrement(Wanted(w))
    /\ retired' = [retired EXCEPT ![w] = @ + 1]
    /\ reader' = [reader EXCEPT ![w] = "done"]
    /\ UNCHANGED <<onDisk, fileLock, pos, requested, threadVars, forceQueue>>

\* The reader is dropped before the end of the epoch: __del__ sets the
\* force-stop event.
Abandon(w) ==
    /\ MayAbandon
    /\ reader[w] \notin {"done", "abandoned"}
    /\ reader' = [reader EXCEPT ![w] = "abandoned"]
    /\ UNCHANGED <<shared, pos, requested, retired, threadVars, forceQueue>>

ReaderStep(w) ==
    \/ Look(w) \/ Find(w) \/ RequestForceDownload(w) \/ GiveUp(w) \/ Open(w)
    \/ Retire(w) \/ NextChunk(w) \/ Finish(w)

-----------------------------------------------------------------------------
(* The prepare thread: PrepareChunksThread.run. *)

Goto(w, state) == thread' = [thread EXCEPT ![w] = state]

\* Where a pass of the loop goes once its download is over.
Maintain == IF MaxCacheSize > 0 THEN "receive" ELSE "top"

\* The download of target is over: count it, and go on with the pass.
Downloaded(w) ==
    /\ counter' = [counter EXCEPT ![w] = @ + 1]
    /\ forced' = [forced EXCEPT ![w] = FALSE]
    /\ target' = [target EXCEPT ![w] = NoChunk]
    /\ Goto(w, IF forced[w] THEN "pick" ELSE Maintain)

\* The force-stop event ends the thread at the top of its loop.
ObeyForceStop(w) ==
    /\ thread[w] = "top"
    /\ reader[w] = "abandoned"
    /\ Goto(w, "exited")
    /\ UNCHANGED <<shared, readerVars, target, forced, stopping, taken, received, evicted,
                   counter, forceQueue>>

\* _force_download takes a request and deletes the chunk without a look at its
\* lock count.
TakeForced(w) ==
    /\ thread[w] = "top"
    /\ reader[w] # "abandoned"
    /\ forceQueue[w] # << >>
    /\ target' = [target EXCEPT ![w] = Head(forceQueue[w])]
    /\ forceQueue' = [forceQueue EXCEPT ![w] = Tail(@)]
    /\ forced' = [forced EXCEPT ![w] = TRUE]
    /\ Goto(w, "delete")
    /\ UNCHANGED <<shared, readerVars, stopping, taken, received, evicted, counter>>

\* Wrong: the force-stop event is not looked at when the loop goes around.
NoneForcedDeaf(w) ==
    /\ thread[w] = "top"
    /\ forceQueue[w] = << >>
    /\ Goto(w, "pick")
    /\ UNCHANGED <<shared, readerVars, target, forced, stopping, taken, received, evicted,
                   counter, forceQueue>>

\* No forced download is waiting.
NoneForced(w) ==
    /\ thread[w] = "top"
    /\ reader[w] # "abandoned"
    /\ forceQueue[w] = << >>
    /\ Goto(w, "pick")
    /\ UNCHANGED <<shared, readerVars, target, forced, stopping, taken, received, evicted,
                   counter, forceQueue>>

\* Wrong: the budget check of Take is off by one.
TakeOneTooMany(w) ==
    /\ thread[w] = "pick"
    /\ counter[w] <= MaxPreDownload
    /\ taken[w] < Len(Plan[w])
    /\ LET c == Plan[w][taken[w] + 1] IN
       /\ target' = [target EXCEPT ![w] = c]
       /\ Goto(w, IF c \in onDisk THEN "mark" ELSE "claim")
    /\ taken' = [taken EXCEPT ![w] = @ + 1]
    /\ UNCHANGED <<shared, readerVars, forced, stopping, received, evicted, counter, forceQueue>>

\* Take the next chunk of the plan, within the pre-download budget, and look
\* whether its file is there already.
Take(w) ==
    /\ thread[w] = "pick"
    /\ counter[w] < MaxPreDownload
    /\ taken[w] < Len(Plan[w])
    /\ LET c == Plan[w][taken[w] + 1] IN
       /\ target' = [target EXCEPT ![w] = c]
       /\ Goto(w, IF c \in onDisk THEN "mark" ELSE "claim")
    /\ taken' = [taken EXCEPT ![w] = @ + 1]
    /\ UNCHANGED <<shared, readerVars, forced, stopping, received, evicted, counter, forceQueue>>

\* The end token: one more pass over the delete queue, then the end.
TakeEnd(w) ==
    /\ thread[w] = "pick"
    /\ counter[w] < MaxPreDownload
    /\ taken[w] = Len(Plan[w])
    /\ reader[w] = "done"
    /\ stopping' = [stopping EXCEPT ![w] = TRUE]
    /\ Goto(w, IF MaxCacheSize > 0 THEN "receive" ELSE "exited")
    /\ UNCHANGED <<shared, readerVars, target, forced, taken, received, evicted, counter,
                   forceQueue>>

\* The budget is spent or the download queue is empty.
TakeNothing(w) ==
    /\ thread[w] = "pick"
    /\ \/ counter[w] >= MaxPreDownload
       \/ taken[w] = Len(Plan[w]) /\ reader[w] # "done"
    /\ Goto(w, Maintain)
    /\ UNCHANGED <<shared, readerVars, target, forced, stopping, taken, received, evicted,
                   counter, forceQueue>>

\* The file is there: mark it as requested, nothing to download.
Mark(w) ==
    /\ thread[w] = "mark"
    /\ Increment(target[w])
    /\ Downloaded(w)
    /\ UNCHANGED <<onDisk, fileLock, readerVars, stopping, taken, received, evicted, forceQueue>>

\* Wrong: a chunk that has to be downloaded is not marked.
ClaimUnmarked(w) ==
    /\ thread[w] = "claim"
    /\ Goto(w, "fetch")
    /\ UNCHANGED <<shared, readerVars, target, forced, stopping, taken, received, evicted,
                   counter, forceQueue>>

\* The file is not there: mark it as requested, then download it.
Claim(w) ==
    /\ thread[w] = "claim"
    /\ Increment(target[w])
    /\ Goto(w, "fetch")
    /\ UNCHANGED <<onDisk, fileLock, readerVars, target, forced, stopping, taken, received,
                   evicted, counter, forceQueue>>

\* download_file returns at once when the file exists or its lock is taken.
SkipFetch(w) ==
    /\ thread[w] = "fetch"
    /\ target[w] \in onDisk \/ fileLock[target[w]] # NoWorker
    /\ Downloaded(w)
    /\ UNCHANGED <<shared, readerVars, stopping, taken, received, evicted, forceQueue>>

\* download_file takes the lock of the chunk and starts to copy it ...
StartFetch(w) ==
    /\ thread[w] = "fetch"
    /\ target[w] \notin onDisk
    /\ fileLock[target[w]] = NoWorker
    /\ fileLock' = [fileLock EXCEPT ![target[w]] = w]
    /\ Goto(w, "copy")
    /\ UNCHANGED <<onDisk, lockCount, readerVars, target, forced, stopping, taken, received,
                   evicted, counter, forceQueue>>

\* ... and ends with the complete file at its final path and its lock released,
\* unless a deletion has unlinked that lock from the directory.
EndFetch(w) ==
    /\ thread[w] = "copy"
    /\ onDisk' = onDisk \union {target[w]}
    /\ fileLock' = [fileLock EXCEPT ![target[w]] = IF @ = w THEN NoWorker ELSE @]
    /\ Downloaded(w)
    /\ UNCHANGED <<lockCount, readerVars, stopping, taken, received, evicted, forceQueue>>

\* Wrong: the thread takes for consumed the chunk the reader is at.
ReceiveEarly(w) ==
    /\ thread[w] = "receive"
    /\ received[w] <= retired[w] /\ received[w] < Len(Plan[w])
    /\ received' = [received EXCEPT ![w] = @ + 1]
    /\ Goto(w, "scan")
    /\ UNCHANGED <<shared, readerVars, target, forced, stopping, taken, evicted, counter,
                   forceQueue>>

\* _maybe_delete_chunks: take one chunk from the delete queue ...
Receive(w) ==
    /\ thread[w] = "receive"
    /\ received[w] < retired[w]
    /\ received' = [received EXCEPT ![w] = @ + 1]
    /\ Goto(w, "scan")
    /\ UNCHANGED <<shared, readerVars, target, forced, stopping, taken, evicted, counter,
                   forceQueue>>

\* Wrong: the end token is forgotten over the deletions.
AfterMaintenanceGoOn(w) == "top"

\* Where _maybe_delete_chunks returns to.
AfterMaintenance(w) == IF stopping[w] THEN "exited" ELSE "top"

\* Wrong: the budget is given back although no chunk was received.
ReceiveNothingCounted(w) ==
    /\ thread[w] = "receive"
    /\ received[w] = retired[w]
    /\ counter' = [counter EXCEPT ![w] = @ - 1]
    /\ Goto(w, AfterMaintenance(w))
    /\ UNCHANGED <<shared, readerVars, target, forced, stopping, taken, received, evicted,
                   forceQueue>>

\* ... or none, when the queue stays empty.
ReceiveNothing(w) ==
    /\ thread[w] = "receive"
    /\ received[w] = retired[w]
    /\ Goto(w, AfterMaintenance(w))
    /\ UNCHANGED <<shared, readerVars, target, forced, stopping, taken, received, evicted,
                   counter, forceQueue>>

\* Wrong: pops the chunk after the oldest consumed one.
PopNext(w) ==
    /\ thread[w] = "scan"
    /\ evicted[w] < received[w]
    /\ MayEvict(w)
    /\ LET c == Plan[w][IF evicted[w] + 2 <= Len(Plan[w]) THEN evicted[w] + 2 ELSE 1] IN
       /\ target' = [target EXCEPT ![w] = c]
       /\ Goto(w, "delete")
    /\ evicted' = [evicted EXCEPT ![w] = @ + 1]
    /\ UNCHANGED <<shared, readerVars, forced, stopping, taken, received, counter, forceQueue>>

\* Pop the oldest consumed chunk; one that somebody still has is not deleted
\* and not kept in the list either.
Pop(w) ==
    /\ thread[w] = "scan"
    /\ evicted[w] < received[w]
    /\ MayEvict(w)
    /\ LET c == Plan[w][evicted[w] + 1] IN
       \/ /\ lockCount[c] > 0
          /\ UNCHANGED <<thread, target>>
       \/ /\ lockCount[c] = 0
          /\ target' = [target EXCEPT ![w] = c]
          /\ Goto(w, "delete")
    /\ evicted' = [evicted EXCEPT ![w] = @ + 1]
    /\ UNCHANGED <<shared, readerVars, forced, stopping, taken, received, counter, forceQueue>>

\* Wrong: the received chunk stays in the pre-download budget.
EndScanUncounted(w) ==
    /\ thread[w] = "scan"
    /\ evicted[w] = received[w] \/ MayKeep(w)
    /\ Goto(w, AfterMaintenance(w))
    /\ UNCHANGED <<shared, readerVars, target, forced, stopping, taken, received, evicted,
                   counter, forceQueue>>

\* Nothing (more) to delete: the received chunk leaves the pre-download budget.
EndScan(w) ==
    /\ thread[w] = "scan"
    /\ evicted[w] = received[w] \/ MayKeep(w)
    /\ counter' = [counter EXCEPT ![w] = @ - 1]
    /\ Goto(w, AfterMaintenance(w))
    /\ UNCHANGED <<shared, readerVars, target, forced, stopping, taken, received, evicted,
                   forceQueue>>

\* The item loader's delete looks for the file ...
Delete(w) ==
    /\ thread[w] = "delete"
    /\ Goto(w, IF target[w] \in onDisk THEN "remove" ELSE "unlock")
    /\ UNCHANGED <<shared, readerVars, target, forced, stopping, taken, received, evicted,
                   counter, forceQueue>>

\* ... and removes it; os.remove of a file that is gone by now raises and ends
\* the thread.
Remove(w) ==
    /\ thread[w] = "remove"
    /\ onDisk' = onDisk \ {target[w]}
    /\ Goto(w, IF target[w] \in onDisk THEN "unlock" ELSE "crashed")
    /\ UNCHANGED <<lockCount, fileLock, readerVars, target, forced, stopping, taken, received,
                   evicted, counter, forceQueue>>

\* Wrong: a forced download marks the chunk once more.
UnlockMarking(w) ==
    /\ thread[w] = "unlock"
    /\ fileLock' = [c \in Chunks |-> IF c \in LockPattern[target[w]] THEN NoWorker
                                                                   ELSE fileLock[c]]
    /\ IF forced[w] THEN Increment(target[w]) ELSE UNCHANGED lockCount
    /\ target' = [target EXCEPT ![w] = IF forced[w] THEN @ ELSE NoChunk]
    /\ Goto(w, IF forced[w] THEN "fetch" ELSE "scan")
    /\ UNCHANGED <<onDisk, readerVars, forced, stopping, taken, received, evicted, counter,
                   forceQueue>>

\* Wrong: a forced download stops after its deletion.
UnlockOnly(w) ==
    /\ thread[w] = "unlock"
    /\ fileLock' = [c \in Chunks |-> IF c \in LockPattern[target[w]] THEN NoWorker
                                                                   ELSE fileLock[c]]
    /\ target' = [target EXCEPT ![w] = NoChunk]
    /\ forced' = [forced EXCEPT ![w] = FALSE]
    /\ Goto(w, IF forced[w] THEN "pick" ELSE "scan")
    /\ UNCHANGED <<onDisk, lockCount, readerVars, stopping, taken, received, evicted, counter,
                   forceQueue>>

\* _apply_delete unlinks every lock file the pattern of the chunk matches, held
\* or not; a forced download goes on with the download.
Unlock(w) ==
    /\ thread[w] = "unlock"
    /\ fileLock' = [c \in Chunks |-> IF c \in LockPattern[target[w]] THEN NoWorker
                                                                   ELSE fileLock[c]]
    /\ target' = [target EXCEPT ![w] = IF forced[w] THEN @ ELSE NoChunk]
    /\ Goto(w, IF forced[w] THEN "fetch" ELSE "scan")
    /\ UNCHANGED <<onDisk, lockCount, readerVars, forced, stopping, taken, received, evicted,
                   counter, forceQueue>>

ThreadStep(w) ==
    \/ ObeyForceStop(w) \/ TakeForced(w) \/ NoneForced(w)
    \/ Take(w) \/ TakeEnd(w) \/ TakeNothing(w)
    \/ Mark(w) \/ Claim(w) \/ SkipFetch(w) \/ StartFetch(w) \/ EndFetch(w)
    \/ Receive(w) \/ ReceiveNothing(w) \/ Pop(w) \/ EndScan(w)
    \/ Delete(w) \/ Remove(w) \/ Unlock(w)

-----------------------------------------------------------------------------
Init ==
    /\ onDisk \in WarmCaches
    /\ lockCount = [c \in Chunks |-> 0]
    /\ fileLock = [c \in Chunks |-> NoWorker]
    /\ reader = [w \in Workers |-> "look"]
    /\ pos = [w \in Workers |-> 1]
    /\ requested = [w \in Workers |-> FALSE]
    /\ retired = [w \in Workers |-> 0]
    /\ thread = [w \in Workers |-> "top"]
    /\ target = [w \in Workers |-> NoChunk]
    /\ forced = [w \in Workers |-> FALSE]
    /\ stopping = [w \in Workers |-> FALSE]
    /\ taken = [w \in Workers |-> 0]
    /\ received = [w \in Workers |-> 0]
    /\ evicted = [w \in Workers |-> 0]
    /\ counter = [w \in Workers |-> 0]
    /\ forceQueue = [w \in Workers |-> << >>]

\* Every worker's reader has ended, one way or another, and so has its thread.
Quiet ==
    /\ \A w \in Workers : /\ reader[w] \in {"done", "failed", "abandoned"}
                          /\ thread[w] \in {"exited", "crashed"}
    /\ UNCHANGED vars

Next == (\E w \in Workers : ReaderStep(w) \/ ThreadStep(w) \/ Abandon(w)) \/ Quiet

Spec == Init /\ [][Next]_vars

\* Both threads of a worker keep running; nothing obliges a program to drop a
\* reader.
FairSpec == Spec /\ \A w \in Workers : WF_vars(ReaderStep(w)) /\ WF_vars(ThreadStep(w))

-----------------------------------------------------------------------------
(* Properties. *)

\* The cursors, counts and control states stay in range; in particular the
\* pre-download counter never falls below zero.
TypeOK ==
    /\ onDisk \subseteq Chunks
    /\ lockCount \in [Chunks -> Nat]
    /\ fileLock \in [Chunks -> Workers \union {NoWorker}]
    /\ reader \in [Workers -> ReaderStates]
    /\ pos \in [Workers -> Nat] /\ \A w \in Workers : pos[w] \in 1 .. Len(Plan[w])
    /\ requested \in [Workers -> BOOLEAN]
    /\ retired \in [Workers -> Nat]
    /\ thread \in [Workers -> ThreadStates]
    /\ target \in [Workers -> Chunks \union {NoChunk}]
    /\ forced \in [Workers -> BOOLEAN]
    /\ stopping \in [Workers -> BOOLEAN]
    /\ taken \in [Workers -> Nat] /\ \A w \in Workers : taken[w] <= Len(Plan[w])
    /\ received \in [Workers -> Nat]
    /\ evicted \in [Workers -> Nat]
    /\ counter \in [Workers -> Nat]
    /\ forceQueue \in [Workers -> Seq(Chunks)]

\* Prefetching is bounded: however many downloads are forced, the thread is
\* never more than max_pre_download chunks of its queue ahead of the chunks the
\* reader has handed back (the test of run() at its download branch).
PrefetchWindow == \A w \in Workers : taken[w] <= retired[w] + MaxPreDownload

\* The workers whose thread has counted itself in on chunk c.
Markers(c) == {w \in Workers : \E i \in 1 .. taken[w] :
                  /\ Plan[w][i] = c
                  /\ ~(i = taken[w] /\ thread[w] \in {"mark", "claim"})}

\* Those of them whose reader has not counted itself out.
Holders(c) == {w \in Markers(c) : \A i \in 1 .. retired[w] : Plan[w][i] # c}

\* A count never promises more than there are workers that asked for the chunk:
\* a chunk nobody asked for is always free to be deleted.
CountBacked == \A c \in Chunks : lockCount[c] <= Cardinality(Markers(c))

\* The count of a chunk is the number of workers that asked for it and have not
\* consumed it.  Holds when downloads are prompt and no two plans share a chunk.
CountExact == \A c \in Chunks : lockCount[c] = Cardinality(Holders(c))

\* An ordinary (not forced) deletion only ever removes a chunk the reader of the
\* same worker has consumed.
OwnDeletesConsumed == \A w \in Workers :
    thread[w] \in {"delete", "remove", "unlock"} /\ ~forced[w]
        => \E i \in 1 .. retired[w] : target[w] = Plan[w][i]

\* A chunk only worker w reads.
Exclusive(w, c) == \A v \in Workers \ {w} : \A i \in DOMAIN Plan[v] : Plan[v][i] # c

\* What a worker has prefetched stays until its reader has consumed it, for the
\* chunks no other worker reads and as long as downloads are prompt.
PrefetchedStays == \A w \in Workers : \A i \in retired[w] + 1 .. taken[w] :
    \/ ~Exclusive(w, Plan[w][i])
    \/ i = taken[w] /\ thread[w] \in {"claim", "fetch", "copy"}
    \/ Plan[w][i] \in onDisk

\* With prompt downloads and a plan of its own, a worker is fed by a bounded
\* buffer: its thread fetches at most max_pre_download chunks ahead, and its
\* reader only consumes what was fetched.
InFlight(w) == IF thread[w] \in {"mark", "claim", "fetch", "copy"} THEN 1 ELSE 0
Buffer == INSTANCE BoundedPrefetch WITH
    Users <- Workers,
    Supply <- [w \in Workers |-> Len(Plan[w])],
    Capacity <- MaxPreDownload,
    fetched <- [w \in Workers |-> taken[w] - InFlight(w)],
    consumed <- retired
ImplementsBuffer == Buffer!Spec

\* The complete chunk files of the cache directory fit in max_cache_size: what
\* run() prefetches and _maybe_delete_chunks deletes balance each other.
CacheWithinLimit == Cardinality(onDisk) <= MaxCacheSize

\* A chunk that some worker asked for and has not consumed is not removed by an
\* ordinary deletion ("Can't delete this, something has it").
HeldChunkStays == [][\A w \in Workers, c \in Chunks :
    thread[w] = "remove" /\ thread'[w] # "remove" /\ ~forced[w] /\ c \in onDisk \ onDisk'
        => Holders(c) = {}]_vars

\* Nobody fails: no chunk file disappears between load_item_from_chunk seeing it
\* and opening it, and no delete() finds its file gone and ends its thread.
NobodyFails == \A w \in Workers : reader[w] # "failed" /\ thread[w] # "crashed"

\* Every reader comes to the end of its epoch: the budget of run(), the delete
\* queue and the shared disk never leave a worker waiting for a chunk its own
\* thread is not going to download.
EpochEnds == <>(\A w \in Workers : reader[w] = "done")

\* No reader waits for ever in load_item_from_chunk: whatever state the thread
\* is stuck in, the forced download brings the chunk.
EveryWaitEnds == <>(\A w \in Workers : reader[w] \in {"done", "failed", "abandoned"})

\* The end token that read() queues at the last index ends the thread ("inform
\* the thread it is time to stop").
StopEndsThread == \A w \in Workers : reader[w] = "done" ~> thread[w] = "exited"

\* The force-stop event that __del__ sets ends the thread, from wherever it is in
\* its loop.
ForceStopEndsThread ==
    \A w \in Workers : reader[w] = "abandoned" ~> thread[w] \in {"exited", "crashed"}
=============================================================================
