---------------------------- MODULE MappedItems ----------------------------
(***************************************************************************)
(* The item loaders that keep a chunk in memory (streaming/item_loader.py): *)
(* TokensLoader maps the file of a chunk and gives out tensors that point   *)
(* into the mapping, ParquetLoader keeps row groups or the whole table.     *)
(* The reader of a worker and its prepare thread use one loader (reader.py): *)
(* the thread loads chunks before they are needed and deletes those that    *)
(* were read, the reader closes the chunk it leaves.                        *)
(*                                                                         *)
(* A step is one statement that the other thread can see; `if k in d: del    *)
(* d[k]' is one too.  What decides whether a chunk may be deleted, the size *)
(* of the cache and the locks of other workers, is left open: ChunkCache     *)
(* models it.                                                               *)
(*                                                                         *)
(* A job is how one worker reads its chunks, epoch after epoch:              *)
(*   loader   "tokens", "parquet" or "parquet_low" (low_memory)             *)
(*   format   the data format of the index                                  *)
(*   size     size[c]: the tokens or rows in chunk c, the chunks being read *)
(*            in their order                                                *)
(*   unit     block_size, or the rows of a row group                        *)
(*   batch    batch_size                                                    *)
(*   remote   whether the chunks have to be fetched, by a prepare thread    *)
(*   preload  pre_load_chunk of a ParquetLoader                             *)
(*   evicts   whether the cache may get as large as its limit               *)
(*   slow     whether the reader may wait so long that it forces a download *)
(***************************************************************************)
EXTENDS Integers, Sequences, FiniteSets, FiniteSetsExt

CONSTANTS ReadJobs

\* What a job of ReadJobs is.
ReadJobAssumption ==
    \A j \in ReadJobs :
      /\ j.loader \in {"tokens", "parquet", "parquet_low"}
      /\ j.unit \in Nat \ {0} /\ j.batch \in Nat \ {0}
      /\ j.size \in Seq(Nat) \ {<< >>}
      /\ \A c \in DOMAIN j.size : j.size[c] >= j.unit \/ (j.loader # "tokens" /\ j.size[c] > 0)

VARIABLES
    reading,   \* the job
    here,      \* the chunks whose file is there
    table,     \* _chunk_filepaths
    counter,   \* _counter[c], 0 when it has no entry
    mmap,      \* _mmaps[c]: the number of a mapping of the file; None
    buffer,    \* _buffers[c]: the mapping it is a view of; None
    mapped,    \* the mappings that are not closed, as pairs of chunk and number
    frames,    \* _df: the chunks whose table, or parquet file, is there
    groups,    \* groups[c][g]: how often row group g was read since it was loaded
    at,        \* where the reader and the thread are
    own,       \* the mapping each has just made
    rest,      \* the items of the chunk at hand that are not read yet
    now,       \* the chunk of the item that is read
    epoch,
    last,      \* _last_chunk_index; None
    item,      \* the item that was read, as a pair of chunk and mapping
    batch,     \* the items of the batch so far
    waiting,   \* the chunks in the queue to download; End
    fetching,  \* the chunk the thread downloads
    released,  \* the queue to delete
    doomed,    \* _chunks_index_to_be_deleted
    budget,    \* _pre_download_counter
    forced,    \* the chunks in the force-download queue
    urgent,    \* whether it was forced to
    wasForced  \* whether a download was ever forced

tables == <<here, table, counter, mmap, buffer, mapped, frames, groups>>
reader == <<rest, now, epoch, last, item, batch>>
thread == <<waiting, fetching, released, doomed, budget, forced, urgent, wasForced>>
readingVars == <<reading, tables, at, own, reader, thread>>

None == 0
End == 0
MaxPreDownload == 2
MaxEpochs == 3      \* the bound on the epochs

Indexes == DOMAIN reading.size
Tokens == reading.loader = "tokens"
Threads == {"reader", "thread"}

\* A chunk has as many items as blocks fit into it; a parquet file one for each row.
Items(c) == IF Tokens THEN reading.size[c] \div reading.unit ELSE reading.size[c]

GroupOf(row) == (row - 1) \div reading.unit

\* setup: only tokens without a header can be mapped.
SetUpFails == Tokens /\ reading.format \notin {"no_header_numpy", "no_header_tensor"}

Goto(t, l) == at' = [at EXCEPT ![t] = l]

-----------------------------------------------------------------------------
(* TokensLoader._load_chunk, by either thread. *)

ChunkAt(t) == IF t = "reader" THEN now ELSE fetching
After(t) == IF t = "reader" THEN "take" ELSE "loaded"

Count(t) ==
    /\ at[t] = "count"
    /\ counter' = [counter EXCEPT ![ChunkAt(t)] = @ + 1]
    /\ Goto(t, IF mmap[ChunkAt(t)] # None THEN After(t) ELSE "map")
    /\ UNCHANGED <<reading, here, table, mmap, buffer, mapped, frames, groups, own, reader, thread>>

\* The number of a mapping of chunk c that nothing refers to.
Unused(c) == Min({n \in 1 .. Cardinality(mapped) + reading.batch + 6 :
                     /\ <<c, n>> \notin mapped
                     /\ \A p \in DOMAIN batch : batch[p] # <<c, n>>
                     /\ item # <<c, n>> /\ buffer[c] # n /\ mmap[c] # n
                     /\ \A t \in Threads : own[t] # n})

Map(t) ==
    /\ at[t] = "map"
    /\ LET c == ChunkAt(t)
           n == Unused(c)
       IN  IF c \in here
           THEN /\ mmap' = [mmap EXCEPT ![c] = n]
                /\ mapped' = mapped \union {<<c, n>>}
                /\ own' = [own EXCEPT ![t] = n]
                /\ Goto(t, "view")
           ELSE Goto(t, "failed") /\ UNCHANGED <<mmap, mapped, own>>
    /\ UNCHANGED <<reading, here, table, counter, buffer, frames, groups, reader, thread>>

View(t) ==
    /\ at[t] = "view"
    /\ buffer' = [buffer EXCEPT ![ChunkAt(t)] = own[t]]
    /\ own' = [own EXCEPT ![t] = None]
    /\ Goto(t, After(t))
    /\ UNCHANGED <<reading, here, table, counter, mmap, mapped, frames, groups, reader, thread>>

-----------------------------------------------------------------------------
(* What delete and close drop of chunk c. *)

DropBuffer(c) == buffer' = [buffer EXCEPT ![c] = None]
Unmap(c) ==
    /\ mapped' = mapped \ {<<c, mmap[c]>>}
    /\ mmap' = [mmap EXCEPT ![c] = None]

NoGroups == [g \in 0 .. Max({reading.size[c] : c \in Indexes}) |-> 0]
DropRows(c) ==
    /\ frames' = frames \ {c}
    /\ groups' = [groups EXCEPT ![c] = NoGroups]

-----------------------------------------------------------------------------
(* The reader: BinaryReader.read. *)

LastOfEpoch == rest = {} /\ now = Len(reading.size)

\* The next item of the chunk, or the first of the next one.  The first of an epoch
\* starts the thread and queues all chunks.
NextItem ==
    /\ at["reader"] = "next"
    /\ ~LastOfEpoch \/ epoch < MaxEpochs
    /\ IF LastOfEpoch
       THEN now' = 1 /\ epoch' = epoch + 1
       ELSE now' = (IF rest = {} THEN now + 1 ELSE now) /\ UNCHANGED epoch
    /\ rest' = IF rest = {} THEN 1 .. Items(now') ELSE rest
    /\ IF reading.remote /\ at["thread"] = "none"
       THEN /\ waiting' = [c \in Indexes |-> c] /\ released' = << >> /\ doomed' = << >>
            /\ fetching' = None /\ budget' = 0 /\ forced' = << >>
            /\ at' = [at EXCEPT !["reader"] = "find", !["thread"] = "run"]
            /\ UNCHANGED <<urgent, wasForced>>
       ELSE Goto("reader", "find") /\ UNCHANGED thread
    /\ UNCHANGED <<reading, tables, own, last, item, batch>>

\* load_item_from_chunk waits until the file is there.
Find ==
    /\ at["reader"] = "find"
    /\ now \in here
    /\ table' = table \union {now}
    /\ Goto("reader", IF Tokens THEN "count" ELSE "take")
    /\ UNCHANGED <<reading, here, counter, mmap, buffer, mapped, frames, groups, own, reader, thread>>

\* A TokensLoader asks for the chunk after some seconds, once.
ForceDownload ==
    /\ reading.slow /\ Tokens /\ reading.remote /\ ~wasForced
    /\ at["reader"] = "find" /\ now \notin here
    /\ forced' = Append(forced, now) /\ wasForced' = TRUE
    /\ UNCHANGED <<reading, tables, at, own, reader, waiting, fetching, released, doomed, budget, urgent>>

\* The tensor of a block points into the mapping.  The thread sets the mapping before
\* the view of it.
TakeBlock ==
    /\ at["reader"] = "take" /\ Tokens
    /\ IF buffer[now] = None
       THEN Goto("reader", "failed") /\ UNCHANGED <<item, rest>>
       ELSE /\ item' = <<now, buffer[now]>>
            /\ rest' = rest \ {Min(rest)}
            /\ Goto("reader", "release")
    /\ UNCHANGED <<reading, tables, own, now, epoch, last, batch, thread>>

\* A row group is dropped when as many rows were read as the first group has.
ReadRow(counts, g) ==
    [counts EXCEPT ![g] = IF @ + 1 >= Min({reading.unit, reading.size[now]}) THEN 0 ELSE @ + 1]

\* The rows of a chunk are read in any order.
TakeRow ==
    /\ at["reader"] = "take" /\ ~Tokens
    /\ frames' = frames \union {now}
    /\ \E row \in rest :
         /\ rest' = rest \ {row}
         /\ IF reading.loader = "parquet" THEN UNCHANGED groups
            ELSE groups' = [groups EXCEPT ![now] = ReadRow(@, GroupOf(row))]
    /\ item' = <<now, None>>
    /\ Goto("reader", "release")
    /\ UNCHANGED <<reading, here, table, counter, mmap, buffer, mapped, own, now, epoch, last, batch,
                   thread>>

\* The chunk that was read before may be deleted.
Release ==
    /\ at["reader"] = "release"
    /\ released' = IF reading.remote /\ now # last /\ last # None THEN Append(released, last) ELSE released
    /\ Goto("reader", CASE now = last -> "end" [] last = None -> "enter" [] OTHER -> "close")
    /\ UNCHANGED <<reading, tables, own, reader, waiting, fetching, doomed, budget, forced, urgent, wasForced>>

\* Wrong: _last_chunk_index is set before the chunk is closed.
Entered == now

\* The chunk that is closed.
Left == last

\* close: the count of the loads is lowered once.
Close ==
    /\ at["reader"] = "close"
    /\ IF Tokens
       THEN /\ counter' = [counter EXCEPT ![Left] = @ - 1]
            /\ Goto("reader", IF counter'[Left] = 0 THEN "unbuffer" ELSE "enter")
            /\ UNCHANGED <<frames, groups>>
       ELSE /\ DropRows(Left)
            /\ Goto("reader", "enter")
            /\ UNCHANGED counter
    /\ UNCHANGED <<reading, here, table, mmap, buffer, mapped, own, reader, thread>>

CloseBuffer ==
    /\ at["reader"] = "unbuffer"
    /\ DropBuffer(Left)
    /\ Goto("reader", "unmap")
    /\ UNCHANGED <<reading, here, table, counter, mmap, mapped, frames, groups, own, reader, thread>>

CloseMapping ==
    /\ at["reader"] = "unmap"
    /\ Unmap(Left)
    /\ Goto("reader", "enter")
    /\ UNCHANGED <<reading, here, table, counter, buffer, frames, groups, own, reader, thread>>

\* _last_chunk_index is set: to the chunk of the item, or to None after the last close
\* of an epoch.
Enter ==
    /\ at["reader"] = "enter"
    /\ last' = IF last = now THEN None ELSE now
    /\ Goto("reader", IF last = now THEN "give" ELSE "end")
    /\ UNCHANGED <<reading, tables, own, rest, now, epoch, item, batch, thread>>

\* is_last_index: the last chunk may be deleted too, and the thread is told to stop.
EndEpoch ==
    /\ at["reader"] = "end"
    /\ IF LastOfEpoch /\ reading.remote
       THEN /\ released' = Append(released, now)
            /\ waiting' = Append(waiting, End)
            /\ Goto("reader", "join")
       ELSE Goto("reader", "give") /\ UNCHANGED <<waiting, released>>
    /\ UNCHANGED <<reading, tables, own, reader, fetching, doomed, budget, forced, urgent, wasForced>>

\* The reader waits for the thread to end, some seconds at most: only one that has come
\* to its bound and gets nothing more to delete, and so never does anything again, does not.
Stuck == at["thread"] = "run" /\ budget >= MaxPreDownload /\ released = << >> /\ forced = << >>
Join ==
    /\ at["reader"] = "join"
    /\ at["thread"] = "ended" \/ Stuck
    /\ at' = [at EXCEPT !["reader"] = "close", !["thread"] = "none"]
    /\ UNCHANGED <<reading, tables, own, reader, thread>>

\* The worker adds the item to its batch.
Give ==
    /\ at["reader"] = "give"
    /\ batch' = Append(batch, item)
    /\ item' = <<None, None>>
    /\ Goto("reader", IF LastOfEpoch \/ Len(batch') = reading.batch THEN "collate" ELSE "next")
    /\ UNCHANGED <<reading, tables, own, rest, now, epoch, last, thread>>

\* The tensors of the batch are read: one whose mapping is closed kills the worker.
Collate ==
    /\ at["reader"] = "collate"
    /\ Goto("reader", IF Tokens /\ \E p \in DOMAIN batch : batch[p] \notin mapped
                      THEN "killed" ELSE "next")
    /\ batch' = << >>
    /\ UNCHANGED <<reading, tables, own, rest, now, epoch, last, item, thread>>

-----------------------------------------------------------------------------
(* The prepare thread: PrepareChunksThread.run. *)

Preloads == budget > 0 /\ reading.loader # "parquet_low" /\ (Tokens \/ reading.preload)

\* A chunk is downloaded, and loaded ahead unless it is the first one.
Fetched(c) ==
    /\ fetching' = c
    /\ here' = here \union {c}
    /\ table' = IF Preloads /\ Tokens THEN table \union {c} ELSE table
    /\ Goto("thread", IF ~Preloads THEN "loaded" ELSE IF Tokens THEN "count" ELSE "scan")

Download ==
    /\ at["thread"] = "run" /\ budget < MaxPreDownload
    /\ waiting # << >> /\ waiting[1] # End
    /\ Fetched(waiting[1])
    /\ waiting' = Tail(waiting)
    /\ UNCHANGED <<reading, counter, mmap, buffer, mapped, frames, groups, own, reader, released,
                   doomed, budget, forced, urgent, wasForced>>

\* ParquetLoader.pre_load_chunk
ScanParquet ==
    /\ at["thread"] = "scan"
    /\ frames' = frames \union {fetching}
    /\ Goto("thread", "loaded")
    /\ UNCHANGED <<reading, here, table, counter, mmap, buffer, mapped, groups, own, reader, thread>>

Downloaded ==
    /\ at["thread"] = "loaded"
    /\ budget' = budget + 1
    /\ urgent' = FALSE
    /\ Goto("thread", IF urgent THEN "run" ELSE "evict")
    /\ UNCHANGED <<reading, tables, own, reader, waiting, fetching, released, doomed, forced, wasForced>>

\* The end token: once more the chunks that were read are looked at.
ReceiveEnd ==
    /\ at["thread"] = "run" /\ budget < MaxPreDownload
    /\ waiting # << >> /\ waiting[1] = End
    /\ Goto("thread", "last evict")
    /\ UNCHANGED <<reading, tables, own, reader, thread>>

\* Nothing is taken from the queue in time.
Skip ==
    /\ at["thread"] = "run"
    /\ budget >= MaxPreDownload \/ waiting = << >>
    /\ released # << >>
    /\ Goto("thread", "evict")
    /\ UNCHANGED <<reading, tables, own, reader, thread>>

\* _maybe_delete_chunks takes one chunk that was read, if there is one.
Evict ==
    /\ at["thread"] \in {"evict", "last evict"}
    /\ LET next == IF at["thread"] = "evict" THEN "run" ELSE "ended"
       IN  IF released = << >>
           THEN Goto("thread", next) /\ UNCHANGED <<released, doomed>>
           ELSE /\ doomed' = Append(doomed, released[1])
                /\ released' = Tail(released)
                /\ Goto("thread", IF next = "run" THEN "clean" ELSE "last clean")
    /\ UNCHANGED <<reading, tables, own, reader, waiting, fetching, budget, forced, urgent, wasForced>>

\* While the cache is too large the oldest of them is deleted, unless another worker
\* holds its lock.
Keep ==
    /\ at["thread"] \in {"clean", "last clean"}
    /\ reading.evicts /\ doomed # << >>
    /\ doomed' = Tail(doomed)
    /\ UNCHANGED <<reading, tables, at, own, reader, waiting, fetching, released, budget, forced, urgent, wasForced>>

DeleteBuffer ==
    /\ at["thread"] \in {"clean", "last clean"}
    /\ reading.evicts /\ doomed # << >>
    /\ IF doomed[1] \in here /\ Tokens THEN DropBuffer(doomed[1]) ELSE UNCHANGED buffer
    /\ Goto("thread", IF at["thread"] = "clean" THEN "delete" ELSE "last delete")
    /\ UNCHANGED <<reading, here, table, counter, mmap, mapped, frames, groups, own, reader, thread>>

\* delete: the rest of it.
Drop(c) ==
    /\ here' = here \ {c}
    /\ IF Tokens
       THEN /\ IF c \in here /\ mmap[c] # None
               THEN Unmap(c) /\ counter' = [counter EXCEPT ![c] = 0]
               ELSE UNCHANGED <<mmap, mapped, counter>>
            /\ UNCHANGED <<frames, groups>>
       ELSE DropRows(c) /\ UNCHANGED <<mmap, mapped, counter>>

Delete ==
    /\ at["thread"] \in {"delete", "last delete"}
    /\ Drop(doomed[1])
    /\ doomed' = Tail(doomed)
    /\ Goto("thread", IF at["thread"] = "delete" THEN "clean" ELSE "last clean")
    /\ UNCHANGED <<reading, table, buffer, own, reader, waiting, fetching, released, budget, forced, urgent, wasForced>>

Cleaned ==
    /\ at["thread"] \in {"clean", "last clean"}
    /\ budget' = budget - 1
    /\ Goto("thread", IF at["thread"] = "clean" THEN "run" ELSE "ended")
    /\ UNCHANGED <<reading, tables, own, reader, waiting, fetching, released, doomed, forced, urgent, wasForced>>

\* A forced download deletes the chunk first, whoever uses it.
Refetch ==
    /\ at["thread"] = "run" /\ forced # << >>
    /\ LET c == forced[1]
       IN  /\ buffer' = IF c \in here THEN [buffer EXCEPT ![c] = None] ELSE buffer
           /\ Drop(c)
    /\ urgent' = TRUE
    /\ Goto("thread", "refetch")
    /\ UNCHANGED <<reading, table, own, reader, waiting, fetching, released, doomed, budget, forced,
                   wasForced>>

Refetched ==
    /\ at["thread"] = "refetch"
    /\ Fetched(forced[1])
    /\ forced' = Tail(forced)
    /\ UNCHANGED <<reading, counter, mmap, buffer, mapped, frames, groups, own, reader, waiting,
                   released, doomed, budget, urgent, wasForced>>

-----------------------------------------------------------------------------
ReadingInit ==
    /\ reading \in ReadJobs
    /\ here = IF reading.remote THEN {} ELSE Indexes
    /\ table = {} /\ mapped = {} /\ frames = {}
    /\ counter = [c \in Indexes |-> 0]
    /\ mmap = [c \in Indexes |-> None] /\ buffer = [c \in Indexes |-> None]
    /\ groups = [c \in Indexes |-> NoGroups]
    /\ at = [t \in Threads |-> IF t = "thread" THEN "none" ELSE IF SetUpFails THEN "failed" ELSE "next"]
    /\ own = [t \in Threads |-> None]
    /\ rest = {} /\ now = Len(reading.size) /\ epoch = 0 /\ last = None
    /\ item = <<None, None>> /\ batch = << >>
    /\ waiting = << >> /\ fetching = None /\ released = << >> /\ doomed = << >>
    /\ budget = 0 /\ forced = << >> /\ urgent = FALSE /\ wasForced = FALSE

ReaderStep ==
    \/ NextItem \/ Find \/ ForceDownload \/ TakeBlock \/ TakeRow \/ Release \/ Close \/ CloseBuffer
    \/ CloseMapping \/ Enter \/ EndEpoch \/ Join \/ Give \/ Collate
ThreadStep ==
    \/ Download \/ ScanParquet \/ Downloaded \/ ReceiveEnd \/ Skip \/ Evict \/ Keep
    \/ DeleteBuffer \/ Delete \/ Cleaned \/ Refetch \/ Refetched
ReadingNext == ReaderStep \/ ThreadStep \/ \E t \in Threads : Count(t) \/ Map(t) \/ View(t)

-----------------------------------------------------------------------------
(* Properties. *)

Leaving == at["reader"] \in {"join", "close", "unbuffer", "unmap", "enter"}

\* The counts of the loads are right: no download was forced, and where chunks are deleted
\* the reader is not in its third epoch yet.  A chunk that is deleted between its release and
\* its close counts -1 from then on; in the next epoch it is closed too early, under
\* the thread that is loading it, and the epoch after that may read the closed mapping.
Counted == ~wasForced /\ (reading.evicts => epoch < 3)

\* The chunk the reader is in stays mapped, whatever the thread does and however often it
\* was loaded and closed before, as long as the loads are counted; and of the chunks it
\* has left a low-memory loader keeps no rows (BinaryReader.read asks for the deletion of
\* the last chunk and closes it only once it has an item of the next).  What is in the
\* batch of a chunk that was left may be unmapped, and so may the last item of an epoch.
InHandUsable ==
    /\ Tokens /\ Counted /\ ~Leaving =>
         \A p \in DOMAIN batch : batch[p][1] = last => batch[p] \in mapped
    /\ ~Tokens /\ at["reader"] = "next" =>
         \A c \in Indexes \ {last} : groups[c] = NoGroups
=============================================================================
