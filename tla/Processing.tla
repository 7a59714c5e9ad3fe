----------------------------- MODULE Processing -----------------------------
(***************************************************************************)
(* optimize() and map() on one node: functions.optimize, DataProcessor.run  *)
(* and the processes it starts (processing/data_processor.py).              *)
(*                                                                         *)
(* A worker takes items from a queue, runs the user's function on them,     *)
(* writes the samples into chunks in its cache directory and hands the      *)
(* files to its uploaders.  Its downloaders fill the queue, its remover     *)
(* deletes what was uploaded and the inputs that were read.  The main       *)
(* process watches progress and errors, merges the indexes of the workers   *)
(* and publishes the index.  With checkpoints, a run that was killed is     *)
(* started again where the uploaded checkpoints say.                        *)
(*                                                                         *)
(* A job is one call of optimize() or map():                                *)
(*   recipe       "optimize" or "map"                                       *)
(*   source       "list", or "queue" for a queue the user fills             *)
(*   items        how many items there are                                  *)
(*   skips        the items the user's function returns None for            *)
(*   files        files[i]: the input files of item i                       *)
(*   weights      the weights of the items; << >> to split them evenly      *)
(*   align        align_chunking                                            *)
(*   workers, downloaders, uploaders     how many processes                 *)
(*   chunkSize    chunk_size                                                *)
(*   ordered      keep_data_ordered                                         *)
(*   checkpoint   use_checkpoint                                            *)
(*   json         what a dump of its lists is: "same" if they read back as   *)
(*                they were, "other" if not (tuples come back as lists), or   *)
(*                "raises" if they cannot be dumped                          *)
(*   cloud        whether the output directory is in a cloud                *)
(*   mode         "none", "append" or "overwrite"; of map() "keep", or      *)
(*                "empty" with error_when_not_empty                         *)
(*   fastDev      how many items each worker is given; 0 for all of them    *)
(*   invalid      whether run() refuses the job, when the directory has     *)
(*                already been prepared for it                              *)
(*   old          the chunks of the index the output directory starts with  *)
(*   faults       what may go wrong                                         *)
(***************************************************************************)
EXTENDS WorkSplit, IndexNames

CONSTANTS
    Jobs,          \* the jobs to look at
    MaxRestarts    \* how often a killed job is started again

Faults == {"fn", "done", "upload", "download", "timeout", "crash"}

ASSUME JobAssumption ==
    /\ MaxRestarts \in Nat
    /\ \A job \in Jobs :
         /\ job.workers \in Nat \ {0} /\ job.uploaders \in Nat \ {0}
         /\ job.downloaders \in Nat /\ job.items \in Nat /\ job.chunkSize \in Nat
         /\ job.recipe = "optimize" /\ ~job.invalid => job.chunkSize > 0
         /\ job.align => job.chunkSize > 0
         /\ job.fastDev \in Nat
         /\ job.json \in {"same", "other", "raises"}
         /\ job.faults \subseteq Faults
         /\ job.source = "queue" => ~job.checkpoint /\ job.downloaders = 0
         /\ job.mode \in IF job.recipe = "map" THEN {"keep", "empty"}
                                               ELSE {"none", "append", "overwrite"}
         /\ job.old \in Seq([rank : Nat, index : Nat, items : Seq(Nat)])

VARIABLES
    job,         \* the job
    lists,       \* workers_user_items before a checkpoint shortens them
    main,        \* where the main process is
    tracker,     \* workers_tracker
    errors,      \* the workers whose traceback is in the error queue
    phase,       \* where each worker is
    toDownload,  \* the items of each downloader of each worker, in order
    downloader,  \* the state of each downloader
    ready,       \* ready_to_process_queue; all workers use the first if it is shared
    ended,       \* num_downloader_finished
    counter,     \* _counter: the items a worker has handled
    pending,     \* the samples its writer has not put in a chunk yet
    infos,       \* _chunks_info of its writer
    nextChunk,   \* _chunk_index of its writer
    toUpload,    \* the queue of each uploader of each worker
    uploader,    \* the state of each uploader
    toRemove,    \* remove_queue
    remover,     \* the state of each remover
    cached,      \* the input files in the data cache
    local,       \* the chunk files in the chunk cache
    indexed,     \* the workers that have written their index file
    remote,      \* the chunks in the output directory
    saved,       \* saved[w]: the chunks checkpoint-<w>.json lists; << >> without the file
    config,      \* config.json: "none", or whether the lists in it are the "same" or "other"
    index,       \* the chunks of the index.json in the output directory; NoIndex
    numItems,    \* num_items: how many items there are to handle; -1 for a queue
    existing,    \* existing_index: the chunks of the index that is appended to
    restarts     \* how often the job was started again

jobVars == <<job, lists>>
mainVars == <<main, tracker, errors>>
queueVars == <<toDownload, downloader, ready, ended>>
writerVars == <<pending, infos, nextChunk>>
uploadVars == <<toUpload, uploader, toRemove, remover>>
diskVars == <<cached, local, indexed>>
outputVars == <<remote, saved, config, index>>
launchVars == <<numItems, existing, restarts>>
vars == <<jobVars, mainVars, phase, queueVars, counter, writerVars, uploadVars, diskVars,
          outputVars, launchVars>>

NoIndex == << [rank |-> -1, index |-> -1, items |-> << >>] >>
None == 0           \* the end token of a downloader
AllDone == -1       \* ALL_DONE

Workers == 0 .. job.workers - 1
Downloaders == 0 .. job.downloaders - 1
Uploaders == 0 .. job.uploaders - 1

\* A chunk of the worker's writer: its name and what is in it.
Chunk(w, i, items) == [rank |-> w, index |-> i, items |-> items]
Name(chunk) == <<chunk.rank, chunk.index>>

\* An uploaded file replaces one of the same name.
Put(files, chunk) == {c \in files : Name(c) # Name(chunk)} \union {chunk}

\* Whether all workers use one queue, and the number of that of worker w.
Shared == ~job.ordered \/ job.source = "queue"
QueueOf(w) == IF Shared THEN 0 ELSE w

Fault(f) == f \in job.faults

-----------------------------------------------------------------------------
(* Starting: functions.optimize, DataProcessor.run and _create_process_workers. *)

\* The lists a job may give its workers.
ListsOf(j) ==
    CASE j.source = "queue" \/ j.invalid -> {[w \in 0 .. j.workers - 1 |-> << >>]}
      [] j.source = "list" /\ ~j.invalid /\ j.weights # << >> -> Weighted(j.weights, j.workers)
      [] OTHER -> {Sequentially(j.items, IF j.align THEN j.chunkSize ELSE 0, j.workers)}

\* Wrong: the new chunks start at the highest number of the existing ones.
StartIndexSame(w) ==
    Max({0} \union {c.index : c \in {d \in ToSet(existing') : d.rank = w}})

\* state_dict[w]: where the names of the new chunks start.
StartIndex(w) ==
    Max({0} \union {c.index + 1 : c \in {d \in ToSet(existing') : d.rank = w}})

\* done_till_index: how many samples the chunks of a checkpoint hold.
DoneTill(chunks) == Cardinality(UNION {{k} \X DOMAIN chunks[k].items : k \in DOMAIN chunks})

\* fast_dev_run: the first items of a list only.
FewItems(list) == IF job.fastDev = 0 THEN list ELSE SubSeq(list, 1, Min({job.fastDev, Len(list)}))

\* A job that starts from nothing deletes what an earlier one has left.
Cleans == job.mode = "overwrite" \/ (job.mode = "none" /\ ~job.checkpoint)

\* _load_checkpoint_config: the chunks of the checkpoint of a worker.  Without a
\* configuration no checkpoint is looked at.
Loaded(w) == IF config = "none" THEN << >> ELSE saved'[w]

\* A configuration that is not the current one, or breaks off, is refused.
Unusable == job.checkpoint /\ ~Cleans /\ config = "other"

\* run(): the list of a worker without what its checkpoint says is done.
LeftFor(w, chunks) == FewItems(SubSeq(lists[w], DoneTill(chunks) + 1, Len(lists[w])))

\* _cleanup_cache: what an earlier run left in the caches is removed.
CleanCaches == cached' = {} /\ local' = {} /\ indexed' = {}

\* DataWorkerProcess: the queues of the workers, filled for the downloaders
\* (_collect_paths); no process of theirs has been started.
NewWorkers ==
    LET list(w) == LeftFor(w, Loaded(w))
        share(w, d) == [k \in 1 .. (Len(list(w)) + job.downloaders - 1 - d) \div job.downloaders |->
                           list(w)[(k - 1) * job.downloaders + d + 1]]
    IN  /\ phase' = [w \in Workers |-> "setup"]
        /\ toDownload' = [w \in Workers |-> [d \in Downloaders |-> share(w, d)]]
        /\ downloader' = [w \in Workers |-> [d \in Downloaders |-> "off"]]
        /\ ended' = [w \in Workers |-> 0]
        /\ counter' = [w \in Workers |-> 0]
        /\ toUpload' = [w \in Workers |-> [u \in Uploaders |-> << >>]]
        /\ uploader' = [w \in Workers |-> [u \in Uploaders |-> "off"]]
        /\ toRemove' = [w \in Workers |-> << >>]
        /\ remover' = [w \in Workers |-> "off"]

\* Wrong: the writers know nothing of the chunks of the checkpoints.
NewWritersOnly ==
    /\ pending' = [w \in Workers |-> << >>]
    /\ infos' = [w \in Workers |-> << >>]
    /\ nextChunk' = [w \in Workers |-> StartIndex(w) + DoneTill(Loaded(w))]

\* BaseWorker._create_cache: each worker's writer goes on after its checkpoint.
NewWriters ==
    /\ pending' = [w \in Workers |-> << >>]
    /\ infos' = [w \in Workers |-> Loaded(w)]
    /\ nextChunk' = [w \in Workers |-> StartIndex(w) + DoneTill(Loaded(w))]

\* The processes and queues of a run: nothing has happened yet.
Fresh ==
    /\ numItems' = IF job.source = "queue" THEN -1
                   ELSE FoldSet(LAMBDA w, sum : Len(LeftFor(w, Loaded(w))) + sum, 0, Workers)
    /\ tracker' = [w \in Workers |-> 0]
    /\ errors' = {}
    /\ ready' = [w \in Workers |->
                    IF job.source = "queue" /\ w = 0
                    THEN Append([i \in 1 .. job.items |-> i], AllDone) ELSE << >>]
    /\ CleanCaches /\ NewWorkers /\ NewWriters

\* _assert_dir_is_empty: a local directory is never looked at.
NotEmpty ==
    /\ job.cloud
    /\ \/ index # NoIndex \/ remote # {} \/ config # "none"
       \/ \E w \in Workers : saved[w] # << >>

\* What _assert_dir_has_index_file takes for a dataset: an index file; in a cloud
\* any file, because exists() answers False where an exception is looked for.
Occupied == index # NoIndex \/ NotEmpty

\* A directory that holds a dataset already is refused.
Denied == (job.mode = "none" /\ Occupied) \/ (job.mode = "empty" /\ NotEmpty)

Refuse ==
    /\ main = "start"
    /\ Denied
    /\ main' = "refused"
    /\ UNCHANGED <<jobVars, tracker, errors, phase, queueVars, counter, writerVars, uploadVars,
                   diskVars, outputVars, launchVars>>

\* read_index_file_content: the index to append to.
Existing == IF job.mode = "append" /\ index # NoIndex THEN index ELSE << >>

\* The output directory is cleaned as the mode says.
CleanOutput ==
    /\ remote' = IF Cleans THEN {} ELSE remote
    /\ index' = IF job.mode = "overwrite" THEN NoIndex ELSE index
    /\ saved' = IF Cleans \/ ~job.checkpoint THEN [w \in Workers |-> << >>] ELSE saved

\* The configuration after that.
ConfigLeft == IF Cleans THEN "none" ELSE config

\* A job that cannot be run is refused only now.
RefuseLate ==
    /\ main = "start" /\ job.invalid
    /\ ~Denied
    /\ CleanOutput /\ config' = ConfigLeft
    /\ main' = "refused"
    /\ UNCHANGED <<jobVars, tracker, errors, phase, queueVars, counter, writerVars, uploadVars,
                   diskVars, launchVars>>

\* So is one that does not find the configuration it was started with.
RefuseConfig ==
    /\ main = "start" /\ ~job.invalid
    /\ ~Denied /\ Unusable
    /\ main' = "refused"
    /\ UNCHANGED <<jobVars, tracker, errors, phase, queueVars, counter, writerVars, uploadVars,
                   diskVars, outputVars, launchVars>>

\* The configuration is saved when no worker has a checkpoint to go on from.
Anew == job.checkpoint /\ \A w \in Workers : DoneTill(Loaded(w)) = 0

\* _save_current_config: an exception is only printed.  In a cloud there is no new file
\* then; a local file breaks off when the lists cannot be dumped.
SaveConfig ==
    IF ~Anew THEN config' = ConfigLeft
    ELSE \/ job.json # "raises" /\ config' = job.json
         \/ job.json = "raises" /\ config' = IF job.cloud THEN ConfigLeft ELSE "other"
         \/ job.cloud /\ Fault("upload") /\ config' = ConfigLeft

\* The workers start.
Launch ==
    /\ main = "start" /\ ~job.invalid
    /\ ~Denied /\ ~Unusable
    /\ CleanOutput /\ SaveConfig
    /\ existing' = Existing
    /\ main' = "running"
    /\ Fresh
    /\ UNCHANGED <<jobVars, restarts>>

\* The workers are there: main has not terminated them.
Up == main \in {"running", "joining"}

\* BaseWorker._setup: the processes of a worker start; without downloaders its
\* items go to the queue at once.
Setup(w) ==
    /\ Up /\ phase[w] = "setup"
    /\ phase' = [phase EXCEPT ![w] = "loop"]
    /\ downloader' = [downloader EXCEPT ![w] = [d \in Downloaders |-> "running"]]
    /\ ready' = [ready EXCEPT ![QueueOf(w)] =
                    IF job.downloaders > 0 \/ job.source = "queue" THEN @
                    ELSE @ \o LeftFor(w, infos[w])]
    /\ uploader' = [uploader EXCEPT ![w] = [u \in Uploaders |-> "running"]]
    /\ remover' = [remover EXCEPT ![w] = "running"]
    /\ UNCHANGED <<jobVars, mainVars, toDownload, ended, counter, writerVars, toUpload, toRemove,
                   diskVars, outputVars, launchVars>>

-----------------------------------------------------------------------------
(* The downloaders: _download_data_target. *)

\* Wrong: the item is passed on before its files are there.
DownloadEarly(w, d) ==
    /\ downloader[w][d] = "running"
    /\ toDownload[w][d] # << >>
    /\ ready' = [ready EXCEPT ![QueueOf(w)] = Append(@, Head(toDownload[w][d]))]
    /\ toDownload' = [toDownload EXCEPT ![w][d] = Tail(@)]
    /\ UNCHANGED <<jobVars, mainVars, phase, downloader, ended, counter, writerVars, uploadVars,
                   diskVars, outputVars, launchVars>>

\* An item whose files are all in the cache is passed on; otherwise they are
\* downloaded first.
Download(w, d) ==
    /\ downloader[w][d] = "running"
    /\ toDownload[w][d] # << >>
    /\ LET i == Head(toDownload[w][d]) IN
       /\ cached' = cached \union job.files[i]
       /\ ready' = [ready EXCEPT ![QueueOf(w)] = Append(@, i)]
    /\ toDownload' = [toDownload EXCEPT ![w][d] = Tail(@)]
    /\ UNCHANGED <<jobVars, mainVars, phase, downloader, ended, counter, writerVars, uploadVars,
                   local, indexed, outputVars, launchVars>>

\* The downloader passes the end token on and ends.
DownloadEnds(w, d) ==
    /\ downloader[w][d] = "running"
    /\ toDownload[w][d] = << >>
    /\ ready' = [ready EXCEPT ![QueueOf(w)] = Append(@, None)]
    /\ downloader' = [downloader EXCEPT ![w][d] = "ended"]
    /\ UNCHANGED <<jobVars, mainVars, phase, toDownload, ended, counter, writerVars, uploadVars,
                   diskVars, outputVars, launchVars>>

\* A download raises: the process dies without an end token, nobody is told.
DownloadFails(w, d) ==
    /\ Fault("download")
    /\ downloader[w][d] = "running"
    /\ toDownload[w][d] # << >>
    /\ downloader' = [downloader EXCEPT ![w][d] = "dead"]
    /\ UNCHANGED <<jobVars, mainVars, phase, toDownload, ready, ended, counter, writerVars,
                   uploadVars, diskVars, outputVars, launchVars>>

Running(processes) == \E p \in DOMAIN processes : processes[p] = "running"

-----------------------------------------------------------------------------
(* The worker: BaseWorker._loop. *)

Working(w) == Up /\ phase[w] = "loop"

\* _try_upload puts a file in the queue of the uploader the counter points at.
Turn(w) == counter[w] % job.uploaders

\* What one handled item puts into the queue of its uploader: the chunk that the
\* new sample did not fit in, and a checkpoint that lists all chunks so far.
ChunkMessage(chunk) == [kind |-> "chunk", chunks |-> <<chunk>>]
CheckpointMessages(w) ==
    IF job.checkpoint /\ infos'[w] # << >>
    THEN << [kind |-> "checkpoint", chunks |-> infos'[w]] >> ELSE << >>
EndMessage == [kind |-> "end", chunks |-> << >>]

\* A handled item: it counts, and its input files may go.
Handled(w, i) ==
    /\ counter' = [counter EXCEPT ![w] = @ + 1]
    /\ ready' = [ready EXCEPT ![QueueOf(w)] = Tail(@)]
    /\ toRemove' = [toRemove EXCEPT ![w] =
                       IF job.downloaders > 0
                       THEN Append(@, [kind |-> "inputs", of |-> job.files[i]]) ELSE @]

\* The item the queue of worker w holds next, with its files where they belong.
Next1(w) == Head(ready[QueueOf(w)])
HasItem(w) == Working(w) /\ ready[QueueOf(w)] # << >> /\ Next1(w) > 0
Readable(w) == job.downloaders = 0 \/ job.files[Next1(w)] \subseteq cached

\* The user's function returns None.
Skip(w) ==
    /\ HasItem(w) /\ Readable(w)
    /\ Next1(w) \in job.skips
    /\ Handled(w, Next1(w))
    /\ UNCHANGED <<jobVars, mainVars, phase, toDownload, downloader, ended, writerVars, toUpload,
                   uploader, remover, diskVars, outputVars, launchVars>>

\* A sample that fits in the chunk that is being filled.
AddItem(w) ==
    /\ HasItem(w) /\ Readable(w)
    /\ job.recipe = "optimize" /\ Next1(w) \notin job.skips
    /\ Len(pending[w]) < job.chunkSize
    /\ pending' = [pending EXCEPT ![w] = Append(@, Next1(w))]
    /\ UNCHANGED <<infos, nextChunk>>
    /\ toUpload' = [toUpload EXCEPT ![w][Turn(w)] = @ \o CheckpointMessages(w)]
    /\ Handled(w, Next1(w))
    /\ UNCHANGED <<jobVars, mainVars, phase, toDownload, downloader, ended, uploader, remover,
                   diskVars, outputVars, launchVars>>

\* The writer closes the chunk that is being filled and counts on.
CloseChunk(w, chunk) ==
    /\ infos' = [infos EXCEPT ![w] = Append(@, chunk)]
    /\ nextChunk' = [nextChunk EXCEPT ![w] = @ + 1]
    /\ local' = local \union {Name(chunk)}

\* Wrong: the checkpoint is handed to the uploader before the chunk.
AddItemAndCloseHasty(w) ==
    /\ HasItem(w) /\ Readable(w)
    /\ job.recipe = "optimize" /\ Next1(w) \notin job.skips
    /\ Len(pending[w]) = job.chunkSize
    /\ LET chunk == Chunk(w, nextChunk[w], pending[w]) IN
       /\ CloseChunk(w, chunk)
       /\ toUpload' = [toUpload EXCEPT ![w][Turn(w)] =
                          (@ \o CheckpointMessages(w)) \o <<ChunkMessage(chunk)>>]
    /\ pending' = [pending EXCEPT ![w] = <<Next1(w)>>]
    /\ Handled(w, Next1(w))
    /\ UNCHANGED <<jobVars, mainVars, phase, toDownload, downloader, ended, uploader, remover,
                   cached, indexed, outputVars, launchVars>>

\* Wrong: the sample that did not fit is dropped.
AddItemAndCloseLossy(w) ==
    /\ HasItem(w) /\ Readable(w)
    /\ job.recipe = "optimize" /\ Next1(w) \notin job.skips
    /\ Len(pending[w]) = job.chunkSize
    /\ LET chunk == Chunk(w, nextChunk[w], pending[w]) IN
       /\ CloseChunk(w, chunk)
       /\ toUpload' = [toUpload EXCEPT ![w][Turn(w)] =
                          (@ \o <<ChunkMessage(chunk)>>) \o CheckpointMessages(w)]
    /\ pending' = [pending EXCEPT ![w] = << >>]
    /\ Handled(w, Next1(w))
    /\ UNCHANGED <<jobVars, mainVars, phase, toDownload, downloader, ended, uploader, remover,
                   cached, indexed, outputVars, launchVars>>

\* A sample that does not fit: the full chunk is written and handed to an
\* uploader, and the sample starts the next one.
AddItemAndClose(w) ==
    /\ HasItem(w) /\ Readable(w)
    /\ job.recipe = "optimize" /\ Next1(w) \notin job.skips
    /\ Len(pending[w]) = job.chunkSize
    /\ LET chunk == Chunk(w, nextChunk[w], pending[w]) IN
       /\ CloseChunk(w, chunk)
       /\ toUpload' = [toUpload EXCEPT ![w][Turn(w)] =
                          (@ \o <<ChunkMessage(chunk)>>) \o CheckpointMessages(w)]
    /\ pending' = [pending EXCEPT ![w] = <<Next1(w)>>]
    /\ Handled(w, Next1(w))
    /\ UNCHANGED <<jobVars, mainVars, phase, toDownload, downloader, ended, uploader, remover,
                   cached, indexed, outputVars, launchVars>>

\* _handle_data_transform_recipe: the file the user's function leaves is handed
\* to an uploader.
Transform(w) ==
    /\ HasItem(w) /\ Readable(w)
    /\ job.recipe = "map"
    /\ toUpload' = [toUpload EXCEPT ![w][Turn(w)] =
                       Append(@, ChunkMessage(Chunk(w, Next1(w), <<Next1(w)>>)))]
    /\ Handled(w, Next1(w))
    /\ UNCHANGED <<jobVars, mainVars, phase, toDownload, downloader, ended, writerVars, uploader,
                   remover, diskVars, outputVars, launchVars>>

\* The user's function raises, or its input is gone: the worker reports the
\* error and does no more.
Fail(w) ==
    /\ HasItem(w)
    /\ Fault("fn") \/ ~Readable(w)
    /\ ready' = [ready EXCEPT ![QueueOf(w)] = Tail(@)]
    /\ phase' = [phase EXCEPT ![w] = "failed"]
    /\ errors' = errors \union {w}
    /\ UNCHANGED <<jobVars, main, tracker, toDownload, downloader, ended, counter, writerVars,
                   uploadVars, diskVars, outputVars, launchVars>>

\* An end token that does not end the worker: another downloader still works, or
\* the queue is shared.
PassEnd(w) ==
    /\ Working(w)
    /\ ready[QueueOf(w)] # << >> /\ Next1(w) = None
    /\ ~(job.ordered /\ ended[w] + 1 = job.downloaders)
    /\ ended' = [ended EXCEPT ![w] = @ + 1]
    /\ ready' = [ready EXCEPT ![QueueOf(w)] = Tail(@)]
    /\ UNCHANGED <<jobVars, mainVars, phase, toDownload, downloader, counter, writerVars,
                   uploadVars, diskVars, outputVars, launchVars>>

\* The end token of the last downloader.
LastEnd(w) ==
    /\ ready[QueueOf(w)] # << >> /\ Next1(w) = None
    /\ job.ordered /\ ended[w] + 1 = job.downloaders

\* ALL_DONE, which goes back into the queue for the other workers.
SeesAllDone(w) == ready[QueueOf(w)] # << >> /\ Next1(w) = AllDone

\* Whether somebody may still put an item into the queue of worker w.
Feeding(w) == \E v \in Workers : /\ QueueOf(v) = QueueOf(w)
                                 /\ phase[v] = "setup" \/ Running(downloader[v])

\* FakeQueue.get raises Empty at once, a real queue after a timeout that should be
\* long enough for those who fill it.
TimedOut(w) ==
    /\ ready[QueueOf(w)] = << >>
    /\ ~Feeding(w) \/ Fault("timeout")

\* The worker takes one of these for the end: it writes the rest of its samples,
\* its index and a last checkpoint, and tells its uploaders to end.
Conclude(w) ==
    /\ Working(w)
    /\ LastEnd(w) \/ SeesAllDone(w) \/ TimedOut(w)
    /\ ready' = [ready EXCEPT ![QueueOf(w)] = IF @ # << >> /\ ~SeesAllDone(w) THEN Tail(@) ELSE @]
    /\ LET chunk == Chunk(w, nextChunk[w], pending[w])
           last == IF pending[w] = << >> THEN << >> ELSE <<ChunkMessage(chunk)>>
       IN  /\ IF pending[w] = << >> THEN UNCHANGED <<infos, nextChunk, local>>
                                    ELSE CloseChunk(w, chunk)
           /\ toUpload' = [toUpload EXCEPT ![w] = [u \in Uploaders |->
                 ((@[u] \o IF u = 0 THEN last ELSE << >>)
                        \o IF u = Turn(w) THEN CheckpointMessages(w) ELSE << >>)
                        \o <<EndMessage>>]]
    /\ indexed' = IF infos'[w] = << >> THEN indexed ELSE indexed \union {w}
    /\ pending' = [pending EXCEPT ![w] = << >>]
    /\ phase' = [phase EXCEPT ![w] = "flush"]
    /\ UNCHANGED <<jobVars, mainVars, toDownload, downloader, ended, counter, uploader, toRemove,
                   remover, cached, outputVars, launchVars>>

\* Writing the rest raises: the error is reported, the uploaders are told nothing.
ConcludeFails(w) ==
    /\ Fault("done")
    /\ Working(w)
    /\ LastEnd(w) \/ SeesAllDone(w) \/ TimedOut(w)
    /\ phase' = [phase EXCEPT ![w] = "failed"]
    /\ errors' = errors \union {w}
    /\ UNCHANGED <<jobVars, main, tracker, queueVars, counter, writerVars, uploadVars, diskVars,
                   outputVars, launchVars>>

\* All uploaders have ended; the remover gets its end token.
Flushed(w) ==
    /\ Up /\ phase[w] = "flush"
    /\ ~Running(uploader[w])
    /\ toRemove' = [toRemove EXCEPT ![w] = Append(@, [kind |-> "end", of |-> {}])]
    /\ phase' = [phase EXCEPT ![w] = "sweep"]
    /\ UNCHANGED <<jobVars, mainVars, queueVars, counter, writerVars, toUpload, uploader, remover,
                   diskVars, outputVars, launchVars>>

\* The remover and the downloaders have ended, and so does the worker.
Exit(w) ==
    /\ Up /\ phase[w] = "sweep"
    /\ remover[w] # "running" /\ ~Running(downloader[w])
    /\ phase' = [phase EXCEPT ![w] = "done"]
    /\ UNCHANGED <<jobVars, mainVars, queueVars, counter, writerVars, uploadVars, diskVars,
                   outputVars, launchVars>>

-----------------------------------------------------------------------------
(* The uploaders and the remover: _upload_fn and _remove_target. *)

Message(w, u) == Head(toUpload[w][u])
HasMessage(w, u) == uploader[w][u] = "running" /\ toUpload[w][u] # << >>

\* The names of chunks the remover is asked to delete once the message is served.
Spent(m) == {Name(m.chunks[1]) : x \in {y \in {m} : y.kind = "chunk"}}

\* Upload a chunk, or a checkpoint under its name without the unique id; then
\* the local file may go.
Upload(w, u) ==
    /\ HasMessage(w, u) /\ Message(w, u).kind # "end"
    /\ IF Message(w, u).kind = "chunk"
       THEN /\ remote' = Put(remote, Message(w, u).chunks[1])
            /\ UNCHANGED saved
       ELSE /\ saved' = [saved EXCEPT ![w] = Message(w, u).chunks]
            /\ UNCHANGED remote
    /\ toUpload' = [toUpload EXCEPT ![w][u] = Tail(@)]
    /\ toRemove' = [toRemove EXCEPT ![w] = Append(@, [kind |-> "chunks", of |-> Spent(Message(w, u))])]
    /\ UNCHANGED <<jobVars, mainVars, phase, queueVars, counter, writerVars, uploader, remover,
                   diskVars, config, index, launchVars>>

\* The upload to a cloud raises: the exception is printed, and the local file
\* goes all the same.
UploadFails(w, u) ==
    /\ Fault("upload") /\ job.cloud
    /\ HasMessage(w, u) /\ Message(w, u).kind # "end"
    /\ toUpload' = [toUpload EXCEPT ![w][u] = Tail(@)]
    /\ toRemove' = [toRemove EXCEPT ![w] = Append(@, [kind |-> "chunks", of |-> Spent(Message(w, u))])]
    /\ UNCHANGED <<jobVars, mainVars, phase, queueVars, counter, writerVars, uploader, remover,
                   diskVars, outputVars, launchVars>>

\* The copy to a local directory raises: the uploader dies.
CopyFails(w, u) ==
    /\ Fault("upload") /\ ~job.cloud
    /\ HasMessage(w, u) /\ Message(w, u).kind # "end"
    /\ uploader' = [uploader EXCEPT ![w][u] = "dead"]
    /\ UNCHANGED <<jobVars, mainVars, phase, queueVars, counter, writerVars, toUpload, toRemove,
                   remover, diskVars, outputVars, launchVars>>

\* Wrong: the end token is put back.
UploadEndsNot(w, u) ==
    /\ HasMessage(w, u) /\ Message(w, u).kind = "end"
    /\ UNCHANGED vars

UploadEnds(w, u) ==
    /\ HasMessage(w, u) /\ Message(w, u).kind = "end"
    /\ toUpload' = [toUpload EXCEPT ![w][u] = Tail(@)]
    /\ uploader' = [uploader EXCEPT ![w][u] = "ended"]
    /\ UNCHANGED <<jobVars, mainVars, phase, queueVars, counter, writerVars, toRemove, remover,
                   diskVars, outputVars, launchVars>>

\* Delete files that were uploaded, or inputs that were read.
RemoveFiles(w) ==
    /\ remover[w] = "running"
    /\ toRemove[w] # << >>
    /\ LET m == Head(toRemove[w]) IN
       /\ cached' = IF m.kind = "inputs" THEN cached \ m.of ELSE cached
       /\ local' = IF m.kind = "chunks" THEN local \ m.of ELSE local
       /\ remover' = [remover EXCEPT ![w] = IF m.kind = "end" THEN "ended" ELSE @]
    /\ toRemove' = [toRemove EXCEPT ![w] = Tail(@)]
    /\ UNCHANGED <<jobVars, mainVars, phase, queueVars, counter, writerVars, toUpload, uploader,
                   indexed, outputVars, launchVars>>

-----------------------------------------------------------------------------
(* The main process: DataProcessor.run and DataChunkRecipe._done. *)

\* Wrong: a failed worker is taken for gone at once.
AliveNot(w) == phase[w] \notin {"done", "failed"}

\* A failed worker lives on while processes of its own wait for their end.
Alive(w) ==
    \/ phase[w] \notin {"done", "failed"}
    \/ phase[w] = "failed" /\ (Running(uploader[w]) \/ remover[w] = "running" \/ Running(downloader[w]))

Total(progress) == FoldSet(LAMBDA w, sum : progress[w] + sum, 0, Workers)

\* Raise on the first error and terminate the workers.
ExitOnError ==
    /\ main = "running"
    /\ errors # {}
    /\ main' = "failed"
    /\ UNCHANGED <<jobVars, tracker, errors, phase, queueVars, counter, writerVars, uploadVars,
                   diskVars, outputVars, launchVars>>

\* A progress report; once all items are accounted for the workers are told so
\* and joined, and errors are no longer looked at.
SeeProgress(w) ==
    /\ main = "running"
    /\ tracker[w] # counter[w]
    /\ tracker' = [tracker EXCEPT ![w] = counter[w]]
    /\ IF Total(tracker') = numItems
       THEN /\ main' = "joining"
            /\ ready' = [ready EXCEPT ![0] = IF job.ordered THEN @ ELSE Append(@, AllDone)]
       ELSE UNCHANGED <<main, ready>>
    /\ UNCHANGED <<jobVars, errors, phase, toDownload, downloader, ended, counter, writerVars,
                   uploadVars, diskVars, outputVars, launchVars>>

\* Every worker is gone, and no error is waiting.
AllWorkersEnd ==
    /\ Up /\ \A w \in Workers : ~Alive(w)
    /\ main = "running" => errors = {}
    /\ main' = IF job.recipe = "map" THEN "finished" ELSE "merging"
    /\ UNCHANGED <<jobVars, tracker, errors, phase, queueVars, counter, writerVars, uploadVars,
                   diskVars, outputVars, launchVars>>

\* Wrong: the index files are read in the order they are listed in.
MergedUnsorted == existing \o FlattenSeq([i \in 1 .. job.workers |->
                      IF job.workers - i \in indexed THEN infos[job.workers - i] ELSE << >>])

\* The index: what existed, then the chunks of the workers in the order of the
\* names of their index files.
Merged ==
    LET of(i) == ByName(Workers, i)
    IN  existing \o FlattenSeq([i \in 1 .. job.workers |->
                                   IF of(i) \in indexed THEN infos[of(i)] ELSE << >>])

\* _done: a chunk that is left over means its upload failed.
Merge ==
    /\ main = "merging"
    /\ IF local # {}
       THEN main' = "failed" /\ UNCHANGED index
       ELSE main' = "published" /\ index' = Merged
    /\ UNCHANGED <<jobVars, tracker, errors, phase, queueVars, counter, writerVars, uploadVars,
                   diskVars, remote, saved, config, launchVars>>

CleanCheckpoints ==
    /\ main = "published"
    /\ saved' = [w \in Workers |-> << >>] /\ config' = "none"
    /\ main' = "finished"
    /\ UNCHANGED <<jobVars, tracker, errors, phase, queueVars, counter, writerVars, uploadVars,
                   diskVars, remote, index, launchVars>>

\* All processes are killed, at any time; the job is started again.  What was
\* uploaded stays.
Crash ==
    /\ Fault("crash") /\ restarts < MaxRestarts
    /\ Up \/ main \in {"merging", "published", "failed"}
    /\ main' = "start"
    /\ restarts' = restarts + 1
    /\ tracker' = << >> /\ phase' = << >> /\ toDownload' = << >> /\ downloader' = << >>
    /\ ready' = << >> /\ ended' = << >> /\ counter' = << >> /\ pending' = << >>
    /\ infos' = << >> /\ nextChunk' = << >> /\ toUpload' = << >> /\ uploader' = << >>
    /\ toRemove' = << >> /\ remover' = << >>
    /\ errors' = {} /\ cached' = {} /\ local' = {} /\ indexed' = {}
    /\ UNCHANGED <<jobVars, outputVars, numItems, existing>>

\* They are killed while the configuration is written to a local directory, which
\* then breaks off.
CrashSaving ==
    /\ Fault("crash") /\ restarts < MaxRestarts
    /\ main = "start" /\ ~job.invalid
    /\ ~Denied /\ ~Unusable
    /\ CleanOutput /\ Anew /\ ~job.cloud
    /\ config' = "other"
    /\ restarts' = restarts + 1
    /\ UNCHANGED <<jobVars, mainVars, phase, queueVars, counter, writerVars, uploadVars, diskVars,
                   numItems, existing>>

-----------------------------------------------------------------------------
(* The system. *)

\* No process has been started yet: DOMAIN phase is empty.
Init ==
    /\ job \in Jobs
    /\ lists \in ListsOf(job)
    /\ main = "start" /\ restarts = 0
    /\ remote = ToSet(job.old)
    /\ index = IF job.old = << >> THEN NoIndex ELSE job.old
    /\ saved = [w \in Workers |-> << >>] /\ config = "none"
    /\ numItems = 0 /\ existing = << >>
    /\ tracker = << >> /\ phase = << >> /\ toDownload = << >> /\ downloader = << >>
    /\ ready = << >> /\ ended = << >> /\ counter = << >> /\ pending = << >>
    /\ infos = << >> /\ nextChunk = << >> /\ toUpload = << >> /\ uploader = << >>
    /\ toRemove = << >> /\ remover = << >>
    /\ errors = {} /\ cached = {} /\ local = {} /\ indexed = {}

\* join() waits for a failed worker, whose uploaders wait for an end token: an
\* error after the last progress report stops the program for ever.
Hung == main = "joining" /\ \E w \in Workers : phase[w] = "failed" /\ Alive(w)

Over == main \in {"finished", "failed", "refused"}
Stopped == (Over \/ Hung) /\ UNCHANGED vars

MainStep ==
    \/ Refuse \/ RefuseLate \/ RefuseConfig \/ Launch \/ ExitOnError \/ AllWorkersEnd \/ Merge \/ CleanCheckpoints
    \/ \E w \in DOMAIN phase : SeeProgress(w)
WorkerStep(w) ==
    \/ Setup(w) \/ Skip(w) \/ AddItem(w) \/ AddItemAndClose(w) \/ Transform(w) \/ Fail(w)
    \/ PassEnd(w) \/ Conclude(w) \/ ConcludeFails(w) \/ Flushed(w) \/ Exit(w)
DownloaderStep(w, d) == Download(w, d) \/ DownloadEnds(w, d) \/ DownloadFails(w, d)
UploaderStep(w, u) == Upload(w, u) \/ UploadFails(w, u) \/ CopyFails(w, u) \/ UploadEnds(w, u)

Next ==
    \/ MainStep \/ Crash \/ CrashSaving \/ Stopped
    \/ \E w \in DOMAIN phase :
         \/ WorkerStep(w) \/ RemoveFiles(w)
         \/ \E d \in Downloaders : DownloaderStep(w, d)
         \/ \E u \in Uploaders : UploaderStep(w, u)

Spec == Init /\ [][Next]_vars

\* Every process the scheduler can run goes on; nothing has to crash.
Ids == 0 .. Max({Max({j.workers, j.downloaders, j.uploaders}) : j \in Jobs}) - 1
Fairness ==
    /\ WF_vars(MainStep)
    /\ \A w \in Ids :
         /\ WF_vars(w \in DOMAIN phase /\ WorkerStep(w))
         /\ WF_vars(w \in DOMAIN phase /\ RemoveFiles(w))
         /\ \A p \in Ids :
              /\ WF_vars(w \in DOMAIN phase /\ p \in Downloaders /\ DownloaderStep(w, p))
              /\ WF_vars(w \in DOMAIN phase /\ p \in Uploaders /\ UploaderStep(w, p))
FairSpec == Spec /\ Fairness

-----------------------------------------------------------------------------
(* Properties. *)

Items == 1 .. job.items
Asked == UNION {ToSet(FewItems(lists[w])) : w \in Workers}
Wanted == (IF job.source = "queue" THEN Items ELSE Asked) \ job.skips
NewChunks == SubSeq(index, Len(existing) + 1, Len(index))
Content == FlattenSeq([k \in DOMAIN NewChunks |-> NewChunks[k].items])

\* What data_processor.py gives up: a failed download, upload to a cloud or slow
\* queue is not noticed, nor the death of an uploader of map(), where no index is missed;
\* and a resumed run counts the samples of a checkpoint as if they were the first items
\* of the worker.
Lossy ==
    \/ Fault("download") \/ Fault("timeout")
    \/ Fault("upload") /\ (job.cloud \/ job.recipe = "map")
    \/ /\ restarts > 0 /\ job.checkpoint
       /\ ~job.ordered \/ job.downloaders > 1 \/ job.uploaders > 1 \/ job.skips # {}
          \/ job.mode = "append" \/ job.fastDev > 0

\* The lists share out the items: each item is in one list, once; without weights
\* two lists differ by one item or, aligned, all lists but the last are full
\* chunks; with weights no list outweighs another by more than one item
\* (_map_items_to_workers_sequentially and _weighted, and over all nodes too).
WorkIsSplit ==
    main = "start" /\ job.source = "list" /\ ~job.invalid =>
        \A world \in 1 .. 4 :
        \A l \in {IF world = job.workers THEN lists
                  ELSE Sequentially(job.items, IF job.align THEN job.chunkSize ELSE 0, world)} :
            /\ \A i \in Items :
                 Cardinality({p \in UNION {{w} \X DOMAIN l[w] : w \in 0 .. world - 1} :
                                  l[p[1]][p[2]] = i}) = 1
            /\ \A v, w \in 0 .. world - 1 :
                 IF world = job.workers /\ job.weights # << >>
                 THEN Load(job.weights, l[v]) - Load(job.weights, l[w]) <= Max(ToSet(job.weights))
                 ELSE IF job.align THEN v < world - 1 => Len(l[v]) % job.chunkSize = 0
                                   ELSE v <= w => Len(l[w]) - Len(l[v]) \in {0, 1}

\* A program that ends well has written every sample exactly once, and the index
\* names chunks that are there (BaseWorker._loop, DataChunkRecipe._done), also
\* after crashes.
FinishedComplete ==
    main = "finished" /\ ~Lossy =>
        IF job.recipe = "map"
        THEN \A i \in Wanted : \E c \in remote : c.items = <<i>>
        ELSE /\ ToSet(Content) = Wanted /\ Len(Content) = Cardinality(Wanted)
             /\ ToSet(index) \subseteq remote

\* keep_data_ordered: the samples are in the order of the inputs.  Two downloaders
\* of a worker may overtake each other, weights shuffle, and the index files of more
\* than ten workers are not merged in the order of the workers.
KeepsOrder ==
    /\ main = "finished" /\ ~Lossy /\ job.recipe = "optimize"
    /\ job.ordered /\ job.source = "list" /\ job.downloaders < 2 /\ job.weights = << >>
    /\ job.workers <= 10
    => \A p \in 1 .. Len(Content) - 1 : Content[p] < Content[p + 1]

\* align_chunking: the chunks of lists that are kept in order hold what the chunks
\* of a single worker would hold.
AlignedLayout ==
    /\ main = "finished" /\ ~Lossy /\ job.align /\ job.skips = {} /\ job.fastDev = 0
    /\ job.ordered /\ job.downloaders < 2 /\ job.weights = << >> /\ job.workers <= 10
    => \A k \in DOMAIN NewChunks :
           NewChunks[k].items =
               [i \in 1 .. Min({job.chunkSize, job.items - (k - 1) * job.chunkSize}) |->
                   (k - 1) * job.chunkSize + i]

\* Uploads come in their order, none fails, and the configuration can be saved: without
\* it a run in a cloud starts from nothing beside the checkpoints that are there.
Reliable == job.uploaders = 1 /\ ~Fault("upload") /\ (job.cloud => job.json # "raises")

\* With one uploader a checkpoint never lists a chunk that is not uploaded yet, so
\* that a crash loses no chunk (_try_upload, _upload_fn).
CheckpointBacked == Reliable => \A w \in Workers : ToSet(saved[w]) \subseteq remote

\* What a checkpoint lists is listed by every later one until the index is published:
\* however often the job is killed, started again or refused, no run takes back what an
\* earlier one has done (_load_checkpoint_config, _create_cache, _try_upload).
CheckpointsGrow ==
    [][Reliable /\ job.mode # "overwrite" /\ main # "published"
       => \A w \in Workers : IsPrefix(saved[w], saved'[w])]_vars

\* An error some worker reports keeps the program from ending well, whenever it
\* comes (_exit_on_error).
ErrorsSurface == errors # {} => main \notin {"merging", "published", "finished"}

\* An item that is ready has its input files in the cache, if no two items share a
\* file (_download_data_target, _remove_target).
InputsStay ==
    job.downloaders > 0 /\ (\A i, j \in Items : i # j => job.files[i] \cap job.files[j] = {}) =>
        \A w \in DOMAIN phase : \A i \in ToSet(ready[w]) : i > 0 => job.files[i] \subseteq cached

\* Appending never replaces a chunk that was there (state_dict in optimize).
ExistingKept == job.mode = "append" => ToSet(job.old) \subseteq remote

\* The program ends, or it hangs in the one known way.
ProcessingEnds == <>[](Over \/ Hung)
=============================================================================
