# A TLA+ verification of litData

litData streams datasets from cloud storage: an *optimize* step packs samples into
binary chunks and an index; at training time every data-loader worker reads its share of
the chunks through a bounded local cache. This directory holds TLA+ models of that program,
the TLC configurations that check them and proofs checked by TLAPS. Paths below are relative
to `src/src/litdata/` unless they start with `tests/` or `README.md`.

Contents: 1 inventory of the system, 2 plan, 3 modules, 4 runs, 5 bounds, 6 fairness, 7 proofs,
8 disagreements found, 9 what is not modelled.

## 1. Inventory

| component | state it keeps | operations | talks to |
|---|---|---|---|
| **chunk cache** (`streaming/reader.py`, `config.py`, `downloader.py`, `item_loader.py`) | per worker: three queues (download, delete, force-download), a list of chunks to delete, a pre-download counter, the chunk being read; shared on disk: chunk files, `<chunk>.cnt` lock counts, `<chunk>.lock` download locks | `BinaryReader.read`; the `PrepareChunksThread` loop: forced download, download, eviction; `stop`, `force_stop` | the other workers only through the files; its own thread through queues and an event |
| **item loaders** (`streaming/item_loader.py`) | the open file of a chunk; mappings and views of chunks, counts of loads; tables and row groups | load, pre-load, close, delete | one object, used by a reader and its prepare thread |
| **assignment** (`streaming/shuffle.py`, `utilities/shuffle.py`) | none (pure, cached) | budget per worker, walk over the chunks, shuffle within a node, who deletes a shared chunk last | dataset |
| **subsets** (`utilities/subsample.py`, `train_test_split.py`, `dataset_utilities.py`) | the files of a dataset and the region of interest of each | subsampling, splitting, reading an item of a region | dataset, configuration |
| **opening a dataset** (`utilities/dataset_utilities.py`, `hf_dataset.py`, `parquet.py`, `streaming/dataset.py`) | the folders of a dataset in the cache directory, the index in them | `_try_create_cache_dir`, `index_hf_dataset`, `__init__`, `_create_cache` | the processes of a machine, through the file system |
| **dataset and loader** (`streaming/dataset.py`, `dataloader.py`) | chunk and sample cursors, epoch, saved state; the loader counts samples and remembers the next worker | `__iter__`, `__next__`, `_resume`, `state_dict`, `load_state_dict`, `reset` | assignment, chunk cache; one copy per loader worker |
| **combined and parallel datasets** (`streaming/combined.py`, `parallel.py`) | datasets still alive, weights, samples and cycles per dataset | `__next__`, replay of random choices, state dictionaries | several datasets, the loader |
| **writer** (`streaming/writer.py`, `cache.py`, `sampler.py`) | serialized items by index, the window `_min_index.._max_index`, written chunk infos | `add_item`, `write_chunk`, `done`, `merge`, `save_checkpoint` | one writer per process, merged through index files in the directory |
| **data processor** (`processing/*`, `utilities/packing.py`) | queues between downloader, worker, uploader and remover processes; progress, error and stop queues; checkpoints | `BaseWorker._loop`, `_upload_fn`, `_remove_target`, `DataProcessor.run`, `_load_checkpoint_config` | writer, storage |
| **raw dataset** (`raw/*`) | an index of files, a file cache | item download | storage |
| serializers, compression, encryption, storage clients, command line, pytree | - | byte conversions, input and output | - |

What makes each of them correct, and what is hard about it:

* **Chunk cache.** No chunk is deleted that somebody still has to read; the reader is always
  fed; the disk stays within the limit; threads end. Hard because a worker is two threads, the
  workers coordinate through files without a common lock, deletion is check-then-act, a
  forced download after 30 s races everything else, and one counter is the whole back-pressure.
* **Item loaders.** What has been handed out stays readable. Hard because a tensor points into a
  mapping that either of two threads may close.
* **Assignment.** Every sample goes to exactly one worker (at most one with `drop_last`, the
  same number per rank), in every epoch; the last reader of a shared chunk is the one that may
  delete it. Hard at the boundaries: left-over items, ranks times workers, the second shuffle.
* **Subsets.** Splits are disjoint and have the sizes asked for; nothing outside is read.
* **Opening.** Everybody opens the version that is there. Hard because the processes of a machine
  clear and make one folder without a lock, each twice.
* **Resume.** Interrupting after any number of batches and resuming yields what was not
  yielded. Hard because it replays what the loader is assumed to have done, and because
  settings may have changed.
* **Combined and parallel datasets.** The mix does not depend on interruptions; a cycle has no
  gap. Hard because three copies of one count (loader, wrapper, worker) have to agree.
* **Writer.** The chunks partition the indices in order, whatever the order of arrival.
* **Data processor.** Every item is processed once; a chunk is removed only after it was
  uploaded; a checkpoint only vouches for uploaded chunks; everything ends, errors included.

`PROJECT.json` lists the hazards at their lines, with the properties that cover them.

## 2. Plan

Done:

1. `ChunkCache` with `BoundedPrefetch`, the bounded buffer it promises a worker.
2. `Assignment` with `Budgets`; around it `StreamedSubset` with `Subsets` and `SkipDeletion`.
3. `ResumableLoader`: several workers behind a round-robin loader, stop and resume, with the same
   settings or others.
4. `Processing` with `WorkSplit` and `Calls`: `optimize()`, `map()`, `merge_datasets()`.
5. `MixedLoader` with `MixedCalls`: combined and parallel datasets.
6. `CacheFilling` with `FillCalls`, `DatasetFolder`, `MappedItems`, composed by `DatasetLife`: a
   dataset is written by a `CacheDataLoader`, opened by several processes and read.
7. Proofs about `ChunkCache` (also with prompt downloads), `Assignment`, `WorkSplit`, `Processing`,
   `CacheFilling`, `DatasetFolder` and `DatasetLife`.

Left, in this order:

1. Proofs: that the chunk in hand stays mapped (`InHandUsable`); that a finished job of `Processing` is complete; the split with weights; the walk of
   `Assignment` over a part of a dataset (`StreamedSubset`).
2. `CountLock`: the lock file of a count, its timeout and its removal while held; refines the atomic
   counter `ChunkCache` uses. A second epoch of the PyTreeLoader on one directory.
3. Iteration without worker processes, and leaving a resumed epoch early.
4. The data processor on several nodes; the raw dataset.

Modules that are proved about use recursive functions and folds, no `RECURSIVE` operators.

## 3. Modules

Operators whose comment starts with "Wrong:" are deliberately broken variants of the operator
that follows them. No specification uses them: they show that each property can fail.

### `ChunkCache`

A worker is two processes. Its *reader* is the consumer side of `BinaryReader.read` with
`PyTreeLoader.load_item_from_chunk`; its *thread* is `PrepareChunksThread.run`.

| code | model |
|---|---|
| chunk files at their final path | `onDisk` |
| `<chunk>.cnt` | `lockCount[c]` (0: no file) |
| who holds the `<chunk>.lock` that the directory links | `fileLock[c]` |
| `_to_download_queue` | `Plan[w][taken+1 ..]`, then the end token once the reader is done |
| `_to_delete_queue` | `Plan[w][received+1 .. retired]` |
| `_chunks_index_to_be_deleted` | `Plan[w][evicted+1 .. received]` |
| `_pre_download_counter` | `counter` |
| `_force_download_queue` | `forceQueue` |
| `_force_stop_event` | `reader[w] = "abandoned"` |

The queues are cursors because every one of them receives the chunks of the plan in plan
order: `read` hands chunks over in the order it reads them and `run` moves them in order.

One action stands for one step that other processes can observe: looking at a file, opening it,
raising or lowering a count, taking the download lock, publishing the file, reading the count,
finding the file, removing it, unlinking locks. `Increment` and `Decrement` are atomic because
the code wraps them in a `FileLock` of the count. Reads of the count in `Pop` are not: they happen
without that lock and earlier than `Remove`. `Downloaded` is the tail every download path shares
(raising the counter and going on with the pass). A forced download runs through the same
`Delete`, `Remove`, `Unlock`, `StartFetch`, ... steps with `forced` set, without look at the count.

Abstractions: chunks have size one; the items of a chunk other than the first are served from the
open handle and are one step; a wait is a state with actions that may fire when its timers may
(`SlowDownloads`, `WaitsExpire`), never with clock values; decompression is part of the copy;
`pre_load_chunk` of the PyTreeLoader does nothing. The unused result of `can_delete` is left out.

### `BoundedPrefetch`

What prefetching promises: chunks are fetched in order, at most `Capacity` ahead of consumption,
and only a fetched chunk is consumed. `ChunkCache!Buffer` maps it: *fetched* is the chunks taken
less the one in flight, *consumed* the chunks handed back. It holds when downloads are prompt
and no chunk is shared. With a forced download or a shared chunk it does not: the reader may
then read a chunk its own thread has not fetched yet.

### `Budgets`, `Assignment`

| code (`_associate_chunks_and_intervals_to_workers`) | model |
|---|---|
| `num_items_per_workers` as computed / as it is spent | `Share` / `budget` |
| `zip(indexes, chunk_intervals)` | `order`, with `at` the current chunk |
| `chunk_interval`, cut down by the walk | the samples from `from` on of chunk `order[at]` |
| `rank`, which runs over the workers of all ranks | `rank` |
| `chunks_per_workers`, `intervals_per_workers` | `plan` |
| `_intra_node_chunk_shuffle` and the second walk of `FullShuffle` | `Reshuffle`, then `List` again |

`Share` is a closed form of the loop over the ranks. Every iteration of the `while` loop of the walk
is one of `PassOver`, `SkipEmpty`, `Split`, `TakeWhole` and `Drop`. A shuffle is any order of the
chunks: `List` appends them one by one and so allows more than a seed yields. `Reshuffle` lists one
entry per interval, so that a chunk two workers share appears twice, as in the code. Chunks
are numbered from one, workers from zero.

### `Subsets`, `SkipDeletion`, `StreamedSubset`

`Subsets` has the pure part: `subsample_streaming_dataset`, the cut of a list of regions at a number
of items (`subsample_filenames_and_roi`: `TakeFirst` is what it takes, `LeaveFirst` what it leaves), `train_test_split` and how the
configuration and the loaders turn a place within a region into an item of a chunk. Shares are
counted in quarters, which floats hold exactly. `SkipDeletion` replays, as
`_find_chunks_per_workers_on_which_to_skip_deletion` does, how a loader takes batches from its workers
in turn until a shared chunk is read. `StreamedSubset` composes both with `Assignment`: `Subsample`
and `TrainTestSplit` fix what is read (`whole`, `splits`, `mine`), the walk of `Assignment` deals it out.

### `ResumableLoader`

One rank that iterates with `StreamingDataLoader` over a `StreamingDataset` in several worker
processes.

| code | model |
|---|---|
| `StreamingDataLoader.current_epoch`, `_num_samples_yielded_streaming`, `_latest_worker_idx`, `restore` | `epoch`, `yielded`, `latest`, `restore` |
| `_worker_idx_iter` | `ticker`, its next value |
| the dataset object of the main process: `current_epoch`, `_state_dict` | `dsEpoch`, `dsState` |
| its copies in the workers: `worker_next_chunk_index`, `upcoming_indexes`, `global_index`, `current_epoch` | `worker[w]` |
| the round robin of PyTorch's loader | `turn`, `batch` |
| `shuffle`, `seed`, `batch_size` of the process, and the rest a state is checked for | `settings` |
| `_validate_state_dict` with `force_override_state_dict` | `Accepted`, `RefuseState` |
| the shuffle within a chunk, a function of the seed, the number of chunks, the epoch and the place | `Shuffled`, a rotation by these |

`plan` lists the sizes of each worker's intervals; `MCResumableLoader` takes them from `Budgets`.
`SaveState` happens where the training loop has control: after a batch or between epochs.
`Restart` is a new process, with these or other settings, that loads the last saved state; `Reload`
is the same process going back to it, which keeps its ticker. A state that `_validate_state_dict`
does not accept ends in `RefuseState`. Workers prefetch in the code; as their batches are handed out in the order in which
they were asked for, collecting a batch when its turn comes yields the same samples.

### `WorkSplit`, `IndexNames`, `Processing`, `Calls`

`optimize()` and `map()` on one node, from their arguments on. `Calls` says which calls
`functions.py` and `DataProcessor.__init__` refuse and which *job* the others become; `WorkSplit` how the
items are shared out (`_map_items_to_workers_sequentially` and `_weighted`, `packing.py`);
`IndexNames` in which order the index files of the workers are merged (that of their names, 10 before 2);
`Processing` runs the job.

| code | model |
|---|---|
| `DataProcessor.run` | `main`: `Refuse`, `RefuseLate`, `RefuseConfig`, `Launch`, `SeeProgress`, `ExitOnError`, `AllWorkersEnd`, `Merge`, `CleanCheckpoints` |
| `workers_tracker`, `error_queue` | `tracker`, `errors` |
| `_download_data_target`, one process per downloader | `toDownload`, `downloader`: `Download`, `DownloadEnds`, `DownloadFails` |
| `ready_to_process_queue`, one per worker or a shared one | `ready` |
| `BaseWorker._loop` and `run` | `phase`: `Setup`, `Skip`, `AddItem`, `AddItemAndClose`, `Transform`, `Fail`, `PassEnd`, `Conclude`, `ConcludeFails`, `Flushed`, `Exit` |
| its `BinaryWriter`: serialized items, `_chunks_info`, `_chunk_index` | `pending`, `infos`, `nextChunk` |
| `_upload_fn`, one process per uploader | `toUpload`, `uploader`: `Upload`, `UploadFails`, `CopyFails`, `UploadEnds` |
| `_remove_target` | `toRemove`, `remover`: `RemoveFiles` |
| data cache, chunk cache, index files there | `cached`, `local`, `indexed` |
| output directory: chunks, the checkpoints and `config.json` in `.checkpoints`, `index.json` | `remote`, `saved`, `config`, `index` |
| `_load_checkpoint_config`, `_save_current_config` | `Loaded`, `Unusable`, `RefuseConfig`; `Anew`, `SaveConfig` |
| a kill of everything and a second call | `Crash`, `CrashSaving` |

One action is one message taken from a queue, with all a process does for it: an item that closes a
chunk writes the chunk, hands it to the next uploader and with checkpoints hands over a checkpoint, in
the order of the code. A worker that fails reports its traceback and no more; it stays *alive* as long
as its own child processes do, because `join()` of the worker waits for them. A shared queue holds one
end marker that every worker takes and puts back. `Lossy` names what the code gives up, so that no other loss hides
behind it: a download, an upload to a cloud or a slow queue that nobody notices, and checkpoints that
count samples where items are meant (`done_till_index`).
`config.json` holds the lists of the workers. It is written when no worker has a checkpoint to go on from, and an exception on
the way is only printed; what a second run finds is the `same`, or `other`: lists that do not read back as they were, because tuples come back as
lists, or a local file that breaks off, because the lists cannot be dumped or because the program is killed meanwhile. The second run then goes on from the checkpoints, is
refused (`RefuseConfig`), or without a configuration looks at no checkpoint (`Loaded`). The number of workers is that of the first run.
Merging (`merge_datasets`) is an operator, `MergeDatasets`; an `ASSUME` checks it and the result is the
index one job appends to.

### `MixedLoader`, `MixedCalls`

A `StreamingDataLoader` over a combined or a parallel dataset, in one or two worker processes.
`MixedCalls` says which wrappers and loaders are refused and what the others start with.

| code | model |
|---|---|
| `_num_samples_yielded_wrapper`, `_num_cycles` of the loader, by worker | `tally` |
| the counts the wrapper holds, which may be the very same object | `held`, `aliased` |
| `_CombinedDatasetIterator`, `_ParallelDatasetIterator` in a worker | `worker[w]`: `TakeOne`, `TakeEach`, `RunsOut`, `Stop` |
| `rng.choices` with the weights | `Pick`: the `n`-th number falls into the part of a dataset; the numbers are a fixed sequence of `Grain` grains, which `Drawn` replays |
| `_get_dataset_index` for `stratified` and `per_stream` | `Choice` |
| `set_epoch`, `update_epoch_counters`, `_state_dict` of the wrapped datasets | `EpochsSet`, `EpochsCounted`, `dsEpoch`, `dsState` |
| `state_dict`, `load_state_dict`, `add_dataset` before loading | `SaveState`, `Restart`, `StatesLoaded`, `LoadRefused` |
| a cycling dataset that goes on in the next epoch | `GoOn` |
| `len(loader)`, which deals all datasets out again | `AskLength` |

A wrapped dataset is a number of samples; where it stands in a worker is what that worker has
yielded of it, because `ResumableLoader` shows that to determine the rest.

### `CacheFilling`, `FillCalls`

The first epoch of a `CacheDataLoader`. `left` is what the sampler still gives each worker; `items`,
`low`, `high`, `count` and `chunks` are the fields of its `BinaryWriter`. `Add` is `add_item`, with the scan of
`_create_chunk` it may set off (`Scan`); `AddRefused` the check of `CacheDataset` that an item comes out
the same twice; `Done`, `DoneFails` and `WriteIndex` are `done()`; `Merge`, `Publish` and `SeeIndex` are the two
sides of `merge()`; `Merged` takes the index files in the order of `IndexNames`; `Kill` is the loader's patience with slow workers; `Leave` a training loop left early;
`Deal` the shuffle of the second epoch by `CacheBatchSampler`. `FillCalls` has the refusals of
`CacheDataLoader` and the limits it hands to the writer.

### `DatasetFolder`

The processes of a machine open a dataset, in `__init__` and again in `_create_cache`: every call into the
file system is a step. `Stamp` reads the time the dataset was written, `Look`, `List`, `Clear`, `Rmdir`, `Make` and
`Mkdir` are `_try_create_cache_dir` and `_clear_cache_dir_if_updated`; `Fetch` and `Copy` get the index; `Load`,
`Touch` and `Configure` are `load_index_file`, the `Cache` and `ChunksConfig`; `StartIndexing` to `Placed` are
`index_hf_dataset`. `Withdraw` and `Publish` write the dataset again.

### `MappedItems`

`TokensLoader` and `ParquetLoader`, shared by the reader and the prepare thread of a worker. `Count`, `Map`
and `View` are the three statements of `_load_chunk`, each of which the other thread may come between;
`CloseBuffer` and `CloseMapping`, `DeleteBuffer` and `Delete` those of `close` and `delete`. `mapped` has the mappings of the
operating system, `batch` the tensors that point into them. What decides whether a chunk may go (size of
the cache, locks of others) is left open: `ChunkCache` models it.

### `DatasetLife`

Composes the three: when all ranks of one job have read the index they wrote, the processes of
`DatasetFolder` may open that dataset, and when all have, a worker reads it as `MappedItems` says. Each
phase stands on the end of the one before, and does not go back into it.

### `MCChunkCache`, `MCAssignment`, `MCResumableLoader`, `MCProcessing`, `MCMixedLoader`, `MCDatasetLife`; `ChunkCacheProofs`, `AssignmentProofs`, `MixedLoaderProofs`, `ProcessingProofs`, `SequenceProofs`, `DatasetFolderProofs`, `MappedItemsProofs`, `DatasetLifeProofs`

Instances for TLC and theorems for TLAPS. `SequenceProofs` has what several proofs need of numbers, sequences and sums.

## 4. Runs

| run | instance | checks | shows |
|---|---|---|---|
| `cache_prompt` | 2 workers, 3 chunks each, room for 4, prefetch 2 | `CountExact`, `PrefetchedStays`, `NobodyFails`, `CacheWithinLimit`, `EpochEnds`, `ImplementsBuffer` | the design works when downloads are prompt and chunks are not shared |
| `cache_shared` | 2 workers sharing a chunk, cold or warm directory, everything may be slow | `CountBacked`, `OwnDeletesConsumed` | what survives sharing, races and forced downloads |
| `cache_slow` | 1 worker, prefetch 1, slow downloads, may be abandoned | `PrefetchWindow`, `EveryWaitEnds`, `ForceStopEndsThread` | the prefetch window survives any number of forced downloads; the forced download unblocks a thread whose budget has leaked away; a dropped reader ends its thread |
| `cache_held` | 2 workers sharing a chunk, prompt | `HeldChunkStays` violated | section 8 |
| `cache_limit` | 1 worker, 6 chunks, room for 4, prefetch 4 | `CacheWithinLimit` violated | section 8 |
| `cache_stop` | 1 worker, prefetch 2, slow downloads | `StopEndsThread` violated | section 8 |
| `assign` | 2 or 3 chunks of up to 4 samples, some empty, in any order; up to 4 workers on 1 or 2 nodes, batches of 1 to 3; subsamples and splits of them | `NothingTwice`, `RanksAgree`, `WorkersInStep`, `SplitsDisjoint`, `SubsetRead`, `LastReaderDeletes` | the walk hands out each sample at most once, with `drop_last` evenly and losing less than a batch per rank, in the rhythm the loader takes batches; what it hands out is the subset that was asked for; one worker is left to delete a shared chunk |
| `resume` | last rank of 1 or 2, 1 to 3 workers, about 5 samples per rank cut into up to 2 intervals each, batches of 1 or 2, two epochs, two restarts, with settings that may change | `SameSamplesResumed`, `EpochsAreWhole` | interrupted anywhere, the epoch goes on exactly as it would have, if the state was saved before the epoch was resumed |
| `resume_twice` | the same | `NothingRepeated` violated | section 8 |
| `optimize` | 35 calls, whose items are shared out in 39 ways: up to 6 items, up to 2 workers, downloaders and uploaders, killed at most once | `WorkIsSplit`, `FinishedComplete`, `KeepsOrder`, `AlignedLayout`, `CheckpointBacked`, `ErrorsSurface`, `InputsStay`, `ExistingKept`, `CheckpointsGrow`, `ProcessingEnds` | a job that ends well has written every sample once and in order; a checkpoint vouches for uploaded chunks, and what it lists is never taken back; errors surface; the program ends, or hangs in the one way of section 8 |
| `mixing` | 35 calls, 29 jobs: two or three datasets of up to 8 samples, 1 or 2 workers, every method and length | `EpochWhole`, `MixResumed`, `OneStreamBatches`, `CyclesContinue` | the mix goes on after a restart with the draw that is due, with the premises the properties name |
| `filling` | 27 calls of `CacheDataLoader`, one of whose datasets is opened in 18 ways and read in 10 | `IndexWhole`, `ChunksReadOnce`, `NeverStale`, `Undisturbed`, `InHandUsable`, `FillingEnds`, `OpeningEnds` | a dataset from its writing to its reading |

| run | distinct states | time (2 workers) |
|---|---|---|
| `cache_prompt` | 26 691 | 3 s |
| `assign` | 559 673 | 16 s |
| `resume` | 2 780 938 | 48 s |
| `optimize` | 414 053 | 76 s |
| `mixing` | 298 019 | 19 s |
| `filling` | 261 274 | 60 s |

The cache runs check deadlock: `Quiet` is the only way for the system to stop, and it
requires every reader and every thread to have ended. So does `assign`, which ends in `Settled`, and
`optimize`, which ends in `Stopped`: `Over`, or the one known way to hang (`Hung`).
The loaders may stop after their last epoch with nothing saved, and a process that opens a dataset may
wait for one that failed: those runs do not check deadlock. Type invariants are parts of the inductive
invariants of section 7 rather than of the runs.

## 5. Bounds

**Chunk cache.** Plans have three chunks per worker (two when shared): enough for one chunk being read, one
prefetched and one to evict, so every queue is longer than one at some point; the budget and the
cache limit are reached in every run. Two workers are enough for every race between them: each
property relates a worker to one other. Shared plans meet in one chunk, the last of
one worker and the first of the next, as the assignment produces them. `PrefixPattern` lets
one chunk's lock pattern match all locks, as `chunk-0-1*` does with eleven chunks. No counter needs
a bound: a reader sends one forced request per wait, and the plans are finite.

**`assign`.** Three chunks of up to four samples and four workers give chunks that span no, one, two or
three boundaries, budgets of zero, chunks without samples, both kinds of remainder (batches
that do not divide evenly among the workers, samples that do not fill a batch per rank) and
second walks over duplicated chunks. The eight requests for a part of a dataset cut a chunk in its middle,
take a dataset more than once (shares above one), split a subsample, and leave a split empty.

**`resume`.** Two epochs (`MaxEpochs`) are needed for a stale epoch to
matter, two restarts of one epoch (`MaxRestarts`) for a state saved by a resumed loader; the jobs
have rounds that are complete, incomplete, and end in a partial batch, workers
without samples, and intervals a resume ends in, between and past; the changed settings are each of
those a state is checked for, and the one (`batch_size`) it is not.

**`optimize`.** Every argument that changes the control has a call. Up to six items and two workers make
chunks that are full, partial and, for a worker without items, none; two chunks and a rest per worker
let a checkpoint be one chunk behind. A job is killed at most once (`MaxRestarts`): what a second run
leaves behind is what a first one may leave, but for the number of chunks. `Cpus` is only the default for workers.

**`mixing`.** `Grain` 6 divides the weights of the instances without rest, so a part of the weights is a set of
grains. Three epochs (`MaxEpochs`) let a cycle that is not a divisor of an epoch come out at every place,
and a restart fall into an epoch that began in the middle of one; `MaxBatches` 8 only cuts off epochs of
infinite length; two restarts (`MaxRestarts`) as in `resume`.

**`filling`.** Up to ten items and three ranks or four workers: batches that do not divide the shares, the
shares that do not divide the dataset, items larger than a chunk, workers and ranks without items. A
dataset is written again once more than the cache knows (`MaxVersions` 3), by two or three processes.
The mapped chunks are read in three epochs (`MaxEpochs` in `MappedItems`): what the first leaves loaded or miscounted
matters in the second, and what is closed too early there is read in the third. With two, nothing could be seen of the
last finding of section 8 about mapped chunks. `MaxPreDownload` is the code's default of 2.

## 6. Fairness

Nothing here is fair but what an operating system schedules anyway.

* `ChunkCache`: the reader and the thread of a worker, each a thread that only ever waits with a timeout,
  keep taking steps (weak fairness of `ReaderStep(w)` and `ThreadStep(w)`). Nothing obliges the program to drop a
  reader, so `Abandon` is not fair. Weak fairness of the reader as a whole also makes a reader that can
  time out do so or find its file. `EveryWaitEnds` is checked without expiring waits: no reader is
  saved by its exception.
* `Processing`: each of the main process, the workers, downloaders, uploaders and removers goes on. `Crash` is not
  fair, and neither is any fault: a step of a process may be one that fails or one that does not.
* `CacheFilling`: rank 0's merge, each worker and each rank go on. `Kill` and `Leave` are not fair, nor is
  the second epoch (`Deal`).
* `DatasetFolder`, in `DatasetLife`: each process that opens the dataset goes on. `Withdraw` and `Publish` are not fair.
* `MixedLoader`, `ResumableLoader`, `Assignment` and `MappedItems` are checked for safety only.

## 7. Proofs

`ChunkCacheProofs` proves, for all constants that satisfy `PlanAssumption` and `SizeAssumption`:

* `TypeCorrect`, `PrefetchBounded` and `DeletesOnlyConsumed` from one inductive invariant `IInv`.
  `PrefetchWindow` alone is not inductive: whether `Take` may go on is decided by `counter`, so the
  invariant says how the counter relates to the cursors (`BudgetInv`: what was taken and not received
  is counted, but for the chunk in hand; forced downloads only add), what the thread has in
  hand (`TargetInv`) and how far the reader has handed over (`ReaderInv`). That the counter is
  positive whenever a chunk is given back needs both halves of `BudgetInv`.
* `CountsAreBacked`: the count of a chunk never exceeds the number of workers that asked for it.
  An increment adds its worker to the markers, which it was not among because the chunks of a plan
  are distinct; nothing else raises a count.

Its second part proves what the run `cache_prompt` checks, for any number of workers and chunks and any plans. Its
theorems are implications: each names the circumstances it needs, and no more of these.

| hypothesis | what it says | why it is needed |
|---|---|---|
| `PromptDownloads` | no wait of a reader outlasts `_FORCE_DOWNLOAD_TIME` | a forced download deletes without a look at the count and adds to the budget for good (`cache_slow`, `cache_stop`) |
| `OwnChunks` | no two workers read the same chunk | deletion is check-then-act between workers (`cache_held`) |
| `ColdStart` | no chunk of a plan is in the cache when the epoch starts | a reader reads a chunk that is there before its thread has counted or fetched it |
| `EmptyCache` | the cache is empty | files of no plan count against the limit too |
| `Balanced` | `delete_chunks_when_processed`, a prefetch of at most 2, room for that many chunks per worker | the run `cache_limit` |

* `NothingPrefetchedIsLost` needs only the first: what a thread has prefetched and nobody else reads is on disk
  until it is consumed. `PrefetchedStays` needs no strengthening but `IInv` once nothing is forced (`NothingForced`) and
  whoever holds a download lock is downloading (`LocksHeld`): two downloads of one chunk would publish it twice.
* `HeldStaysUnshared`: the property that `cache_held` refutes holds when nothing is shared.
* `NoWorkerFails`: no reader opens a file that is gone, no thread removes one. Also chunks that
  were in the directory before are only deleted by their worker's thread, after its reader has handed them back (`SeenStays`).
* `CountsAreExact`: `CountExact` is inductive only per worker and place of the plan, as `CountInv`: the count of the i-th
  chunk of a worker is one exactly from its marking to its hand-back.
* `BufferImplemented`: every step of `ChunkCache` is one of `BoundedPrefetch` or a stutter under the mapping
  `Buffer`. A reader consumes only what was fetched because it waits for the file, and there is none before (`FetchInv`).
* `LimitKept`: `WindowInv` says how many chunks the counter stands for at every place of the thread, so that the files of a
  worker lie in a window of its plan as long as the prefetch: a thread gives no chunk of its budget back before it
  has deleted one.

`AssignmentProofs` proves, for all chunk sizes that are natural numbers and all layouts with positive
nodes, ranks, workers and batch sizes:

* `AssignmentTypeCorrect`. What is left over for the last rank is not negative (`BatchesFit`, integer
  division), so every budget is a number (`ShareType`); every interval is a non-empty part of its chunk.
* `NoSampleTwice`: samples of a chunk that is listed once are not given out twice. `NothingTwice` alone
  is not inductive. `CutInv` adds that of the current chunk nothing above `from` has been given, and
  `ReachInv` that all intervals belong to chunks of the list up to `at`; then a `Split` or
  `TakeWhole` gives an interval that begins where the others end (`GiveFacts`), and the next
  chunk, if listed once, has no interval yet (`NextChunkFacts`).
* `EverySampleDealt` (`RanksAgree`), in both walks. Two sums have to be related: what the ranks are due and what the
  chunks hold. `RankSum` and `TotalSum` add up the shares by induction over the workers; `ItemsInv` says
  that `items` is the sum of the listed chunks. `SpendInv` then follows the walk: a worker has been given what its
  budget has lost, the workers that were passed over have spent theirs, and what is left of the list is enough for the
  budgets that are left. So every budget is spent at the end (`AllSpent`), and what a worker was given is its share (`GivenToIs`).
* `RankInStep` (`WorkersInStep`) compares the shares of two workers of a rank: their places in it (`PlaceOf`) differ in at most
  one batch.
* `SplitsApart` (`SplitsDisjoint`), for all requests that are as `RequestAssumption` says: any subsample of any dataset, shuffled
  or not, also one larger than the dataset, and any shares that sum to no more than one. What is taken of a list of regions
  has the size asked for (`TakeFacts`), what is left has the rest (`LeaveFacts`); the cumulated sizes of both are those of
  the list up to or from the cut (`CumSumShift`). If no chunk occurs twice, an item that was taken is in no chunk that is left, or
  before the cut (`PartsApart`), so over a row of shares what is left only shrinks (`LeftoversFacts`, by induction). The shares
  are rounded down, so they never ask for more than is left (`CountsFit`). A shuffle keeps items and sizes (`OrderFacts`), and
  a subset that is in the order of its index is what `train_test_split` lists again from the index (`OrderKept`).
* `EverySubsetRead` (`SubsetRead`), for the same requests. That as many samples are dealt as there are does not say which, so
  `WalkedInv` follows the walk closer: without `drop_last` the budgets that are left are exactly what is left of the list (`ExactInv`), so
  nothing is passed over, and every sample of a chunk behind the current one, and below `from` in it, is somebody's (`CoverInv`); in the first walk each
  chunk is listed once (`FirstInv`). At the end every sample of every chunk is had, and the one that sample i of a chunk
  stands for (`Read`) is item i of its region (`IntervalFacts`, `ReadFacts`). Place by place, `Access` finds the one region in whose
  cumulated sizes the place lies (`PlaceFacts`), so the places up to the size of the subset give the same items (`PlacesGiveItems`).
* `SubsetDealt` carries `NothingTwice`, `RanksAgree` and `WorkersInStep` over to the specification the run `assign` checks.

`ProcessingProofs` proves, for every job that is as `JobAssumption` says (the first two theorems for any):

* `ErrorsAlwaysSurface`: main never merges, publishes or finishes while an error of a worker waits, also not
  after it has stopped reading the error queue. `ErrorsSurface` is not inductive, because `AllWorkersEnd`
  looks at processes, not at errors. The invariant says why a failed worker is still alive then: its
  remover runs, and its queue holds no end token (`RemoverInv`), because only `Flushed` puts one in,
  which a failed worker never reaches. So the program rather hangs than takes a failure for a success.
* `CheckpointsAreBacked` and `AppendKeepsAll` (`CheckpointBacked`, `ExistingKept`) from one invariant, `OutInv`, about
  where the name of a chunk can be. Names are numbered from `Start`, where the checkpoint or the dataset appended to ends, so none is among those that were
  there. A chunk is in the list of its writer before it is in a message, and the messages of a worker with one uploader
  form one pipe, in the order of the writer: a checkpoint that leaves it finds all chunks it lists uploaded. `Reliable` is
  this premise: one uploader, because with several the checkpoint may overtake its chunks, whose uploads do not fail, and in a cloud a configuration that can be
  saved. Where there is a checkpoint there is a configuration then (`ConfigInv`), so a run that goes on has loaded all that
  is saved; otherwise one in a cloud would begin anew beside it.
* `CheckpointsOnlyGrow` (`CheckpointsGrow`) from the same pipe: what is saved for a worker, then the checkpoints that wait to be
  uploaded in their order, then what its writer lists, each extend the one before (`Rising`, `GrowInv`). A checkpoint that is uploaded
  extends the saved one because it was the next of the row. A job that is started again extends what is saved because its writer
  begins with it; one that is refused changes nothing. The two invariants meet in that restart: what is loaded is what is saved.
* `InputsAlwaysStay`: `InputsStay` for the jobs without weights. The remover deletes what a message names, whoever else may
  need it; so the invariant (`FetchInv`) has every item at one place of all the queues at most (`WaitOnce`, `OfferedOnce`), and
  an item whose inputs were handed to the remover at none (`RemovedDone`). That they begin so is the split, dealt out to the
  downloaders (`SpreadOut`), behind what a checkpoint says is done.
* `OrderIsKept` (`KeepsOrder`): after kills, restarts and failed uploads the dataset holds the samples in the order of
  the inputs. What a worker has written are items of its list up to one, in their order (`Taken`); those behind come
  one by one, first in the queue and then in the downloader (`Coming`). A place in the list is only right after a restart if the samples a
  checkpoint counts are a prefix of the list without gaps, so as long as no item may be left out that is kept for every checkpoint, also for those that
  wait in a message (`Sound`, `QueueSound`). The chunks of the workers are published one worker behind the other, for ten workers
  at most (`NamesOfTen`), and sequences that are in order, each behind those before it, are in order when flattened (`FlatSorted`).
* `ItemsAreSplit`: `WorkIsSplit` for the jobs without weights, from the theorems about the split, for this node and for up
  to four.

It begins with the split without weights (`WorkSplit`), for any numbers of items and workers:

* `EveryItemOnce`: each item is at one position of one list. The starts of the lists ascend from 0 to the
  number of items (`FirstItemFacts`), so an item lies between two of them (`SomeWorker`, the worker found
  by division), and the lists are the ranges between (`RangeFacts`).
* `FullChunksButLast` (with `align_chunking`) and `EvenSplit` (without): the layout of `WorkIsSplit`.

`DatasetFolderProofs` proves, for all jobs that are as `OpenJobAssumption` says, any number of processes and any
versions up to `MaxVersions`:

* `FolderNeverStale`. `NeverStale` alone is not inductive. Two things have to be added. `FolderInv`: a
  sub-folder may hold an index that is later than the version it is named after, if the dataset was written again between the look at its time (`Stamp`) and
  the copy, but never an earlier one nor one later than the dataset. `ProcInv`: as long as nobody has written the
  dataset, the name of a process that has looked is the version that is there. Both bounds then meet in
  `FoundNow`. Who clears the folder does not matter: it only takes indexes away.
* `FolderUndisturbed`: whether a process is left in peace depends on all the others, so `Undisturbed` needs more. A process that
  has met no other is alone at it (`Alone`), and the folder holds what its place in the program says (`Works`);
  a folder with one sub-folder, of the name that will be asked for, and an index in it is `Steady`, and nobody changes it. `CalmInv` puts these together for each kind of dataset.

`DatasetLifeProofs` begins with `CacheFilling` and proves, for all jobs that are as `JobAssumption` says, so any sizes of items, any batches, ranks and workers:

* `FillingWhole` (`IndexWhole`). Nothing follows from what the index looks like when it is merged; the invariant (`FillInv`) follows each
  writer. The items of its range are left, held or written (`PartsOk`). What it has counted is a run of
  what it holds (`ScanOk`), so a chunk that is closed is a run, which `AddedFacts` shows for every way of adding an item. That these runs follow one
  another (`PlacedTo`) is not inductive: in a batch that comes in any order and does not fit, a chunk may be closed
  behind an item that is still missing. Then a written item lies between one that is missing and one that waits (`Overtaken`), and
  stays there until `done()` finds a gap in what it holds and fails; so a writer that leaves an index has
  written its whole range. `Merged` puts the ranges one after the other (`ByName` is the identity for ten writers at most), and `Start`
  and `End` make them the whole dataset.
* `FillingReadOnce` (`ChunksReadOnce`). Nobody draws an order before the index is published, and it does not change after (`DealInv`). An
  order is a bijection of the chunks (`OrderFacts`), so a chunk is at one place of it, and the place determines rank and worker.

The lemmas about `FlattenSeq` (`FlatAppend`, `FlatConcat`, `FlatSorted`, in `SequenceProofs`) rest on its recursive function alone.

`MixedLoaderProofs` proves, for all jobs that are as `JobAssumption` says, any weights, draws, epochs and restarts:

* `MixedOneStream` (`OneStreamBatches`). What a batch holds says nothing of the next one, so the invariant (`StreamInv`) follows
  the count in each worker: `inBatch` counts how often the current dataset was asked, and as long as each
  of these gave a sample it is the length of the batch (`Begun`). From then on it need not be: a dataset that
  has run out was asked for nothing. That one has run out is seen from a sample that was its worker's last (`LastOne`), in
  the batch in hand or one that was given, which is where `PartOf` must agree with where the worker stopped (`WorkerInv`). A worker
  that starts again counts from none (`BegunAnew`), so saving and resuming do no harm, even if they lose the count.

`MappedItemsProofs` has the inductive invariant of `MappedItems`, `MappedInv`, for all jobs that are as `ReadJobAssumption` says:

* What is in the batch is only safe because of what the mapping under it is, and that depends on who counts what. `WalkInv` and
  `EpochInv` say where reader and thread are in an epoch; `RelInv`, that only a chunk the reader has left, or is leaving, is asked
  to be deleted; `HereInv`, that a chunk that is being read or loaded is there. The count of a chunk is
  then at least one while the reader is in it, and two while the thread loads it as well (`CountInv`), so a close that
  finds 0 closes what nobody loads (`UnmapInv`). Views and items are of mappings that are open (`BufInv`, `ItemInv`), because
  the reader goes through the chunks in order (`OrderInv`).
* Where chunks are deleted the counts are only right in the first epoch (`Trusted`). In the second a chunk may be closed too early, but
  only one that has been read: what is still to be read has views of open mappings (`Sound`). Hence `Counted`, which stops before the
  third epoch; that this may then fail is a finding of section 8.

`DatasetLifeProofs` carries these over to the composition, the specification the run `filling` checks:

* `LifeNeverStale` and `LifeUndisturbed`. Its initial states map to those of `DatasetFolder`, and every step of
  `LifeNext` to a step of it or to a stutter, so the invariant of `DatasetFolderProofs` holds there.
* `LifeIndexWhole` and `LifeChunksReadOnce`: likewise for `CacheFilling`, which those that open and read the dataset leave alone.
* `LifeInHandUsable` (`InHandUsable`), for `MappedItems`: its module is taken twice, with the specification and with the proofs, so
  the two are shown to say the same first, action by action (`SameReadingNext`), as for `DatasetFolder`.

Induction is possible over sets of numbers and finite sets: `SequenceProofs` has a least element (`SmallestIn`), `Induct` and
`FiniteInduct`, proved from the well-foundedness of the orders, and with them what a sum over a finite set is (`SumTakeOut`,
`SumUnion`, `SumChanged`). The induction theorems of the library, which take an operator, cannot be used.

Out of the prover's reach and left to TLC: liveness under fairness.

Only model-checked so far, because it has not been done: `LastReaderDeletes` of `StreamedSubset` (sums over the plans of all workers), what a finished job of `Processing` has written all of (`FinishedComplete`, `AlignedLayout`; that it is in order is proved), the
weighted split, and `ResumableLoader` and the other properties of `MixedLoader`, in which the position of a worker is a sum over a prefix of its plan and
the replay of draws a recursion over them.

## 8. Disagreements with comments, docs and tests

With a run of their own:

* **Held chunks** (`cache_held`). `_apply_delete` reads the count, then removes the file
  (`streaming/reader.py:145-152`); a worker that finds the file and raises the count in between loses
  the chunk it asked for, despite "Can't delete this, something has it". The skip-deletion map, whose
  docstring promises that only the last reader deletes a shared chunk, is computed and never consulted
  (`can_delete_chunk` is unused).
* **Cache limit** (`cache_limit`). Whether a consumed chunk goes is decided once, when it is
  received, from the counter; one that is kept waits for the next. Five chunks then sit in a cache
  of four although four may be prefetched. With the default prefetch of 2, which
  `tests/streaming/test_reader.py` uses, the limit holds.
* **End token** (`cache_stop`). Every forced download adds one to the pre-download counter for good.
  Once it has reached the limit the thread no longer reads the queue that holds its end token.
* **Stale epoch** (`resume_twice`). `state_dict` of a resumed dataset overwrites the epoch in the very
  dictionary it was resumed from (`streaming/dataset.py:579`) with the epoch the object in the main
  process remembers: 1 in a new process. It is enough to load a state of epoch 2 and save it once before or
  after the next batch: the next resume shuffles the chunks as in epoch 1, so samples repeat and others are
  never seen. Two more things go wrong only with states saved after a resume: loading, saving and
  loading without a batch in between starts at a wrong worker (`streaming/dataloader.py:777`
  adds one each time), and a loader that goes back while it is resuming to a state of the
  finished epoch resumes that epoch (`restore` is never unset by `load_state_dict`). `SavedBeforeResuming`
  is the premise that leaves all three out.

Met while modelling, without a run. The premises of the properties leave them out, by these names:

* Assignment: the docstring of `FullShuffle` says at most as many items as ranks are lost, which is so for a
  batch size of one only (`RanksAgree` bounds it by a batch per rank). A chunk that is split between workers
  in the first walk is dealt out twice in later epochs of several nodes, which
  `tests/streaming/test_dataset.py:461` accepts (`ListedOnce`). The last reader is not found when an interval is shorter than
  a batch (`LongIntervals`), and `first_rank_this_node * num_workers_per_node` (`streaming/dataset.py:394`)
  selects the wrong workers on every node but the first, unless a node has one rank.
* Subsets: `train_test_split` of a subsample that was shuffled pairs chunks with the regions of others (`Plain`).
* Resuming: overriding the seed of a state warns that it may change the samples, but the state is read with its own.
* Data processor. `fast_dev_run=True` keeps one item; `_DEFAULT_FAST_DEV_RUN_ITEMS` is unused. `optimize()` ignores `weights`.
  `align_chunking` only deals whole chunks into the lists of the workers; with `keep_data_ordered=False` they take the items
  from one queue all the same (`processing/data_processor.py:550`), with more than ten workers the chunks of worker 10
  come before those of worker 2 even if the order is kept (`streaming/writer.py:502`, `KeepsOrder`), and a chunk before the last need not be full, despite the
  docstring (`processing/functions.py:432`). A split by file size (`data_processor.py:1269-1274`) ignores it as well
  (`AlignedLayout` is about lists that are kept in order and not weighted).
  A tuple as `inputs` is accepted, and refused by `run` after `overwrite` has emptied the directory
  (`processing/functions.py:532`). With `use_checkpoint` a job "can be used to resume the processing from the last checkpoint if the
  process is interrupted" (`processing/functions.py:450`). Called again with the same arguments it is refused all the same if its items are tuples, as the
  batches of a tuple are, or if its `config.json` breaks off (`processing/data_processor.py:1575`, 1598, 1628), and in a
  cloud directory, where any file is taken for a dataset (`streaming/resolver.py:399`) (`RefuseConfig`, `Refuse`). In a cloud a configuration that cannot
  be dumped or uploaded leaves none: the next run begins anew beside the old checkpoints (`Reliable`). An error after the last progress report stops the program for
  ever (`Hung`). Failed downloads and uploads are lost (`Lossy`); also `map()` into a local directory succeeds when the copy of a
  result raises, which ends the uploader (`processing/data_processor.py:294`): nobody looks at its exit code. A crash between the upload of the index and the removal of the
  checkpoints makes a later append repeat its items. Input files that two items share are removed with the first.
* Combined and parallel datasets. The counts a wrapper was resumed from are never dropped (`stale`); several workers replay
  each other's draws, so a combined dataset with more than one worker resumes exactly only if it deals everything (`MixResumed`,
  `EpochWhole`); `load_state_dict` asks for the length and so sets the batch size of the wrapper to 1
  (`streaming/combined.py:109`, `dataloader.py:799`), which breaks the promise of `README.md:900` that a batch has
  one stream (`OneStreamBatches`); a dataset that was added before loading has no place in the counts, an
  IndexError (`Uncounted`); weights that are all zero divide by zero (`streaming/combined.py:241`).
* Cache filling. A `batch_size` with the default `chunk_bytes` is always refused (`streaming/dataloader.py:308`,
  `writer.py:85`), so `batch_size` can only be left out or go with a cache of the dataset's own; a wrapped dataset whose
  `__getitem__` is asynchronous is always refused; that an item comes out the same twice is only checked
  up to a worker's first one. A worker without items leaves no index and every rank waits for ever; a
  half-written index may be read; when the first epoch is left early, a part of the dataset is taken for the whole
  (`quit`). The ranks draw the second epoch from generators of their own (`streaming/sampler.py:178`); a rank without
  batches fails at the last one (line 235). The indexes of more than ten writers are merged in the order of their names (`writer.py:502`),
  so the chunks of worker 10 come before those of worker 2. A chunk is closed as soon as its first item alone exceeds
  `chunk_bytes`, also if lower indexes are still to come (`writer.py:349-372`, 380-408), which with an asynchronous
  dataset they may be: the chunk then precedes theirs and the index maps them to other places, despite the docstring at
  `writer.py:323` (`EachFits`). Other chunks that are closed too early are found by an assertion of `done()`.
* Opening. A process that comes alone after two that met may still be disturbed by what these left of a Hugging Face index;
  an index of a file store without a time stamp whose cached copy has fewer chunks than the dataset has now fails in
  `load_subsampled_chunks`; a cache that is up to date stays so only as long as nobody writes the dataset again. Processes that open a dataset for the first time disturb one another (`crowded`); all compressed datasets on a file
  store share one folder (`md5` of the empty string); with `torch.distributed` a Hugging Face dataset can only be
  opened by the process that made its index, which waits for the others (`Waits`).
* Mapped chunks. `_counter` counts loads, not readers (despite the comment at `streaming/item_loader.py:414`), so the
  mapping of a chunk that was loaded twice is never released by `close`; one that was loaded once is unmapped while a batch still
  points into it, if its last item is not the last of a batch: the worker is killed when it collates (`batch[p][1] = last` in
  `InHandUsable`). The last item of an epoch may go the same way (`Leaving`). A forced download deletes the
  chunk in hand (`wasForced`). `_mmaps` is set before `_buffers` (lines 476-477): a reader that comes between raises a KeyError.
  A chunk that the thread deletes between its release and its close is counted -1 from then on (lines 573 and 559 of `item_loader.py`): in the next epoch it is
  closed too early, while the thread loads it, and the epoch after that may read the closed mapping (`Counted`).

## 9. Not modelled

See the components in `PROJECT.json`.

* **Chunk cache**: increments lost to a lock timeout and the removal of a count's lock while it is held (the hazard without a
  property), exceptions of a cloud client (which end the thread), counts left over from an earlier run, decompression as a
  step of its own, and a second epoch of the PyTreeLoader on the same directory. On-demand byte reads keep no state.
* **Item loaders**: the bytes of an item, encryption, the MosaicML format.
* **Dataset and loader**: `num_workers=0`, persistent workers, random access through a loader, the distributed samplers of evaluation,
  the shuffle inside a chunk (a rotation stands for it), and leaving a loop early other than by loading a
  state (after a resumed epoch this resumes once more from the old state). The plan
  of a rank is the same in every epoch, and its left-over samples are at most one batch and a partial one:
  the last rank of three or more, without `drop_last`, may give one worker several batches more than the
  others, and then `_replay_sampling` no longer replays what the loader did.
* **Combined and parallel datasets**: iteration in the process itself, transforms and the generators handed to
  them; wrapped datasets are numbers of samples.
* **Writer**: the bytes of a chunk, its serializers and compression; the samples within a chunk of the second epoch; index files that
  an earlier first epoch left in the directory: `CacheFilling` starts in an empty one.
* **Data processor**: several nodes (but for the split, which `WorkIsSplit` checks for several), data loaders and readers as
  inputs, functions that yield several samples, SIGINT (which puts a stop token nobody reads in time), `walk()`; a
  second call whose default number of workers has changed (which `_load_checkpoint_config` refuses as well), and an output directory
  that is not there when the index is copied (`processing/data_processor.py:1071` then copies nothing and says nothing, where `Merge` publishes).
* **Opening**: environment detection, broadcast, listing and reading of parquet files, file locks as files.
* Not at all: the raw dataset; serializers, compression, encryption and storage clients, which only convert or
  transfer bytes; the command line, tracing, and `utilities/_pytree.py`, a vendored copy of 1615 lines that is
  nearly a tenth of the implementation.
