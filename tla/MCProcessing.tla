---------------------------- MODULE MCProcessing ----------------------------
(***************************************************************************)
(* The calls that Processing is checked for.                               *)
(***************************************************************************)
EXTENDS Calls

\* A plain call of optimize(): inputs that need no download, everything else as it
\* is if it is not given, but for the workers and the chunk size.
Plain == [function |-> "optimize", inputs |-> "list", queue |-> FALSE, items |-> 4, skips |-> {},
          generator |-> FALSE, files |-> [i \in 1 .. 8 |-> {i}], paths |-> "none",
          sizes |-> [i \in 1 .. 8 |-> 1], inputDir |-> FALSE, reader |-> FALSE,
          numWorkers |-> 2, fastDev |-> 0, batchSize |-> 0, chunkSize |-> 1, chunkBytes |-> FALSE,
          weights |-> << >>, numDownloaders |-> 0, numUploaders |-> 0, align |-> FALSE,
          ordered |-> TRUE, reorder |-> TRUE, checkpoint |-> FALSE, json |-> "same", mode |-> "none",
          notEmpty |-> FALSE, cloud |-> FALSE, old |-> << >>, remote |-> FALSE, faults |-> {}]
PlainMap == [Plain EXCEPT !.function = "map", !.chunkSize = 0]

\* Input files that one downloader, or d of them, fetch in the order of the items.
Files(c, d) == [c EXCEPT !.paths = "all", !.inputDir = TRUE, !.reorder = FALSE,
                         !.numDownloaders = d]

\* The index of an earlier run: worker 0 has two chunks, worker 2 of then has one.
Before == <<Chunk(0, 0, <<1>>), Chunk(0, 1, <<2>>), Chunk(2, 0, <<3>>)>>

\* Two datasets, and what merge_datasets makes of them.
Dataset(name, idx) == [dir |-> name, cloud |-> FALSE, index |-> idx, config |-> "any"]
Both == <<Dataset("a", <<Chunk(0, 0, <<1>>), Chunk(1, 0, <<2>>)>>),
          Dataset("b", <<Chunk(0, 0, <<3>>)>>)>>
MergedBefore == MergeDatasets(Both, Dataset("c", NoIndex))

ASSUME MergesWhole ==
    /\ FlattenSeq([k \in DOMAIN MergedBefore |-> MergedBefore[k].items]) = <<1, 2, 3>>
    /\ IsInjective([k \in DOMAIN MergedBefore |-> Name(MergedBefore[k])])
    /\ MergeRefuses(SubSeq(Both, 1, 1), Dataset("c", NoIndex))
    /\ MergeRefuses(Both, Dataset("b", NoIndex))
    /\ MergeRefuses(Both, Dataset("c", Before))

\* The index files of twelve workers, in the order in which they are merged.
ASSUME NamesOrder == [i \in 1 .. 12 |-> ByName(0 .. 11, i)] = <<0, 1, 10, 11, 2, 3, 4, 5, 6, 7, 8, 9>>

Calls == {
    \* chunks of two, aligned to those of a single worker; killed and started again
    [Plain EXCEPT !.items = 6, !.chunkSize = 2, !.align = TRUE],
    [Plain EXCEPT !.checkpoint = TRUE, !.faults = {"crash"}],
    [Plain EXCEPT !.numWorkers = 0, !.items = 5, !.chunkSize = 2, !.align = TRUE,
                  !.checkpoint = TRUE, !.faults = {"crash", "fn"}],
    \* configurations that do not come back as they were
    [Plain EXCEPT !.checkpoint = TRUE, !.json = "other", !.numWorkers = 1, !.items = 3,
                  !.faults = {"crash"}],
    [Plain EXCEPT !.checkpoint = TRUE, !.json = "raises", !.numWorkers = 1, !.items = 2,
                  !.mode = "overwrite", !.faults = {"crash"}],
    [Plain EXCEPT !.checkpoint = TRUE, !.inputs = "tuple", !.batchSize = 2, !.numWorkers = 1,
                  !.mode = "append", !.cloud = TRUE, !.faults = {"crash"}],
    [Plain EXCEPT !.checkpoint = TRUE, !.json = "raises", !.numWorkers = 1, !.items = 3,
                  !.mode = "append", !.cloud = TRUE, !.faults = {"crash"}],
    [Plain EXCEPT !.checkpoint = TRUE, !.numWorkers = 1, !.items = 2,
                  !.mode = "append", !.cloud = TRUE, !.faults = {"crash", "upload"}],
    \* appending to and replacing what is there
    [Plain EXCEPT !.mode = "append", !.old = Before, !.faults = {"crash"}],
    [Plain EXCEPT !.mode = "append", !.old = MergedBefore, !.items = 3],
    [Plain EXCEPT !.mode = "overwrite", !.old = Before, !.numWorkers = 1, !.skips = {2}],
    [Plain EXCEPT !.old = Before],
    \* downloads, with one file that all items need in the last
    [Files(Plain, 0) EXCEPT !.numWorkers = 1, !.chunkSize = 2],
    [Files(Plain, 1) EXCEPT !.items = 3],
    [Files(Plain, 1) EXCEPT !.items = 3, !.ordered = FALSE],
    [Files(Plain, 1) EXCEPT !.numWorkers = 1, !.items = 2, !.files = [i \in 1 .. 8 |-> {1}]],
    \* files of different sizes; a shared queue; a queue of the user's
    [Files(Plain, 1) EXCEPT !.items = 3, !.reorder = TRUE, !.sizes = <<3, 1, 1>>],
    [Plain EXCEPT !.ordered = FALSE, !.items = 3, !.skips = {1}],
    [Plain EXCEPT !.inputs = "", !.queue = TRUE, !.items = 3],
    [Plain EXCEPT !.numUploaders = 2, !.numWorkers = 1, !.checkpoint = TRUE, !.faults = {"crash"}],
    \* batches of inputs; the first items of each worker only
    [Plain EXCEPT !.inputs = "tuple", !.items = 5, !.batchSize = 2],
    [Plain EXCEPT !.items = 5, !.fastDev = 1],
    \* faults
    [Plain EXCEPT !.faults = {"fn", "upload"}, !.items = 3],
    [Plain EXCEPT !.faults = {"done"}, !.items = 3],
    [Plain EXCEPT !.faults = {"upload"}, !.cloud = TRUE, !.items = 3],
    [Plain EXCEPT !.cloud = TRUE, !.checkpoint = TRUE, !.numWorkers = 1, !.items = 3,
                  !.faults = {"crash"}],
    [Files(Plain, 1) EXCEPT !.faults = {"download", "timeout"}, !.items = 2],
    \* map()
    [PlainMap EXCEPT !.items = 3],
    [PlainMap EXCEPT !.weights = <<3, 1, 2, 2>>],
    [PlainMap EXCEPT !.items = 3, !.notEmpty = TRUE, !.cloud = TRUE, !.faults = {"crash"}],
    [Files(PlainMap, 1) EXCEPT !.items = 2, !.faults = {"fn"}],
    [PlainMap EXCEPT !.items = 2, !.faults = {"upload"}],
    \* refused when the directory is ready for them
    [Plain EXCEPT !.inputs = "tuple", !.mode = "overwrite", !.old = Before],
    [Plain EXCEPT !.checkpoint = TRUE, !.generator = TRUE],
    [PlainMap EXCEPT !.weights = <<1, 2>>]
    }

\* Refused at once.
BadCalls == {
    [Plain EXCEPT !.queue = TRUE], [Plain EXCEPT !.inputs = ""], [Plain EXCEPT !.mode = "w"],
    [Plain EXCEPT !.items = 0], [Plain EXCEPT !.chunkSize = 0], [Plain EXCEPT !.remote = TRUE],
    [Plain EXCEPT !.chunkSize = 0, !.chunkBytes = TRUE, !.align = TRUE],
    [Plain EXCEPT !.inputs = "loader", !.batchSize = 1],
    [PlainMap EXCEPT !.inputs = ""], [PlainMap EXCEPT !.items = 0]
    }

OptimizeJobs == JobsOf(Calls)

ASSUME RefusedAtOnce == JobsOf(BadCalls) = {}
=============================================================================
