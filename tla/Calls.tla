------------------------------- MODULE Calls -------------------------------
(***************************************************************************)
(* From the arguments of optimize(), map() and merge_datasets() to what is  *)
(* done (processing/functions.py, DataProcessor.__init__): the calls that   *)
(* are refused, and the job of the others.                                  *)
(*                                                                         *)
(* A call has an entry per argument; 0, "" and << >> stand for an argument  *)
(* that is not given:                                                       *)
(*   function     "optimize" or "map"                                       *)
(*   inputs       "list", "tuple", "loader" or ""; queue: one is given      *)
(*   items, files, skips, generator         the inputs and the function     *)
(*   paths        which inputs name files: "none", "all", or "second" for   *)
(*                all but the first                                         *)
(*   sizes        the bytes of the files of each input                      *)
(*   inputDir     whether a local input_dir is given; reader as well        *)
(*   numWorkers   -1 if it is not given; fastDev: True is 1                 *)
(*   batchSize, chunkSize, chunkBytes, weights, numDownloaders,             *)
(*   numUploaders, align, ordered, reorder, checkpoint, mode, notEmpty      *)
(*   json         what a dump of the inputs is, as in Processing            *)
(*   cloud        where output_dir is; old: the index that is there         *)
(*   remote       whether nodes or a machine are asked for                  *)
(***************************************************************************)
EXTENDS Processing

CONSTANTS
    Cpus    \* _get_default_num_workers

ASSUME CpuAssumption == Cpus \in Nat \ {0}

Counted(c) == ~c.queue /\ c.inputs # "loader"

\* _get_input_dir: the second input names files and the first does not.
PathsMissing(c) == Counted(c) /\ ~c.inputDir /\ c.paths = "second" /\ c.items > 1

\* optimize() raises before it looks at the output directory.
OptimizeRefuses(c) ==
    \/ c.queue = (c.inputs # "")
    \/ c.mode \notin {"none", "append", "overwrite"}
    \/ c.inputs = "loader" /\ (c.batchSize > 0 \/ c.weights # << >>)
    \/ ~c.queue /\ c.items = 0
    \/ c.chunkSize = 0 /\ (~c.chunkBytes \/ c.align)
    \/ c.remote

\* map() raises before it starts a data processor.
MapRefuses(c) ==
    \/ c.inputs \notin {"list", "tuple", "loader"}
    \/ c.inputs = "loader" /\ (c.batchSize > 0 \/ c.weights # << >>)
    \/ c.items = 0
    \/ c.remote

\* batch_size: the inputs of each call of the function.
Groups(c) ==
    IF c.batchSize <= 1 THEN [k \in 1 .. c.items |-> {k}]
    ELSE [k \in 1 .. (c.items + c.batchSize - 1) \div c.batchSize |->
             {i \in 1 .. c.items : (i - 1) \div c.batchSize = k - 1}]

\* _get_item_filesizes
FileSizes(c) ==
    [k \in DOMAIN Groups(c) |-> FoldSet(LAMBDA i, sum : c.sizes[i] + sum, 0, Groups(c)[k])]

\* What the split goes by: map() hands its weights on, optimize() does not; without
\* any, files are spread by their sizes.
Weighed(c) == c.function = "map" /\ c.weights # << >>
BySize(c) == c.reorder /\ c.inputDir /\ Counted(c) /\ ~Weighed(c)
SplitWeights(c) == IF Weighed(c) THEN c.weights ELSE IF BySize(c) THEN FileSizes(c) ELSE << >>

\* DataProcessor and the recipe are refused when the output directory has already been
\* prepared: __init__ of both, and run().
RunRefuses(c) ==
    \/ c.reader /\ Weighed(c)
    \/ c.function = "optimize" /\ c.chunkSize > 0 /\ c.chunkBytes
    \/ c.inputs = "tuple" /\ c.batchSize <= 1
    \/ Weighed(c) /\ Len(c.weights) # Len(Groups(c))
    \/ BySize(c) /\ \E i \in 1 .. c.items : c.sizes[i] = 0
    \/ c.checkpoint /\ (c.queue \/ c.generator)
    \/ PathsMissing(c)

\* DataProcessor.__init__ and BaseWorker.__init__: how many processes a job has.
\* Without an input directory nothing is downloaded.
NumWorkers(c) == IF c.numWorkers = 0 THEN 1 ELSE IF c.numWorkers = -1 THEN Cpus ELSE c.numWorkers
NumDownloaders(c) ==
    IF ~c.inputDir \/ c.reader \/ ~Counted(c) THEN 0
    ELSE IF c.numDownloaders = 0 THEN 2 ELSE c.numDownloaders
NumUploaders(c) == IF c.numUploaders = 0 THEN 1 ELSE c.numUploaders

\* Batches of a tuple are tuples, which come back as lists.
Dump(c) == IF c.json = "same" /\ c.inputs = "tuple" /\ c.batchSize > 1 THEN "other" ELSE c.json

Job(c) ==
    [recipe |-> c.function,
     source |-> IF c.queue THEN "queue" ELSE "list",
     items |-> Len(Groups(c)),
     skips |-> c.skips,
     files |-> [k \in DOMAIN Groups(c) |-> UNION {c.files[i] : i \in Groups(c)[k]}],
     weights |-> SplitWeights(c),
     align |-> c.align,
     workers |-> NumWorkers(c),
     downloaders |-> NumDownloaders(c),
     uploaders |-> NumUploaders(c),
     chunkSize |-> c.chunkSize,
     ordered |-> c.ordered,
     fastDev |-> c.fastDev,
     json |-> Dump(c),
     invalid |-> RunRefuses(c),
     cloud |-> c.cloud,
     old |-> c.old,
     faults |-> c.faults]

\* The job of a call of optimize() that is not refused.
OptimizeJob(c) == Job(c) @@ [checkpoint |-> c.checkpoint, mode |-> c.mode]

\* The job of a call of map() that is not refused.
MapJob(c) == Job(c) @@ [checkpoint |-> FALSE, mode |-> IF c.notEmpty THEN "empty" ELSE "keep"]

\* A loader shares its samples out itself and has no job here.
JobsOf(calls) ==
    LET of(f) == {c \in calls : c.function = f /\ c.inputs # "loader"}
    IN  {OptimizeJob(c) : c \in {d \in of("optimize") : ~OptimizeRefuses(d)}}
        \union {MapJob(c) : c \in {d \in of("map") : ~MapRefuses(d)}}

-----------------------------------------------------------------------------
(* merge_datasets.  A dataset: [dir, cloud, index, config], its index NoIndex if it *)
(* has none. *)

\* The datasets are refused.
MergeRefuses(datasets, output) ==
    \/ Len(datasets) < 2
    \/ \E k \in DOMAIN datasets : \/ datasets[k].dir = output.dir
                                  \/ datasets[k].index = NoIndex
                                  \/ datasets[k].config # datasets[1].config
    \/ output.index # NoIndex

\* _apply_copy: between a local directory and a cloud nothing is copied.
Copied(datasets, output) == \A k \in DOMAIN datasets : datasets[k].cloud = output.cloud

\* The chunks of all datasets one after the other, all with new names.  The index is
\* saved when all are copied.
MergeDatasets(datasets, output) ==
    LET chunks == FlattenSeq([k \in DOMAIN datasets |-> datasets[k].index])
    IN  IF MergeRefuses(datasets, output) \/ ~Copied(datasets, output) THEN output.index
        ELSE [k \in DOMAIN chunks |-> Chunk(0, k - 1, chunks[k].items)]
=============================================================================
