--------------------------- MODULE DatasetFolder ---------------------------
(***************************************************************************)
(* How the processes of a machine open a dataset: the folder in the cache   *)
(* directory that belongs to the url of the dataset, the sub-folder named   *)
(* after the time the dataset was written, and the index in it              *)
(* (utilities/dataset_utilities.py, utilities/hf_dataset.py,                *)
(* StreamingDataset.__init__ and _create_cache, ChunksConfig).              *)
(*                                                                         *)
(* A process opens the dataset once (__init__) and once more when it        *)
(* iterates (_create_cache).                                                *)
(*                                                                         *)
(* A job is a number of processes and what they open:                       *)
(*   of        of[p]: the dataset process p opens                           *)
(*   kind      "remote" (a url), "files" (a directory that is read where it *)
(*             is), "filestore" (a compressed dataset on a file store) or   *)
(*             "hf"                                                         *)
(*   stamped   whether the index says when it was written                   *)
(*   folder    what is in the cache already: "none", "current", "stale"     *)
(*             (an earlier version) or "partial" (no index)                 *)
(*   dist      whether torch.distributed is initialized                     *)
(*   rewritten whether the dataset may be written again meanwhile           *)
(*   chunks    chunks[v]: the number of chunks of version v                 *)
(*   loader    the item loader that is asked for, and                       *)
(*   written   the one the index names                                      *)
(***************************************************************************)
EXTENDS Integers

CONSTANTS OpenJobs

Missing == 0
MaxVersions == 3        \* the bound on how often a dataset is written

\* What a job of OpenJobs is.
OpenJobAssumption ==
    \A j \in OpenJobs :
      /\ j.kind \in {"remote", "files", "filestore", "hf"}
      /\ j.folder \in {"none", "current", "stale", "partial"}
      /\ \A p, q \in DOMAIN j.of : j.of[p] # j.of[q] => j.kind = "filestore"
      /\ j.rewritten => j.kind # "hf"
      /\ 1 \in DOMAIN j.of
      /\ \A v \in 1 .. MaxVersions : j.chunks[v] \in Nat

VARIABLES
    opening,    \* the job
    remote,     \* remote[d]: the version of dataset d, and whether its index is there
    made,       \* whether the folder of the url is there
    dirs,       \* the sub-folders in it
    indexOf,    \* indexOf[n]: the version of the index in sub-folder n; Missing
    pc,         \* where each process is
    phase,      \* "indexing", "init" or "iterating"
    name,       \* the sub-folder it uses
    torn,       \* whether that was removed while it copied the index
    loaded,     \* the version whose chunks it subsampled
    configured, \* the version it reads
    crowded,    \* it has met another process that was opening too
    overtaken   \* the dataset was written again since it began

folder == <<made, dirs, indexOf>>
process == <<pc, phase, name, torn, loaded, configured, crowded, overtaken>>
openingVars == <<opening, remote, folder, process>>

Procs == DOMAIN opening.of
Datasets == {opening.of[p] : p \in Procs}
Hash(d) == <<d, 0>>     \* the name without a time: the hash of the url
Names == Datasets \X (Procs \union 0 .. MaxVersions)

Busy(p) == pc[p] \notin {"idle", "open", "failed"}

\* is_local_rank_0
First(p) == ~opening.dist \/ p = 1

\* _validate_item_loader: the loader the index was written for.
RightLoader == opening.loader = opening.written

Goto(p, l) == pc' = [pc EXCEPT ![p] = l]
Fail(p) == Goto(p, "failed")

-----------------------------------------------------------------------------
(* The dataset is written again, by some other program: the old index goes first. *)

Overtake(d) == overtaken' = [p \in Procs |-> overtaken[p] \/ (opening.of[p] = d /\ pc[p] # "idle")]

Withdraw(d) ==
    /\ opening.rewritten /\ remote[d].here /\ remote[d].version < MaxVersions
    /\ remote' = [remote EXCEPT ![d] = [version |-> @.version, here |-> FALSE]]
    /\ Overtake(d)
    /\ UNCHANGED <<opening, folder, pc, phase, name, torn, loaded, configured, crowded>>

Publish(d) ==
    /\ ~remote[d].here
    /\ remote' = [remote EXCEPT ![d] = [version |-> @.version + 1, here |-> TRUE]]
    /\ Overtake(d)
    /\ UNCHANGED <<opening, folder, pc, phase, name, torn, loaded, configured, crowded>>

-----------------------------------------------------------------------------
(* __init__ *)

\* The sub-folder of a dataset that has an index: _get_existing_cache.
Existing == {n \in dirs : indexOf[n] # Missing}

Begin(p) ==
    /\ pc[p] = "idle"
    /\ crowded' = [q \in Procs |-> \/ crowded[q]
                                   \/ q # p /\ Busy(q)
                                   \/ q = p /\ \E r \in Procs \ {p} : Busy(r)]
    /\ overtaken' = [overtaken EXCEPT ![p] = ~remote[opening.of[p]].here]
    /\ IF opening.kind # "hf"
       THEN /\ Goto(p, IF opening.kind = "remote" THEN "stamp" ELSE "load")
            /\ UNCHANGED <<phase, name>>
       ELSE \/ \E n \in Existing : /\ name' = [name EXCEPT ![p] = n]
                                   /\ Goto(p, "stamp")
                                   /\ UNCHANGED phase
            \/ /\ Existing = {}
               /\ phase' = [phase EXCEPT ![p] = "indexing"]
               /\ Goto(p, "ready to index")
               /\ UNCHANGED name
    /\ UNCHANGED <<opening, remote, folder, torn, loaded, configured>>

\* maybe_barrier: with torch.distributed every process has to come.
Barrier(p, at, next) ==
    /\ pc[p] = at
    /\ IF opening.dist
       THEN /\ \A q \in Procs : pc[q] = at
            /\ pc' = [q \in Procs |-> next[q]]
       ELSE Goto(p, next[p])
    /\ UNCHANGED <<opening, remote, folder, phase, name, torn, loaded, configured, crowded,
                   overtaken>>

StartIndexing(p) == Barrier(p, "ready to index", [q \in Procs |-> "index"])

\* index_parquet_dataset: the first process writes an index into a temporary directory
\* of its own, stamped with the time.
IndexParquet(p) ==
    /\ pc[p] = "index"
    /\ name' = IF First(p) THEN [name EXCEPT ![p] = <<opening.of[p], p>>] ELSE name
    /\ Goto(p, "indexed")
    /\ UNCHANGED <<opening, remote, folder, phase, torn, loaded, configured, crowded, overtaken>>

\* The others have no index in their temporary directory to make the folder from.
EndIndexing(p) == Barrier(p, "indexed", [q \in Procs |-> IF First(q) THEN "look" ELSE "failed"])

\* The index is copied into the folder, unless another process removes it at that moment.
PlaceIndex(p) ==
    /\ pc[p] = "place"
    /\ \/ /\ made' = TRUE /\ dirs' = dirs \union {name[p]}
          /\ indexOf' = [indexOf EXCEPT ![name[p]] = remote[opening.of[p]].version]
          /\ Goto(p, "placed")
       \/ /\ \E q \in Procs \ {p} : pc[q] \in {"clear", "rmdir"}
          /\ Fail(p)
          /\ UNCHANGED folder
    /\ phase' = [phase EXCEPT ![p] = "init"]
    /\ UNCHANGED <<opening, remote, name, torn, loaded, configured, crowded, overtaken>>

Placed(p) == Barrier(p, "placed", [q \in Procs |-> "stamp"])

-----------------------------------------------------------------------------
(* _try_create_cache_dir *)

\* Wrong: the time the dataset was written is not looked at.
StampUnread(p) ==
    LET d == opening.of[p]
    IN  /\ pc[p] = "stamp"
        /\ IF opening.kind = "hf"
           THEN /\ Goto(p, IF indexOf[name[p]] # Missing /\ RightLoader
                           THEN "look" ELSE "failed")
                /\ UNCHANGED name
           ELSE IF ~remote[d].here THEN Fail(p) /\ UNCHANGED name
           ELSE /\ name' = [name EXCEPT ![p] = Hash(d)]
                /\ Goto(p, "look")
        /\ UNCHANGED <<opening, remote, folder, phase, torn, loaded, configured, crowded, overtaken>>

\* _read_updated_at: from a temporary copy of the remote index, from the index of the
\* file store, or from the one that was found in the cache; a Hugging Face dataset is
\* refused here if it is not to be read by a ParquetLoader.
Stamp(p) ==
    LET d == opening.of[p]
    IN  /\ pc[p] = "stamp"
        /\ IF opening.kind = "hf"
           THEN /\ Goto(p, IF indexOf[name[p]] # Missing /\ RightLoader
                           THEN "look" ELSE "failed")
                /\ UNCHANGED name
           ELSE IF ~remote[d].here THEN Fail(p) /\ UNCHANGED name
           ELSE /\ name' = [name EXCEPT ![p] = IF opening.stamped THEN <<d, remote[d].version>>
                                               ELSE Hash(d)]
                /\ Goto(p, "look")
        /\ UNCHANGED <<opening, remote, folder, phase, torn, loaded, configured, crowded, overtaken>>

Look(p) ==
    /\ pc[p] = "look"
    /\ Goto(p, IF made THEN "list" ELSE "make")
    /\ UNCHANGED <<opening, remote, folder, phase, name, torn, loaded, configured, crowded, overtaken>>

\* Wrong: the folder is always made anew.
ListAlways(p) ==
    /\ pc[p] = "list"
    /\ Goto(p, IF ~made THEN "failed" ELSE "clear")
    /\ UNCHANGED <<opening, remote, folder, phase, name, torn, loaded, configured, crowded, overtaken>>

\* _clear_cache_dir_if_updated: the folder may hold the expected sub-folder alone.
List(p) ==
    /\ pc[p] = "list"
    /\ Goto(p, IF ~made THEN "failed" ELSE IF dirs = {name[p]} THEN "make" ELSE "clear")
    /\ UNCHANGED <<opening, remote, folder, phase, name, torn, loaded, configured, crowded, overtaken>>

\* rmtree removes what is in the folder.  It fails if the folder is gone, or if another
\* process removes the same files or adds some.
Clear(p) ==
    /\ pc[p] = "clear"
    /\ \/ /\ made
          /\ dirs' = {}
          /\ indexOf' = [n \in Names |-> Missing]
          /\ torn' = [q \in Procs |-> torn[q] \/ (pc[q] = "copy" /\ opening.kind # "files")]
          /\ Goto(p, "rmdir")
       \/ /\ ~made \/ (\E q \in Procs \ {p} : pc[q] \in {"clear", "rmdir", "fetch", "copy"})
          /\ Fail(p)
          /\ UNCHANGED <<dirs, indexOf, torn>>
    /\ UNCHANGED <<opening, remote, made, phase, name, loaded, configured, crowded, overtaken>>

Rmdir(p) ==
    /\ pc[p] = "rmdir"
    /\ IF made /\ dirs = {}
       THEN made' = FALSE /\ Goto(p, "make")
       ELSE Fail(p) /\ UNCHANGED made
    /\ UNCHANGED <<opening, remote, dirs, indexOf, phase, name, torn, loaded, configured, crowded,
                   overtaken>>

\* makedirs: the folder of the url, and then the sub-folder.
Make(p) ==
    /\ pc[p] = "make"
    /\ made' = TRUE
    /\ Goto(p, "mkdir")
    /\ UNCHANGED <<opening, remote, dirs, indexOf, phase, name, torn, loaded, configured, crowded,
                   overtaken>>

AfterFolder(p) == CASE phase[p] = "indexing" -> "place"
                    [] phase[p] = "init" -> "fetch"
                    [] OTHER -> "touch"

\* Wrong: a process that finds the folder gone starts again.
MkdirAgain(p) ==
    /\ pc[p] = "mkdir"
    /\ IF made THEN dirs' = dirs \union {name[p]} /\ Goto(p, AfterFolder(p))
               ELSE Goto(p, "look") /\ UNCHANGED dirs
    /\ UNCHANGED <<opening, remote, made, indexOf, phase, name, torn, loaded, configured, crowded,
                   overtaken>>

Mkdir(p) ==
    /\ pc[p] = "mkdir"
    /\ IF made THEN dirs' = dirs \union {name[p]} /\ Goto(p, AfterFolder(p))
               ELSE Fail(p) /\ UNCHANGED dirs
    /\ UNCHANGED <<opening, remote, made, indexOf, phase, name, torn, loaded, configured, crowded,
                   overtaken>>

-----------------------------------------------------------------------------
(* The index: subsample_streaming_dataset and, when iterating, ChunksConfig.load. *)

\* Whether the index is copied from the remote: a directory is read where it is, and
\* the index of a Hugging Face dataset is in the cache already.
Fetches == opening.kind \in {"remote", "filestore"}

AfterFetch(p) == IF phase[p] = "init" THEN "load" ELSE "config"

Held(p) == \E q \in Procs \ {p} : pc[q] = "copy" /\ name[q] = name[p] /\ ~torn[q]

\* download_file: under a lock, for which a process waits a second.  Whether taking the
\* lock makes a folder that was removed depends on the version of filelock.
Fetch(p) ==
    /\ pc[p] = "fetch"
    /\ IF ~Fetches \/ (indexOf[name[p]] # Missing /\ phase[p] = "init")
       THEN Goto(p, AfterFetch(p)) /\ UNCHANGED <<made, dirs, torn>>
       ELSE IF ~remote[opening.of[p]].here THEN Fail(p) /\ UNCHANGED <<made, dirs, torn>>
       ELSE \/ /\ ~Held(p)
               /\ made' = TRUE /\ dirs' = dirs \union {name[p]}
               /\ torn' = [torn EXCEPT ![p] = FALSE]
               /\ Goto(p, "copy")
            \/ /\ Held(p) \/ name[p] \notin dirs
               /\ Goto(p, AfterFetch(p))
               /\ UNCHANGED <<made, dirs, torn>>
    /\ UNCHANGED <<opening, remote, indexOf, phase, name, loaded, configured, crowded, overtaken>>

\* The copy is made beside the index and renamed; a missing file is passed over.
Copy(p) ==
    LET d == opening.of[p]
    IN  /\ pc[p] = "copy"
        /\ \/ /\ name[p] \in dirs /\ remote[d].here
              /\ indexOf' = [indexOf EXCEPT ![name[p]] = IF @ = Missing THEN remote[d].version ELSE @]
           \/ /\ torn[p] \/ name[p] \notin dirs \/ ~remote[d].here
              /\ UNCHANGED indexOf
        /\ Goto(p, AfterFetch(p))
        /\ UNCHANGED <<opening, remote, made, dirs, phase, name, torn, loaded, configured, crowded,
                       overtaken>>

\* The version of the index a process finds where it looks.
Found(p) ==
    IF opening.kind = "files" \/ (opening.kind = "filestore" /\ phase[p] = "init")
    THEN IF remote[opening.of[p]].here THEN remote[opening.of[p]].version ELSE Missing
    ELSE indexOf[name[p]]

\* load_index_file: the chunks of the subset are chosen.
Load(p) ==
    /\ pc[p] = "load"
    /\ IF Found(p) = Missing
       THEN Fail(p) /\ UNCHANGED <<phase, loaded>>
       ELSE /\ loaded' = [loaded EXCEPT ![p] = Found(p)]
            /\ phase' = [phase EXCEPT ![p] = "iterating"]
            /\ Goto(p, IF opening.kind = "filestore" THEN "stamp" ELSE "touch")
    /\ UNCHANGED <<opening, remote, folder, name, torn, configured, crowded, overtaken>>

\* The writer of the Cache makes the folder if it is gone.
Touch(p) ==
    /\ pc[p] = "touch"
    /\ IF opening.kind = "files" THEN UNCHANGED <<made, dirs>>
       ELSE made' = TRUE /\ dirs' = dirs \union {name[p]}
    /\ Goto(p, "fetch")
    /\ UNCHANGED <<opening, remote, indexOf, phase, name, torn, loaded, configured, crowded, overtaken>>

\* load_subsampled_chunks: chunk i has the same name in every version.
ChunksKnown(p) == opening.chunks[loaded[p]] <= opening.chunks[Found(p)]

\* ChunksConfig, without which _create_cache fails.
Configure(p) ==
    /\ pc[p] = "config"
    /\ IF Found(p) = Missing \/ ~RightLoader \/ ~ChunksKnown(p)
       THEN Fail(p) /\ UNCHANGED configured
       ELSE /\ configured' = [configured EXCEPT ![p] = Found(p)]
            /\ Goto(p, "open")
    /\ UNCHANGED <<opening, remote, folder, phase, name, torn, loaded, crowded, overtaken>>

-----------------------------------------------------------------------------
\* The dataset has been written twice; the cache may hold either.
FolderOf(d, v) == IF opening.stamped /\ opening.kind # "hf" THEN <<d, v>> ELSE Hash(d)

OpeningInit ==
    /\ opening \in OpenJobs
    /\ remote = [d \in Datasets |-> [version |-> 2, here |-> TRUE]]
    /\ LET d == CHOOSE d \in Datasets : TRUE
           v == IF opening.folder = "stale" THEN 1 ELSE 2
       IN  /\ made = (opening.folder # "none")
           /\ dirs = IF made THEN {FolderOf(d, v)} ELSE {}
           /\ indexOf = [n \in Names |-> IF n \in dirs /\ opening.folder # "partial" THEN v ELSE Missing]
    /\ pc = [p \in Procs |-> "idle"]
    /\ phase = [p \in Procs |-> "init"]
    /\ name = [p \in Procs |-> Hash(opening.of[p])]
    /\ torn = [p \in Procs |-> FALSE]
    /\ loaded = [p \in Procs |-> Missing]
    /\ configured = [p \in Procs |-> Missing]
    /\ crowded = [p \in Procs |-> FALSE]
    /\ overtaken = [p \in Procs |-> FALSE]

OpeningStep(p) ==
    \/ Begin(p) \/ StartIndexing(p) \/ IndexParquet(p) \/ EndIndexing(p) \/ PlaceIndex(p)
    \/ Placed(p) \/ Stamp(p) \/ Look(p) \/ List(p) \/ Clear(p) \/ Rmdir(p) \/ Make(p)
    \/ Mkdir(p) \/ Fetch(p) \/ Copy(p) \/ Load(p) \/ Touch(p) \/ Configure(p)

OpeningNext ==
    \/ \E d \in Datasets : Withdraw(d) \/ Publish(d)
    \/ \E p \in Procs : OpeningStep(p)

-----------------------------------------------------------------------------
(* Properties. *)

\* A process reads the version of the dataset that was there when it began, and the
\* chunks it chose are of that version, whatever the cache held before, if the index
\* says when it was written and nobody has written the dataset since (the time in the
\* name of the sub-folder: _try_create_cache_dir).
NeverStale ==
    (opening.stamped /\ opening.kind # "hf") =>
        \A p \in Procs : (pc[p] = "open" /\ ~overtaken[p]) =>
            loaded[p] = configured[p] /\ configured[p] = remote[opening.of[p]].version

\* They all open the same dataset.
OneDataset == \A d, e \in Datasets : d = e

\* The cache is up to date and stays so, and they open one dataset.
Settled == opening.folder = "current" /\ ~opening.rewritten /\ OneDataset

\* Process p has met another; of a Hugging Face dataset any two that meet may leave two
\* sub-folders, which disturb those that come later.
Met(p) == crowded[p] \/ (opening.kind = "hf" /\ \E q \in Procs : crowded[q])

\* Only processes that open at the same time disturb one another, and not even they if
\* the cache is settled: otherwise a process that is accepted opens the dataset and
\* keeps its folder (_clear_cache_dir_if_updated).  A file store is another matter if
\* its index does not say when it was written: nobody sees that the cache is stale.
Undisturbed ==
    (RightLoader /\ (opening.kind = "filestore" => opening.stamped)) =>
        \A p \in Procs :
          \/ overtaken[p]
          \/ (Met(p) /\ ~Settled)
          \/ /\ pc[p] # "failed"
             /\ (pc[p] = "open" /\ OneDataset) => Found(p) # Missing

\* Every process opens the dataset or fails, but for the one that made an index and then
\* waits for those that could not (index_hf_dataset).
Waits(p) == pc[p] = "placed" /\ opening.dist /\ \E q \in Procs : pc[q] = "failed"
AllOpened == \A p \in Procs : pc[p] \in {"open", "failed"} \/ Waits(p)
=============================================================================
