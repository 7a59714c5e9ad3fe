---------------------------- MODULE DatasetLife ----------------------------
(***************************************************************************)
(* A dataset is written and then opened: when the first epoch of a          *)
(* CacheDataLoader (CacheFilling) has left an index, the processes of a     *)
(* machine open the dataset (DatasetFolder), and a worker of one of them     *)
(* reads its chunks (MappedItems).                                          *)
(***************************************************************************)
EXTENDS CacheFilling

CONSTANTS
    OpenJobs,  \* the ways the dataset is opened
    Opened,    \* the job of Jobs whose dataset that is
    ReadJobs,  \* the ways its chunks are read
    Way        \* the way of OpenJobs it was opened in then

VARIABLES opening, remote, made, dirs, indexOf, pc, phase, name, torn, loaded, configured,
          crowded, overtaken
VARIABLES reading, here, table, counter, mmap, buffer, mapped, frames, groups, at, own, rest, now,
          epoch, last, item, batch, waiting, fetching, released, doomed, budget, forced, urgent,
          wasForced

Folder == INSTANCE DatasetFolder
Worker == INSTANCE MappedItems

ASSUME LifeAssumption ==
    /\ Opened \in Jobs /\ Way \in OpenJobs
    /\ Folder!OpenJobAssumption /\ Worker!ReadJobAssumption

folderVars == <<opening, remote, made, dirs, indexOf, pc, phase, name, torn, loaded, configured,
                crowded, overtaken>>
readVars == <<reading, here, table, counter, mmap, buffer, mapped, frames, groups, at, own, rest, now,
              epoch, last, item, batch, waiting, fetching, released, doomed, budget, forced, urgent,
              wasForced>>
lifeVars == <<vars, folderVars, readVars>>

Usable == job = Opened /\ \A r \in Ranks : main[r] \in {"reading", "dealt"}
Readable == Usable /\ opening = Way /\ \A p \in Folder!Procs : pc[p] = "open"

LifeInit ==
    /\ Init /\ Folder!OpeningInit /\ Worker!ReadingInit
    /\ job # Opened => opening = Way
    /\ job # Opened \/ opening # Way => reading = CHOOSE j \in ReadJobs : TRUE

LifeNext ==
    \/ Next /\ UNCHANGED <<folderVars, readVars>>
    \/ Usable /\ Folder!OpeningNext /\ UNCHANGED <<vars, readVars>>
    \/ Readable /\ Worker!ReadingNext /\ UNCHANGED <<vars, folderVars>>

\* Every process goes on; nobody has to write the dataset again.
Openers == UNION {DOMAIN j.of : j \in OpenJobs}
LifeSpec ==
    /\ LifeInit /\ [][LifeNext]_lifeVars
    /\ WF_vars((Merge \/ Publish) /\ UNCHANGED <<folderVars, readVars>>)
    /\ \A p \in Ids :
         /\ WF_vars(p \in Writers /\ WorkerStep(p) /\ UNCHANGED <<folderVars, readVars>>)
         /\ WF_vars(p \in Ranks /\ MainStep(p) /\ UNCHANGED <<folderVars, readVars>>)
    /\ \A p \in Openers :
         WF_lifeVars(/\ Usable /\ p \in Folder!Procs /\ Folder!OpeningStep(p)
                     /\ UNCHANGED <<vars, readVars>>)

-----------------------------------------------------------------------------
\* A process opens the version of the dataset that is there, whatever is in its cache.
NeverStale == Folder!NeverStale

\* Only processes that open a dataset at the same time disturb one another.
Undisturbed == Folder!Undisturbed

\* The chunk a worker is reading stays mapped; of those it has left no rows are kept.
InHandUsable == Worker!InHandUsable

\* A dataset that could be written is opened by every process, or refused to it, but for
\* the known wait (DatasetFolder!Waits).
OpeningEnds == [](Usable => <>Folder!AllOpened)
=============================================================================
