------------------------ MODULE DatasetFolderProofs ------------------------
(***************************************************************************)
(* Theorems about DatasetFolder, for any number of processes and whatever   *)
(* the cache holds: nobody reads a stale index, and only processes that     *)
(* open a dataset at the same time disturb one another.                     *)
(***************************************************************************)
EXTENDS DatasetFolder, TLAPS

OpeningSpec == OpeningInit /\ [][OpeningNext]_openingVars

\* The jobs NeverStale is about.
Dated == opening.stamped /\ opening.kind \in {"remote", "files", "filestore"}

Versions == 0 .. MaxVersions
Moving == {"look", "list", "clear", "rmdir", "make", "mkdir", "fetch", "copy", "touch", "load", "config"}
Places == Moving \union {"idle", "stamp", "open", "failed"}

Types ==
    /\ remote \in [Datasets -> [version : 1 .. MaxVersions, here : BOOLEAN]]
    /\ \A d \in Datasets : ~remote[d].here => remote[d].version < MaxVersions
    /\ indexOf \in [Names -> Versions]
    /\ pc \in [Procs -> Places]
    /\ phase \in [Procs -> {"init", "iterating"}]
    /\ name \in [Procs -> Names]
    /\ loaded \in [Procs -> Versions]
    /\ configured \in [Procs -> Versions]
    /\ overtaken \in [Procs -> BOOLEAN]

\* A sub-folder named after a version holds the index of that one or, if the
\* dataset was written again between the look at its time and the copy, of a later one.
FolderInv ==
    \A d \in Datasets, v \in 1 .. MaxVersions :
        indexOf[<<d, v>>] # Missing =>
            v <= indexOf[<<d, v>>] /\ indexOf[<<d, v>>] <= remote[d].version

\* A process uses a sub-folder of its dataset, named after a version there has been.
NameInv ==
    \A p \in Procs : \E v \in Versions :
        name[p] = <<opening.of[p], v>> /\ v <= remote[opening.of[p]].version

\* Process p has looked at the time of the dataset.
Named(p) ==
    /\ pc[p] # "stamp"
    /\ opening.kind = "remote" \/ (opening.kind = "filestore" /\ phase[p] = "iterating")

\* What a process knows that is at it, if the dataset was not written since.
ProcInv(p) ==
    (pc[p] \notin {"idle", "failed"} /\ ~overtaken[p]) =>
        LET now == remote[opening.of[p]]
        IN  /\ now.here
            /\ Named(p) => name[p] = <<opening.of[p], now.version>>
            /\ phase[p] = "iterating" => loaded[p] = now.version
            /\ pc[p] = "open" => phase[p] = "iterating" /\ configured[p] = now.version

PhaseInv(p) == /\ pc[p] = "idle" => phase[p] = "init"
               /\ pc[p] = "config" => phase[p] = "iterating"

\* The inductive invariant.  NeverStale alone says nothing of a process that is still
\* at it, nor of what others have left in the sub-folder it is going to look in.
IInv ==
    /\ opening \in OpenJobs
    /\ Dated => /\ Types /\ FolderInv /\ NameInv
                /\ \A p \in Procs : ProcInv(p) /\ PhaseInv(p)

-----------------------------------------------------------------------------
(* What Undisturbed rests on. *)

Making == {"look", "list", "clear", "rmdir", "make", "mkdir"}
Indexing == {"ready to index", "index", "indexed", "place"}

\* Undisturbed is about the jobs that are accepted.
Accepted == RightLoader /\ (opening.kind = "filestore" => opening.stamped)

\* The types, and that an index is in a sub-folder that is there.
Site ==
    /\ remote \in [Datasets -> [version : 1 .. MaxVersions, here : BOOLEAN]]
    /\ \A d \in Datasets : ~remote[d].here => remote[d].version < MaxVersions /\ opening.kind # "hf"
    /\ made \in BOOLEAN /\ dirs \subseteq Names /\ (dirs # {} => made)
    /\ indexOf \in [Names -> Versions]
    /\ \A n \in Names : indexOf[n] # Missing => n \in dirs
    /\ pc \in [Procs -> Places \union Indexing \union {"placed"}]
    /\ phase \in [Procs -> {"indexing", "init", "iterating"}]
    /\ name \in [Procs -> Names]
    /\ torn \in [Procs -> BOOLEAN] /\ crowded \in [Procs -> BOOLEAN] /\ overtaken \in [Procs -> BOOLEAN]
    /\ loaded \in [Procs -> Versions]

\* Where a process of each kind comes by.
Route(p) ==
    /\ phase[p] = "indexing" => opening.kind = "hf" /\ pc[p] \in Indexing \union Making \union {"failed"}
    /\ phase[p] = "init" =>
         pc[p] \in {"idle", "failed", "load"} \union
             CASE opening.kind = "remote" -> {"stamp", "fetch", "copy"} \union Making
               [] opening.kind = "hf" -> {"stamp", "fetch", "placed"} \union Making
               [] OTHER -> {}
    /\ phase[p] = "iterating" =>
         pc[p] \in {"failed", "touch", "fetch", "copy", "config", "open"} \union
             IF opening.kind = "filestore" THEN {"stamp"} \union Making ELSE {}
    /\ pc[p] = "copy" => Fetches
    /\ (pc[p] # "idle" /\ ~overtaken[p]) => remote[opening.of[p]].here
    /\ opening.kind = "hf" => ~overtaken[p]

\* The sub-folder a process uses that looks at the dataset now.
NameNow(d) == IF opening.stamped THEN <<d, remote[d].version>> ELSE Hash(d)

\* The process reads the index of a sub-folder.
InFolder(p) == opening.kind \in {"remote", "hf"} \/ (opening.kind = "filestore" /\ phase[p] = "iterating")

\* The process has been told its sub-folder, and is going to open the dataset from there.
Sited(p) == Busy(p) /\ InFolder(p) /\ (pc[p] = "stamp" => opening.kind = "hf")

\* Sub-folder n is the only one and has an index, and everybody who comes uses it.
Steady(n) ==
    /\ dirs = {n} /\ indexOf[n] # Missing /\ opening.kind # "files"
    /\ opening.kind # "hf" => \A d \in Datasets : n = NameNow(d)
    /\ \A q \in Procs : Sited(q) =>
          name[q] = n /\ phase[q] # "indexing" /\ pc[q] \notin {"clear", "rmdir", "placed"}

\* What process p has loaded is what there is.
LoadedNow(p) ==
    (phase[p] = "iterating" /\ Busy(p)) =>
        loaded[p] = IF opening.kind \in {"remote", "hf"} THEN indexOf[name[p]]
                                                         ELSE remote[opening.of[p]].version

\* What process p has come to that is alone at it.
Works(p) ==
    /\ \A q \in Procs \ {p} : ~Busy(q)
    /\ pc[p] \in {"list", "clear", "rmdir", "mkdir"} => made
    /\ pc[p] = "rmdir" => dirs = {}
    /\ pc[p] \in {"make", "mkdir"} => dirs \subseteq {name[p]}
    /\ pc[p] = "place" => dirs = {name[p]}
    /\ pc[p] = "copy" => ~torn[p]
    /\ pc[p] \in {"index", "indexed"} => First(p)
    /\ Sited(p) =>
         /\ pc[p] \in {"fetch", "copy", "load", "touch", "config"} => dirs = {name[p]}
         /\ pc[p] \in {"load", "config"} => indexOf[name[p]] # Missing
         /\ opening.kind # "hf" => name[p] = NameNow(opening.of[p])
         /\ phase[p] = "iterating" /\ opening.kind = "remote" => indexOf[name[p]] # Missing
         /\ phase[p] # "indexing" /\ opening.kind = "hf" =>
               dirs = {name[p]} /\ indexOf[name[p]] # Missing /\ pc[p] \notin {"clear", "rmdir"}
    /\ LoadedNow(p)

\* What a process has come to that has met nobody.
Alone(p) ==
    (~overtaken[p] /\ ~Met(p)) =>
        /\ pc[p] # "failed"
        /\ Busy(p) => Works(p)
        /\ (pc[p] = "open" /\ OneDataset /\ opening.kind # "files") => Steady(name[p])

\* A folder that is settled is kept by all processes.
Kept ==
    /\ opening.kind # "files" =>
          \E n \in Names : Steady(n) /\ \A p \in Procs : pc[p] = "open" => name[p] = n
    /\ \A d \in Datasets : remote[d].here
    /\ \A p \in Procs : ~overtaken[p] /\ pc[p] # "failed" /\ LoadedNow(p)

\* A dataset that is read where it is has no folder to be disturbed in.
InPlace == \A p \in Procs : ~overtaken[p] => pc[p] # "failed" /\ LoadedNow(p)

\* The inductive invariant.  Undisturbed alone says nothing of a process that is still at
\* it, and whether a folder that was opened is kept depends on what the next one that
\* comes finds in it: the only sub-folder, with an index, of the name it will ask for.
CalmInv ==
    /\ opening \in OpenJobs /\ Site /\ \A p \in Procs : Route(p)
    /\ Accepted => /\ \A p \in Procs : Alone(p)
                   /\ (opening.kind = "hf" /\ \A q \in Procs : ~crowded[q]) => \A m, n \in dirs : m = n
                   /\ Settled => Kept
                   /\ opening.kind = "files" => InPlace

-----------------------------------------------------------------------------
LEMMA InitInv == ASSUME OpenJobAssumption PROVE OpeningInit => IInv
<1> SUFFICES ASSUME OpeningInit, Dated
             PROVE  Types /\ FolderInv /\ NameInv /\ \A p \in Procs : ProcInv(p) /\ PhaseInv(p)
  BY DEF IInv, OpeningInit
<1>1. Types
  BY DEF OpeningInit, Types, Names, Hash, Versions, Places, Moving, MaxVersions, Missing, Datasets
<1>2. FolderInv
  <2> SUFFICES ASSUME NEW e \in Datasets, NEW w \in 1 .. MaxVersions, indexOf[<<e, w>>] # Missing
               PROVE  w <= indexOf[<<e, w>>] /\ indexOf[<<e, w>>] <= remote[e].version
    BY DEF FolderInv
  <2> DEFINE d == CHOOSE d \in Datasets : TRUE
             v == IF opening.folder = "stale" THEN 1 ELSE 2
  <2>1. dirs \subseteq {<<d, v>>} /\ <<e, w>> \in Names
    BY DEF OpeningInit, FolderOf, Dated, Names, MaxVersions
  <2>2. <<e, w>> \in dirs /\ indexOf[<<e, w>>] = v
    BY <2>1 DEF OpeningInit
  <2> HIDE DEF d
  <2>3. w = v
    BY <2>1, <2>2
  <2> QED BY <2>2, <2>3 DEF OpeningInit
<1>3. NameInv
  BY DEF OpeningInit, NameInv, Hash, Versions, MaxVersions, Datasets
<1>4. \A p \in Procs : ProcInv(p) /\ PhaseInv(p)
  BY DEF OpeningInit, ProcInv, PhaseInv
<1> QED BY <1>1, <1>2, <1>3, <1>4

\* A step of process p that leaves the dataset, the names and what was read alone:
\* it only moves on, and may change the indexes in the folder.
LEMMA MoveInv ==
    ASSUME IInv, Dated, NEW p \in Procs, NEW l \in Moving \union {"failed"},
           pc[p] \in Moving, pc' = [pc EXCEPT ![p] = l],
           l = "config" => phase[p] = "iterating",
           UNCHANGED <<opening, remote, phase, name, loaded, configured, overtaken>>,
           indexOf' \in [Names -> Versions], FolderInv'
    PROVE  IInv'
<1>1. Types /\ NameInv /\ \A q \in Procs : ProcInv(q) /\ PhaseInv(q)
  BY DEF IInv
<1>2. Types'
  BY <1>1 DEF Types, Places, Names, Datasets, Procs
<1>3. NameInv'
  BY <1>1 DEF NameInv, Procs
<1>4. ASSUME NEW q \in Procs PROVE ProcInv(q)' /\ PhaseInv(q)'
  <2>1. CASE q = p
    BY <1>1, <2>1 DEF ProcInv, PhaseInv, Named, Types, Moving
  <2>2. CASE q # p
    <3>1. pc'[q] = pc[q]
      BY <1>1, <2>2 DEF Types
    <3> QED BY <1>1, <3>1 DEF ProcInv, PhaseInv, Named
  <2> QED BY <2>1, <2>2
<1> QED BY <1>2, <1>3, <1>4 DEF IInv, Procs

\* A step that leaves the indexes alone too.
LEMMA StayInv ==
    ASSUME IInv, Dated, NEW p \in Procs, NEW l \in Moving \union {"failed"},
           pc[p] \in Moving, pc' = [pc EXCEPT ![p] = l],
           l = "config" => phase[p] = "iterating",
           UNCHANGED <<opening, remote, phase, name, loaded, configured, overtaken, indexOf>>
    PROVE  IInv'
<1>1. indexOf' \in [Names -> Versions] /\ FolderInv'
  BY DEF IInv, Types, FolderInv, Datasets, Procs
<1> QED BY <1>1, MoveInv

\* The index that a process finds is that of the dataset, if it was not written since.
LEMMA FoundNow ==
    ASSUME IInv, Dated, NEW p \in Procs, pc[p] \in {"load", "config"}, ~overtaken[p],
           Found(p) # Missing
    PROVE  Found(p) = remote[opening.of[p]].version
<1> DEFINE d == opening.of[p]
<1>1. Types /\ FolderInv /\ NameInv /\ ProcInv(p) /\ d \in Datasets
  BY DEF IInv, Datasets
<1>2. remote[d].here
  BY <1>1 DEF ProcInv
<1>3. CASE opening.kind = "files" \/ (opening.kind = "filestore" /\ phase[p] = "init")
  BY <1>2, <1>3 DEF Found
<1>4. CASE ~(opening.kind = "files" \/ (opening.kind = "filestore" /\ phase[p] = "init"))
  <2>1. Named(p)
    BY <1>1, <1>4 DEF Named, Dated, Types
  <2>2. name[p] = <<d, remote[d].version>> /\ Found(p) = indexOf[name[p]]
    BY <1>1, <1>4, <2>1 DEF ProcInv, Found
  <2> DEFINE v == remote[d].version
  <2>3. v \in 1 .. MaxVersions /\ indexOf[name[p]] \in Versions
    BY <1>1 DEF Types
  <2>4. v <= indexOf[<<d, v>>] /\ indexOf[<<d, v>>] <= v
    BY <1>1, <2>2, <2>3 DEF FolderInv
  <2> QED BY <2>2, <2>3, <2>4 DEF Versions, MaxVersions
<1> QED BY <1>3, <1>4

-----------------------------------------------------------------------------
\* The steps of the program that writes the dataset: whoever reads it is overtaken.
LEMMA WriteStep ==
    ASSUME IInv, Dated, NEW d \in Datasets, Withdraw(d) \/ Publish(d)
    PROVE  IInv'
<1>1. Types /\ FolderInv /\ NameInv /\ \A q \in Procs : ProcInv(q) /\ PhaseInv(q)
  BY DEF IInv
<1>2. /\ UNCHANGED <<opening, indexOf, pc, phase, name, loaded, configured>>
      /\ overtaken' = [p \in Procs |-> overtaken[p] \/ (opening.of[p] = d /\ pc[p] # "idle")]
  BY DEF Withdraw, Publish, Overtake, folder
<1>3. /\ remote' \in [Datasets -> [version : 1 .. MaxVersions, here : BOOLEAN]]
      /\ \A e \in Datasets : /\ ~remote'[e].here => remote'[e].version < MaxVersions
                             /\ remote[e].version <= remote'[e].version
                             /\ e # d => remote'[e] = remote[e]
  <2>1. remote \in [Datasets -> [version : 1 .. MaxVersions, here : BOOLEAN]]
    BY <1>1 DEF Types
  <2>2. PICK r \in [version : 1 .. MaxVersions, here : BOOLEAN] :
          /\ remote' = [remote EXCEPT ![d] = r]
          /\ ~r.here => r.version < MaxVersions
          /\ remote[d].version <= r.version
    <3>1. remote[d] \in [version : 1 .. MaxVersions, here : BOOLEAN]
      BY <2>1
    <3>2. CASE Withdraw(d)
      <4> DEFINE r == [version |-> remote[d].version, here |-> FALSE]
      <4>1. remote' = [remote EXCEPT ![d] = r] /\ r.version < MaxVersions
        BY <3>1, <3>2 DEF Withdraw
      <4>2. r \in [version : 1 .. MaxVersions, here : BOOLEAN] /\ remote[d].version <= r.version
        BY <3>1 DEF MaxVersions
      <4> QED BY <4>1, <4>2
    <3>3. CASE Publish(d)
      <4> DEFINE r == [version |-> remote[d].version + 1, here |-> TRUE]
      <4>1. remote' = [remote EXCEPT ![d] = r] /\ remote[d].version < MaxVersions
        BY <1>1, <3>3 DEF Publish, Types
      <4>2. r \in [version : 1 .. MaxVersions, here : BOOLEAN] /\ remote[d].version <= r.version
        BY <3>1, <4>1 DEF MaxVersions
      <4> QED BY <4>1, <4>2
    <3> QED BY <3>2, <3>3
  <2>3. ASSUME NEW e \in Datasets
        PROVE  /\ ~remote'[e].here => remote'[e].version < MaxVersions
               /\ remote[e].version <= remote'[e].version
               /\ e # d => remote'[e] = remote[e]
    <3>1. CASE e = d
      BY <2>1, <2>2, <3>1
    <3>2. CASE e # d
      <4>1. remote'[e] = remote[e] /\ remote[e].version \in 1 .. MaxVersions
        BY <2>1, <2>2, <3>2
      <4> QED BY <1>1, <4>1 DEF Types, MaxVersions
    <3> QED BY <3>1, <3>2
  <2> QED BY <2>1, <2>2, <2>3
<1>4. Types'
  <2>1. Datasets' = Datasets /\ Names' = Names /\ Procs' = Procs
    BY <1>2 DEF Names, Datasets, Procs
  <2>2. overtaken' \in [Procs -> BOOLEAN]
    BY <1>2
  <2> QED BY <1>1, <1>2, <1>3, <2>1, <2>2 DEF Types
<1>5. FolderInv'
  <2> SUFFICES ASSUME NEW e \in Datasets, NEW v \in 1 .. MaxVersions, indexOf[<<e, v>>] # Missing
               PROVE  v <= indexOf[<<e, v>>] /\ indexOf[<<e, v>>] <= remote'[e].version
    BY <1>2 DEF FolderInv, Datasets, Procs
  <2>1. v <= indexOf[<<e, v>>] /\ indexOf[<<e, v>>] <= remote[e].version
    BY <1>1 DEF FolderInv
  <2>2. indexOf[<<e, v>>] \in Versions
    BY <1>1 DEF Types, Names, Versions, MaxVersions
  <2>3. remote[e].version \in Versions /\ remote'[e].version \in Versions
    BY <1>1, <1>3 DEF Types, Versions, MaxVersions
  <2> QED BY <1>3, <2>1, <2>2, <2>3 DEF Versions, MaxVersions
<1>6. NameInv'
  <2> SUFFICES ASSUME NEW p \in Procs
               PROVE  \E v \in Versions : name[p] = <<opening.of[p], v>>
                                        /\ v <= remote'[opening.of[p]].version
    BY <1>2 DEF NameInv, Procs
  <2>1. PICK v \in Versions : name[p] = <<opening.of[p], v>> /\ v <= remote[opening.of[p]].version
    BY <1>1 DEF NameInv
  <2>2. opening.of[p] \in Datasets
    BY DEF Datasets
  <2> DEFINE e == opening.of[p]
  <2>3. remote[e].version \in Versions /\ remote'[e].version \in Versions
    BY <1>1, <1>3, <2>2 DEF Types, Versions, MaxVersions
  <2>4. v <= remote[e].version /\ remote[e].version <= remote'[e].version
    BY <1>3, <2>1, <2>2
  <2>5. v <= remote'[opening.of[p]].version
    BY <2>3, <2>4 DEF Versions, MaxVersions
  <2> QED BY <2>1, <2>5
<1>7. ASSUME NEW p \in Procs PROVE ProcInv(p)' /\ PhaseInv(p)'
  <2>1. opening.of[p] \in Datasets
    BY DEF Datasets
  <2>2. CASE opening.of[p] = d
    BY <1>1, <1>2, <2>2 DEF ProcInv, PhaseInv
  <2>3. CASE opening.of[p] # d
    <3>1. remote'[opening.of[p]] = remote[opening.of[p]] /\ overtaken'[p] = overtaken[p]
      BY <1>1, <1>2, <1>3, <2>1, <2>3 DEF Types
    <3> QED BY <1>1, <1>2, <3>1 DEF ProcInv, PhaseInv, Named
  <2> QED BY <2>2, <2>3
<1> QED BY <1>2, <1>4, <1>5, <1>6, <1>7 DEF IInv, Procs

\* A step of process p that leaves the indexes, and what is known of the others, alone.
LEMMA OwnInv ==
    ASSUME IInv, Dated, NEW p \in Procs, NEW l \in Places, pc' = [pc EXCEPT ![p] = l],
           UNCHANGED <<opening, remote, indexOf>>,
           Types', NameInv', ProcInv(p)', PhaseInv(p)',
           \A q \in Procs \ {p} : UNCHANGED <<phase[q], name[q], loaded[q], configured[q], overtaken[q]>>
    PROVE  IInv'
<1>1. Types /\ FolderInv /\ \A q \in Procs : ProcInv(q) /\ PhaseInv(q)
  BY DEF IInv
<1>2. FolderInv'
  BY <1>1 DEF FolderInv, Datasets, Procs
<1>3. ASSUME NEW q \in Procs, q # p PROVE ProcInv(q)' /\ PhaseInv(q)'
  <2>1. pc'[q] = pc[q]
    BY <1>1, <1>3 DEF Types
  <2>2. UNCHANGED <<phase[q], name[q], loaded[q], configured[q], overtaken[q]>>
    BY <1>3
  <2> QED BY <1>1, <2>1, <2>2 DEF ProcInv, PhaseInv, Named
<1> QED BY <1>2, <1>3 DEF IInv, Procs

LEMMA BeginStep == ASSUME IInv, Dated, NEW p \in Procs, Begin(p) PROVE IInv'
<1> DEFINE l == IF opening.kind = "remote" THEN "stamp" ELSE "load"
<1>1. Types /\ NameInv /\ ProcInv(p) /\ PhaseInv(p) /\ opening.of[p] \in Datasets
  BY DEF IInv, Datasets
<1>2. /\ pc[p] = "idle" /\ pc' = [pc EXCEPT ![p] = l]
      /\ overtaken' = [overtaken EXCEPT ![p] = ~remote[opening.of[p]].here]
      /\ UNCHANGED <<opening, remote, indexOf, phase, name, loaded, configured>>
  BY DEF Begin, Goto, Dated, folder
<1>3. l \in Places
  BY DEF Places, Moving
<1>4. Types' /\ NameInv'
  BY SMTT(30), <1>1, <1>2, <1>3 DEF Types, NameInv, Names, Datasets, Procs
<1>5. ProcInv(p)' /\ PhaseInv(p)'
  BY <1>1, <1>2 DEF ProcInv, PhaseInv, Named, Types, Dated
<1>6. \A q \in Procs \ {p} : UNCHANGED <<phase[q], name[q], loaded[q], configured[q], overtaken[q]>>
  BY <1>1, <1>2 DEF Types
<1> QED BY <1>2, <1>3, <1>4, <1>5, <1>6, OwnInv

LEMMA StampStep == ASSUME IInv, Dated, NEW p \in Procs, Stamp(p) PROVE IInv'
<1> DEFINE d == opening.of[p]
           now == <<d, remote[d].version>>
<1>1. Types /\ NameInv /\ ProcInv(p) /\ PhaseInv(p) /\ d \in Datasets
  BY DEF IInv, Datasets
<1>2. /\ pc[p] = "stamp"
      /\ UNCHANGED <<opening, remote, indexOf, phase, loaded, configured, overtaken>>
      /\ \/ pc' = [pc EXCEPT ![p] = "failed"] /\ UNCHANGED name
         \/ pc' = [pc EXCEPT ![p] = "look"] /\ name' = [name EXCEPT ![p] = now]
  BY DEF Stamp, Goto, Fail, Dated, folder
<1>3. now \in Names
  BY <1>1 DEF Types, Names, MaxVersions
<1>4. Types'
  <2>1. Datasets' = Datasets /\ Names' = Names /\ Procs' = Procs
    BY <1>2 DEF Names, Datasets, Procs
  <2>2. pc' \in [Procs -> Places] /\ name' \in [Procs -> Names]
    BY <1>1, <1>2, <1>3 DEF Types, Places, Moving
  <2> QED BY <1>1, <1>2, <2>1, <2>2 DEF Types
<1>5. NameInv'
  <2> SUFFICES ASSUME NEW q \in Procs
               PROVE  \E v \in Versions : name'[q] = <<opening.of[q], v>>
                                        /\ v <= remote[opening.of[q]].version
    BY <1>2 DEF NameInv, Procs
  <2>1. CASE q = p /\ name' = [name EXCEPT ![p] = now]
    BY <1>1, <2>1 DEF Types, Versions, MaxVersions
  <2>2. CASE ~(q = p /\ name' = [name EXCEPT ![p] = now])
    BY <1>1, <1>2, <2>2 DEF Types, NameInv
  <2> QED BY <2>1, <2>2
<1>6. ProcInv(p)' /\ PhaseInv(p)'
  BY <1>1, <1>2 DEF ProcInv, PhaseInv, Named, Types
<1>7. \A q \in Procs \ {p} : UNCHANGED <<phase[q], name[q], loaded[q], configured[q], overtaken[q]>>
  BY <1>1, <1>2 DEF Types
<1>8. PICK l \in {"failed", "look"} : pc' = [pc EXCEPT ![p] = l]
  BY <1>2
<1> QED BY <1>2, <1>4, <1>5, <1>6, <1>7, <1>8, OwnInv DEF Places, Moving

LEMMA LoadStep == ASSUME IInv, Dated, NEW p \in Procs, Load(p) PROVE IInv'
<1> DEFINE l == IF opening.kind = "filestore" THEN "stamp" ELSE "touch"
<1>1. Types /\ NameInv /\ ProcInv(p) /\ PhaseInv(p)
  BY DEF IInv
<1>2. CASE Found(p) = Missing
  <2>1. /\ pc[p] \in Moving /\ pc' = [pc EXCEPT ![p] = "failed"]
        /\ UNCHANGED <<opening, remote, phase, name, loaded, configured, overtaken, indexOf>>
    BY <1>2 DEF Load, Fail, Goto, Moving, folder
  <2> QED BY <2>1, StayInv
<1>3. CASE Found(p) # Missing
  <2>1. /\ pc[p] = "load" /\ pc' = [pc EXCEPT ![p] = l]
        /\ loaded' = [loaded EXCEPT ![p] = Found(p)]
        /\ phase' = [phase EXCEPT ![p] = "iterating"]
        /\ UNCHANGED <<opening, remote, indexOf, name, configured, overtaken>>
    BY <1>3 DEF Load, Goto, folder
  <2>2. l \in Places
    BY DEF Places, Moving
  <2>3. Found(p) \in Versions
    <3>1. opening.of[p] \in Datasets
      BY DEF Datasets
    <3>2. remote[opening.of[p]].version \in Versions /\ indexOf[name[p]] \in Versions
      BY <1>1, <3>1 DEF Types, Versions, MaxVersions
    <3> QED BY <1>3, <3>2 DEF Found
  <2>4. Types'
    <3>1. Datasets' = Datasets /\ Names' = Names /\ Procs' = Procs
      BY <2>1 DEF Names, Datasets, Procs
    <3> QED BY <1>1, <2>1, <2>2, <2>3, <3>1 DEF Types
  <2>5. NameInv'
    BY <1>1, <2>1 DEF NameInv, Procs
  <2>6. ~overtaken[p] => Found(p) = remote[opening.of[p]].version
    BY <1>3, <2>1, FoundNow
  <2>7. ProcInv(p)' /\ PhaseInv(p)'
    BY <1>1, <2>1, <2>6 DEF ProcInv, PhaseInv, Named, Types, Dated
  <2>8. \A q \in Procs \ {p} : UNCHANGED <<phase[q], name[q], loaded[q], configured[q], overtaken[q]>>
    BY <1>1, <2>1 DEF Types
  <2> QED BY <2>1, <2>2, <2>4, <2>5, <2>7, <2>8, OwnInv
<1> QED BY <1>2, <1>3

LEMMA ConfigureStep == ASSUME IInv, Dated, NEW p \in Procs, Configure(p) PROVE IInv'
<1>1. Types /\ NameInv /\ ProcInv(p) /\ PhaseInv(p)
  BY DEF IInv
<1>2. CASE UNCHANGED configured /\ Fail(p)
  <2>1. /\ pc[p] \in Moving /\ pc' = [pc EXCEPT ![p] = "failed"]
        /\ UNCHANGED <<opening, remote, phase, name, loaded, configured, overtaken, indexOf>>
    BY <1>2 DEF Configure, Fail, Goto, Moving, folder
  <2> QED BY <2>1, StayInv
<1>3. CASE ~(UNCHANGED configured /\ Fail(p))
  <2>1. /\ pc[p] = "config" /\ pc' = [pc EXCEPT ![p] = "open"] /\ Found(p) # Missing
        /\ configured' = [configured EXCEPT ![p] = Found(p)]
        /\ UNCHANGED <<opening, remote, indexOf, name, phase, loaded, overtaken>>
    BY <1>3 DEF Configure, Goto, folder
  <2>2. Found(p) \in Versions
    <3>1. opening.of[p] \in Datasets
      BY DEF Datasets
    <3>2. remote[opening.of[p]].version \in Versions /\ indexOf[name[p]] \in Versions
      BY <1>1, <3>1 DEF Types, Versions, MaxVersions
    <3> QED BY <2>1, <3>2 DEF Found
  <2>3. Types'
    <3>1. Datasets' = Datasets /\ Names' = Names /\ Procs' = Procs
      BY <2>1 DEF Names, Datasets, Procs
    <3> QED BY <1>1, <2>1, <2>2, <3>1 DEF Types, Places
  <2>4. NameInv'
    BY <1>1, <2>1 DEF NameInv, Procs
  <2>5. ~overtaken[p] => Found(p) = remote[opening.of[p]].version
    BY <2>1, FoundNow
  <2>6. ProcInv(p)' /\ PhaseInv(p)'
    BY <1>1, <2>1, <2>5 DEF ProcInv, PhaseInv, Named, Types
  <2>7. \A q \in Procs \ {p} : UNCHANGED <<phase[q], name[q], loaded[q], configured[q], overtaken[q]>>
    BY <1>1, <2>1 DEF Types
  <2>8. "open" \in Places
    BY DEF Places
  <2> QED BY <2>1, <2>3, <2>4, <2>6, <2>7, <2>8, OwnInv
<1> QED BY <1>2, <1>3

\* What is left in the folder, by a copy or by nobody, is of the version it is named
\* after or a later one.
LEMMA CopyStep == ASSUME IInv, Dated, NEW p \in Procs, Copy(p) PROVE IInv'
<1> DEFINE d == opening.of[p]
           l == AfterFetch(p)
<1>1. Types /\ FolderInv /\ NameInv /\ d \in Datasets
  BY DEF IInv, Datasets
<1>2. /\ pc[p] \in Moving /\ pc' = [pc EXCEPT ![p] = l]
      /\ UNCHANGED <<opening, remote, phase, name, loaded, configured, overtaken>>
  BY DEF Copy, Goto, Moving
<1>3. l \in Moving /\ (l = "config" => phase[p] = "iterating")
  BY <1>1 DEF AfterFetch, Types, Moving
<1>4. CASE UNCHANGED indexOf
  BY <1>2, <1>3, <1>4, StayInv
<1>5. CASE indexOf' = [indexOf EXCEPT ![name[p]] = IF @ = Missing THEN remote[d].version ELSE @]
  <2>1. remote[d].version \in Versions /\ name[p] \in Names
    BY <1>1 DEF Types, Versions, MaxVersions
  <2>2. indexOf' \in [Names -> Versions]
    BY <1>1, <1>5, <2>1 DEF Types
  <2>3. FolderInv'
    <3> SUFFICES ASSUME NEW e \in Datasets, NEW v \in 1 .. MaxVersions, indexOf'[<<e, v>>] # Missing
                 PROVE  v <= indexOf'[<<e, v>>] /\ indexOf'[<<e, v>>] <= remote[e].version
      BY <1>2 DEF FolderInv, Datasets, Procs
    <3>1. <<e, v>> \in Names
      BY DEF Names, MaxVersions
    <3>2. CASE indexOf'[<<e, v>>] = indexOf[<<e, v>>]
      BY <1>1, <3>2 DEF FolderInv
    <3>3. CASE indexOf'[<<e, v>>] # indexOf[<<e, v>>]
      <4>1. name[p] = <<e, v>> /\ indexOf'[<<e, v>>] = remote[d].version
        BY <1>1, <1>5, <3>1, <3>3 DEF Types
      <4>2. PICK u \in Versions : name[p] = <<d, u>> /\ u <= remote[d].version
        BY <1>1 DEF NameInv
      <4>3. e = d /\ u = v
        BY <4>1, <4>2
      <4> QED BY <2>1, <4>1, <4>2, <4>3 DEF Versions, MaxVersions
    <3> QED BY <3>2, <3>3
  <2> QED BY <1>2, <1>3, <2>2, <2>3, MoveInv
<1> QED BY <1>4, <1>5 DEF Copy

LEMMA ClearStep == ASSUME IInv, Dated, NEW p \in Procs, Clear(p) PROVE IInv'
<1>1. /\ pc[p] \in Moving
      /\ UNCHANGED <<opening, remote, phase, name, loaded, configured, overtaken>>
  BY DEF Clear, Moving
<1>2. CASE Fail(p) /\ UNCHANGED indexOf
  BY <1>1, <1>2, StayInv DEF Fail, Goto
<1>3. CASE Goto(p, "rmdir") /\ indexOf' = [n \in Names |-> Missing]
  <2>1. indexOf' \in [Names -> Versions]
    BY <1>3 DEF Missing, Versions, MaxVersions
  <2>2. FolderInv'
    BY <1>1, <1>3 DEF FolderInv, Datasets, Procs, Names, MaxVersions
  <2> QED BY <1>1, <1>3, <2>1, <2>2, MoveInv DEF Goto, Moving
<1> QED BY <1>2, <1>3 DEF Clear

-----------------------------------------------------------------------------
\* The steps of a process that only move it on.
LEMMA MovingStep ==
    ASSUME IInv, Dated, NEW p \in Procs,
           Look(p) \/ List(p) \/ Rmdir(p) \/ Make(p) \/ Mkdir(p) \/ Fetch(p) \/ Touch(p)
    PROVE  IInv'
<1>1. Types
  BY DEF IInv
<1>2. UNCHANGED <<opening, remote, phase, name, loaded, configured, overtaken, indexOf>>
  BY DEF Look, List, Rmdir, Make, Mkdir, Fetch, Touch, folder
<1>3. pc[p] \in Moving
  BY DEF Look, List, Rmdir, Make, Mkdir, Fetch, Touch, Moving
<1>4. \E l \in Moving \union {"failed"} :
         pc' = [pc EXCEPT ![p] = l] /\ (l = "config" => phase[p] = "iterating")
  <2>1. CASE Fetch(p)
    BY <1>1, <2>1 DEF Fetch, Goto, Fail, AfterFetch, Moving, Types
  <2>2. CASE Mkdir(p)
    BY <1>1, <2>2 DEF Mkdir, Goto, Fail, AfterFolder, Moving, Types
  <2>3. CASE Look(p) \/ List(p) \/ Rmdir(p) \/ Make(p) \/ Touch(p)
    BY <2>3 DEF Look, List, Rmdir, Make, Touch, Goto, Fail, Moving
  <2> QED BY <2>1, <2>2, <2>3
<1> QED BY <1>2, <1>3, <1>4, StayInv

\* The steps of a Hugging Face dataset are none of other datasets.
LEMMA NotIndexed ==
    ASSUME IInv, Dated, NEW p \in Procs
    PROVE  ~(StartIndexing(p) \/ IndexParquet(p) \/ EndIndexing(p) \/ PlaceIndex(p) \/ Placed(p))
<1>1. pc[p] \in Places
  BY DEF IInv, Types
<1> QED BY <1>1 DEF StartIndexing, IndexParquet, EndIndexing, PlaceIndex, Placed, Barrier, Places, Moving

LEMMA StepInv == IInv /\ [OpeningNext]_openingVars => IInv'
<1> SUFFICES ASSUME IInv, [OpeningNext]_openingVars PROVE IInv'
  OBVIOUS
<1>1. CASE Dated
  <2>1. CASE \E d \in Datasets : Withdraw(d) \/ Publish(d)
    BY <1>1, <2>1, WriteStep
  <2>2. ASSUME NEW p \in Procs, OpeningStep(p) PROVE IInv'
    <3>1. \/ Begin(p) \/ Stamp(p) \/ Load(p) \/ Configure(p) \/ Copy(p) \/ Clear(p)
          \/ Look(p) \/ List(p) \/ Rmdir(p) \/ Make(p) \/ Mkdir(p) \/ Fetch(p) \/ Touch(p)
      BY <1>1, <2>2, NotIndexed DEF OpeningStep
    <3> QED BY <1>1, <3>1, BeginStep, StampStep, LoadStep, ConfigureStep, CopyStep, ClearStep,
               MovingStep
  <2>3. CASE UNCHANGED openingVars
    <3>1. Datasets' = Datasets /\ Names' = Names /\ Procs' = Procs /\ Dated
      BY <1>1, <2>3 DEF Names, Datasets, Procs, openingVars
    <3>2. UNCHANGED <<opening, remote, indexOf, pc, phase, name, loaded, configured, overtaken>>
      BY <2>3 DEF openingVars, folder, process
    <3>3. Types' /\ FolderInv' /\ NameInv'
      BY <3>1, <3>2 DEF IInv, Types, FolderInv, NameInv
    <3>4. \A p \in Procs : ProcInv(p)' /\ PhaseInv(p)'
      BY <3>1, <3>2 DEF IInv, ProcInv, PhaseInv, Named
    <3> QED BY <3>1, <3>2, <3>3, <3>4 DEF IInv
  <2> QED BY <2>1, <2>2, <2>3 DEF OpeningNext
<1>2. CASE ~Dated
  <2>1. UNCHANGED opening
    BY ZenonT(60) DEF OpeningNext, OpeningStep, openingVars, Withdraw, Publish, Begin, StartIndexing, IndexParquet,
           EndIndexing, Barrier, PlaceIndex, Placed, Stamp, Look, List, Clear, Rmdir, Make, Mkdir,
           Fetch, Copy, Load, Touch, Configure
  <2> QED BY <1>2, <2>1 DEF IInv, Dated
<1> QED BY <1>1, <1>2

LEMMA NowInv == ASSUME OpenJobAssumption PROVE IInv => NeverStale
  BY DEF IInv, NeverStale, ProcInv, Dated, OpenJobAssumption

\* A process that opens a dataset reads the version that was there when it began, and
\* the chunks it chose are of that version, however many processes clear, make and fill the
\* folder at the same time, and whatever it held before.
THEOREM FolderNeverStale ==
    ASSUME OpenJobAssumption
    PROVE  OpeningSpec => []NeverStale
<1>1. OpeningInit => IInv
  BY InitInv
<1>2. IInv /\ [OpeningNext]_openingVars => IInv'
  BY StepInv
<1>3. IInv => NeverStale
  BY NowInv
<1> QED BY <1>1, <1>2, <1>3, PTL DEF OpeningSpec

-----------------------------------------------------------------------------
(* Who disturbs whom. *)

LEMMA CalmInit == ASSUME OpenJobAssumption PROVE OpeningInit => CalmInv
<1> SUFFICES ASSUME OpeningInit PROVE CalmInv
  OBVIOUS
<1> DEFINE d == CHOOSE e \in Datasets : TRUE
           v == IF opening.folder = "stale" THEN 1 ELSE 2
           n == FolderOf(d, v)
<1>0. /\ opening \in OpenJobs /\ opening.kind \in {"remote", "files", "filestore", "hf"}
      /\ opening.rewritten => opening.kind # "hf"
  BY DEF OpeningInit, OpenJobAssumption
<1>1. d \in Datasets
  <2>1. 1 \in Procs
    BY DEF OpeningInit, OpenJobAssumption, Procs
  <2> QED BY <2>1 DEF Datasets
<1>2. n \in Names
  <2>1. v \in 0 .. MaxVersions /\ 0 \in 0 .. MaxVersions
    BY DEF MaxVersions
  <2> QED BY <1>1, <2>1 DEF FolderOf, Hash, Names
<1> HIDE DEF d
<1>3. /\ made = (opening.folder # "none")
      /\ dirs = IF made THEN {n} ELSE {}
      /\ indexOf = [m \in Names |-> IF m \in dirs /\ opening.folder # "partial" THEN v ELSE Missing]
  BY DEF OpeningInit, d
<1> HIDE DEF n
<1>4. Site
  <2>1. v \in Versions /\ Missing \in Versions
    BY DEF Versions, Missing, MaxVersions
  <2>2. made \in BOOLEAN /\ dirs \subseteq Names /\ (dirs # {} => made)
    BY <1>2, <1>3
  <2>3. indexOf \in [Names -> Versions] /\ \A m \in Names : indexOf[m] # Missing => m \in dirs
    BY <1>3, <2>1
  <2>4. name \in [Procs -> Names]
    BY DEF OpeningInit, Names, Hash, Datasets, MaxVersions
  <2>5. remote \in [Datasets -> [version : 1 .. MaxVersions, here : BOOLEAN]]
    BY DEF OpeningInit, MaxVersions
  <2>6. loaded \in [Procs -> Versions]
    BY <2>1 DEF OpeningInit
  <2> QED BY <2>2, <2>3, <2>4, <2>5, <2>6 DEF OpeningInit, Site, Places
<1>5. ASSUME NEW p \in Procs
      PROVE  /\ Route(p) /\ pc[p] = "idle" /\ ~Busy(p) /\ ~Sited(p) /\ ~overtaken[p]
             /\ Alone(p) /\ LoadedNow(p)
  BY DEF OpeningInit, Route, Busy, Sited, Alone, LoadedNow
<1>6. \A a, b \in dirs : a = b
  BY <1>3
<1>7. ASSUME Settled PROVE Kept
  <2>1. ASSUME opening.kind # "files" PROVE Steady(n)
    <3>1. dirs = {n} /\ indexOf[n] = 2
      BY <1>2, <1>3, <1>7 DEF Settled
    <3>2. ASSUME opening.kind # "hf", NEW e \in Datasets PROVE n = NameNow(e)
      <4>1. e = d
        BY <1>1, <1>7, <3>2 DEF Settled, OneDataset
      <4>2. remote[e].version = 2
        BY <3>2 DEF OpeningInit
      <4>3. v = 2
        BY <1>7 DEF Settled
      <4> QED BY <3>2, <4>1, <4>2, <4>3 DEF n, FolderOf, NameNow
    <3> QED BY <1>5, <2>1, <3>1, <3>2 DEF Steady, Missing
  <2>2. \A e \in Datasets : remote[e].here
    BY DEF OpeningInit
  <2>3. \A p \in Procs : ~overtaken[p] /\ pc[p] # "failed" /\ LoadedNow(p)
    BY <1>5
  <2>4. \A p \in Procs : pc[p] # "open"
    BY <1>5
  <2> QED BY <1>2, <2>1, <2>2, <2>3, <2>4 DEF Kept
<1>8. InPlace
  BY <1>5 DEF InPlace
<1> QED BY <1>0, <1>4, <1>5, <1>6, <1>7, <1>8 DEF CalmInv

\* What a step of process p may do, and what it leaves alone.
LEMMA StepFrame ==
    ASSUME CalmInv, NEW p \in Procs, OpeningStep(p)
    PROVE  /\ UNCHANGED <<opening, remote>>
           /\ Procs' = Procs /\ Datasets' = Datasets /\ Names' = Names
           /\ \A q \in Procs \ {p} :
                 /\ phase'[q] = phase[q] /\ name'[q] = name[q] /\ loaded'[q] = loaded[q]
                 /\ overtaken'[q] = overtaken[q] /\ (pc'[q] # pc[q] => Busy(p) /\ Busy(q))
           /\ \A q \in Procs : crowded[q] => crowded'[q]
           /\ pc[p] # "idle" => UNCHANGED <<overtaken, crowded>>
           /\ pc[p] = "idle" \/ Busy(p)
           /\ pc[p] # "idle" \/ Begin(p)
<1>0. /\ pc \in [Procs -> Places \union Indexing \union {"placed"}] /\ DOMAIN phase = Procs
      /\ DOMAIN name = Procs /\ DOMAIN loaded = Procs
      /\ DOMAIN overtaken = Procs /\ DOMAIN crowded = Procs
  BY DEF CalmInv, Site
<1> DEFINE Frame ==
             /\ UNCHANGED <<opening, remote>>
             /\ \A q \in Procs \ {p} :
                   /\ phase'[q] = phase[q] /\ name'[q] = name[q] /\ loaded'[q] = loaded[q]
                   /\ overtaken'[q] = overtaken[q] /\ (pc'[q] # pc[q] => Busy(p) /\ Busy(q))
             /\ \A q \in Procs : crowded[q] => crowded'[q]
             /\ pc[p] # "idle" => UNCHANGED <<overtaken, crowded>>
             /\ pc[p] = "idle" \/ Busy(p)
             /\ pc[p] # "idle" \/ Begin(p)
<1> SUFFICES Frame
  BY DEF Procs, Datasets, Names
<1> USE <1>0 DEF Busy, Goto, Fail
<1>1. CASE Begin(p)
  BY <1>1 DEF Begin
<1>2. ASSUME NEW at \in {"ready to index", "indexed", "placed"}, NEW next, Barrier(p, at, next)
      PROVE  Frame
  BY <1>2 DEF Barrier, folder
<1>2a. CASE StartIndexing(p) \/ EndIndexing(p) \/ Placed(p)
  BY <1>2, <1>2a DEF StartIndexing, EndIndexing, Placed
<1>3. CASE IndexParquet(p)
  BY <1>3 DEF IndexParquet
<1>3a. CASE PlaceIndex(p)
  BY <1>3a DEF PlaceIndex
<1>4. CASE Stamp(p)
  BY <1>4 DEF Stamp
<1>5. CASE Look(p) \/ List(p) \/ Rmdir(p)
  BY <1>5 DEF Look, List, Rmdir
<1>5a. CASE Make(p) \/ Mkdir(p)
  BY <1>5a DEF Make, Mkdir
<1>6. CASE Clear(p)
  BY <1>6 DEF Clear
<1>7. CASE Fetch(p)
  BY <1>7 DEF Fetch
<1>7a. CASE Copy(p)
  BY <1>7a DEF Copy
<1>8. CASE Load(p)
  BY <1>8 DEF Load
<1>9. CASE Touch(p) \/ Configure(p)
  BY <1>9 DEF Touch, Configure
<1> QED BY <1>1, <1>2a, <1>3, <1>3a, <1>4, <1>5, <1>5a, <1>6, <1>7, <1>7a, <1>8, <1>9 DEF OpeningStep

LEMMA SiteStep ==
    ASSUME OpenJobAssumption, CalmInv, NEW p \in Procs, OpeningStep(p)
    PROVE  Site'
<1>0. /\ UNCHANGED <<opening, remote>> /\ Procs' = Procs /\ Datasets' = Datasets /\ Names' = Names
      /\ Site
  BY StepFrame DEF CalmInv
<1>k. opening.kind \in {"remote", "files", "filestore", "hf"}
  BY DEF CalmInv, OpenJobAssumption
<1>n. \A n \in Versions \union Procs : <<opening.of[p], n>> \in Names
  BY DEF Versions, Names, Datasets
<1>v. remote[opening.of[p]].version \in Versions \ {Missing} /\ Missing \in Versions
  BY <1>0 DEF Site, Versions, Missing, MaxVersions, Datasets
<1> DEFINE All == Places \union Indexing \union {"placed"}
           Steps == pc' \in [Procs -> All] /\ phase' \in [Procs -> {"indexing", "init", "iterating"}]
                    /\ name' \in [Procs -> Names] /\ torn' \in [Procs -> BOOLEAN]
                    /\ crowded' \in [Procs -> BOOLEAN] /\ overtaken' \in [Procs -> BOOLEAN]
                    /\ loaded' \in [Procs -> Versions]
           Dirs == /\ made' \in BOOLEAN /\ dirs' \subseteq Names /\ (dirs' # {} => made')
                   /\ indexOf' \in [Names -> Versions]
                   /\ \A n \in Names : indexOf'[n] # Missing => n \in dirs'
<1> SUFFICES Steps /\ Dirs
  BY <1>0 DEF Site
<1>l. AfterFolder(p) \in All /\ AfterFetch(p) \in All
  BY DEF AfterFolder, AfterFetch, Places, Moving, Indexing
<1>s. /\ \A l \in All : [pc EXCEPT ![p] = l] \in [Procs -> All]
      /\ UNCHANGED pc => pc' \in [Procs -> All]
      /\ UNCHANGED folder => Dirs
      /\ name[p] \in Names
  BY <1>0 DEF Site, folder
<1>u. /\ \A x \in {"indexing", "init", "iterating"} :
            [phase EXCEPT ![p] = x] \in [Procs -> {"indexing", "init", "iterating"}]
      /\ \A n \in Names : [name EXCEPT ![p] = n] \in [Procs -> Names]
      /\ \A v \in Versions : [loaded EXCEPT ![p] = v] \in [Procs -> Versions]
      /\ phase \in [Procs -> {"indexing", "init", "iterating"}] /\ name \in [Procs -> Names]
      /\ loaded \in [Procs -> Versions]
  BY <1>0 DEF Site
<1>t. pc' \in [Procs -> All] /\ UNCHANGED <<phase, name, torn, crowded, overtaken, loaded>> => Steps
  BY <1>0 DEF Site
<1>p. {"failed", "look", "list", "clear", "rmdir", "make", "mkdir", "copy", "load", "config", "touch", "fetch",
       "stamp", "open", "place", "placed", "index", "indexed", "ready to index"} \subseteq All
  BY DEF Places, Moving, Indexing
<1>g. \A l \in All : [pc EXCEPT ![p] = l] \in [Procs -> All]
  BY <1>s
<1> HIDE DEF All
<1>1. CASE Begin(p)
  <2>1. Existing \subseteq Names
    BY <1>0 DEF Existing, Site
  <2>2. /\ UNCHANGED <<folder, torn, loaded>> /\ pc' \in [Procs -> All]
        /\ phase' \in [Procs -> {"indexing", "init", "iterating"}] /\ name' \in [Procs -> Names]
    <3>1. UNCHANGED <<folder, torn, loaded>>
      BY <1>1 DEF Begin
    <3>2. pc' \in [Procs -> All]
      BY <1>1, <1>p, <1>s DEF Begin, Goto
    <3>3. phase' \in [Procs -> {"indexing", "init", "iterating"}] /\ name' \in [Procs -> Names]
      BY ZenonT(60), <1>1, <1>u, <2>1 DEF Begin
    <3> QED BY <3>1, <3>2, <3>3
  <2>3. crowded' \in [Procs -> BOOLEAN] /\ overtaken' \in [Procs -> BOOLEAN]
    BY <1>0, <1>1 DEF Begin, Site
  <2> QED BY <1>0, <1>s, <2>2, <2>3 DEF Site
<1>2. ASSUME NEW at, NEW next \in [Procs -> All], Barrier(p, at, next)
      PROVE  Steps /\ Dirs
  <2>1. UNCHANGED <<folder, phase, name, torn, crowded, overtaken, loaded>> /\ pc' \in [Procs -> All]
    BY <1>2, <1>s DEF Barrier, Goto
  <2> QED BY <1>s, <1>t, <2>1
<1>2a. CASE StartIndexing(p) \/ EndIndexing(p) \/ Placed(p)
  <2>1. /\ [q \in Procs |-> "index"] \in [Procs -> All]
        /\ [q \in Procs |-> IF First(q) THEN "look" ELSE "failed"] \in [Procs -> All]
        /\ [q \in Procs |-> "stamp"] \in [Procs -> All]
    BY <1>p
  <2> QED BY <1>2, <1>2a, <2>1 DEF StartIndexing, EndIndexing, Placed
<1>3. CASE IndexParquet(p)
  <2>1. /\ UNCHANGED <<folder, phase, torn, crowded, overtaken, loaded>> /\ pc' \in [Procs -> All]
        /\ name' \in [Procs -> Names]
    <3>1. UNCHANGED <<folder, phase, torn, crowded, overtaken, loaded>>
      BY <1>3 DEF IndexParquet
    <3>2. pc' \in [Procs -> All]
      <4>1. pc' = [pc EXCEPT ![p] = "indexed"]
        BY <1>3 DEF IndexParquet, Goto
      <4> QED BY <4>1, <1>p, <1>g
    <3>3. name' \in [Procs -> Names]
      <4>1. name' = [name EXCEPT ![p] = <<opening.of[p], p>>] \/ name' = name
        BY <1>3 DEF IndexParquet
      <4>2. <<opening.of[p], p>> \in Names
        BY <1>n
      <4> QED BY <4>1, <4>2, <1>u
    <3> QED BY <3>1, <3>2, <3>3
  <2> QED BY <1>0, <1>s, <2>1 DEF Site
<1>4. CASE PlaceIndex(p)
  <2>1. /\ UNCHANGED <<name, torn, crowded, overtaken, loaded>> /\ pc' \in [Procs -> All]
        /\ phase' \in [Procs -> {"indexing", "init", "iterating"}]
    <3>1. UNCHANGED <<name, torn, crowded, overtaken, loaded>> /\ pc' \in [Procs -> All]
      BY ZenonT(60), <1>p, <1>s, <1>4 DEF PlaceIndex, Goto, Fail
    <3>2. phase' \in [Procs -> {"indexing", "init", "iterating"}]
      BY <1>u, <1>4 DEF PlaceIndex
    <3> QED BY <3>1, <3>2
  <2>2. Dirs
    BY <1>0, <1>v, <1>s, <1>4 DEF PlaceIndex, Site
  <2> QED BY <1>0, <2>1, <2>2 DEF Site
<1>5. CASE Stamp(p)
  <2>1. Hash(opening.of[p]) \in Names
    BY <1>n DEF Hash, Versions, MaxVersions
  <2>2. <<opening.of[p], remote[opening.of[p]].version>> \in Names
    BY <1>n, <1>v
  <2>3. /\ UNCHANGED <<folder, phase, torn, crowded, overtaken, loaded>> /\ pc' \in [Procs -> All]
        /\ name' \in [Procs -> Names]
    <3>1. UNCHANGED <<folder, phase, torn, crowded, overtaken, loaded>>
      BY <1>5 DEF Stamp
    <3>2. pc' \in [Procs -> All]
      <4>1. \E l \in {"look", "failed"} : pc' = [pc EXCEPT ![p] = l]
        BY <1>5 DEF Stamp, Goto, Fail
      <4> QED BY <4>1, <1>p, <1>g
    <3>3. name' \in [Procs -> Names]
      <4>1. \/ name' = name
            \/ name' = [name EXCEPT ![p] = <<opening.of[p], remote[opening.of[p]].version>>]
            \/ name' = [name EXCEPT ![p] = Hash(opening.of[p])]
        BY <1>5 DEF Stamp
      <4> QED BY <4>1, <2>1, <2>2, <1>u
    <3> QED BY <3>1, <3>2, <3>3
  <2> QED BY <1>0, <1>s, <2>3 DEF Site
<1>6. CASE Look(p) \/ List(p) \/ Rmdir(p) \/ Make(p)
  <2>1. UNCHANGED <<phase, name, torn, crowded, overtaken, loaded>> /\ pc' \in [Procs -> All]
    <3>1. UNCHANGED <<phase, name, torn, crowded, overtaken, loaded>>
      BY <1>6 DEF Look, List, Rmdir, Make
    <3>2. \E l \in {"list", "make", "failed", "clear", "mkdir"} : pc' = [pc EXCEPT ![p] = l]
      <4>1. CASE Look(p) \/ Make(p)
        BY <4>1 DEF Look, Make, Goto
      <4>2. CASE List(p)
        BY <4>2 DEF List, Goto
      <4>3. CASE Rmdir(p)
        BY <4>3 DEF Rmdir, Goto, Fail
      <4> QED BY <1>6, <4>1, <4>2, <4>3
    <3>3. pc' \in [Procs -> All]
      BY <3>2, <1>g, <1>p
    <3> QED BY <3>1, <3>3
  <2>2. Dirs
    BY <1>0, <1>s, <1>6 DEF Look, List, Rmdir, Make, Site
  <2> QED BY <1>t, <2>1, <2>2
<1>7. CASE Mkdir(p)
  <2>1. UNCHANGED <<phase, name, torn, crowded, overtaken, loaded>> /\ pc' \in [Procs -> All]
    <3>1. UNCHANGED <<phase, name, torn, crowded, overtaken, loaded>>
      BY <1>7 DEF Mkdir
    <3>2. \E l \in {"failed", AfterFolder(p)} : pc' = [pc EXCEPT ![p] = l]
      BY <1>7 DEF Mkdir, Goto, Fail
    <3>3. pc' \in [Procs -> All]
      BY <3>2, <1>g, <1>l, <1>p
    <3> QED BY <3>1, <3>3
  <2>2. Dirs
    BY <1>0, <1>s, <1>7 DEF Mkdir, Site
  <2> QED BY <1>t, <2>1, <2>2
<1>8. CASE Clear(p)
  <2>1. /\ UNCHANGED <<phase, name, crowded, overtaken, loaded>> /\ pc' \in [Procs -> All]
        /\ torn' \in [Procs -> BOOLEAN]
    <3>1. UNCHANGED <<phase, name, crowded, overtaken, loaded>>
      BY <1>8 DEF Clear
    <3>2. \E l \in {"failed", "rmdir"} : pc' = [pc EXCEPT ![p] = l]
      BY <1>8 DEF Clear, Goto, Fail
    <3>3. torn' \in [Procs -> BOOLEAN]
      BY <1>0, <1>8 DEF Clear, Site
    <3>4. pc' \in [Procs -> All]
      BY <3>2, <1>g, <1>p
    <3> QED BY <3>1, <3>3, <3>4
  <2>2. Dirs
    BY <1>0, <1>v, <1>8 DEF Clear, Site
  <2> QED BY <1>0, <2>1, <2>2 DEF Site
<1>9. CASE Fetch(p)
  <2>1. /\ UNCHANGED <<phase, name, crowded, overtaken, loaded, indexOf>> /\ pc' \in [Procs -> All]
        /\ torn' \in [Procs -> BOOLEAN]
        /\ UNCHANGED <<made, dirs>> \/ (made' = TRUE /\ dirs' = dirs \union {name[p]})
    <3>1. UNCHANGED <<phase, name, crowded, overtaken, loaded, indexOf>>
      BY <1>9 DEF Fetch
    <3>2. \E l \in {"failed", "copy", AfterFetch(p)} : pc' = [pc EXCEPT ![p] = l]
      BY <1>9 DEF Fetch, Goto, Fail
    <3>3. UNCHANGED torn \/ torn' = [torn EXCEPT ![p] = FALSE]
      BY <1>9 DEF Fetch
    <3>4. UNCHANGED <<made, dirs>> \/ (made' = TRUE /\ dirs' = dirs \union {name[p]})
      BY <1>9 DEF Fetch
    <3>5. torn' \in [Procs -> BOOLEAN]
      BY <1>0, <3>3 DEF Site
    <3>6. pc' \in [Procs -> All]
      BY <3>2, <1>g, <1>l, <1>p
    <3> QED BY <3>1, <3>4, <3>5, <3>6
  <2>2. Steps
    BY <1>0, <2>1 DEF Site
  <2>3. made \in BOOLEAN /\ dirs \subseteq Names /\ (dirs # {} => made) /\ indexOf \in [Names -> Versions]
        /\ \A n \in Names : indexOf[n] # Missing => n \in dirs
    BY <1>0 DEF Site
  <2>4. Dirs
    BY <1>s, <2>1, <2>3
  <2> QED BY <2>2, <2>4
<1>10. CASE Copy(p)
  <2>1. UNCHANGED <<phase, name, torn, crowded, overtaken, loaded>> /\ pc' \in [Procs -> All]
    BY <1>s, <1>l, <1>10 DEF Copy, Goto
  <2>2. Dirs
    BY <1>0, <1>v, <1>10 DEF Copy, Site
  <2> QED BY <1>t, <2>1, <2>2
<1>11. CASE Load(p)
  <2>1. Found(p) \in Versions
    BY <1>0, <1>v DEF Found, Site
  <2>2. /\ UNCHANGED <<folder, name, torn, crowded, overtaken>> /\ pc' \in [Procs -> All]
        /\ phase' \in [Procs -> {"indexing", "init", "iterating"}] /\ loaded' \in [Procs -> Versions]
    <3>1. UNCHANGED <<folder, name, torn, crowded, overtaken>> /\ pc' \in [Procs -> All]
      BY <1>p, <1>s, <1>11 DEF Load, Goto, Fail
    <3>2. phase' \in [Procs -> {"indexing", "init", "iterating"}] /\ loaded' \in [Procs -> Versions]
      <4>1. UNCHANGED <<phase, loaded>> \/ (loaded' = [loaded EXCEPT ![p] = Found(p)]
                                           /\ phase' = [phase EXCEPT ![p] = "iterating"])
        BY <1>11 DEF Load
      <4> QED BY <1>u, <2>1, <4>1
    <3> QED BY <3>1, <3>2
  <2> QED BY <1>0, <1>s, <2>2 DEF Site
<1>12. CASE Touch(p) \/ Configure(p)
  <2>1. UNCHANGED <<phase, name, torn, crowded, overtaken, loaded>> /\ pc' \in [Procs -> All]
    BY <1>s, <1>p, <1>12 DEF Touch, Configure, Goto, Fail
  <2>2. Dirs
    BY ZenonT(60), <1>0, <1>s, <1>12 DEF Touch, Configure, folder, Site
  <2> QED BY <1>t, <2>1, <2>2
<1> QED BY <1>1, <1>2a, <1>3, <1>4, <1>5, <1>6, <1>7, <1>8, <1>9, <1>10, <1>11, <1>12 DEF OpeningStep

LEMMA RouteStep ==
    ASSUME OpenJobAssumption, CalmInv, NEW p \in Procs, OpeningStep(p), NEW q \in Procs
    PROVE  Route(q)'
<1>0. /\ UNCHANGED <<opening, remote>> /\ Procs' = Procs
      /\ Site /\ Route(p) /\ Route(q) /\ Fetches' = Fetches
  BY StepFrame DEF CalmInv, Fetches
<1>k. opening.kind \in {"remote", "files", "filestore", "hf"}
  BY DEF CalmInv, OpenJobAssumption
<1>1. CASE StartIndexing(p) \/ EndIndexing(p) \/ Placed(p)
  <2>1. UNCHANGED <<phase, overtaken>>
    BY <1>1 DEF StartIndexing, EndIndexing, Placed, Barrier
  <2>2. /\ pc'[q] = pc[q] \/ pc'[q] = "failed" \/ (pc[q] = "ready to index" /\ pc'[q] = "index")
           \/ (pc[q] = "indexed" /\ pc'[q] = "look") \/ (pc[q] = "placed" /\ pc'[q] = "stamp")
    BY <1>0, <1>1 DEF StartIndexing, EndIndexing, Placed, Barrier, Goto, Site
  <2>3. pc[q] \in {"ready to index", "indexed"} => phase[q] = "indexing"
    BY <1>0, <1>k DEF Route, Making, Site
  <2>4. pc[q] = "placed" => phase[q] = "init" /\ opening.kind = "hf"
    BY <1>0, <1>k DEF Route, Making, Indexing, Site
  <2>5. CASE pc'[q] = pc[q]
    BY <1>0, <2>1, <2>5 DEF Route
  <2>6. CASE pc'[q] = "failed"
    <3>1. pc[q] # "idle"
      BY <1>1, <2>6, StepFrame DEF StartIndexing, EndIndexing, Placed, Barrier, Busy
    <3> QED BY <1>0, <1>k, <2>1, <2>6, <3>1 DEF Route
  <2>7. CASE pc[q] \in {"ready to index", "indexed"} /\ pc'[q] \in {"index", "look"}
    BY <1>0, <1>k, <2>1, <2>3, <2>7 DEF Route, Making, Indexing
  <2>8. CASE pc[q] = "placed" /\ pc'[q] = "stamp"
    BY <1>0, <1>k, <2>1, <2>4, <2>8 DEF Route
  <2> QED BY <2>2, <2>5, <2>6, <2>7, <2>8
<1>2. ASSUME q # p, ~(StartIndexing(p) \/ EndIndexing(p) \/ Placed(p))
      PROVE  Route(q)'
  <2>1. pc'[q] = pc[q]
    BY <1>0, <1>2 DEF OpeningStep, Begin, IndexParquet, PlaceIndex, Stamp, Look, List, Rmdir, Make,
             Mkdir, Clear, Fetch, Copy, Load, Touch, Configure, Goto, Fail, Site
  <2>2. phase'[q] = phase[q] /\ overtaken'[q] = overtaken[q]
    BY <1>2, StepFrame
  <2> QED BY <1>0, <2>1, <2>2 DEF Route
<1>3. CASE q = p
  <2> USE <1>0, <1>k, <1>3 DEF Site, Route, Making, Indexing, Goto, Fail
  <2>1. CASE Begin(p)
    BY ZenonT(60), <2>1 DEF Begin, Datasets
  <2>2. CASE IndexParquet(p) \/ PlaceIndex(p)
    BY ZenonT(60), <2>2 DEF IndexParquet, PlaceIndex
  <2>3. CASE Stamp(p)
    BY <2>3 DEF Stamp
  <2>4. CASE Look(p) \/ List(p) \/ Rmdir(p) \/ Make(p)
    BY ZenonT(60), <2>4 DEF Look, List, Rmdir, Make
  <2>5. CASE Mkdir(p)
    BY <2>5 DEF Mkdir, AfterFolder
  <2>6. CASE Clear(p)
    BY <2>6 DEF Clear
  <2>7. CASE Fetch(p)
    <3>1. /\ pc[p] = "fetch" /\ phase[p] # "indexing" /\ UNCHANGED <<phase, overtaken>>
          /\ pc'[p] \in {"failed", AfterFetch(p)} \/ (pc'[p] = "copy" /\ Fetches)
      BY <2>7 DEF Fetch
    <3>2. Fetches /\ phase[p] = "init" => opening.kind = "remote"
      BY <3>1 DEF Fetches
    <3> QED BY <3>1, <3>2 DEF AfterFetch
  <2>8. CASE Copy(p)
    BY <2>8 DEF Copy, AfterFetch, Fetches
  <2>9. CASE Load(p)
    BY ZenonT(60), <2>9 DEF Load
  <2>10. CASE Touch(p)
    BY <2>10 DEF Touch
  <2>11. CASE Configure(p)
    BY <2>11 DEF Configure
  <2> QED BY <1>1, <2>1, <2>2, <2>3, <2>4, <2>5, <2>6, <2>7, <2>8, <2>9, <2>10, <2>11 DEF OpeningStep
<1> QED BY <1>1, <1>2, <1>3

\* The steps of a process that is not on its way to make an index.
LEMMA OtherSteps ==
    ASSUME CalmInv, NEW p \in Procs, OpeningStep(p), phase[p] # "indexing", pc[p] # "placed"
    PROVE  /\ \/ Begin(p) \/ Stamp(p) \/ Look(p) \/ List(p) \/ Clear(p) \/ Rmdir(p) \/ Make(p)
              \/ Mkdir(p) \/ Fetch(p) \/ Copy(p) \/ Load(p) \/ Touch(p) \/ Configure(p)
           /\ \A q \in Procs \ {p} : pc'[q] = pc[q]
<1>1. Route(p) /\ phase[p] \in {"init", "iterating"} /\ Site
  BY DEF CalmInv, Site
<1>2. pc[p] \notin Indexing
  BY <1>1 DEF Route, Making, Indexing
<1>3. ~(StartIndexing(p) \/ IndexParquet(p) \/ EndIndexing(p) \/ PlaceIndex(p) \/ Placed(p))
  BY <1>2 DEF StartIndexing, IndexParquet, EndIndexing, PlaceIndex, Placed, Barrier, Indexing
<1> QED BY ZenonT(60), <1>1, <1>3 DEF OpeningStep, Begin, Stamp, Look, List, Rmdir, Make,
             Mkdir, Clear, Fetch, Copy, Load, Touch, Configure, Goto, Fail, Site

\* Nobody makes an index of a dataset that is read where it is, or has one.
LEMMA NoIndexing ==
    ASSUME OpenJobAssumption, CalmInv, NEW p \in Procs, OpeningStep(p),
           opening.kind = "files" \/ \E n \in Names : Steady(n)
    PROVE  phase[p] # "indexing" /\ pc[p] # "placed"
<1>0. /\ Route(p) /\ phase[p] \in {"indexing", "init", "iterating"} /\ (Busy(p) \/ Begin(p))
      /\ opening.kind \in {"remote", "files", "filestore", "hf"}
  BY StepFrame DEF CalmInv, Site, OpenJobAssumption
<1>1. phase[p] = "indexing" => opening.kind = "hf" /\ pc[p] \in Indexing \union Making \union {"failed"}
  BY <1>0 DEF Route
<1>2. pc[p] = "placed" => opening.kind = "hf"
  BY <1>0 DEF Route, Indexing, Making
<1>3. phase[p] = "indexing" \/ pc[p] = "placed" => pc[p] \notin {"idle", "stamp"}
  BY <1>1 DEF Indexing, Making
<1>4. phase[p] = "indexing" \/ pc[p] = "placed" => Sited(p) /\ opening.kind # "files"
  BY <1>0, <1>1, <1>2, <1>3 DEF Sited, InFolder, Begin
<1> QED BY <1>4 DEF Steady

\* A steady folder stays so, whoever comes.
LEMMA SteadyStep ==
    ASSUME OpenJobAssumption, CalmInv, NEW p \in Procs, OpeningStep(p), NEW n \in Names, Steady(n)
    PROVE  Steady(n)' /\ indexOf'[n] = indexOf[n]
<1>0. /\ UNCHANGED <<opening, remote>> /\ Procs' = Procs /\ Datasets' = Datasets /\ Site
      /\ Route(p) /\ Route(p)' /\ made /\ (Busy(p) \/ Begin(p))
      /\ opening.kind \in {"remote", "hf", "filestore"}
  BY StepFrame, RouteStep DEF CalmInv, Site, Steady, OpenJobAssumption
<1>1. phase[p] # "indexing" /\ pc[p] # "placed"
  BY NoIndexing
<1>2. \A q \in Procs \ {p} : Sited(q)' => Sited(q) /\ UNCHANGED <<name[q], phase[q], pc[q]>>
  BY <1>0, <1>1, OtherSteps, StepFrame DEF Sited, InFolder, Busy
<1>3. (\A d \in Datasets : n = NameNow(d)) => \A d \in Datasets : n = NameNow(d)'
  BY <1>0 DEF NameNow, Hash
<1>4. ASSUME dirs' = {n}, indexOf'[n] = indexOf[n],
             Sited(p)' => name'[p] = n /\ phase'[p] # "indexing" /\ pc'[p] \notin {"clear", "rmdir", "placed"}
      PROVE  Steady(n)' /\ indexOf'[n] = indexOf[n]
  <2>1. \A q \in Procs : Sited(q)' =>
           name'[q] = n /\ phase'[q] # "indexing" /\ pc'[q] \notin {"clear", "rmdir", "placed"}
    BY <1>2, <1>4 DEF Steady
  <2> QED BY <1>0, <1>3, <1>4, <2>1 DEF Steady
<1> USE DEF Site, Goto, Fail
<1>5. CASE Begin(p)
  <2>1. Existing = {n}
    BY DEF Steady, Existing
  <2>2. UNCHANGED folder /\ (opening.kind = "hf" => name'[p] = n /\ pc'[p] = "stamp")
    BY <1>0, <1>5, <2>1 DEF Begin
  <2>3. opening.kind # "hf" => ~Sited(p)'
    BY <1>0, <1>5 DEF Begin, Sited, InFolder, Route, Making
  <2>4. UNCHANGED phase
    BY <1>0, <1>5, <2>1 DEF Begin
  <2> QED BY <1>0, <1>1, <1>4, <2>2, <2>3, <2>4 DEF folder, Steady
<1>6. CASE Stamp(p)
  <2>1. UNCHANGED <<folder, phase>>
    BY <1>6 DEF Stamp
  <2>2. opening.kind = "hf" => UNCHANGED name /\ Sited(p)
    BY <1>6 DEF Stamp, Sited, Busy, InFolder
  <2>3. opening.kind # "hf" /\ Sited(p)' => name'[p] = NameNow(opening.of[p])
    BY <1>0, <1>6 DEF Stamp, Sited, Busy, NameNow
  <2>4. pc'[p] \in {"look", "failed"}
    BY <1>0, <1>6 DEF Stamp
  <2>5. opening.of[p] \in Datasets
    BY DEF Datasets
  <2> QED BY <1>0, <1>1, <1>4, <2>1, <2>2, <2>3, <2>4, <2>5 DEF Steady, folder
<1>7. CASE ~Begin(p) /\ ~Stamp(p)
  <2>1. \/ Look(p) \/ List(p) \/ Clear(p) \/ Rmdir(p) \/ Make(p) \/ Mkdir(p) \/ Fetch(p) \/ Copy(p)
        \/ Load(p) \/ Touch(p) \/ Configure(p)
    BY <1>1, <1>7, OtherSteps
  <2>2. CASE Sited(p)
    <3>0. name[p] = n /\ phase[p] # "indexing" /\ pc[p] \notin {"clear", "rmdir", "placed"}
      BY <2>2 DEF Steady
    <3>1. CASE Look(p) \/ List(p) \/ Make(p)
      BY <1>0, <1>4, <3>0, <3>1 DEF Look, List, Make, folder, Steady
    <3>2. CASE Mkdir(p)
      BY <1>0, <1>1, <1>4, <3>0, <3>2 DEF Mkdir, AfterFolder, Steady
    <3>3. CASE Fetch(p)
      BY <1>0, <1>4, <3>0, <3>3 DEF Fetch, AfterFetch, Steady
    <3>4. CASE Copy(p)
      BY <1>0, <1>4, <3>0, <3>4 DEF Copy, AfterFetch, Steady
    <3>5. CASE Load(p)
      BY <1>0, <1>4, <3>0, <3>5 DEF Load, folder, Steady
    <3>6. CASE Touch(p)
      BY <1>0, <1>4, <3>0, <3>6 DEF Touch, Steady
    <3>7. CASE Configure(p)
      BY <1>0, <1>4, <3>0, <3>7 DEF Configure, folder, Steady
    <3>8. ~Clear(p) /\ ~Rmdir(p)
      BY <3>0 DEF Clear, Rmdir
    <3> QED BY <2>1, <3>1, <3>2, <3>3, <3>4, <3>5, <3>6, <3>7, <3>8
  <2>3. CASE ~Sited(p)
    <3>1. opening.kind = "filestore" /\ phase[p] = "init" /\ pc[p] = "load"
      BY <1>0, <1>7, <2>1, <2>3 DEF Sited, InFolder, Busy, Route, Stamp, Begin, Look, List, Clear, Rmdir, Make,
           Mkdir, Fetch, Copy, Load, Touch, Configure
    <3>2. Load(p)
      BY <2>1, <3>1 DEF Look, List, Clear, Rmdir, Make, Mkdir, Fetch, Copy, Touch, Configure
    <3>3. UNCHANGED folder /\ ~Sited(p)'
      BY <1>0, <3>1, <3>2 DEF Load, Sited, Busy, InFolder
    <3> QED BY <1>4, <3>3 DEF folder, Steady
  <2> QED BY <2>2, <2>3
<1> QED BY <1>5, <1>6, <1>7

\* What process p comes to that nobody is with.
LEMMA AloneStep ==
    ASSUME OpenJobAssumption, CalmInv, IInv, Accepted, NEW p \in Procs, OpeningStep(p)
    PROVE  Alone(p)'
<1> SUFFICES ASSUME ~overtaken'[p], ~Met(p)'
             PROVE  /\ pc'[p] # "failed"
                    /\ Busy(p)' => Works(p)'
                    /\ (pc'[p] = "open" /\ OneDataset' /\ opening'.kind # "files") => Steady(name[p])'
  BY DEF Alone
<1>0. /\ UNCHANGED <<opening, remote>> /\ Procs' = Procs /\ Datasets' = Datasets /\ Site /\ Site'
      /\ Route(p) /\ Route(p)' /\ (First(p) <=> First(p)')
      /\ opening.kind \in {"remote", "files", "filestore", "hf"}
      /\ opening.of[p] \in Datasets
  BY StepFrame, RouteStep, SiteStep DEF CalmInv, First, OpenJobAssumption, Datasets
<1>d. /\ DOMAIN name = Procs /\ DOMAIN pc = Procs /\ DOMAIN phase = Procs /\ DOMAIN torn = Procs
      /\ DOMAIN loaded = Procs /\ DOMAIN indexOf = Names /\ DOMAIN crowded = Procs
      /\ phase[p] \in {"indexing", "init", "iterating"} /\ name[p] \in Names /\ loaded[p] \in Versions
      /\ remote[opening.of[p]].version \in 1 .. MaxVersions
  BY <1>0 DEF Site
<1>e. /\ UNCHANGED <<opening, remote>> /\ Procs' = Procs /\ Datasets' = Datasets
      /\ opening.kind \in {"remote", "files", "filestore", "hf"}
  BY <1>0
<1>n. \A d \in Datasets : NameNow(d)' = NameNow(d)
  BY <1>0 DEF NameNow, Hash
<1> USE DEF Site, Goto, Fail
<1>1. CASE Begin(p)
  <2>1. /\ pc[p] = "idle" /\ phase[p] = "init" /\ UNCHANGED folder
        /\ \A q \in Procs \ {p} : ~Busy(q) /\ pc'[q] = pc[q]
        /\ opening.kind = "hf" => \A q \in Procs : ~crowded[q]
    <3>1. pc[p] = "idle" /\ UNCHANGED folder /\ \A q \in Procs \ {p} : pc'[q] = pc[q]
      BY <1>1, <1>d DEF Begin
    <3>2. phase[p] = "init"
      BY <1>0, <1>d, <1>e, <3>1 DEF Route, Making, Indexing
    <3>3. \A q \in Procs : crowded'[q] <=> \/ crowded[q]
                                           \/ q # p /\ Busy(q)
                                           \/ q = p /\ \E r \in Procs \ {p} : Busy(r)
      BY <1>1 DEF Begin
    <3>4. ~crowded'[p] /\ (opening.kind = "hf" => \A q \in Procs : ~crowded'[q])
      BY <1>e DEF Met
    <3>5. /\ \A q \in Procs \ {p} : ~Busy(q)
          /\ opening.kind = "hf" => \A q \in Procs : ~crowded[q]
      BY <3>3, <3>4
    <3> QED BY <3>1, <3>2, <3>5
  <2>2. \A q \in Procs \ {p} : ~Busy(q)'
    BY <2>1 DEF Busy
  <2>3. CASE opening.kind # "hf"
    <3>1. pc'[p] = (IF opening.kind = "remote" THEN "stamp" ELSE "load") /\ UNCHANGED phase
      BY <1>0, <1>1, <2>3 DEF Begin
    <3>2. Works(p)'
      BY <1>0, <2>1, <2>2, <2>3, <3>1 DEF Works, Sited, InFolder, LoadedNow
    <3> QED BY <3>1, <3>2
  <2>4. CASE opening.kind = "hf" /\ Existing # {}
    <3>1. name'[p] \in Existing /\ pc'[p] = "stamp" /\ UNCHANGED phase
      BY <1>1, <1>d, <2>4 DEF Begin
    <3>2. \A m, n \in dirs : m = n
      BY <2>1, <2>4 DEF CalmInv
    <3>3. dirs' = {name'[p]} /\ indexOf'[name'[p]] # Missing
      BY <2>1, <3>1, <3>2 DEF Existing, folder
    <3>4. Works(p)'
      <4>1. phase'[p] = "init"
        BY <2>1, <3>1
      <4> QED BY <1>e, <2>2, <2>4, <3>1, <3>3, <4>1 DEF Works, LoadedNow
    <3> QED BY <3>1, <3>4
  <2>5. CASE opening.kind = "hf" /\ Existing = {}
    <3>1. pc'[p] = "ready to index" /\ phase'[p] = "indexing"
      BY <1>1, <1>d, <2>5 DEF Begin
    <3>2. Works(p)'
      BY <1>e, <2>2, <2>5, <3>1 DEF Works, LoadedNow
    <3> QED BY <3>1, <3>2
  <2> QED BY <2>3, <2>4, <2>5
<1>2. ASSUME ~Begin(p)
      PROVE  /\ pc'[p] # "failed"
             /\ Busy(p)' => Works(p)'
             /\ (pc'[p] = "open" /\ OneDataset' /\ opening'.kind # "files") => Steady(name[p])'
  <2>1. Busy(p) /\ UNCHANGED <<overtaken, crowded>>
    BY <1>2, StepFrame
  <2>2. Works(p) /\ ~overtaken[p] /\ ~Met(p)
    <3>1. ~overtaken[p] /\ ~Met(p)
      BY <1>0, <2>1 DEF Met
    <3> QED BY <2>1, <3>1 DEF CalmInv, Alone
  <2>3. remote[opening.of[p]].here
    BY <1>0, <2>1, <2>2 DEF Route, Busy
  <2>4. \A q \in Procs \ {p} : ~Busy(q)
    BY <2>2 DEF Works
  <2>5. \A q \in Procs \ {p} : ~Busy(q)'
    BY <1>0, <2>4, StepFrame DEF Busy
  <2>6. ASSUME NEW l \in {"ready to index", "indexed", "placed"}, opening.dist, \A q \in Procs : pc[q] = l
        PROVE  First(p)
    <3>1. 1 \in Procs
      BY DEF CalmInv, OpenJobAssumption, Procs
    <3>2. \A q \in Procs : Busy(q)
      BY <2>6 DEF Busy
    <3> QED BY <2>4, <3>1, <3>2 DEF First
  <2>7. CASE StartIndexing(p)
    <3>1. pc'[p] = "index" /\ UNCHANGED <<phase>> /\ phase[p] = "indexing" /\ opening.kind = "hf"
      <4>1. pc[p] = "ready to index" /\ pc'[p] = "index" /\ UNCHANGED phase
        BY <1>d, <2>7 DEF StartIndexing, Barrier
      <4> QED BY <1>0, <1>d, <1>e, <4>1 DEF Route, Making
    <3>2. First(p)
      BY <2>6, <2>7 DEF StartIndexing, Barrier, First
    <3>3. First(p)'
      BY <1>0, <3>2
    <3> QED BY <1>e, <2>5, <3>1, <3>3 DEF Works, LoadedNow
  <2>8. CASE EndIndexing(p)
    <3>0. pc[p] = "indexed" /\ First(p)
      BY <2>2, <2>8 DEF EndIndexing, Barrier, Works
    <3>1. pc'[p] = "look" /\ UNCHANGED <<phase>>
      BY <1>d, <2>8, <3>0 DEF EndIndexing, Barrier
    <3>2. phase[p] = "indexing" /\ opening.kind = "hf"
      BY <1>0, <1>d, <1>e, <3>0 DEF Route, Making
    <3> QED BY <1>e, <2>5, <3>1, <3>2 DEF Works, LoadedNow
  <2>9. CASE Placed(p)
    <3>1. pc'[p] = "stamp" /\ UNCHANGED <<phase, folder, name>> /\ phase[p] = "init" /\ opening.kind = "hf"
      BY <1>0, <2>9 DEF Placed, Barrier, Route, Indexing, Making
    <3>2. dirs = {name[p]} /\ indexOf[name[p]] # Missing
      BY <2>1, <2>2, <2>9, <3>1 DEF Works, Sited, InFolder, Placed, Barrier
    <3> QED BY <1>0, <2>5, <3>1, <3>2 DEF Works, Sited, LoadedNow, folder
  <2>10. CASE IndexParquet(p)
    BY <1>0, <2>2, <2>5, <2>10 DEF IndexParquet, Works, Sited, LoadedNow, Route, Making, Indexing
  <2>11. CASE PlaceIndex(p)
    <3>1. \A q \in Procs \ {p} : pc[q] \notin {"clear", "rmdir"}
      BY <2>4 DEF Busy
    <3>2. dirs = {name[p]}
      BY <2>2, <2>11 DEF PlaceIndex, Works
    <3>3. /\ pc'[p] = "placed" /\ phase'[p] = "init" /\ dirs' = {name[p]} /\ UNCHANGED name
          /\ indexOf'[name[p]] = remote[opening.of[p]].version /\ opening.kind = "hf"
      <4>1. pc[p] = "place"
        BY <2>11 DEF PlaceIndex
      <4>2. /\ dirs' = dirs \union {name[p]} /\ UNCHANGED name /\ pc' = [pc EXCEPT ![p] = "placed"]
            /\ indexOf' = [indexOf EXCEPT ![name[p]] = remote[opening.of[p]].version]
            /\ phase' = [phase EXCEPT ![p] = "init"]
        BY <2>11, <3>1 DEF PlaceIndex
      <4>3. opening.kind = "hf"
        BY <1>0, <1>d, <1>e, <4>1 DEF Route, Making
      <4> QED BY <1>d, <3>2, <4>2, <4>3
    <3>4. indexOf'[name[p]] # Missing
      BY <1>d, <3>3 DEF Missing, MaxVersions
    <3> QED BY <1>e, <2>5, <3>3, <3>4 DEF Works, LoadedNow
  <2>12. CASE Stamp(p)
    <3>1. CASE opening.kind = "hf"
      <4>1. phase[p] # "indexing" /\ Sited(p) /\ UNCHANGED <<phase, folder, name, loaded>>
        BY <1>0, <2>1, <2>12, <3>1 DEF Stamp, Route, Making, Indexing, Sited, InFolder
      <4>2. dirs = {name[p]} /\ indexOf[name[p]] # Missing
        BY <2>2, <3>1, <4>1 DEF Works
      <4>3. pc'[p] = "look"
        BY <1>0, <2>12, <3>1, <4>2 DEF Stamp, Accepted
      <4> QED BY <1>0, <2>1, <2>2, <2>5, <3>1, <4>1, <4>2, <4>3 DEF Works, Sited, InFolder, LoadedNow, folder
    <3>2. CASE opening.kind # "hf"
      <4>1. /\ pc'[p] = "look" /\ name'[p] = NameNow(opening.of[p]) /\ UNCHANGED <<phase, folder, loaded>>
            /\ pc[p] = "stamp"
        BY <1>0, <2>3, <2>12, <3>2 DEF Stamp, NameNow
      <4>2. phase[p] = "iterating" => opening.kind = "filestore"
        BY <1>0, <4>1 DEF Route
      <4> QED BY <1>0, <1>n, <2>1, <2>2, <2>5, <3>2, <4>1, <4>2 DEF Works, Sited, InFolder, LoadedNow
    <3> QED BY <3>1, <3>2
  <2>13. CASE Look(p) \/ List(p) \/ Make(p)
    <3>1. /\ Look(p) => pc[p] = "look" /\ pc'[p] = IF made THEN "list" ELSE "make"
          /\ List(p) => pc[p] = "list" /\ pc'[p] = IF dirs = {name[p]} THEN "make" ELSE "clear"
          /\ Make(p) => pc[p] = "make" /\ pc'[p] = "mkdir" /\ made'
          /\ UNCHANGED <<phase, name, dirs, indexOf, loaded>> /\ (made => made')
          /\ ~made => dirs = {}
      BY <1>0, <2>2, <2>13 DEF Look, List, Make, Works, folder
    <3>2. Sited(p) <=> Sited(p)'
      BY <1>0, <2>1, <2>13, <3>1 DEF Sited, Busy, InFolder
    <3>3. Works(p)' /\ pc'[p] \notin {"failed", "open"}
      BY <1>0, <1>n, <2>1, <2>2, <2>5, <2>13, <3>1, <3>2 DEF Works, LoadedNow
    <3> QED BY <3>3
  <2>14. CASE Clear(p) \/ Rmdir(p)
    <3>1. \A q \in Procs \ {p} : pc[q] \notin {"clear", "rmdir", "fetch", "copy"}
      BY <2>4 DEF Busy
    <3>2. /\ Clear(p) => pc[p] = "clear" /\ pc'[p] = "rmdir" /\ UNCHANGED made
          /\ Rmdir(p) => pc[p] = "rmdir" /\ pc'[p] = "make"
          /\ dirs' = {} /\ UNCHANGED <<phase, name, loaded>>
      BY <1>0, <2>2, <2>14, <3>1 DEF Clear, Rmdir, Works
    <3>3. Sited(p) <=> Sited(p)'
      BY <1>0, <2>1, <2>14, <3>2 DEF Sited, Busy, InFolder
    <3>4. opening.kind = "hf" => phase[p] = "indexing"
      BY <2>1, <2>2, <2>14, <3>2 DEF Works, Sited, InFolder
    <3>5. opening.kind = "remote" => phase[p] # "iterating"
      BY <1>0, <2>14, <3>2 DEF Route
    <3>6. Works(p)' /\ pc'[p] \notin {"failed", "open"}
      BY <1>0, <1>n, <2>1, <2>2, <2>5, <2>14, <3>2, <3>3, <3>4, <3>5 DEF Works, LoadedNow
    <3> QED BY <3>6
  <2>15. CASE Mkdir(p)
    <3>1. /\ pc[p] = "mkdir" /\ pc'[p] = AfterFolder(p) /\ dirs' = {name[p]}
          /\ UNCHANGED <<phase, name, loaded, indexOf, made>>
      BY <1>0, <2>2, <2>15 DEF Mkdir, Works, AfterFolder
    <3>2. Sited(p) <=> Sited(p)'
      BY <1>0, <2>1, <3>1 DEF Sited, Busy, InFolder, AfterFolder
    <3>3. Works(p)' /\ pc'[p] \notin {"failed", "open"}
      BY <1>0, <1>n, <2>1, <2>2, <2>5, <3>1, <3>2 DEF Works, LoadedNow, AfterFolder, Route, Making
    <3> QED BY <3>3
  <2>16. CASE Fetch(p)
    <3>1. ~Held(p) /\ (Sited(p) => name[p] \in dirs)
      BY <2>2, <2>4, <2>16 DEF Held, Busy, Works, Fetch
    <3>2. Fetches => Sited(p)
      BY <1>0, <2>1, <2>16 DEF Fetches, Sited, InFolder, Fetch, Route
    <3>3. /\ pc[p] = "fetch" /\ UNCHANGED <<phase, name, loaded, indexOf>>
          /\ \/ /\ pc'[p] = AfterFetch(p) /\ UNCHANGED <<made, dirs>>
                /\ Fetches => indexOf[name[p]] # Missing /\ phase[p] = "init"
             \/ pc'[p] = "copy" /\ ~torn'[p] /\ made' /\ dirs' = dirs /\ Fetches
      <4>1. CASE ~Fetches \/ (indexOf[name[p]] # Missing /\ phase[p] = "init")
        BY <1>d, <2>16, <4>1 DEF Fetch
      <4>2. CASE ~(~Fetches \/ (indexOf[name[p]] # Missing /\ phase[p] = "init"))
        <5>1. name[p] \in dirs /\ ~Held(p) /\ Fetches
          BY <3>1, <3>2, <4>2
        <5>2. /\ pc[p] = "fetch" /\ UNCHANGED <<phase, name, loaded, indexOf>>
              /\ made' = TRUE /\ dirs' = dirs \union {name[p]}
              /\ torn' = [torn EXCEPT ![p] = FALSE] /\ pc' = [pc EXCEPT ![p] = "copy"]
          BY <2>3, <2>16, <4>2, <5>1 DEF Fetch
        <5>3. dirs' = dirs
          BY <5>1, <5>2
        <5> QED BY <1>d, <5>1, <5>2, <5>3
      <4> QED BY <4>1, <4>2
    <3>4. Sited(p) <=> Sited(p)'
      BY <1>0, <2>1, <3>3 DEF Sited, Busy, InFolder, AfterFetch
    <3>5. Works(p)' /\ pc'[p] \notin {"failed", "open"}
      <4>1. phase[p] # "indexing"
        BY <1>0, <3>3 DEF Route, Making, Indexing
      <4>2. opening.kind = "hf" => indexOf[name[p]] # Missing
        BY <1>e, <2>1, <2>2, <3>3, <4>1 DEF Sited, InFolder, Works
      <4>3. NameNow(opening.of[p])' = NameNow(opening.of[p])
        BY <1>0, <1>n
      <4>4. Sited(p) => dirs = {name[p]}
        BY <2>2, <3>3 DEF Works
      <4>5. CASE pc'[p] = "copy"
        <5>1. ~torn'[p] /\ dirs' = dirs
          BY <3>3, <4>5 DEF AfterFetch
        <5> QED BY <1>e, <2>1, <2>2, <2>5, <3>3, <3>4, <4>3, <4>4, <4>5, <5>1 DEF Works, LoadedNow
      <4>6. CASE pc'[p] # "copy"
        <5>1. UNCHANGED <<made, dirs>> /\ pc'[p] \in {"load", "config"}
          BY <3>3, <4>6 DEF AfterFetch
        <5>2. Sited(p) => indexOf[name[p]] # Missing
          BY <1>e, <3>3, <4>2, <4>6 DEF Sited, InFolder, Fetches
        <5> QED BY <1>e, <2>1, <2>2, <2>5, <3>3, <3>4, <4>3, <4>4, <5>1, <5>2 DEF Works, LoadedNow
      <4> QED BY <4>5, <4>6
    <3> QED BY <3>5
  <2>17. CASE Copy(p)
    <3>1. Sited(p) /\ Fetches /\ pc[p] = "copy" /\ ~torn[p]
      BY <1>0, <2>1, <2>2, <2>17 DEF Sited, InFolder, Copy, Route, Fetches, Works
    <3>2. dirs = {name[p]}
      BY <2>2, <3>1 DEF Works
    <3>3. /\ pc'[p] = AfterFetch(p) /\ UNCHANGED <<phase, name, loaded, made, dirs>>
          /\ indexOf'[name[p]] = IF indexOf[name[p]] = Missing THEN remote[opening.of[p]].version
                                                              ELSE indexOf[name[p]]
      BY <1>0, <2>3, <2>17, <3>1, <3>2 DEF Copy
    <3>4. indexOf'[name[p]] # Missing
      BY <1>0, <3>3 DEF Missing, MaxVersions
    <3>5. Sited(p)'
      BY <1>0, <2>1, <3>1, <3>3 DEF Sited, Busy, InFolder, AfterFetch
    <3>6. Works(p)' /\ pc'[p] \notin {"failed", "open"}
      BY <1>0, <1>n, <2>1, <2>2, <2>5, <3>1, <3>2, <3>3, <3>4, <3>5 DEF Works, LoadedNow, AfterFetch, Fetches
    <3> QED BY <3>6
  <2>18. CASE Load(p)
    <3>0. pc[p] = "load" /\ phase[p] = "init"
      BY <1>0, <2>18 DEF Load, Route, Making, Indexing
    <3>1. Found(p) = IF opening.kind \in {"remote", "hf"} THEN indexOf[name[p]] ELSE remote[opening.of[p]].version
      BY <1>0, <2>3, <3>0 DEF Found
    <3>2. Found(p) # Missing
      BY <1>0, <2>1, <2>2, <3>0, <3>1 DEF Works, Sited, InFolder, Missing, MaxVersions
    <3>3. /\ loaded'[p] = Found(p) /\ phase'[p] = "iterating"
          /\ pc'[p] = (IF opening.kind = "filestore" THEN "stamp" ELSE "touch")
          /\ UNCHANGED <<folder, name>>
      BY <1>0, <2>18, <3>2 DEF Load
    <3>4. LoadedNow(p)'
      BY <1>0, <3>1, <3>3 DEF LoadedNow, folder
    <3>5. Works(p)' /\ pc'[p] \notin {"failed", "open"}
      BY <1>0, <1>n, <2>1, <2>2, <2>5, <3>0, <3>1, <3>2, <3>3, <3>4 DEF Works, Sited, InFolder, folder
    <3> QED BY <3>5
  <2>19. CASE Touch(p)
    <3>1. /\ pc[p] = "touch" /\ pc'[p] = "fetch" /\ UNCHANGED <<phase, name, loaded, indexOf>>
          /\ opening.kind = "files" \/ dirs' = dirs \union {name[p]}
      BY <1>0, <2>19 DEF Touch
    <3>2. Sited(p) <=> Sited(p)'
      BY <1>0, <2>1, <3>1 DEF Sited, Busy, InFolder
    <3>3. Sited(p) => opening.kind # "files"
      BY DEF Sited, InFolder
    <3>4. Works(p)' /\ pc'[p] \notin {"failed", "open"}
      BY <1>0, <1>n, <2>1, <2>2, <2>5, <3>1, <3>2, <3>3 DEF Works, LoadedNow
    <3> QED BY <3>4
  <2>20. CASE Configure(p)
    <3>0. pc[p] = "config" /\ phase[p] = "iterating"
      BY <1>0, <2>20 DEF Configure, Route, Making, Indexing
    <3>1. opening.kind # "files" => Sited(p) /\ dirs = {name[p]} /\ indexOf[name[p]] # Missing
      BY <1>0, <2>1, <2>2, <3>0 DEF Sited, InFolder, Works
    <3>2. Found(p) # Missing /\ Found(p) = loaded[p]
      <4>1. CASE opening.kind = "files"
        <5>1. Found(p) = remote[opening.of[p]].version
          BY <2>3, <4>1 DEF Found
        <5>2. loaded[p] = remote[opening.of[p]].version
          BY <2>1, <2>2, <3>0, <4>1 DEF Works, LoadedNow
        <5> QED BY <1>d, <5>1, <5>2 DEF Missing, MaxVersions
      <4>2. CASE opening.kind \in {"remote", "hf"}
        BY <2>1, <2>2, <3>0, <3>1, <4>2 DEF Found, Works, LoadedNow
      <4>3. CASE opening.kind = "filestore"
        <5>1. Found(p) # Missing
          BY <3>0, <3>1, <4>3 DEF Found
        <5>2. Dated
          BY <4>3 DEF Dated, Accepted
        <5>3. Found(p) = remote[opening.of[p]].version
          BY <2>2, <3>0, <5>1, <5>2, FoundNow
        <5> QED BY <2>1, <2>2, <3>0, <4>3, <5>1, <5>3 DEF Works, LoadedNow
      <4> QED BY <1>0, <4>1, <4>2, <4>3
    <3>3. ChunksKnown(p)
      <4>1. loaded[p] \in 1 .. MaxVersions
        BY <1>d, <3>2 DEF Missing, Versions, MaxVersions
      <4>2. opening.chunks[loaded[p]] \in Nat
        BY <4>1 DEF CalmInv, OpenJobAssumption
      <4> QED BY <3>2, <4>2 DEF ChunksKnown
    <3>4. pc'[p] = "open" /\ UNCHANGED <<folder, phase, name>>
      BY <1>0, <2>20, <3>2, <3>3 DEF Configure, Accepted
    <3>5. ASSUME opening.kind # "files", OneDataset PROVE Steady(name[p])'
      <4>1. opening.kind # "hf" => \A d \in Datasets : name[p] = NameNow(d)
        BY <1>0, <2>2, <3>1, <3>5 DEF Works, OneDataset
      <4>2. \A q \in Procs : ~Sited(q)'
        BY <2>5, <3>4 DEF Sited, Busy
      <4> QED BY <1>0, <1>n, <3>1, <3>4, <3>5, <4>1, <4>2 DEF Steady, folder
    <3>6. OneDataset' => OneDataset
      BY <1>0 DEF OneDataset
    <3>7. ~Busy(p)'
      BY <3>4 DEF Busy
    <3> QED BY <1>0, <3>4, <3>5, <3>6, <3>7
  <2> QED BY <1>2, <2>7, <2>8, <2>9, <2>10, <2>11, <2>12, <2>13, <2>14, <2>15, <2>16, <2>17, <2>18,
             <2>19, <2>20 DEF OpeningStep
<1> QED BY <1>1, <1>2

\* Nor does process p disturb another that has met nobody.
LEMMA OthersStep ==
    ASSUME OpenJobAssumption, CalmInv, Accepted, NEW p \in Procs, OpeningStep(p), NEW q \in Procs \ {p}
    PROVE  Alone(q)'
<1> SUFFICES ASSUME ~overtaken'[q], ~Met(q)'
             PROVE  /\ pc'[q] # "failed"
                    /\ Busy(q)' => Works(q)'
                    /\ (pc'[q] = "open" /\ OneDataset' /\ opening'.kind # "files") => Steady(name[q])'
  BY DEF Alone
<1>0. /\ UNCHANGED <<opening, remote>> /\ Procs' = Procs /\ Datasets' = Datasets /\ Site
      /\ (OneDataset' <=> OneDataset) /\ name'[q] = name[q]
  BY StepFrame DEF CalmInv, OneDataset
<1>1. ~overtaken[q] /\ ~Met(q)
  <2>1. \A r \in Procs : crowded[r] => crowded'[r]
    BY StepFrame
  <2> QED BY <1>0, <2>1, StepFrame DEF Met
<1>2. ~Busy(q)
  <2>1. Busy(q) => Begin(p)
    BY <1>1, StepFrame DEF CalmInv, Alone, Works, Busy
  <2>2. Begin(p) /\ Busy(q) => crowded'[q]
    BY <1>0 DEF Begin
  <2> QED BY <2>1, <2>2 DEF Met
<1>3. pc'[q] = pc[q]
  BY <1>2, StepFrame
<1>4. pc[q] # "failed" /\ ~Busy(q)'
  BY <1>1, <1>2, <1>3 DEF CalmInv, Alone, Busy
<1>5. ASSUME pc[q] = "open", OneDataset, opening.kind # "files" PROVE Steady(name[q])'
  <2>1. Steady(name[q]) /\ name[q] \in Names
    BY <1>0, <1>1, <1>5 DEF CalmInv, Alone, Site
  <2> DEFINE n == name[q]
  <2>2. n \in Names /\ Steady(n)
    BY <2>1
  <2> HIDE DEF n
  <2>3. n' = n
    BY <1>0 DEF n
  <2>4. Steady(n)'
    BY <2>2, <2>3, SteadyStep DEF Steady
  <2> QED BY <2>4 DEF n
<1> QED BY <1>0, <1>3, <1>4, <1>5

\* A Hugging Face dataset has one sub-folder as long as nobody has met another.
LEMMA SingleStep ==
    ASSUME OpenJobAssumption, CalmInv, NEW p \in Procs, OpeningStep(p), Accepted,
           opening'.kind = "hf", \A q \in Procs' : ~crowded'[q]
    PROVE  \A m, n \in dirs' : m = n
<1>0. /\ UNCHANGED <<opening, remote>> /\ Procs' = Procs /\ Site /\ Route(p) /\ opening.kind = "hf"
      /\ \A q \in Procs : ~crowded[q]
  BY StepFrame DEF CalmInv, Site
<1>1. \A m, n \in dirs : m = n
  BY <1>0 DEF CalmInv
<1>2. ~overtaken[p] /\ ~Met(p)
  BY <1>0 DEF Met, Route
<1>3. Busy(p) => Works(p)
  BY <1>2 DEF CalmInv, Alone
<1>4. CASE Begin(p) \/ StartIndexing(p) \/ IndexParquet(p) \/ EndIndexing(p) \/ Placed(p) \/ Stamp(p)
           \/ Look(p) \/ List(p) \/ Clear(p) \/ Rmdir(p) \/ Make(p) \/ Copy(p) \/ Load(p) \/ Configure(p)
  BY <1>1, <1>4 DEF Begin, StartIndexing, IndexParquet, EndIndexing, Placed, Barrier, Stamp, Look, List,
     Clear, Rmdir, Make, Copy, Load, Configure, folder
<1>5. CASE PlaceIndex(p) \/ Mkdir(p)
  BY <1>1, <1>3, <1>5 DEF PlaceIndex, Mkdir, Busy, Works, folder
<1>6. CASE Fetch(p) \/ Touch(p)
  <2>1. Sited(p) /\ pc[p] \in {"fetch", "touch"}
    BY <1>0, <1>6 DEF Fetch, Touch, Sited, Busy, InFolder
  <2>2. dirs = {name[p]}
    BY <1>3, <2>1 DEF Works, Busy
  <2> QED BY <1>0, <1>6, <2>2 DEF Fetch, Touch, Fetches
<1> QED BY <1>4, <1>5, <1>6 DEF OpeningStep

\* Whoever comes to a settled folder, or to a dataset that is read where it is, goes on,
\* whether there are others or not.
LEMMA SafeStep ==
    ASSUME OpenJobAssumption, CalmInv, IInv, Accepted, NEW p \in Procs, OpeningStep(p),
           pc[p] # "failed", ~overtaken[p], remote[opening.of[p]].here, LoadedNow(p),
           opening.kind # "files" => \E n \in Names : Steady(n)
    PROVE  pc'[p] # "failed" /\ ~overtaken'[p] /\ LoadedNow(p)'
<1>0. /\ UNCHANGED <<opening, remote>> /\ Site /\ Route(p) /\ Route(p)'
      /\ opening.kind \in {"remote", "files", "filestore", "hf"}
      /\ opening.of[p] \in Datasets
  BY StepFrame, RouteStep DEF CalmInv, OpenJobAssumption, Datasets
<1>1. ~overtaken'[p]
  <2>1. Begin(p) => ~overtaken'[p]
    BY <1>0 DEF Begin, Site
  <2> QED BY <2>1, StepFrame
<1>2. PICK n : opening.kind # "files" => n \in Names /\ Steady(n)
  OBVIOUS
<1>3. phase[p] # "indexing" /\ pc[p] # "placed"
  BY <1>0, <1>2, NoIndexing
<1>d. loaded[p] \in Versions /\ DOMAIN pc = Procs
  BY <1>0 DEF Site
<1>4. Sited(p) => /\ name[p] = n /\ dirs = {n} /\ indexOf[n] # Missing /\ made /\ indexOf'[n] = indexOf[n]
                  /\ pc[p] \notin {"clear", "rmdir"}
  BY <1>0, <1>2, SteadyStep DEF Steady, Sited, InFolder, Site
<1> USE DEF Site, Goto, Fail
<1>5. CASE Begin(p)
  <2>1. opening.kind = "hf" => Existing = {n}
    BY <1>2 DEF Steady, Existing
  <2> QED BY <1>0, <1>1, <1>3, <1>5, <2>1 DEF Begin, LoadedNow, Route, Making, Indexing
<1>6. CASE Stamp(p)
  <2>1. opening.kind = "hf" => Sited(p)
    BY <1>6 DEF Stamp, Sited, Busy, InFolder
  <2>2. pc'[p] = "look" /\ UNCHANGED <<phase, loaded, folder>> /\ (opening.kind = "hf" => UNCHANGED name)
    BY <1>0, <1>4, <1>6, <2>1 DEF Stamp, Accepted
  <2>3. phase[p] = "iterating" => opening.kind = "filestore"
    BY <1>0, <1>6 DEF Stamp, Route
  <2> QED BY <1>0, <1>1, <1>6, <2>2, <2>3 DEF Stamp, LoadedNow, Busy
<1>7. CASE Load(p)
  <2>0. pc[p] = "load" /\ phase[p] = "init"
    BY <1>0, <1>7 DEF Load, Route, Making, Indexing
  <2>1. opening.kind \in {"remote", "hf"} => Sited(p)
    BY <2>0 DEF Sited, Busy, InFolder
  <2>2. Found(p) = IF opening.kind \in {"remote", "hf"} THEN indexOf[name[p]] ELSE remote[opening.of[p]].version
    BY <1>0, <2>0 DEF Found
  <2>3. Found(p) # Missing
    BY <1>0, <1>4, <2>1, <2>2 DEF Missing, MaxVersions
  <2>4. /\ loaded'[p] = Found(p) /\ phase'[p] = "iterating"
        /\ pc'[p] = (IF opening.kind = "filestore" THEN "stamp" ELSE "touch")
        /\ UNCHANGED <<folder, name>>
    BY <1>0, <1>7, <2>3 DEF Load
  <2> QED BY <1>0, <1>1, <2>2, <2>4 DEF LoadedNow, folder
<1>8. CASE Configure(p)
  <2>0. pc[p] = "config" /\ phase[p] = "iterating"
    BY <1>0, <1>8 DEF Configure, Route, Making, Indexing
  <2>1. opening.kind # "files" => Sited(p)
    BY <1>0, <2>0 DEF Sited, Busy, InFolder
  <2>2. Found(p) # Missing /\ Found(p) = loaded[p]
    <3>1. CASE opening.kind = "files"
      BY <1>0, <2>0, <3>1 DEF Found, LoadedNow, Busy, Missing, MaxVersions
    <3>2. CASE opening.kind \in {"remote", "hf"}
      BY <1>4, <2>0, <2>1, <3>2 DEF Found, LoadedNow, Busy
    <3>3. CASE opening.kind = "filestore"
      <4>1. Found(p) # Missing
        BY <1>4, <2>0, <2>1, <3>3 DEF Found
      <4>2. Dated
        BY <3>3 DEF Dated, Accepted
      <4>3. Found(p) = remote[opening.of[p]].version
        BY <2>0, <4>1, <4>2, FoundNow
      <4> QED BY <2>0, <3>3, <4>1, <4>3 DEF LoadedNow, Busy
    <3> QED BY <1>0, <3>1, <3>2, <3>3
  <2>3. ChunksKnown(p)
    <3>1. loaded[p] \in 1 .. MaxVersions
      BY <1>d, <2>2 DEF Missing, Versions, MaxVersions
    <3>2. opening.chunks[loaded[p]] \in Nat
      BY <3>1 DEF CalmInv, OpenJobAssumption
    <3> QED BY <2>2, <3>2 DEF ChunksKnown
  <2>4. pc'[p] = "open"
    BY <1>0, <1>8, <2>2, <2>3 DEF Configure, Accepted
  <2> QED BY <1>1, <2>4 DEF LoadedNow, Busy
<1>9. CASE ~Begin(p) /\ ~Stamp(p) /\ ~Load(p) /\ ~Configure(p)
  <2>1. \/ Look(p) \/ List(p) \/ Clear(p) \/ Rmdir(p) \/ Make(p) \/ Mkdir(p) \/ Fetch(p) \/ Copy(p) \/ Touch(p)
    BY <1>3, <1>9, OtherSteps
  <2>2. pc[p] \in Making \union {"fetch", "copy", "touch"} /\ Busy(p)
    BY <2>1 DEF Look, List, Clear, Rmdir, Make, Mkdir, Fetch, Copy, Touch, Making, Busy
  <2>3. UNCHANGED <<phase, name, loaded>>
    BY <2>1 DEF Look, List, Clear, Rmdir, Make, Mkdir, Fetch, Copy, Touch
  <2>4. Sited(p) \/ opening.kind = "files"
    BY <1>0, <1>3, <2>2 DEF Sited, InFolder, Route, Making, Indexing
  <2>5. opening.kind = "files" => pc[p] \in {"touch", "fetch"}
    BY <1>0, <1>3, <2>2 DEF Route, Making, Indexing, Fetches
  <2>6. LoadedNow(p)'
    <3>1. CASE Sited(p)
      BY <1>0, <1>4, <2>2, <2>3, <3>1 DEF LoadedNow
    <3>2. CASE opening.kind = "files"
      BY <1>0, <2>2, <2>3, <3>2 DEF LoadedNow
    <3> QED BY <2>4, <3>1, <3>2
  <2>7. pc'[p] # "failed"
    <3>1. CASE Look(p) \/ Make(p) \/ Touch(p)
      BY <1>d, <3>1 DEF Look, Make, Touch
    <3>2. CASE List(p) \/ Clear(p) \/ Rmdir(p) \/ Mkdir(p)
      <4>1. made /\ pc[p] \notin {"clear", "rmdir"}
        BY <1>4, <2>4, <2>5, <3>2 DEF List, Clear, Rmdir, Mkdir
      <4>2. CASE List(p)
        BY <1>d, <4>1, <4>2 DEF List
      <4>3. CASE Mkdir(p)
        BY <1>d, <4>1, <4>3 DEF Mkdir, AfterFolder
      <4> QED BY <3>2, <4>1, <4>2, <4>3 DEF Clear, Rmdir
    <3>3. CASE Fetch(p)
      <4>1. remote[opening.of[p]].here /\ AfterFetch(p) # "failed"
        BY DEF AfterFetch
      <4> QED BY <1>d, <3>3, <4>1 DEF Fetch
    <3>4. CASE Copy(p)
      BY <1>d, <3>4 DEF Copy, AfterFetch
    <3> QED BY <2>1, <3>1, <3>2, <3>3, <3>4
  <2> QED BY <1>1, <2>6, <2>7
<1> QED BY <1>5, <1>6, <1>7, <1>8, <1>9

\* A process that opens a dataset has configured its reader.
LEMMA OpenedBy ==
    ASSUME CalmInv, NEW p \in Procs, OpeningStep(p), NEW q \in Procs, pc[q] # "open", pc'[q] = "open"
    PROVE  q = p /\ Configure(p)
<1>0. DOMAIN pc = Procs /\ AfterFolder(p) # "open" /\ AfterFetch(p) # "open"
  BY DEF CalmInv, Site, AfterFolder, AfterFetch
<1> USE DEF Goto, Fail
<1>1. ~(Begin(p) \/ IndexParquet(p) \/ PlaceIndex(p) \/ Stamp(p))
  BY <1>0 DEF Begin, IndexParquet, PlaceIndex, Stamp
<1>2. ~(StartIndexing(p) \/ EndIndexing(p) \/ Placed(p))
  BY <1>0 DEF StartIndexing, EndIndexing, Placed, Barrier
<1>3. ~(Look(p) \/ List(p) \/ Clear(p) \/ Rmdir(p) \/ Make(p) \/ Mkdir(p))
  BY <1>0 DEF Look, List, Clear, Rmdir, Make, Mkdir
<1>4. ~(Fetch(p) \/ Copy(p) \/ Load(p) \/ Touch(p))
  BY <1>0 DEF Fetch, Copy, Load, Touch
<1>5. Configure(p)
  BY <1>1, <1>2, <1>3, <1>4 DEF OpeningStep
<1> QED BY <1>0, <1>5 DEF Configure

LEMMA ConfigSited ==
    ASSUME OpenJobAssumption, CalmInv, NEW p \in Procs, pc[p] = "config", opening.kind # "files"
    PROVE  Sited(p) /\ phase[p] = "iterating"
<1>1. phase[p] = "iterating"
  BY DEF CalmInv, Site, Route, Indexing, Making
<1>2. opening.kind \in {"remote", "filestore", "hf"}
  BY DEF CalmInv, OpenJobAssumption
<1> QED BY <1>1, <1>2 DEF Sited, InFolder, Busy

LEMMA KeptStep ==
    ASSUME OpenJobAssumption, CalmInv, IInv, Accepted, NEW p \in Procs, OpeningStep(p), Kept
    PROVE  Kept'
<1>0. /\ UNCHANGED <<opening, remote>> /\ Procs' = Procs /\ Datasets' = Datasets /\ Names' = Names /\ Site
  BY StepFrame DEF CalmInv
<1>1. ASSUME opening.kind # "files"
      PROVE  \E n \in Names : Steady(n)' /\ \A q \in Procs : pc'[q] = "open" => name'[q] = n
  <2>1. PICK n \in Names : Steady(n) /\ \A q \in Procs : pc[q] = "open" => name[q] = n
    BY <1>1 DEF Kept
  <2>2. Steady(n)'
    BY <2>1, SteadyStep
  <2>3. ASSUME NEW q \in Procs, pc'[q] = "open" PROVE name'[q] = n
    <3>1. CASE pc[q] = "open"
      <4>1. q # p
        BY <3>1, StepFrame DEF Busy
      <4> QED BY <2>1, <3>1, <4>1, StepFrame
    <3>2. CASE pc[q] # "open"
      <4>1. q = p /\ Configure(p)
        BY <2>3, <3>2, OpenedBy
      <4>2. Sited(p) /\ UNCHANGED name
        BY <1>1, <4>1, ConfigSited DEF Configure
      <4> QED BY <2>1, <4>1, <4>2 DEF Steady
    <3> QED BY <3>1, <3>2
  <2> QED BY <2>2, <2>3
<1>2. ASSUME NEW q \in Procs PROVE ~overtaken'[q] /\ pc'[q] # "failed" /\ LoadedNow(q)'
  <2>0. ~overtaken[q] /\ pc[q] # "failed" /\ LoadedNow(q) /\ remote[opening.of[q]].here
    BY DEF Kept, Datasets
  <2>1. CASE q = p
    BY <2>0, <2>1, SafeStep DEF Kept
  <2>2. CASE q # p
    <3>1. ~overtaken'[q] /\ phase'[q] = phase[q] /\ loaded'[q] = loaded[q] /\ name'[q] = name[q]
      BY <2>0, <2>2, StepFrame
    <3>2. pc'[q] = pc[q]
      <4>1. phase[p] # "indexing" /\ pc[p] # "placed"
        BY NoIndexing DEF Kept
      <4> QED BY <2>2, <4>1, OtherSteps
    <3>3. opening.kind \in {"remote", "hf"} /\ Busy(q) /\ phase[q] = "iterating" =>
             indexOf'[name[q]] = indexOf[name[q]]
      <4> SUFFICES ASSUME opening.kind \in {"remote", "hf"}, Busy(q), phase[q] = "iterating"
                   PROVE  indexOf'[name[q]] = indexOf[name[q]]
        OBVIOUS
      <4>1. PICK n \in Names : Steady(n)
        BY DEF Kept
      <4>2. Sited(q)
        <5>1. Route(q)
          BY DEF CalmInv
        <5> QED BY <5>1 DEF Sited, InFolder, Route
      <4>3. name[q] = n
        BY <4>1, <4>2 DEF Steady
      <4> QED BY <4>1, <4>3, SteadyStep
    <3>4. LoadedNow(q)'
      BY <1>0, <2>0, <3>1, <3>2, <3>3 DEF LoadedNow, Busy
    <3> QED BY <2>0, <3>1, <3>2, <3>4
  <2> QED BY <2>1, <2>2
<1> QED BY <1>0, <1>1, <1>2 DEF Kept

LEMMA InPlaceStep ==
    ASSUME OpenJobAssumption, CalmInv, IInv, Accepted, NEW p \in Procs, OpeningStep(p),
           opening.kind = "files", InPlace
    PROVE  InPlace'
<1>0. /\ UNCHANGED <<opening, remote>> /\ Procs' = Procs /\ Site
  BY StepFrame DEF CalmInv
<1> SUFFICES ASSUME NEW q \in Procs, ~overtaken'[q]
             PROVE  pc'[q] # "failed" /\ LoadedNow(q)'
  BY <1>0 DEF InPlace
<1>1. phase[p] # "indexing" /\ pc[p] # "placed"
  BY NoIndexing
<1>2. CASE q # p
  <2>1. /\ overtaken'[q] = overtaken[q] /\ phase'[q] = phase[q] /\ loaded'[q] = loaded[q]
        /\ pc'[q] = pc[q]
    BY <1>1, <1>2, StepFrame, OtherSteps
  <2> QED BY <1>0, <2>1 DEF InPlace, LoadedNow, Busy
<1>3. CASE q = p /\ pc[p] # "idle"
  <2>1. ~overtaken[p]
    BY <1>3, StepFrame
  <2>2. remote[opening.of[p]].here
    BY <1>3, <2>1 DEF CalmInv, Route
  <2> QED BY <1>3, <2>1, <2>2, SafeStep DEF InPlace
<1>4. CASE q = p /\ pc[p] = "idle"
  <2>1. Begin(p) /\ Route(p)
    BY <1>4, StepFrame DEF CalmInv
  <2> QED BY <1>0, <1>4, <2>1 DEF Begin, Goto, LoadedNow, Route, Making, Indexing, Site
<1> QED BY <1>2, <1>3, <1>4

\* When the dataset is written again, those that look at it are overtaken.
LEMMA WritingStep ==
    ASSUME OpenJobAssumption, CalmInv, NEW d \in Datasets, Withdraw(d) \/ Publish(d)
    PROVE  CalmInv'
<1>0. /\ UNCHANGED <<opening, folder, pc, phase, name, torn, loaded, configured, crowded>>
      /\ Procs' = Procs /\ Datasets' = Datasets /\ Names' = Names /\ Site /\ opening.kind # "hf"
      /\ (Accepted <=> Accepted') /\ (Settled <=> Settled') /\ (OneDataset <=> OneDataset')
      /\ \A p \in Procs : Route(p) /\ opening.of[p] \in Datasets /\ (Met(p) <=> Met(p)')
      /\ (Fetches <=> Fetches')
  <2>1. opening.kind # "hf"
    BY DEF Withdraw, Publish, CalmInv, Site, OpenJobAssumption
  <2>2. UNCHANGED <<opening, folder, pc, phase, name, torn, loaded, configured, crowded>>
    BY DEF Withdraw, Publish
  <2>3. Procs' = Procs /\ Datasets' = Datasets /\ Names' = Names
    BY <2>2 DEF Procs, Datasets, Names
  <2> QED BY <2>1, <2>2, <2>3 DEF CalmInv, Accepted, Settled, OneDataset, RightLoader, Datasets, Met, Fetches
<1>1. /\ \A e \in Datasets \ {d} : remote'[e] = remote[e]
      /\ \A p \in Procs : ~overtaken'[p] => ~overtaken[p] /\ (opening.of[p] # d \/ pc[p] = "idle")
      /\ overtaken' \in [Procs -> BOOLEAN]
      /\ remote' \in [Datasets -> [version : 1 .. MaxVersions, here : BOOLEAN]]
      /\ \A e \in Datasets : ~remote'[e].here => remote'[e].version < MaxVersions
  <2>1. PICK here \in BOOLEAN, v \in 1 .. MaxVersions :
           /\ remote' = [remote EXCEPT ![d] = [version |-> v, here |-> here]]
           /\ ~here => v < MaxVersions
    <3>1. remote[d].version \in 1 .. MaxVersions /\ (~remote[d].here => remote[d].version < MaxVersions)
      BY <1>0 DEF Site
    <3>2. CASE Withdraw(d)
      BY <3>1, <3>2 DEF Withdraw
    <3>3. CASE Publish(d)
      <4>1. remote[d].version + 1 \in 1 .. MaxVersions
        BY <3>1, <3>3 DEF Publish, MaxVersions
      <4> QED BY <3>3, <4>1 DEF Publish
    <3> QED BY <3>2, <3>3
  <2>2. overtaken' = [p \in Procs |-> overtaken[p] \/ (opening.of[p] = d /\ pc[p] # "idle")]
    BY DEF Withdraw, Publish, Overtake
  <2>3. overtaken \in [Procs -> BOOLEAN]
    BY <1>0 DEF Site
  <2>4. /\ remote \in [Datasets -> [version : 1 .. MaxVersions, here : BOOLEAN]]
        /\ \A e \in Datasets : ~remote[e].here => remote[e].version < MaxVersions
    BY <1>0 DEF Site
  <2> QED BY <2>1, <2>2, <2>3, <2>4
<1>2. Site'
  BY <1>0, <1>1 DEF Site, folder
<1>3. \A p \in Procs : Route(p)'
  BY <1>0, <1>1 DEF Route
<1>4. ASSUME Accepted, NEW p \in Procs, ~overtaken'[p], ~Met(p)'
      PROVE  /\ pc[p] # "failed"
             /\ Busy(p)' => Works(p)'
             /\ (pc'[p] = "open" /\ OneDataset' /\ opening'.kind # "files") => Steady(name[p])'
  <2>1. /\ ~overtaken[p] /\ ~Met(p) /\ Alone(p) /\ (opening.of[p] # d \/ pc[p] = "idle")
    BY <1>0, <1>1, <1>4 DEF CalmInv
  <2>2. Busy(p) => remote'[opening.of[p]] = remote[opening.of[p]]
    BY <1>0, <1>1, <2>1 DEF Busy
  <2>3. Busy(p)' => Works(p)'
    <3> SUFFICES ASSUME Busy(p) PROVE Works(p)'
      BY <1>0 DEF Busy
    <3>1. Works(p) /\ (First(p) <=> First(p)') /\ (Sited(p) <=> Sited(p)') /\ (LoadedNow(p) <=> LoadedNow(p)')
          /\ NameNow(opening.of[p])' = NameNow(opening.of[p])
          /\ \A q \in Procs : Busy(q) <=> Busy(q)'
      BY <1>0, <2>1, <2>2 DEF Alone, First, Sited, Busy, InFolder, LoadedNow, NameNow, Hash, folder
    <3> QED BY <1>0, <3>1 DEF Works, folder
  <2>4. ~(pc[p] = "open" /\ OneDataset)
    BY <1>0, <2>1 DEF OneDataset
  <2> QED BY <1>0, <2>1, <2>3, <2>4 DEF Alone
<1>5. ASSUME Accepted, Settled PROVE FALSE
  <2>1. remote[d].here /\ ~opening.rewritten
    BY <1>5 DEF CalmInv, Kept, Settled
  <2> QED BY <2>1 DEF Withdraw, Publish
<1>6. ASSUME Accepted, opening.kind = "files", NEW p \in Procs, ~overtaken'[p]
      PROVE  pc[p] # "failed" /\ LoadedNow(p)'
  <2>1. /\ ~overtaken[p] /\ (opening.of[p] # d \/ pc[p] = "idle") /\ pc[p] # "failed" /\ LoadedNow(p)
    BY <1>1, <1>6 DEF CalmInv, InPlace
  <2>2. Busy(p) => remote'[opening.of[p]] = remote[opening.of[p]]
    BY <1>0, <1>1, <2>1 DEF Busy
  <2> QED BY <1>0, <2>1, <2>2 DEF LoadedNow, Busy, folder
<1> QED BY <1>0, <1>2, <1>3, <1>4, <1>5, <1>6 DEF CalmInv, Alone, InPlace, folder

LEMMA CalmStep == ASSUME OpenJobAssumption PROVE IInv /\ CalmInv /\ [OpeningNext]_openingVars => CalmInv'
<1> SUFFICES ASSUME IInv, CalmInv, [OpeningNext]_openingVars PROVE CalmInv'
  OBVIOUS
<1>1. ASSUME NEW p \in Procs, OpeningStep(p) PROVE CalmInv'
  <2>0. /\ UNCHANGED <<opening, remote>> /\ Procs' = Procs /\ Datasets' = Datasets
        /\ (Accepted <=> Accepted') /\ (Settled <=> Settled')
    BY <1>1, StepFrame DEF Accepted, RightLoader, Settled, OneDataset
  <2>1. opening' \in OpenJobs /\ Site' /\ \A q \in Procs : Route(q)'
    BY <1>1, <2>0, SiteStep, RouteStep DEF CalmInv
  <2>2. ASSUME Accepted PROVE \A q \in Procs : Alone(q)'
    BY <1>1, <2>2, AloneStep, OthersStep
  <2>3. ASSUME Accepted, Settled PROVE Kept'
    BY <1>1, <2>3, KeptStep DEF CalmInv
  <2>4. ASSUME Accepted, opening.kind = "files" PROVE InPlace'
    BY <1>1, <2>4, InPlaceStep DEF CalmInv
  <2>5. ASSUME Accepted, opening'.kind = "hf", \A q \in Procs : ~crowded'[q]
        PROVE  \A m, n \in dirs' : m = n
    BY <1>1, <2>0, <2>5, SingleStep
  <2> QED BY <2>0, <2>1, <2>2, <2>3, <2>4, <2>5 DEF CalmInv
<1>2. ASSUME NEW d \in Datasets, Withdraw(d) \/ Publish(d) PROVE CalmInv'
  BY <1>2, WritingStep
<1>3. CASE UNCHANGED openingVars
  <2> USE <1>3 DEF openingVars, folder, process
  <2>1. /\ Procs' = Procs /\ Datasets' = Datasets /\ Names' = Names /\ (Accepted <=> Accepted')
        /\ (Settled <=> Settled') /\ (OneDataset <=> OneDataset') /\ (Fetches <=> Fetches')
    BY DEF Procs, Datasets, Names, Accepted, RightLoader, Settled, OneDataset, Fetches
  <2>2. (Site <=> Site') /\ \A p \in Procs : (Route(p) <=> Route(p)') /\ (Met(p) <=> Met(p)')
    BY <2>1 DEF Site, Route, Met
  <2>3. \A p \in Procs : /\ (Busy(p) <=> Busy(p)') /\ (Sited(p) <=> Sited(p)')
                         /\ (LoadedNow(p) <=> LoadedNow(p)') /\ (First(p) <=> First(p)')
    BY DEF Busy, Sited, InFolder, LoadedNow, First
  <2>4. \A d : NameNow(d)' = NameNow(d)
    BY DEF NameNow, Hash
  <2>5. \A n : Steady(n) <=> Steady(n)'
    BY <2>1, <2>3, <2>4 DEF Steady
  <2>6. \A p \in Procs : Works(p) <=> Works(p)'
    BY <2>1, <2>3, <2>4 DEF Works
  <2>7. \A p \in Procs : Alone(p) <=> Alone(p)'
    BY <2>1, <2>2, <2>3, <2>5, <2>6 DEF Alone
  <2>8. (Kept <=> Kept') /\ (InPlace <=> InPlace')
    BY <2>1, <2>3, <2>5 DEF Kept, InPlace
  <2> QED BY <2>1, <2>2, <2>7, <2>8 DEF CalmInv
<1> QED BY <1>1, <1>2, <1>3 DEF OpeningNext

LEMMA CalmEnough == CalmInv => Undisturbed
<1> SUFFICES ASSUME CalmInv, Accepted, NEW p \in Procs, ~overtaken[p], ~Met(p) \/ Settled
             PROVE  pc[p] # "failed" /\ ((pc[p] = "open" /\ OneDataset) => Found(p) # Missing)
  BY DEF Undisturbed, Accepted
<1>0. Site /\ Route(p) /\ opening.of[p] \in Datasets
  BY DEF CalmInv, Datasets
<1>1. pc[p] # "failed"
  BY DEF CalmInv, Alone, Kept
<1>2. ASSUME pc[p] = "open", OneDataset PROVE Found(p) # Missing
  <2>0. phase[p] = "iterating" /\ remote[opening.of[p]].here
    BY <1>0, <1>2 DEF Route, Site, Making, Indexing
  <2>1. CASE opening.kind = "files"
    BY <1>0, <2>0, <2>1 DEF Found, Site, Missing, MaxVersions
  <2>2. CASE opening.kind # "files"
    <3>1. CASE ~Met(p)
      <4>1. Steady(name[p])
        BY <1>2, <2>2, <3>1 DEF CalmInv, Alone
      <4> QED BY <2>0, <2>2, <4>1 DEF Steady, Found
    <3>2. CASE Settled
      <4>1. PICK n \in Names : Steady(n) /\ name[p] = n
        BY <1>2, <2>2, <3>2 DEF CalmInv, Kept
      <4>2. name[p] = n
        BY <4>1
      <4> QED BY <2>0, <2>2, <4>1, <4>2 DEF Steady, Found
    <3> QED BY <3>1, <3>2
  <2> QED BY <2>1, <2>2
<1> QED BY <1>1, <1>2

\* Whatever the cache held, a process that never met another opens the dataset and keeps
\* its folder, unless the dataset is written again meanwhile; in a cache that is up to
\* date it does so whomever it meets (_clear_cache_dir_if_updated, _try_create_cache_dir).
THEOREM FolderUndisturbed ==
    ASSUME OpenJobAssumption
    PROVE  OpeningSpec => []Undisturbed
<1>1. OpeningInit => IInv /\ CalmInv
  BY InitInv, CalmInit
<1>2. IInv /\ CalmInv /\ [OpeningNext]_openingVars => IInv' /\ CalmInv'
  BY StepInv, CalmStep
<1>3. CalmInv => Undisturbed
  BY CalmEnough
<1> QED BY <1>1, <1>2, <1>3, PTL DEF OpeningSpec
=============================================================================
