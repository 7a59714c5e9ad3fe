-------------------------- MODULE ChunkCacheProofs --------------------------
(***************************************************************************)
(* Theorems about ChunkCache, for every number of workers and chunks, every *)
(* plan and every setting of the cache.                                     *)
(***************************************************************************)
EXTENDS ChunkCache, FiniteSetTheorems, TLAPS

\* Where the reader stands in its plan: the chunk before the current one has
\* been handed over once the current one is read.
ReaderInv(w) ==
    /\ retired[w] <= Len(Plan[w])
    /\ reader[w] \in {"look", "wait", "open"} /\ pos[w] = 1 => retired[w] = 0
    /\ reader[w] \in {"look", "wait", "open"} /\ pos[w] > 1 => retired[w] = pos[w] - 2
    /\ reader[w] = "retire" => pos[w] > 1 /\ retired[w] = pos[w] - 2
    /\ reader[w] = "reading" => retired[w] = pos[w] - 1

\* What the thread has in hand.
TargetInv(w) ==
    /\ evicted[w] <= received[w] /\ received[w] <= retired[w]
    /\ forced[w] => thread[w] \in {"delete", "remove", "unlock", "fetch", "copy", "crashed"}
    /\ thread[w] \in {"mark", "claim", "fetch", "copy", "delete", "remove", "unlock"} =>
         target[w] \in Chunks
    /\ thread[w] \in {"mark", "claim", "fetch", "copy"} /\ ~forced[w] =>
         taken[w] >= 1 /\ target[w] = Plan[w][taken[w]]
    /\ thread[w] \in {"delete", "remove", "unlock"} /\ ~forced[w] =>
         evicted[w] >= 1 /\ target[w] = Plan[w][evicted[w]]

\* A chunk taken that the counter does not count yet, and a chunk received that
\* the counter still counts.
Pending(w) == IF thread[w] \in {"mark", "claim", "fetch", "copy"} /\ ~forced[w] THEN 1 ELSE 0
Returning(w) == IF thread[w] \in {"scan", "delete", "remove", "unlock"} /\ ~forced[w] THEN 1 ELSE 0

\* The pre-download counter covers every chunk that was taken and not received
\* (forced downloads only add to it), and it is positive whenever the thread is
\* about to give a chunk back.
BudgetInv(w) ==
    /\ thread[w] # "crashed" => taken[w] + Returning(w) <= counter[w] + received[w] + Pending(w)
    /\ thread[w] \in {"receive", "scan", "delete", "remove", "unlock"} /\ ~forced[w] =>
         counter[w] >= 1 \/ taken[w] = Len(Plan[w])

\* The inductive invariant: PrefetchWindow needs the accounting of the counter,
\* which needs where the reader and the thread are.
WorkerInv(w) ==
    /\ ReaderInv(w)
    /\ TargetInv(w)
    /\ BudgetInv(w)
    /\ taken[w] <= retired[w] + MaxPreDownload

IInv == TypeOK /\ \A w \in Workers : WorkerInv(w)

-----------------------------------------------------------------------------
\* A plan is a nonempty sequence of chunks.
LEMMA PlanFacts ==
    ASSUME NEW w \in Workers
    PROVE  /\ Plan[w] \in Seq(Chunks)
           /\ Len(Plan[w]) \in Nat \ {0}
           /\ \A i \in 1 .. Len(Plan[w]) : Plan[w][i] \in Chunks
<1>1. Plan[w] \in Seq(Chunks) /\ Plan[w] # << >>
  BY PlanAssumption
<1> QED
  BY <1>1

LEMMA InitInv == Init => IInv
<1> SUFFICES ASSUME Init PROVE IInv
  OBVIOUS
<1>1. \A w \in Workers : Len(Plan[w]) \in Nat \ {0}
  BY PlanFacts
<1>2. TypeOK
  BY <1>1, SizeAssumption DEF Init, TypeOK, ReaderStates, ThreadStates
<1>3. ASSUME NEW w \in Workers PROVE WorkerInv(w)
  BY <1>1, SizeAssumption DEF Init, WorkerInv, ReaderInv, TargetInv, BudgetInv, Pending, Returning
<1> QED
  BY <1>2, <1>3 DEF IInv

\* The counts stay natural numbers.
LEMMA CountType ==
    ASSUME lockCount \in [Chunks -> Nat], NEW c \in Chunks, Increment(c) \/ Decrement(c)
    PROVE  lockCount' \in [Chunks -> Nat]
<1>1. CASE Increment(c)
  BY <1>1 DEF Increment
<1>2. CASE Decrement(c)
  <2>1. (IF lockCount[c] = 0 THEN 0 ELSE lockCount[c] - 1) \in Nat
    OBVIOUS
  <2> QED
    BY <1>2, <2>1 DEF Decrement
<1> QED
  BY <1>1, <1>2

\* While the thread does not move, handing over more chunks keeps what the
\* invariant says of it.
LEMMA ThreadIdle ==
    ASSUME NEW v \in Workers, IInv, UNCHANGED threadVars,
           retired'[v] \in Nat, retired'[v] >= retired[v]
    PROVE  /\ TargetInv(v)'
           /\ BudgetInv(v)'
           /\ taken'[v] <= retired'[v] + MaxPreDownload
<1> USE DEF IInv, TypeOK, WorkerInv, threadVars
<1>1. MaxPreDownload \in Nat
  BY SizeAssumption
<1>2. TargetInv(v)'
  BY DEF TargetInv
<1>3. BudgetInv(v)'
  BY DEF BudgetInv, Pending, Returning
<1> QED
  BY <1>1, <1>2, <1>3

\* The steps of the reader.
LEMMA ReaderStepInv ==
    ASSUME NEW w \in Workers, IInv, ReaderStep(w) \/ Abandon(w)
    PROVE  IInv'
<1>1. \A v \in Workers : Len(Plan[v]) \in Nat \ {0} /\ Plan[v] \in Seq(Chunks)
  BY PlanFacts
<1>2. Wanted(w) \in Chunks /\ (pos[w] > 1 => Plan[w][pos[w] - 1] \in Chunks)
  BY SMTT(30), PlanFacts DEF Wanted, IInv, TypeOK
<1>3. /\ UNCHANGED threadVars
      /\ TypeOK'
      /\ \A v \in Workers : ReaderInv(v)' /\ retired'[v] >= retired[v]
  <2> USE <1>1 DEF IInv, TypeOK, WorkerInv, ReaderStates, shared, readerVars, threadVars
  <2>1. CASE Look(w)
    <3>1. TypeOK'
      BY <2>1 DEF Look
    <3>2. ASSUME NEW v \in Workers PROVE ReaderInv(v)' /\ retired'[v] >= retired[v]
      <4>1. CASE v = w
        BY <4>1, <2>1 DEF Look, ReaderInv
      <4>2. CASE v # w
        BY <4>2, <2>1 DEF Look, ReaderInv
      <4> QED
        BY <4>1, <4>2
    <3> QED
      BY <2>1, <3>1, <3>2 DEF Look
  <2>2. CASE Find(w)
    <3>1. TypeOK'
      BY <2>2 DEF Find
    <3>2. ASSUME NEW v \in Workers PROVE ReaderInv(v)' /\ retired'[v] >= retired[v]
      <4>1. CASE v = w
        BY <4>1, <2>2 DEF Find, ReaderInv
      <4>2. CASE v # w
        BY <4>2, <2>2 DEF Find, ReaderInv
      <4> QED
        BY <4>1, <4>2
    <3> QED
      BY <2>2, <3>1, <3>2 DEF Find
  <2>3. CASE RequestForceDownload(w)
    <3>1. Append(forceQueue[w], Wanted(w)) \in Seq(Chunks)
      BY <1>2
    <3>2. forceQueue' \in [Workers -> Seq(Chunks)] /\ requested' \in [Workers -> BOOLEAN]
      BY <2>3, <3>1 DEF RequestForceDownload
    <3>3. TypeOK'
      BY <2>3, <3>2 DEF RequestForceDownload
    <3> QED
      BY SMTT(30), <2>3, <3>3 DEF RequestForceDownload, ReaderInv
  <2>4. CASE GiveUp(w)
    <3>1. TypeOK'
      BY <2>4 DEF GiveUp
    <3>2. ASSUME NEW v \in Workers PROVE ReaderInv(v)' /\ retired'[v] >= retired[v]
      <4>1. CASE v = w
        BY <4>1, <2>4 DEF GiveUp, ReaderInv
      <4>2. CASE v # w
        BY <4>2, <2>4 DEF GiveUp, ReaderInv
      <4> QED
        BY <4>1, <4>2
    <3> QED
      BY <2>4, <3>1, <3>2 DEF GiveUp
  <2>5. CASE Open(w)
    <3>1. TypeOK'
      BY <2>5 DEF Open
    <3>2. ASSUME NEW v \in Workers PROVE ReaderInv(v)' /\ retired'[v] >= retired[v]
      <4>1. CASE v = w
        BY <4>1, <2>5 DEF Open, ReaderInv
      <4>2. CASE v # w
        BY <4>2, <2>5 DEF Open, ReaderInv
      <4> QED
        BY <4>1, <4>2
    <3> QED
      BY <2>5, <3>1, <3>2 DEF Open
  <2>6. CASE Retire(w)
    <3>1. lockCount' \in [Chunks -> Nat]
      BY <2>6, <1>2, CountType DEF Retire, ReaderInv
    <3>2. retired' \in [Workers -> Nat] /\ reader' \in [Workers -> ReaderStates]
      BY SMTT(30), <2>6 DEF Retire
    <3>3. TypeOK'
      BY <2>6, <3>1, <3>2 DEF Retire
    <3>4. ASSUME NEW v \in Workers PROVE ReaderInv(v)' /\ retired'[v] >= retired[v]
      <4>1. CASE v = w
        BY SMTT(30), <4>1, <2>6 DEF Retire, ReaderInv
      <4>2. CASE v # w
        BY SMTT(30), <4>2, <2>6 DEF Retire, ReaderInv
      <4> QED
        BY <4>1, <4>2
    <3> QED
      BY <2>6, <3>3, <3>4 DEF Retire
  <2>7. CASE NextChunk(w)
    <3>1. pos' \in [Workers -> Nat] /\ \A v \in Workers : pos'[v] \in 1 .. Len(Plan[v])
      <4>1. pos' = [pos EXCEPT ![w] = pos[w] + 1] /\ pos[w] < Len(Plan[w])
        BY <2>7 DEF NextChunk
      <4>2. pos[w] + 1 \in Nat /\ pos[w] + 1 \in 1 .. Len(Plan[w])
        BY <4>1, <1>1
      <4> QED
        BY <4>1, <4>2
    <3>2. TypeOK'
      BY <2>7, <3>1 DEF NextChunk
    <3>3. ASSUME NEW v \in Workers PROVE ReaderInv(v)' /\ retired'[v] >= retired[v]
      <4>1. CASE v = w
        BY SMTT(30), <4>1, <2>7 DEF NextChunk, ReaderInv
      <4>2. CASE v # w
        BY <4>2, <2>7 DEF NextChunk, ReaderInv
      <4> QED
        BY <4>1, <4>2
    <3> QED
      BY <2>7, <3>2, <3>3 DEF NextChunk
  <2>8. CASE Finish(w)
    <3>1. lockCount' \in [Chunks -> Nat]
      BY <2>8, <1>2, CountType DEF Finish
    <3>2. retired' \in [Workers -> Nat] /\ reader' \in [Workers -> ReaderStates]
      BY <2>8 DEF Finish
    <3>3. TypeOK'
      BY <2>8, <3>1, <3>2 DEF Finish
    <3>4. ASSUME NEW v \in Workers PROVE ReaderInv(v)' /\ retired'[v] >= retired[v]
      <4>1. CASE v = w
        BY <4>1, <2>8 DEF Finish, ReaderInv
      <4>2. CASE v # w
        BY SMTT(30), <4>2, <2>8 DEF Finish, ReaderInv
      <4> QED
        BY <4>1, <4>2
    <3> QED
      BY <2>8, <3>3, <3>4 DEF Finish
  <2>9. CASE Abandon(w)
    <3>1. TypeOK'
      BY <2>9 DEF Abandon
    <3>2. ASSUME NEW v \in Workers PROVE ReaderInv(v)' /\ retired'[v] >= retired[v]
      <4>1. CASE v = w
        BY <4>1, <2>9 DEF Abandon, ReaderInv
      <4>2. CASE v # w
        BY <4>2, <2>9 DEF Abandon, ReaderInv
      <4> QED
        BY <4>1, <4>2
    <3> QED
      BY <2>9, <3>1, <3>2 DEF Abandon
  <2> QED
    BY <2>1, <2>2, <2>3, <2>4, <2>5, <2>6, <2>7, <2>8, <2>9 DEF ReaderStep
<1>4. ASSUME NEW v \in Workers PROVE WorkerInv(v)'
  BY <1>3, ThreadIdle DEF WorkerInv, TypeOK
<1> QED
  BY <1>3, <1>4 DEF IInv

\* What the thread of v and its reader have to do with each other.
Kept(v) ==
    /\ TargetInv(v)
    /\ BudgetInv(v)
    /\ taken[v] <= retired[v] + MaxPreDownload

\* The invariant speaks of each worker's own variables.
LEMMA OthersKeep ==
    ASSUME NEW v \in Workers, Kept(v),
           UNCHANGED <<thread[v], target[v], forced[v], taken[v], received[v], evicted[v],
                       counter[v], retired[v]>>
    PROVE  Kept(v)'
<1>1. TargetInv(v)'
  BY DEF Kept, TargetInv
<1>2. BudgetInv(v)'
  BY DEF Kept, BudgetInv, Pending, Returning
<1> QED
  BY <1>1, <1>2 DEF Kept

\* The end of a download: the counter takes over a chunk that was pending.
LEMMA DownloadedKeeps ==
    ASSUME NEW w \in Workers, TypeOK, Kept(w), Downloaded(w),
           thread[w] \in {"mark", "fetch", "copy"},
           UNCHANGED <<taken[w], received[w], evicted[w], retired[w]>>
    PROVE  /\ Kept(w)'
           /\ counter' \in [Workers -> Nat]
           /\ forced' \in [Workers -> BOOLEAN]
           /\ target' \in [Workers -> Chunks \union {NoChunk}]
           /\ thread' \in [Workers -> ThreadStates]
           /\ \A v \in Workers : v # w => UNCHANGED <<counter[v], forced[v], target[v], thread[v]>>
<1>1. /\ counter'[w] = counter[w] + 1 /\ ~forced'[w]
      /\ thread'[w] \in {"pick", "receive", "top"}
      /\ taken[w] \in Nat /\ received[w] \in Nat /\ evicted[w] \in Nat /\ counter[w] \in Nat
  BY DEF Downloaded, Goto, Maintain, TypeOK
<1>2. TargetInv(w)'
  BY <1>1 DEF Kept, TargetInv
<1>3. BudgetInv(w)'
  <2>1. taken[w] <= counter[w] + 1 + received[w]
    BY <1>1 DEF Kept, BudgetInv, Pending, Returning
  <2> QED
    BY <1>1, <2>1 DEF BudgetInv, Pending, Returning
<1>4. taken'[w] <= retired'[w] + MaxPreDownload
  BY DEF Kept
<1>5. counter' \in [Workers -> Nat]
  BY <1>1 DEF Downloaded, TypeOK
<1>6. forced' \in [Workers -> BOOLEAN]
  BY DEF Downloaded, TypeOK
<1>7. target' \in [Workers -> Chunks \union {NoChunk}]
  BY DEF Downloaded, TypeOK
<1>8. thread' \in [Workers -> ThreadStates]
  BY DEF Downloaded, Goto, Maintain, TypeOK, ThreadStates
<1>9. \A v \in Workers : v # w => UNCHANGED <<counter[v], forced[v], target[v], thread[v]>>
  BY DEF Downloaded, Goto, TypeOK
<1> QED
  BY <1>2, <1>3, <1>4, <1>5, <1>6, <1>7, <1>8, <1>9 DEF Kept

\* The steps of the thread.
LEMMA ThreadStepInv ==
    ASSUME NEW w \in Workers, IInv, ThreadStep(w)
    PROVE  IInv'
<1>1. /\ Len(Plan[w]) \in Nat \ {0}
      /\ \A i \in 1 .. Len(Plan[w]) : Plan[w][i] \in Chunks
  BY PlanFacts
<1>2. MaxPreDownload \in Nat \ {0}
  BY SizeAssumption
<1>k. TypeOK /\ ReaderInv(w) /\ Kept(w) /\ \A v \in Workers : Kept(v)
  BY DEF IInv, WorkerInv, Kept
<1>t. /\ taken[w] \in Nat /\ received[w] \in Nat /\ evicted[w] \in Nat
      /\ counter[w] \in Nat /\ retired[w] \in Nat /\ taken[w] <= Len(Plan[w])
      /\ thread[w] \in ThreadStates /\ forced[w] \in BOOLEAN
  BY <1>k DEF TypeOK
<1>i. /\ evicted[w] <= received[w] /\ received[w] <= retired[w] /\ retired[w] <= Len(Plan[w])
      /\ taken[w] <= retired[w] + MaxPreDownload
      /\ forced[w] => thread[w] \in {"delete", "remove", "unlock", "fetch", "copy", "crashed"}
  BY <1>k DEF Kept, TargetInv, ReaderInv
<1>3. /\ UNCHANGED readerVars
      /\ TypeOK'
      /\ \A v \in Workers : Kept(v)'
  <2>1. CASE ObeyForceStop(w)
    <3>1. TypeOK'
      BY <1>k, <2>1 DEF ObeyForceStop, TypeOK, ThreadStates, shared, readerVars, Goto
    <3>2. Kept(w)'
      <4>1. /\ thread[w] = "top" /\ thread'[w] = "exited"
            /\ UNCHANGED <<target, forced, taken, received, evicted, counter, retired>>
        BY <1>k, <2>1, <1>i DEF ObeyForceStop, TypeOK, shared, readerVars, Goto
      <4>2. TargetInv(w)'
        BY <1>k, <1>t, <1>i, <4>1 DEF Kept, TargetInv
      <4>3. BudgetInv(w)'
        BY <1>k, <1>t, <4>1 DEF Kept, BudgetInv, Pending, Returning
      <4> QED
        BY <1>t, <1>i, <4>1, <4>2, <4>3 DEF Kept
    <3>3. ASSUME NEW v \in Workers, v # w PROVE Kept(v)'
      <4>1. UNCHANGED <<thread[v], target[v], forced[v], taken[v], received[v], evicted[v],
                        counter[v], retired[v]>>
        BY <1>k, <2>1, <3>3 DEF ObeyForceStop, TypeOK, shared, readerVars, Goto
      <4> QED
        BY <1>k, <4>1, OthersKeep
    <3> QED
      BY <2>1, <3>1, <3>2, <3>3 DEF ObeyForceStop, shared, Goto
  <2>2. CASE TakeForced(w)
    <3>a. Head(forceQueue[w]) \in Chunks /\ Tail(forceQueue[w]) \in Seq(Chunks)
      BY <1>k, <2>2 DEF TakeForced, TypeOK
    <3>b. /\ target' \in [Workers -> Chunks \union {NoChunk}]
          /\ forceQueue' \in [Workers -> Seq(Chunks)]
      BY <1>k, <2>2, <3>a DEF TakeForced, TypeOK
    <3>c. forced' \in [Workers -> BOOLEAN] /\ thread' \in [Workers -> ThreadStates]
      BY <1>k, <2>2 DEF TakeForced, Goto, TypeOK, ThreadStates
    <3>1. TypeOK'
      BY <1>k, <2>2, <3>b, <3>c DEF TakeForced, TypeOK, shared, readerVars
    <3>2. Kept(w)'
      <4>1. /\ thread[w] = "top" /\ thread'[w] = "delete" /\ ~forced[w] /\ forced'[w]
            /\ target'[w] \in Chunks
            /\ UNCHANGED <<taken, received, evicted, counter, retired>>
        BY <1>k, <3>a, <2>2, <1>i DEF TakeForced, TypeOK, shared, readerVars, Goto
      <4>2. TargetInv(w)'
        BY <1>k, <1>t, <1>i, <4>1 DEF Kept, TargetInv
      <4>3. BudgetInv(w)'
        BY <1>k, <1>t, <4>1 DEF Kept, BudgetInv, Pending, Returning
      <4> QED
        BY <1>t, <1>i, <4>1, <4>2, <4>3 DEF Kept
    <3>3. ASSUME NEW v \in Workers, v # w PROVE Kept(v)'
      <4>1. UNCHANGED <<thread[v], target[v], forced[v], taken[v], received[v], evicted[v],
                        counter[v], retired[v]>>
        BY <1>k, <2>2, <3>3 DEF TakeForced, TypeOK, shared, readerVars, Goto
      <4> QED
        BY <1>k, <4>1, OthersKeep
    <3> QED
      BY <2>2, <3>1, <3>2, <3>3 DEF TakeForced, shared, Goto
  <2>3. CASE NoneForced(w)
    <3>1. TypeOK'
      BY <1>k, <2>3 DEF NoneForced, TypeOK, ThreadStates, shared, readerVars, Goto
    <3>2. Kept(w)'
      <4>1. /\ thread[w] = "top" /\ thread'[w] = "pick"
            /\ UNCHANGED <<target, forced, taken, received, evicted, counter, retired>>
        BY <1>k, <2>3, <1>i DEF NoneForced, TypeOK, shared, readerVars, Goto
      <4>2. TargetInv(w)'
        BY <1>k, <1>t, <1>i, <4>1 DEF Kept, TargetInv
      <4>3. BudgetInv(w)'
        BY <1>k, <1>t, <4>1 DEF Kept, BudgetInv, Pending, Returning
      <4> QED
        BY <1>t, <1>i, <4>1, <4>2, <4>3 DEF Kept
    <3>3. ASSUME NEW v \in Workers, v # w PROVE Kept(v)'
      <4>1. UNCHANGED <<thread[v], target[v], forced[v], taken[v], received[v], evicted[v],
                        counter[v], retired[v]>>
        BY <1>k, <2>3, <3>3 DEF NoneForced, TypeOK, shared, readerVars, Goto
      <4> QED
        BY <1>k, <4>1, OthersKeep
    <3> QED
      BY <2>3, <3>1, <3>2, <3>3 DEF NoneForced, shared, Goto
  <2>4. CASE Take(w)
    <3>a. /\ Plan[w][taken[w] + 1] \in Chunks /\ taken[w] + 1 \in Nat
          /\ taken[w] + 1 <= Len(Plan[w])
      BY <1>1, <1>t, <2>4 DEF Take
    <3>b. /\ taken' \in [Workers -> Nat] /\ \A v \in Workers : taken'[v] <= Len(Plan[v])
          /\ thread' \in [Workers -> ThreadStates]
      BY <1>k, <2>4, <3>a DEF Take, Goto, TypeOK, ThreadStates
    <3>1. TypeOK'
      BY <1>k, <2>4, <3>a, <3>b DEF Take, TypeOK, shared, readerVars
    <3>2. Kept(w)'
      <4>1. /\ taken'[w] = taken[w] + 1 /\ target'[w] = Plan[w][taken[w] + 1]
            /\ thread'[w] \in {"mark", "claim"} /\ thread[w] = "pick" /\ ~forced[w]
            /\ counter[w] < MaxPreDownload
            /\ UNCHANGED <<forced, received, evicted, counter, retired>>
        BY <1>k, <1>i, <2>4 DEF Take, Goto, TypeOK, shared, readerVars
      <4>2. taken[w] <= counter[w] + received[w]
        <5>1. taken[w] + Returning(w) <= counter[w] + received[w] + Pending(w)
          BY <1>k, <4>1 DEF Kept, BudgetInv
        <5>2. Returning(w) = 0 /\ Pending(w) = 0
          BY <4>1 DEF Pending, Returning
        <5> QED
          BY <1>t, <5>1, <5>2
      <4>3. TargetInv(w)'
        BY <1>t, <1>i, <3>a, <4>1 DEF TargetInv
      <4>4. BudgetInv(w)'
        BY <1>t, <4>1, <4>2 DEF BudgetInv, Pending, Returning
      <4>5. taken'[w] <= retired'[w] + MaxPreDownload
        BY <1>2, <1>t, <1>i, <4>1, <4>2
      <4> QED
        BY <4>3, <4>4, <4>5 DEF Kept
    <3>3. ASSUME NEW v \in Workers, v # w PROVE Kept(v)'
      <4>1. UNCHANGED <<thread[v], target[v], forced[v], taken[v], received[v], evicted[v],
                        counter[v], retired[v]>>
        BY <1>k, <2>4, <3>3 DEF Take, TypeOK, shared, readerVars, Goto
      <4> QED
        BY <1>k, <4>1, OthersKeep
    <3> QED
      BY <2>4, <3>1, <3>2, <3>3 DEF Take, shared, Goto
  <2>5. CASE TakeEnd(w)
    <3>1. TypeOK'
      BY <1>k, <2>5 DEF TakeEnd, TypeOK, ThreadStates, shared, readerVars, Goto
    <3>2. Kept(w)'
      <4>1. /\ thread[w] = "pick" /\ thread'[w] \in {"receive", "exited"}
            /\ taken[w] = Len(Plan[w])
            /\ UNCHANGED <<target, forced, taken, received, evicted, counter, retired>>
        BY <1>k, <2>5, <1>i DEF TakeEnd, TypeOK, shared, readerVars, Goto
      <4>2. TargetInv(w)'
        BY <1>k, <1>t, <1>i, <4>1 DEF Kept, TargetInv
      <4>3. BudgetInv(w)'
        BY <1>k, <1>t, <4>1 DEF Kept, BudgetInv, Pending, Returning
      <4> QED
        BY <1>t, <1>i, <4>1, <4>2, <4>3 DEF Kept
    <3>3. ASSUME NEW v \in Workers, v # w PROVE Kept(v)'
      <4>1. UNCHANGED <<thread[v], target[v], forced[v], taken[v], received[v], evicted[v],
                        counter[v], retired[v]>>
        BY <1>k, <2>5, <3>3 DEF TakeEnd, TypeOK, shared, readerVars, Goto
      <4> QED
        BY <1>k, <4>1, OthersKeep
    <3> QED
      BY <2>5, <3>1, <3>2, <3>3 DEF TakeEnd, shared, Goto
  <2>6. CASE TakeNothing(w)
    <3>1. TypeOK'
      BY <1>k, <2>6 DEF TakeNothing, TypeOK, ThreadStates, shared, readerVars, Goto, Maintain
    <3>2. Kept(w)'
      <4>1. /\ thread[w] = "pick" /\ thread'[w] \in {"receive", "top"}
            /\ counter[w] >= 1 \/ taken[w] = Len(Plan[w])
            /\ UNCHANGED <<target, forced, taken, received, evicted, counter, retired>>
        BY <1>k, <1>2, <1>t, <2>6, <1>i DEF TakeNothing, TypeOK, shared, readerVars, Goto, Maintain
      <4>2. TargetInv(w)'
        BY <1>k, <1>t, <1>i, <4>1 DEF Kept, TargetInv
      <4>3. BudgetInv(w)'
        BY <1>k, <1>t, <4>1 DEF Kept, BudgetInv, Pending, Returning
      <4> QED
        BY <1>t, <1>i, <4>1, <4>2, <4>3 DEF Kept
    <3>3. ASSUME NEW v \in Workers, v # w PROVE Kept(v)'
      <4>1. UNCHANGED <<thread[v], target[v], forced[v], taken[v], received[v], evicted[v],
                        counter[v], retired[v]>>
        BY <1>k, <2>6, <3>3 DEF TakeNothing, TypeOK, shared, readerVars, Goto, Maintain
      <4> QED
        BY <1>k, <4>1, OthersKeep
    <3> QED
      BY <2>6, <3>1, <3>2, <3>3 DEF TakeNothing, shared, Goto, Maintain
  <2>7. CASE Mark(w)
    <3>d. /\ Downloaded(w) /\ thread[w] \in {"mark", "fetch", "copy"}
          /\ UNCHANGED <<readerVars, stopping, taken, received, evicted, retired, forceQueue>>
      BY <2>7 DEF Mark, readerVars
    <3>e. /\ Kept(w)'
          /\ counter' \in [Workers -> Nat] /\ forced' \in [Workers -> BOOLEAN]
          /\ target' \in [Workers -> Chunks \union {NoChunk}] /\ thread' \in [Workers -> ThreadStates]
          /\ \A v \in Workers : v # w => UNCHANGED <<counter[v], forced[v], target[v], thread[v]>>
      BY <1>k, <3>d, DownloadedKeeps
    <3>f. lockCount' \in [Chunks -> Nat]
      <4>1. target[w] \in Chunks /\ Increment(target[w]) /\ lockCount \in [Chunks -> Nat]
        BY <1>k, <2>7 DEF Mark, Kept, TargetInv, TypeOK
      <4> QED
        BY <4>1, CountType
    <3>1. TypeOK'
      BY <1>k, <2>7, <3>d, <3>e, <3>f DEF Mark, TypeOK, shared, readerVars
    <3>2. ASSUME NEW v \in Workers, v # w PROVE Kept(v)'
      BY <1>k, <3>2, <3>d, <3>e, OthersKeep
    <3> QED
      BY <3>1, <3>2, <3>d, <3>e
  <2>8. CASE Claim(w)
    <3>a. lockCount' \in [Chunks -> Nat]
      <4>1. target[w] \in Chunks /\ Increment(target[w]) /\ lockCount \in [Chunks -> Nat]
        BY <1>k, <2>8 DEF Claim, Kept, TargetInv, TypeOK
      <4> QED
        BY <4>1, CountType
    <3>1. TypeOK'
      BY <1>k, <2>8, <3>a DEF Claim, TypeOK, ThreadStates, shared, readerVars, Goto
    <3>2. Kept(w)'
      <4>1. /\ thread[w] = "claim" /\ thread'[w] = "fetch" /\ ~forced[w]
            /\ UNCHANGED <<target, forced, taken, received, evicted, counter, retired>>
        BY <1>k, <2>8, <1>i DEF Claim, TypeOK, shared, readerVars, Goto
      <4>2. TargetInv(w)'
        BY <1>k, <1>t, <1>i, <4>1 DEF Kept, TargetInv
      <4>3. BudgetInv(w)'
        BY <1>k, <1>t, <4>1 DEF Kept, BudgetInv, Pending, Returning
      <4> QED
        BY <1>t, <1>i, <4>1, <4>2, <4>3 DEF Kept
    <3>3. ASSUME NEW v \in Workers, v # w PROVE Kept(v)'
      <4>1. UNCHANGED <<thread[v], target[v], forced[v], taken[v], received[v], evicted[v],
                        counter[v], retired[v]>>
        BY <1>k, <2>8, <3>3 DEF Claim, TypeOK, shared, readerVars, Goto
      <4> QED
        BY <1>k, <4>1, OthersKeep
    <3> QED
      BY <2>8, <3>1, <3>2, <3>3 DEF Claim, shared, Goto
  <2>9. CASE SkipFetch(w)
    <3>d. /\ Downloaded(w) /\ thread[w] \in {"mark", "fetch", "copy"}
          /\ UNCHANGED <<readerVars, stopping, taken, received, evicted, retired, forceQueue>>
      BY <2>9 DEF SkipFetch, readerVars
    <3>e. /\ Kept(w)'
          /\ counter' \in [Workers -> Nat] /\ forced' \in [Workers -> BOOLEAN]
          /\ target' \in [Workers -> Chunks \union {NoChunk}] /\ thread' \in [Workers -> ThreadStates]
          /\ \A v \in Workers : v # w => UNCHANGED <<counter[v], forced[v], target[v], thread[v]>>
      BY <1>k, <3>d, DownloadedKeeps
    <3>1. TypeOK'
      BY <1>k, <2>9, <3>d, <3>e DEF SkipFetch, TypeOK, shared, readerVars
    <3>2. ASSUME NEW v \in Workers, v # w PROVE Kept(v)'
      BY <1>k, <3>2, <3>d, <3>e, OthersKeep
    <3> QED
      BY <3>1, <3>2, <3>d, <3>e
  <2>10. CASE StartFetch(w)
    <3>1. TypeOK'
      BY <1>k, <2>10 DEF StartFetch, TypeOK, ThreadStates, shared, readerVars, Goto
    <3>2. Kept(w)'
      <4>1. /\ thread[w] = "fetch" /\ thread'[w] = "copy"
            /\ UNCHANGED <<target, forced, taken, received, evicted, counter, retired>>
        BY <1>k, <2>10, <1>i DEF StartFetch, TypeOK, shared, readerVars, Goto
      <4>2. TargetInv(w)'
        BY <1>k, <1>t, <1>i, <4>1 DEF Kept, TargetInv
      <4>3. BudgetInv(w)'
        BY <1>k, <1>t, <4>1 DEF Kept, BudgetInv, Pending, Returning
      <4> QED
        BY <1>t, <1>i, <4>1, <4>2, <4>3 DEF Kept
    <3>3. ASSUME NEW v \in Workers, v # w PROVE Kept(v)'
      <4>1. UNCHANGED <<thread[v], target[v], forced[v], taken[v], received[v], evicted[v],
                        counter[v], retired[v]>>
        BY <1>k, <2>10, <3>3 DEF StartFetch, TypeOK, shared, readerVars, Goto
      <4> QED
        BY <1>k, <4>1, OthersKeep
    <3> QED
      BY <2>10, <3>1, <3>2, <3>3 DEF StartFetch, shared, Goto
  <2>11. CASE EndFetch(w)
    <3>d. /\ Downloaded(w) /\ thread[w] \in {"mark", "fetch", "copy"}
          /\ UNCHANGED <<readerVars, stopping, taken, received, evicted, retired, forceQueue>>
      BY <2>11 DEF EndFetch, readerVars
    <3>e. /\ Kept(w)'
          /\ counter' \in [Workers -> Nat] /\ forced' \in [Workers -> BOOLEAN]
          /\ target' \in [Workers -> Chunks \union {NoChunk}] /\ thread' \in [Workers -> ThreadStates]
          /\ \A v \in Workers : v # w => UNCHANGED <<counter[v], forced[v], target[v], thread[v]>>
      BY <1>k, <3>d, DownloadedKeeps
    <3>f. onDisk' \subseteq Chunks
      BY <1>k, <2>11 DEF EndFetch, Kept, TargetInv, TypeOK
    <3>g. fileLock' \in [Chunks -> Workers \union {NoWorker}]
      BY <1>k, <2>11 DEF EndFetch, TypeOK
    <3>1. TypeOK'
      BY <1>k, <2>11, <3>d, <3>e, <3>f, <3>g DEF EndFetch, TypeOK, shared, readerVars
    <3>2. ASSUME NEW v \in Workers, v # w PROVE Kept(v)'
      BY <1>k, <3>2, <3>d, <3>e, OthersKeep
    <3> QED
      BY <3>1, <3>2, <3>d, <3>e
  <2>12. CASE Receive(w)
    <3>a. received' \in [Workers -> Nat] /\ thread' \in [Workers -> ThreadStates]
      BY <1>k, <2>12 DEF Receive, Goto, TypeOK, ThreadStates
    <3>1. TypeOK'
      BY <1>k, <2>12, <3>a DEF Receive, TypeOK, shared, readerVars
    <3>2. Kept(w)'
      <4>1. /\ thread[w] = "receive" /\ thread'[w] = "scan" /\ ~forced[w]
            /\ received'[w] = received[w] + 1 /\ received[w] < retired[w]
            /\ UNCHANGED <<target, forced, taken, evicted, counter, retired>>
        BY <1>k, <2>12, <1>i DEF Receive, TypeOK, shared, readerVars, Goto
      <4>2. TargetInv(w)'
        BY <1>k, <1>t, <1>i, <4>1 DEF Kept, TargetInv
      <4>3. BudgetInv(w)'
        BY <1>k, <1>t, <4>1 DEF Kept, BudgetInv, Pending, Returning
      <4> QED
        BY <1>t, <1>i, <4>1, <4>2, <4>3 DEF Kept
    <3>3. ASSUME NEW v \in Workers, v # w PROVE Kept(v)'
      <4>1. UNCHANGED <<thread[v], target[v], forced[v], taken[v], received[v], evicted[v],
                        counter[v], retired[v]>>
        BY <1>k, <2>12, <3>3 DEF Receive, TypeOK, shared, readerVars, Goto
      <4> QED
        BY <1>k, <4>1, OthersKeep
    <3> QED
      BY <2>12, <3>1, <3>2, <3>3 DEF Receive, shared, Goto
  <2>13. CASE ReceiveNothing(w)
    <3>1. TypeOK'
      BY <1>k, <2>13 DEF ReceiveNothing, TypeOK, ThreadStates, shared, readerVars, Goto, AfterMaintenance
    <3>2. Kept(w)'
      <4>1. /\ thread[w] = "receive" /\ thread'[w] \in {"top", "exited"}
            /\ UNCHANGED <<target, forced, taken, received, evicted, counter, retired>>
        BY <1>k, <2>13, <1>i DEF ReceiveNothing, TypeOK, shared, readerVars, Goto, AfterMaintenance
      <4>2. TargetInv(w)'
        BY <1>k, <1>t, <1>i, <4>1 DEF Kept, TargetInv
      <4>3. BudgetInv(w)'
        BY <1>k, <1>t, <4>1 DEF Kept, BudgetInv, Pending, Returning
      <4> QED
        BY <1>t, <1>i, <4>1, <4>2, <4>3 DEF Kept
    <3>3. ASSUME NEW v \in Workers, v # w PROVE Kept(v)'
      <4>1. UNCHANGED <<thread[v], target[v], forced[v], taken[v], received[v], evicted[v],
                        counter[v], retired[v]>>
        BY <1>k, <2>13, <3>3 DEF ReceiveNothing, TypeOK, shared, readerVars, Goto, AfterMaintenance
      <4> QED
        BY <1>k, <4>1, OthersKeep
    <3> QED
      BY <2>13, <3>1, <3>2, <3>3 DEF ReceiveNothing, shared, Goto, AfterMaintenance
  <2>14. CASE Pop(w)
    <3>a. /\ Plan[w][evicted[w] + 1] \in Chunks /\ evicted[w] + 1 \in Nat
          /\ evicted[w] + 1 <= received[w]
      BY <1>1, <1>t, <1>i, <2>14 DEF Pop
    <3>b. /\ thread[w] = "scan" /\ ~forced[w]
          /\ evicted' = [evicted EXCEPT ![w] = evicted[w] + 1]
          /\ \/ UNCHANGED <<thread, target>>
             \/ /\ target' = [target EXCEPT ![w] = Plan[w][evicted[w] + 1]]
                /\ thread' = [thread EXCEPT ![w] = "delete"]
          /\ UNCHANGED <<shared, readerVars, forced, stopping, taken, received, counter, forceQueue>>
      BY <1>i, <2>14 DEF Pop, Goto
    <3>c. /\ evicted' \in [Workers -> Nat] /\ thread' \in [Workers -> ThreadStates]
          /\ target' \in [Workers -> Chunks \union {NoChunk}]
      BY <1>k, <3>a, <3>b DEF TypeOK, ThreadStates
    <3>1. TypeOK'
      BY <1>k, <3>b, <3>c DEF TypeOK, shared, readerVars
    <3>2. Kept(w)'
      <4>1. /\ evicted'[w] = evicted[w] + 1 /\ ~forced[w] /\ thread[w] = "scan"
            /\ \/ thread'[w] = "scan"
               \/ thread'[w] = "delete" /\ target'[w] = Plan[w][evicted[w] + 1]
            /\ UNCHANGED <<forced, taken, received, counter, retired>>
        BY <1>k, <3>b DEF TypeOK, readerVars
      <4>2. TargetInv(w)'
        BY <1>t, <1>i, <3>a, <4>1 DEF TargetInv
      <4>3. BudgetInv(w)'
        BY <1>k, <1>t, <4>1 DEF Kept, BudgetInv, Pending, Returning
      <4> QED
        BY <1>i, <4>1, <4>2, <4>3 DEF Kept
    <3>3. ASSUME NEW v \in Workers, v # w PROVE Kept(v)'
      <4>1. UNCHANGED <<thread[v], target[v], forced[v], taken[v], received[v], evicted[v],
                        counter[v], retired[v]>>
        BY <1>k, <3>3, <3>b DEF TypeOK, readerVars
      <4> QED
        BY <1>k, <4>1, OthersKeep
    <3> QED
      BY <3>b, <3>1, <3>2, <3>3
  <2>15. CASE EndScan(w)
    <3>a. counter[w] >= 1 /\ taken[w] <= counter[w] - 1 + received[w]
      <4>1. thread[w] = "scan" /\ ~forced[w]
        BY <1>i, <2>15 DEF EndScan
      <4>2. /\ taken[w] + Returning(w) <= counter[w] + received[w] + Pending(w)
            /\ counter[w] >= 1 \/ taken[w] = Len(Plan[w])
        BY <1>k, <4>1 DEF Kept, BudgetInv
      <4>3. Returning(w) = 1 /\ Pending(w) = 0
        BY <4>1 DEF Pending, Returning
      <4> QED
        BY <1>t, <1>i, <4>2, <4>3
    <3>b. counter[w] - 1 \in Nat
      BY <1>t, <3>a
    <3>c. counter' \in [Workers -> Nat] /\ thread' \in [Workers -> ThreadStates]
      BY <1>k, <2>15, <3>b DEF EndScan, Goto, AfterMaintenance, TypeOK, ThreadStates
    <3>1. TypeOK'
      BY <1>k, <2>15, <3>c DEF EndScan, TypeOK, shared, readerVars
    <3>2. Kept(w)'
      <4>1. /\ thread[w] = "scan" /\ thread'[w] \in {"top", "exited"} /\ ~forced[w]
            /\ counter'[w] = counter[w] - 1
            /\ UNCHANGED <<target, forced, taken, received, evicted, retired>>
        BY <1>k, <1>i, <2>15 DEF EndScan, Goto, AfterMaintenance, TypeOK, readerVars
      <4>2. TargetInv(w)'
        BY <1>k, <4>1 DEF Kept, TargetInv
      <4>3. BudgetInv(w)'
        BY <1>t, <3>a, <4>1 DEF BudgetInv, Pending, Returning
      <4> QED
        BY <1>i, <4>1, <4>2, <4>3 DEF Kept
    <3>3. ASSUME NEW v \in Workers, v # w PROVE Kept(v)'
      <4>1. UNCHANGED <<thread[v], target[v], forced[v], taken[v], received[v], evicted[v],
                        counter[v], retired[v]>>
        BY <1>k, <2>15, <3>3 DEF EndScan, TypeOK, shared, readerVars, Goto, AfterMaintenance
      <4> QED
        BY <1>k, <4>1, OthersKeep
    <3> QED
      BY <2>15, <3>1, <3>2, <3>3 DEF EndScan, shared, Goto, AfterMaintenance
  <2>16. CASE Delete(w)
    <3>1. TypeOK'
      BY <1>k, <2>16 DEF Delete, TypeOK, ThreadStates, shared, readerVars, Goto
    <3>2. Kept(w)'
      <4>1. /\ thread[w] = "delete" /\ thread'[w] \in {"remove", "unlock"}
            /\ UNCHANGED <<target, forced, taken, received, evicted, counter, retired>>
        BY <1>k, <2>16, <1>i DEF Delete, TypeOK, shared, readerVars, Goto
      <4>2. TargetInv(w)'
        BY <1>k, <1>t, <1>i, <4>1 DEF Kept, TargetInv
      <4>3. BudgetInv(w)'
        BY <1>k, <1>t, <4>1 DEF Kept, BudgetInv, Pending, Returning
      <4> QED
        BY <1>t, <1>i, <4>1, <4>2, <4>3 DEF Kept
    <3>3. ASSUME NEW v \in Workers, v # w PROVE Kept(v)'
      <4>1. UNCHANGED <<thread[v], target[v], forced[v], taken[v], received[v], evicted[v],
                        counter[v], retired[v]>>
        BY <1>k, <2>16, <3>3 DEF Delete, TypeOK, shared, readerVars, Goto
      <4> QED
        BY <1>k, <4>1, OthersKeep
    <3> QED
      BY <2>16, <3>1, <3>2, <3>3 DEF Delete, shared, Goto
  <2>17. CASE Remove(w)
    <3>1. TypeOK'
      BY <1>k, <2>17 DEF Remove, TypeOK, ThreadStates, shared, readerVars, Goto
    <3>2. Kept(w)'
      <4>1. /\ thread[w] = "remove" /\ thread'[w] \in {"unlock", "crashed"}
            /\ UNCHANGED <<target, forced, taken, received, evicted, counter, retired>>
        BY <1>k, <2>17, <1>i DEF Remove, TypeOK, shared, readerVars, Goto
      <4>2. TargetInv(w)'
        BY <1>k, <1>t, <1>i, <4>1 DEF Kept, TargetInv
      <4>3. BudgetInv(w)'
        BY <1>k, <1>t, <4>1 DEF Kept, BudgetInv, Pending, Returning
      <4> QED
        BY <1>t, <1>i, <4>1, <4>2, <4>3 DEF Kept
    <3>3. ASSUME NEW v \in Workers, v # w PROVE Kept(v)'
      <4>1. UNCHANGED <<thread[v], target[v], forced[v], taken[v], received[v], evicted[v],
                        counter[v], retired[v]>>
        BY <1>k, <2>17, <3>3 DEF Remove, TypeOK, shared, readerVars, Goto
      <4> QED
        BY <1>k, <4>1, OthersKeep
    <3> QED
      BY <2>17, <3>1, <3>2, <3>3 DEF Remove, shared, Goto
  <2>18. CASE Unlock(w)
    <3>a. /\ fileLock' \in [Chunks -> Workers \union {NoWorker}]
          /\ target' \in [Workers -> Chunks \union {NoChunk}]
          /\ thread' \in [Workers -> ThreadStates]
      BY <1>k, <2>18 DEF Unlock, Goto, TypeOK, ThreadStates
    <3>1. TypeOK'
      BY <1>k, <2>18, <3>a DEF Unlock, TypeOK, shared, readerVars
    <3>2. Kept(w)'
      <4>1. /\ thread[w] = "unlock" /\ target[w] \in Chunks
            /\ thread'[w] = IF forced[w] THEN "fetch" ELSE "scan"
            /\ forced[w] => target'[w] = target[w]
            /\ UNCHANGED <<forced, taken, received, evicted, counter, retired>>
        BY <1>k, <2>18, <1>i DEF Unlock, TypeOK, shared, readerVars, Goto, Kept, TargetInv
      <4>2. TargetInv(w)'
        BY <1>k, <1>t, <1>i, <4>1 DEF Kept, TargetInv
      <4>3. BudgetInv(w)'
        BY <1>k, <1>t, <4>1 DEF Kept, BudgetInv, Pending, Returning
      <4> QED
        BY <1>t, <1>i, <4>1, <4>2, <4>3 DEF Kept
    <3>3. ASSUME NEW v \in Workers, v # w PROVE Kept(v)'
      <4>1. UNCHANGED <<thread[v], target[v], forced[v], taken[v], received[v], evicted[v],
                        counter[v], retired[v]>>
        BY <1>k, <2>18, <3>3 DEF Unlock, TypeOK, shared, readerVars, Goto, Kept, TargetInv
      <4> QED
        BY <1>k, <4>1, OthersKeep
    <3> QED
      BY <2>18, <3>1, <3>2, <3>3 DEF Unlock, shared, Goto, Kept, TargetInv
  <2> QED
    BY <2>1, <2>2, <2>3, <2>4, <2>5, <2>6, <2>7, <2>8, <2>9, <2>10, <2>11, <2>12, <2>13, <2>14, <2>15, <2>16, <2>17, <2>18 DEF ThreadStep
<1>4. ASSUME NEW v \in Workers PROVE ReaderInv(v)'
  BY <1>3 DEF ReaderInv, readerVars, IInv, WorkerInv
<1> QED
  BY <1>3, <1>4 DEF IInv, WorkerInv, Kept

LEMMA StepInv == IInv /\ [Next]_vars => IInv'
<1> SUFFICES ASSUME IInv, [Next]_vars PROVE IInv'
  OBVIOUS
<1>1. ASSUME NEW w \in Workers, ReaderStep(w) \/ Abandon(w) PROVE IInv'
  BY <1>1, ReaderStepInv
<1>2. ASSUME NEW w \in Workers, ThreadStep(w) PROVE IInv'
  BY <1>2, ThreadStepInv
<1>3. CASE UNCHANGED vars
  BY <1>3 DEF IInv, TypeOK, WorkerInv, ReaderInv, TargetInv, BudgetInv, Pending, Returning,
              vars, shared, readerVars, threadVars
<1> QED
  BY <1>1, <1>2, <1>3 DEF Next, Quiet

LEMMA Invariance == Spec => []IInv
<1> QED
  BY InitInv, StepInv, PTL DEF Spec

-----------------------------------------------------------------------------
\* Whatever the threads do and in whatever order, the cursors of the queues stay
\* within the plan and the pre-download counter never falls below zero.
THEOREM TypeCorrect == Spec => []TypeOK
<1>1. IInv => TypeOK
  BY DEF IInv
<1> QED
  BY <1>1, Invariance, PTL

\* run() never takes a chunk from the download queue that is more than
\* max_pre_download ahead of what the reader has handed back, forced downloads
\* and chunks shared with other workers included.
THEOREM PrefetchBounded == Spec => []PrefetchWindow
<1>1. IInv => PrefetchWindow
  BY DEF IInv, WorkerInv, PrefetchWindow
<1> QED
  BY <1>1, Invariance, PTL

\* _maybe_delete_chunks only ever deletes a chunk that the reader of the same
\* worker has read to its end.
THEOREM DeletesOnlyConsumed == Spec => []OwnDeletesConsumed
<1>1. IInv => OwnDeletesConsumed
  <2> SUFFICES ASSUME IInv, NEW w \in Workers,
                      thread[w] \in {"delete", "remove", "unlock"}, ~forced[w]
               PROVE  \E i \in 1 .. retired[w] : target[w] = Plan[w][i]
    BY DEF OwnDeletesConsumed
  <2>1. /\ evicted[w] >= 1 /\ target[w] = Plan[w][evicted[w]]
        /\ evicted[w] <= received[w] /\ received[w] <= retired[w]
    BY DEF IInv, WorkerInv, TargetInv
  <2>2. evicted[w] \in Nat /\ received[w] \in Nat /\ retired[w] \in Nat
    BY DEF IInv, TypeOK
  <2>3. evicted[w] \in 1 .. retired[w]
    BY <2>1, <2>2
  <2> QED
    BY <2>1, <2>3
<1> QED
  BY <1>1, Invariance, PTL

-----------------------------------------------------------------------------
(* The lock counts are backed by workers that asked for the chunk. *)

\* The count of every chunk is as before or smaller, and so are its markers.
LEMMA MarkersKept ==
    ASSUME IInv, CountBacked, NEW w \in Workers,
           UNCHANGED taken,
           \A v \in Workers \ {w} : thread'[v] = thread[v],
           thread'[w] = thread[w] \/ {thread[w], thread'[w]} \intersect {"mark", "claim"} = {},
           \A c \in Chunks : lockCount'[c] <= lockCount[c],
           lockCount' \in [Chunks -> Nat]
    PROVE  CountBacked'
<1>1. \A v \in Workers : thread'[v] \in {"mark", "claim"} <=> thread[v] \in {"mark", "claim"}
  OBVIOUS
<1>2. ASSUME NEW c \in Chunks PROVE Markers(c)' = Markers(c)
  BY <1>1 DEF Markers
<1>3. ASSUME NEW c \in Chunks PROVE Cardinality(Markers(c)) \in Nat
  <2>1. IsFiniteSet(Markers(c))
    BY PlanAssumption, FS_Subset DEF Markers
  <2> QED
    BY <2>1, FS_CardinalityType
<1>4. ASSUME NEW c \in Chunks PROVE lockCount'[c] <= Cardinality(Markers(c)')
  <2>1. lockCount[c] <= Cardinality(Markers(c)) /\ lockCount[c] \in Nat /\ lockCount'[c] \in Nat
    BY DEF CountBacked, IInv, TypeOK
  <2> QED
    BY <1>2, <1>3, <2>1
<1> QED
  BY <1>4 DEF CountBacked

\* A thread that counts itself in on a chunk was not among its markers: the
\* chunks of a plan are distinct.
LEMMA MarkersGrow ==
    ASSUME IInv, CountBacked, NEW w \in Workers,
           thread[w] \in {"mark", "claim"}, thread'[w] \notin {"mark", "claim"},
           \A v \in Workers \ {w} : thread'[v] = thread[v],
           UNCHANGED taken, Increment(target[w])
    PROVE  CountBacked'
<1>0. PICK d \in Chunks : target[w] = d
  BY DEF IInv, WorkerInv, TargetInv
<1>1. /\ ~forced[w] /\ d = Plan[w][taken[w]]
      /\ taken[w] \in Nat /\ taken[w] >= 1 /\ taken[w] <= Len(Plan[w])
  BY <1>0 DEF IInv, WorkerInv, TargetInv, TypeOK
<1>2. w \notin Markers(d)
  <2>1. ASSUME NEW i \in 1 .. taken[w], Plan[w][i] = d PROVE i = taken[w]
    <3>1. i \in DOMAIN Plan[w] /\ taken[w] \in DOMAIN Plan[w]
      BY <1>1, PlanFacts
    <3> QED
      BY <1>1, <2>1, <3>1, PlanAssumption
  <2> QED
    BY <1>1, <2>1 DEF Markers
<1>3. Markers(d)' = Markers(d) \union {w}
  <2>1. ASSUME NEW v \in Workers, v # w PROVE v \in Markers(d)' <=> v \in Markers(d)
    BY <2>1 DEF Markers
  <2>2. w \in Markers(d)'
    BY <1>1 DEF Markers
  <2> QED
    BY <2>1, <2>2 DEF Markers
<1>4. ASSUME NEW c \in Chunks, c # d PROVE Markers(c)' = Markers(c)
  <2>1. ASSUME NEW v \in Workers, v # w PROVE v \in Markers(c)' <=> v \in Markers(c)
    BY <2>1 DEF Markers
  <2>2. w \in Markers(c)' <=> w \in Markers(c)
    BY <1>1, <1>4 DEF Markers
  <2> QED
    BY <2>1, <2>2 DEF Markers
<1>5. ASSUME NEW c \in Chunks
      PROVE  IsFiniteSet(Markers(c)) /\ Cardinality(Markers(c)) \in Nat
  <2>1. IsFiniteSet(Markers(c))
    BY PlanAssumption, FS_Subset DEF Markers
  <2> QED
    BY <2>1, FS_CardinalityType
<1>6. Cardinality(Markers(d)') = Cardinality(Markers(d)) + 1
  <2>1. Markers(d)' = Markers(d) \cup {w} /\ w \notin Markers(d)
    BY <1>2, <1>3
  <2>2. IsFiniteSet(Markers(d)) /\ d \in Chunks
    BY <1>5, <1>1
  <2>3. Cardinality(Markers(d) \cup {w}) = Cardinality(Markers(d)) + 1
    BY <2>1, <2>2, FS_AddElement
  <2> QED
    BY <2>1, <2>3
<1>7. ASSUME NEW c \in Chunks PROVE lockCount'[c] <= Cardinality(Markers(c)')
  <2>1. lockCount[c] <= Cardinality(Markers(c)) /\ lockCount[c] \in Nat
    BY DEF CountBacked, IInv, TypeOK
  <2>2. lockCount'[c] = IF c = d THEN lockCount[c] + 1 ELSE lockCount[c]
    BY <1>0 DEF Increment, IInv, TypeOK
  <2>3. CASE c = d
    <3>1. lockCount'[d] = lockCount[d] + 1 /\ lockCount[d] <= Cardinality(Markers(d))
      BY <2>1, <2>2, <2>3
    <3>2. Cardinality(Markers(d)) \in Nat /\ lockCount[d] \in Nat
      BY <1>5, <2>1, <2>3
    <3> QED
      BY <2>3, <3>1, <3>2, <1>6
  <2>4. CASE c # d
    BY <2>1, <2>2, <2>4, <1>4
  <2> QED
    BY <2>3, <2>4
<1> QED
  BY <1>7 DEF CountBacked

LEMMA CountStep == IInv /\ IInv' /\ CountBacked /\ [Next]_vars => CountBacked'
<1> SUFFICES ASSUME IInv, IInv', CountBacked, [Next]_vars PROVE CountBacked'
  OBVIOUS
<1>1. lockCount \in [Chunks -> Nat] /\ lockCount' \in [Chunks -> Nat]
  BY DEF IInv, TypeOK
<1>2. ASSUME NEW c \in Chunks, Decrement(c)
      PROVE  \A d \in Chunks : lockCount'[d] <= lockCount[d]
  BY <1>1, <1>2 DEF Decrement
<1>3. ASSUME NEW w \in Workers, ReaderStep(w) \/ Abandon(w) PROVE CountBacked'
  <2>1. UNCHANGED <<taken, thread>>
    BY <1>3 DEF ReaderStep, Look, Find, RequestForceDownload, GiveUp, Open, Retire, NextChunk,
                Finish, Abandon, threadVars
  <2>2. Wanted(w) \in Chunks /\ (pos[w] > 1 => Plan[w][pos[w] - 1] \in Chunks)
    <3>1. pos[w] \in 1 .. Len(Plan[w]) /\ Len(Plan[w]) \in Nat
      BY PlanFacts DEF IInv, TypeOK
    <3>2. pos[w] > 1 => pos[w] - 1 \in 1 .. Len(Plan[w])
      BY <3>1
    <3> QED
      BY <3>1, <3>2, PlanFacts DEF Wanted
  <2>3. reader[w] = "retire" => pos[w] > 1
    BY DEF IInv, WorkerInv, ReaderInv
  <2>4. \/ UNCHANGED lockCount
        \/ \E c \in Chunks : Decrement(c)
    BY <1>3, <2>2, <2>3 DEF ReaderStep, Look, Find, RequestForceDownload, GiveUp, Open, Retire,
                NextChunk, Finish, Abandon, shared
  <2>5. \A d \in Chunks : lockCount'[d] <= lockCount[d]
    BY <1>1, <1>2, <2>4
  <2> QED
    BY <1>1, <2>1, <2>5, MarkersKept
<1>4. ASSUME NEW w \in Workers, Mark(w) \/ Claim(w) PROVE CountBacked'
  <2>1. /\ thread[w] \in {"mark", "claim"} /\ UNCHANGED taken /\ Increment(target[w])
        /\ \E s \in ThreadStates \ {"mark", "claim"} : thread' = [thread EXCEPT ![w] = s]
    BY <1>4 DEF Mark, Claim, Downloaded, Goto, Maintain, ThreadStates
  <2>2. thread'[w] \notin {"mark", "claim"} /\ \A v \in Workers \ {w} : thread'[v] = thread[v]
    BY <2>1 DEF IInv, TypeOK
  <2> QED
    BY <2>1, <2>2, MarkersGrow
<1>5. ASSUME NEW w \in Workers, Take(w) PROVE CountBacked'
  <2>1. /\ UNCHANGED lockCount /\ thread[w] = "pick" /\ taken[w] \in Nat
        /\ taken' = [taken EXCEPT ![w] = taken[w] + 1]
        /\ \E s \in {"mark", "claim"} : thread' = [thread EXCEPT ![w] = s]
    BY <1>5 DEF Take, Goto, shared, IInv, TypeOK
  <2>3. taken'[w] = taken[w] + 1 /\ thread'[w] \in {"mark", "claim"}
    BY <2>1 DEF IInv, TypeOK
  <2>2. ASSUME NEW c \in Chunks PROVE Markers(c)' = Markers(c)
    <3>1. ASSUME NEW v \in Workers, v # w PROVE v \in Markers(c)' <=> v \in Markers(c)
      BY <2>1, <3>1 DEF Markers, IInv, TypeOK
    <3>2. w \in Markers(c)' <=> \E i \in 1 .. taken[w] + 1 : Plan[w][i] = c /\ i # taken[w] + 1
      BY <2>3 DEF Markers
    <3>3. w \in Markers(c) <=> \E i \in 1 .. taken[w] : Plan[w][i] = c
      BY <2>1 DEF Markers
    <3>4. \A i : i \in 1 .. taken[w] + 1 /\ i # taken[w] + 1 <=> i \in 1 .. taken[w]
      BY <2>1
    <3>5. w \in Markers(c)' <=> w \in Markers(c)
      BY <3>2, <3>3, <3>4
    <3> QED
      BY <3>1, <3>5 DEF Markers
  <2> QED
    BY <2>1, <2>2 DEF CountBacked
<1>6. ASSUME NEW w \in Workers, ThreadStep(w), ~Mark(w), ~Claim(w), ~Take(w) PROVE CountBacked'
  <2>1. /\ UNCHANGED <<taken, lockCount>>
        /\ \/ UNCHANGED thread
           \/ /\ thread[w] \notin {"mark", "claim"}
              /\ \E s \in ThreadStates \ {"mark", "claim"} : thread' = [thread EXCEPT ![w] = s]
    BY <1>6 DEF ThreadStep, ObeyForceStop, TakeForced, NoneForced, TakeEnd, TakeNothing, SkipFetch,
                StartFetch, EndFetch, Receive, ReceiveNothing, Pop, EndScan, Delete, Remove, Unlock,
                Downloaded, Goto, Maintain, AfterMaintenance, ThreadStates, shared
  <2>2. /\ \A v \in Workers \ {w} : thread'[v] = thread[v]
        /\ thread'[w] = thread[w] \/ {thread[w], thread'[w]} \intersect {"mark", "claim"} = {}
    <3>1. CASE UNCHANGED thread
      BY <3>1
    <3>2. CASE thread[w] \notin {"mark", "claim"} /\ ~UNCHANGED thread
      <4>1. PICK s \in ThreadStates \ {"mark", "claim"} : thread' = [thread EXCEPT ![w] = s]
        BY <2>1, <3>2
      <4>2. thread'[w] = s /\ \A v \in Workers \ {w} : thread'[v] = thread[v]
        BY <4>1 DEF IInv, TypeOK
      <4> QED
        BY <3>2, <4>1, <4>2
    <3> QED
      BY <2>1, <3>1, <3>2
  <2>3. \A c \in Chunks : lockCount'[c] <= lockCount[c]
    BY <2>1, <1>1
  <2> QED
    BY <1>1, <2>1, <2>2, <2>3, MarkersKept
<1>7. CASE UNCHANGED vars
  BY <1>7 DEF CountBacked, Markers, vars, shared, threadVars
<1> QED
  BY <1>3, <1>4, <1>5, <1>6, <1>7 DEF Next, Quiet

\* The count in <chunk>.cnt never promises more than the workers whose thread
\* asked for the chunk, although increments and decrements of several workers
\* interleave with forced downloads: no count is raised twice for one worker.
THEOREM CountsAreBacked == Spec => []CountBacked
<1>1. Init => CountBacked
  <2> SUFFICES ASSUME Init, NEW c \in Chunks PROVE lockCount[c] <= Cardinality(Markers(c))
    BY DEF CountBacked
  <2>1. IsFiniteSet(Markers(c))
    BY PlanAssumption, FS_Subset DEF Markers
  <2>2. Cardinality(Markers(c)) \in Nat
    BY <2>1, FS_CardinalityType
  <2> QED
    BY <2>2 DEF Init
<1> QED
  BY <1>1, Invariance, CountStep, PTL DEF Spec

-----------------------------------------------------------------------------
(***************************************************************************)
(* The runs of the program in which no wait outlasts _FORCE_DOWNLOAD_TIME    *)
(* and, for most of what follows, no two workers share a chunk: what the     *)
(* lock counts, the delete queues and the pre-download budget then promise,  *)
(* for any number of workers and chunks and any plans.                       *)
(***************************************************************************)

\* Downloads are prompt: no wait of a reader outlasts _FORCE_DOWNLOAD_TIME.
PromptDownloads == ~SlowDownloads

\* No two workers read the same chunk, as when the chunks divide evenly.
OwnChunks == \A v, w \in Workers : v # w =>
    \A i \in DOMAIN Plan[v], j \in DOMAIN Plan[w] : Plan[v][i] # Plan[w][j]

\* The epoch finds none of the chunks it reads in the cache directory.
ColdStart == \A s \in WarmCaches, w \in Workers : \A i \in DOMAIN Plan[w] : Plan[w][i] \notin s

InHand == {"mark", "claim", "fetch", "copy"}

\* No download is forced.
NothingForced == \A w \in Workers : forceQueue[w] = << >> /\ ~forced[w] /\ ~requested[w]

\* Whoever holds the lock of a chunk is downloading it.
LocksHeld == \A c \in Chunks : fileLock[c] # NoWorker =>
    thread[fileLock[c]] = "copy" /\ target[fileLock[c]] = c

-----------------------------------------------------------------------------
(* What the steps leave alone. *)

\* The reader leaves the files, their locks and the thread alone.
LEMMA ReaderFrame ==
    ASSUME PromptDownloads, IInv, NothingForced, NEW w \in Workers, ReaderStep(w) \/ Abandon(w)
    PROVE  /\ UNCHANGED <<onDisk, fileLock, threadVars, forceQueue>>
           /\ \A v \in Workers : ~requested'[v] /\ retired'[v] >= retired[v]
           /\ \A v \in Workers : v # w => UNCHANGED <<reader[v], pos[v], retired[v]>>
<1> USE DEF PromptDownloads, IInv, TypeOK, NothingForced, shared, readerVars, threadVars
<1>1. CASE Look(w) \/ Find(w) \/ Open(w) \/ Abandon(w)
  BY SMTT(30), <1>1 DEF Look, Find, Open, Abandon
<1>2. CASE GiveUp(w)
  BY <1>2 DEF GiveUp
<1>3. CASE RequestForceDownload(w)
  BY <1>3 DEF RequestForceDownload
<1>4. CASE Retire(w) \/ Finish(w)
  <2>1. /\ UNCHANGED <<onDisk, fileLock, threadVars, forceQueue, pos, requested>>
        /\ retired' = [retired EXCEPT ![w] = retired[w] + 1]
        /\ \E s \in ReaderStates : reader' = [reader EXCEPT ![w] = s]
    BY <1>4 DEF Retire, Finish, ReaderStates
  <2>2. retired[w] \in Nat /\ retired \in [Workers -> Nat] /\ reader \in [Workers -> ReaderStates]
    OBVIOUS
  <2> QED
    BY <2>1, <2>2
<1>5. CASE NextChunk(w)
  BY <1>5 DEF NextChunk
<1> QED
  BY <1>1, <1>2, <1>3, <1>4, <1>5 DEF ReaderStep

\* A thread leaves the readers and the other threads alone, and forces nothing.
LEMMA ThreadFrame ==
    ASSUME IInv, NothingForced, NEW w \in Workers, ThreadStep(w)
    PROVE  /\ UNCHANGED <<readerVars, forceQueue>>
           /\ ~TakeForced(w)
           /\ \A v \in Workers : ~forced'[v]
           /\ \A v \in Workers : v # w =>
                UNCHANGED <<thread[v], target[v], taken[v], received[v], evicted[v], counter[v]>>
<1> USE DEF IInv, TypeOK, NothingForced, shared, readerVars, Goto
<1>0. ~TakeForced(w)
  BY DEF TakeForced
<1>1. CASE ObeyForceStop(w) \/ NoneForced(w) \/ TakeEnd(w) \/ TakeNothing(w)
  BY <1>0, <1>1 DEF ObeyForceStop, NoneForced, TakeEnd, TakeNothing
<1>2. CASE Take(w) \/ Claim(w) \/ StartFetch(w)
  BY <1>0, <1>2 DEF Take, Claim, StartFetch
<1>3. CASE Mark(w) \/ SkipFetch(w) \/ EndFetch(w)
  BY ZenonT(60), <1>0, <1>3 DEF Mark, SkipFetch, EndFetch, Downloaded
<1>4. CASE Receive(w) \/ ReceiveNothing(w) \/ EndScan(w) \/ Delete(w) \/ Remove(w)
  BY ZenonT(60), <1>0, <1>4 DEF Receive, ReceiveNothing, EndScan, Delete, Remove
<1>5. CASE Pop(w)
  BY <1>0, <1>5 DEF Pop
<1>6. CASE Unlock(w)
  BY <1>0, <1>6 DEF Unlock
<1> QED
  BY <1>0, <1>1, <1>2, <1>3, <1>4, <1>5, <1>6 DEF ThreadStep

\* The steps that neither download nor delete.
Housekeeping(w) ==
    \/ ObeyForceStop(w) \/ NoneForced(w) \/ TakeEnd(w) \/ TakeNothing(w) \/ Receive(w)
    \/ ReceiveNothing(w) \/ Pop(w) \/ EndScan(w) \/ Delete(w) \/ Unlock(w)

\* They take nothing, leave the files alone and release at most some locks.
LEMMA HousekeepingFrame ==
    ASSUME IInv, NothingForced, NEW w \in Workers, Housekeeping(w)
    PROVE  /\ UNCHANGED <<onDisk, lockCount, taken>>
           /\ \A c \in Chunks : fileLock'[c] \in {fileLock[c], NoWorker}
           /\ thread[w] \notin InHand /\ thread'[w] \notin InHand
<1> USE DEF IInv, TypeOK, NothingForced, shared, Goto, InHand
<1>1. CASE ObeyForceStop(w) \/ NoneForced(w) \/ TakeEnd(w) \/ TakeNothing(w)
  BY <1>1 DEF ObeyForceStop, NoneForced, TakeEnd, TakeNothing, Maintain
<1>2. CASE Receive(w) \/ ReceiveNothing(w) \/ EndScan(w) \/ Delete(w)
  BY <1>2 DEF Receive, ReceiveNothing, EndScan, Delete, AfterMaintenance
<1>3. CASE Pop(w)
  BY <1>3 DEF Pop
<1>4. CASE Unlock(w)
  BY <1>4 DEF Unlock
<1> QED
  BY <1>1, <1>2, <1>3, <1>4 DEF Housekeeping

\* Every other step of the thread is one of the download or the removal.
LEMMA ThreadCases ==
    ASSUME IInv, NothingForced, NEW w \in Workers, ThreadStep(w)
    PROVE  \/ Housekeeping(w) \/ Take(w) \/ Claim(w) \/ StartFetch(w)
           \/ Mark(w) \/ SkipFetch(w) \/ EndFetch(w) \/ Remove(w)
<1> QED
  BY ThreadFrame DEF ThreadStep, Housekeeping

\* What a thread that is not at its maintenance has in hand: the chunk it took
\* last; what it is deleting: one the reader has consumed.
LEMMA HandFacts ==
    ASSUME IInv, NothingForced, NEW w \in Workers
    PROVE  /\ taken[w] \in Nat /\ taken[w] <= Len(Plan[w]) /\ Len(Plan[w]) \in Nat \ {0}
           /\ retired[w] \in Nat /\ received[w] \in Nat /\ evicted[w] \in Nat /\ counter[w] \in Nat
           /\ evicted[w] <= received[w] /\ received[w] <= retired[w] /\ retired[w] <= Len(Plan[w])
           /\ thread[w] \in InHand =>
                taken[w] \in 1 .. Len(Plan[w]) /\ target[w] = Plan[w][taken[w]]
           /\ thread[w] \in {"delete", "remove", "unlock"} =>
                evicted[w] \in 1 .. retired[w] /\ target[w] = Plan[w][evicted[w]]
           /\ target[w] \in Chunks \union {NoChunk}
           /\ DOMAIN Plan[w] = 1 .. Len(Plan[w])
<1>1. Len(Plan[w]) \in Nat \ {0} /\ DOMAIN Plan[w] = 1 .. Len(Plan[w])
  BY PlanFacts
<1>2. /\ taken[w] \in Nat /\ taken[w] <= Len(Plan[w])
      /\ retired[w] \in Nat /\ received[w] \in Nat /\ evicted[w] \in Nat /\ counter[w] \in Nat
      /\ target[w] \in Chunks \union {NoChunk}
  BY DEF IInv, TypeOK
<1>3. TargetInv(w) /\ ReaderInv(w) /\ ~forced[w]
  BY DEF IInv, WorkerInv, NothingForced
<1> QED
  BY <1>1, <1>2, <1>3 DEF TargetInv, ReaderInv, InHand

LEMMA NothingForcedStep ==
    ASSUME PromptDownloads, IInv, NothingForced, [Next]_vars
    PROVE  NothingForced'
<1>1. ASSUME NEW w \in Workers, ReaderStep(w) \/ Abandon(w) PROVE NothingForced'
  BY <1>1, ReaderFrame DEF NothingForced, threadVars
<1>2. ASSUME NEW w \in Workers, ThreadStep(w) PROVE NothingForced'
  BY <1>2, ThreadFrame DEF NothingForced, readerVars
<1>3. CASE UNCHANGED vars
  BY <1>3 DEF NothingForced, vars, readerVars, threadVars
<1> QED
  BY <1>1, <1>2, <1>3 DEF Next, Quiet

\* As long as no thread moves but one that is not copying, and that releases locks
\* at most, whoever holds a lock is still copying.
LEMMA LocksKept ==
    ASSUME IInv, LocksHeld, NEW w \in Workers, thread[w] # "copy",
           \A v \in Workers : v # w => UNCHANGED <<thread[v], target[v]>>,
           \A c \in Chunks : fileLock'[c] \in {fileLock[c], NoWorker}
    PROVE  LocksHeld'
<1> SUFFICES ASSUME NEW c \in Chunks, fileLock'[c] # NoWorker
             PROVE  thread'[fileLock'[c]] = "copy" /\ target'[fileLock'[c]] = c
  BY DEF LocksHeld
<1>1. fileLock'[c] = fileLock[c] /\ fileLock[c] \in Workers
  BY DEF IInv, TypeOK
<1>2. thread[fileLock[c]] = "copy" /\ target[fileLock[c]] = c
  BY <1>1 DEF LocksHeld
<1> QED
  BY <1>1, <1>2

LEMMA LocksHeldStep ==
    ASSUME PromptDownloads, IInv, NothingForced, LocksHeld, [Next]_vars
    PROVE  LocksHeld'
<1>1. ASSUME NEW w \in Workers, ReaderStep(w) \/ Abandon(w) PROVE LocksHeld'
  BY <1>1, ReaderFrame DEF LocksHeld, threadVars
<1>2. ASSUME NEW w \in Workers, ThreadStep(w) PROVE LocksHeld'
  <2>0. \A v \in Workers : v # w => UNCHANGED <<thread[v], target[v]>>
    BY <1>2, ThreadFrame
  <2>1. CASE Housekeeping(w)
    BY <2>0, <2>1, HousekeepingFrame, LocksKept DEF InHand
  <2>2. CASE Take(w) \/ Claim(w) \/ Mark(w) \/ SkipFetch(w) \/ Remove(w)
    <3>1. thread[w] # "copy" /\ UNCHANGED fileLock
      BY <2>2 DEF Take, Claim, Mark, SkipFetch, Remove, shared
    <3> QED
      BY <2>0, <3>1, LocksKept
  <2>3. CASE StartFetch(w)
    <3>1. /\ fileLock' = [fileLock EXCEPT ![target[w]] = w] /\ thread'[w] = "copy"
          /\ thread[w] = "fetch" /\ UNCHANGED target
      BY <2>3 DEF StartFetch, Goto, IInv, TypeOK
    <3> SUFFICES ASSUME NEW c \in Chunks, fileLock'[c] # NoWorker
                 PROVE  thread'[fileLock'[c]] = "copy" /\ target'[fileLock'[c]] = c
      BY DEF LocksHeld
    <3>2. CASE c = target[w]
      BY <3>1, <3>2 DEF IInv, TypeOK
    <3>3. CASE c # target[w]
      <4>1. fileLock'[c] = fileLock[c] /\ fileLock[c] \in Workers
        BY <3>1, <3>3 DEF IInv, TypeOK
      <4>2. thread[fileLock[c]] = "copy" /\ target[fileLock[c]] = c
        BY <4>1 DEF LocksHeld
      <4> QED
        BY <2>0, <3>1, <4>1, <4>2
    <3> QED
      BY <3>2, <3>3
  <2>4. CASE EndFetch(w)
    <3>1. /\ fileLock' = [fileLock EXCEPT ![target[w]] = IF fileLock[target[w]] = w THEN NoWorker
                                                                    ELSE fileLock[target[w]]]
          /\ thread[w] = "copy"
      BY <2>4 DEF EndFetch
    <3> SUFFICES ASSUME NEW c \in Chunks, fileLock'[c] # NoWorker
                 PROVE  thread'[fileLock'[c]] = "copy" /\ target'[fileLock'[c]] = c
      BY DEF LocksHeld
    <3>2. fileLock'[c] = fileLock[c] /\ fileLock[c] \in Workers
      BY <3>1 DEF IInv, TypeOK
    <3>3. thread[fileLock[c]] = "copy" /\ target[fileLock[c]] = c
      BY <3>2 DEF LocksHeld
    <3>4. fileLock[c] # w
      BY <3>1, <3>2, <3>3 DEF IInv, TypeOK
    <3> QED
      BY <2>0, <3>2, <3>3, <3>4
  <2> QED
    BY <1>2, <2>1, <2>2, <2>3, <2>4, ThreadCases
<1>3. CASE UNCHANGED vars
  BY <1>3 DEF LocksHeld, vars, shared, threadVars
<1> QED
  BY <1>1, <1>2, <1>3 DEF Next, Quiet

-----------------------------------------------------------------------------
(* What was prefetched stays, also when chunks are shared and the cache is  *)
(* warm.                                                                    *)

\* The chunks of worker w that should be on disk are; PrefetchedStays, a chunk at a time.
Stays(w, i) == \/ ~Exclusive(w, Plan[w][i])
               \/ i = taken[w] /\ thread[w] \in {"claim", "fetch", "copy"}
               \/ Plan[w][i] \in onDisk

\* Nothing changes for a worker whose thread stands still, as long as the disk keeps
\* the chunks only it reads.
LEMMA StaysIdle ==
    ASSUME IInv, NothingForced, PrefetchedStays, NEW v \in Workers,
           taken'[v] = taken[v], retired'[v] \in Nat, retired'[v] >= retired[v],
           thread'[v] = thread[v] \/ thread[v] \notin {"claim", "fetch", "copy"},
           \A i \in retired[v] + 1 .. taken[v] :
               Plan[v][i] \in onDisk /\ Exclusive(v, Plan[v][i]) => Plan[v][i] \in onDisk'
    PROVE  \A i \in retired'[v] + 1 .. taken'[v] : Stays(v, i)'
<1> SUFFICES ASSUME NEW i \in retired'[v] + 1 .. taken'[v] PROVE Stays(v, i)'
  OBVIOUS
<1>1. i \in retired[v] + 1 .. taken[v]
  BY HandFacts
<1>2. Stays(v, i)
  BY <1>1 DEF PrefetchedStays, Stays
<1>3. Exclusive(v, Plan[v][i])' = Exclusive(v, Plan[v][i])
  BY DEF Exclusive
<1> QED
  BY <1>1, <1>2, <1>3 DEF Stays

LEMMA PrefetchedStep ==
    ASSUME PromptDownloads, IInv, IInv', NothingForced, LocksHeld, PrefetchedStays, [Next]_vars
    PROVE  PrefetchedStays'
<1>0. \A v \in Workers : taken'[v] \in Nat /\ retired'[v] \in Nat
  BY DEF IInv, TypeOK
<1>1. ASSUME NEW w \in Workers, ReaderStep(w) \/ Abandon(w) PROVE PrefetchedStays'
  <2>1. ASSUME NEW v \in Workers
        PROVE  \A i \in retired'[v] + 1 .. taken'[v] : Stays(v, i)'
    BY <1>0, <1>1, ReaderFrame, StaysIdle DEF threadVars
  <2> QED
    BY <2>1 DEF PrefetchedStays, Stays
<1>2. ASSUME NEW w \in Workers, ThreadStep(w) PROVE PrefetchedStays'
  <2>f. /\ UNCHANGED retired
        /\ \A v \in Workers : v # w => thread'[v] = thread[v] /\ taken'[v] = taken[v]
    BY <1>2, ThreadFrame DEF readerVars
  <2>t. taken[w] \in Nat /\ retired[w] \in Nat /\ taken[w] <= Len(Plan[w])
    BY HandFacts
  <2>g. \A v \in Workers : retired'[v] = retired[v] /\ retired[v] \in Nat /\ retired'[v] >= retired[v]
    BY <2>f, HandFacts
  <2>1. CASE Housekeeping(w)
    <3>1. ASSUME NEW v \in Workers
          PROVE  \A i \in retired'[v] + 1 .. taken'[v] : Stays(v, i)'
      BY <2>1, <2>f, <2>g, HousekeepingFrame, StaysIdle DEF InHand
    <3> QED
      BY <3>1 DEF PrefetchedStays, Stays
  <2>2. CASE Remove(w)
    <3>1. /\ thread[w] = "remove" /\ onDisk' = onDisk \ {target[w]} /\ UNCHANGED taken
      BY <2>2 DEF Remove
    <3>2. evicted[w] \in 1 .. retired[w] /\ target[w] = Plan[w][evicted[w]] /\ retired[w] <= Len(Plan[w])
      BY <3>1, HandFacts
    <3>3. ASSUME NEW v \in Workers, NEW i \in retired[v] + 1 .. taken[v],
                 Exclusive(v, Plan[v][i])
          PROVE  Plan[v][i] # target[w]
      <4>1. CASE v = w
        <5>1. i \in DOMAIN Plan[w] /\ evicted[w] \in DOMAIN Plan[w] /\ i # evicted[w]
          BY <3>2, <4>1, HandFacts
        <5> QED
          BY <3>2, <4>1, <5>1, PlanAssumption
      <4>2. CASE v # w
        <5>1. evicted[w] \in DOMAIN Plan[w]
          BY <3>2, HandFacts
        <5> QED
          BY <3>2, <3>3, <4>2, <5>1 DEF Exclusive
      <4> QED
        BY <4>1, <4>2
    <3>4. ASSUME NEW v \in Workers
          PROVE  \A i \in retired'[v] + 1 .. taken'[v] : Stays(v, i)'
      BY <3>1, <3>3, <2>f, <2>g, StaysIdle
    <3> QED
      BY <3>4 DEF PrefetchedStays, Stays
  <2>3. CASE Take(w) \/ Claim(w) \/ StartFetch(w) \/ Mark(w) \/ SkipFetch(w) \/ EndFetch(w)
    <3>0. onDisk \subseteq onDisk'
      BY <2>3 DEF Take, Claim, StartFetch, Mark, SkipFetch, EndFetch, shared
    <3>1. ASSUME NEW v \in Workers, v # w
          PROVE  \A i \in retired'[v] + 1 .. taken'[v] : Stays(v, i)'
      BY <2>f, <2>g, <3>0, <3>1, StaysIdle
    <3>2. ASSUME NEW i \in retired'[w] + 1 .. taken'[w] PROVE Stays(w, i)'
      <4>0. Exclusive(w, Plan[w][i])' = Exclusive(w, Plan[w][i])
        BY DEF Exclusive
      <4>1. CASE Take(w)
        <5>1. /\ thread[w] = "pick" /\ taken'[w] = taken[w] + 1 /\ onDisk' = onDisk
              /\ thread'[w] = IF Plan[w][taken[w] + 1] \in onDisk THEN "mark" ELSE "claim"
          BY <4>1 DEF Take, Goto, shared, IInv, TypeOK
        <5>2. CASE i = taken[w] + 1
          BY <5>1, <5>2 DEF Stays
        <5>3. CASE i # taken[w] + 1
          <6>1. i \in retired[w] + 1 .. taken[w]
            BY <2>g, <2>t, <5>1, <5>3
          <6>2. Stays(w, i)
            BY <6>1 DEF PrefetchedStays, Stays
          <6> QED
            BY <4>0, <5>1, <6>2 DEF Stays
        <5> QED
          BY <5>2, <5>3
      <4>2. CASE Claim(w) \/ StartFetch(w)
        <5>1. /\ taken'[w] = taken[w] /\ thread'[w] \in {"fetch", "copy"}
              /\ thread[w] \in {"claim", "fetch"}
          BY <4>2 DEF Claim, StartFetch, Goto, IInv, TypeOK
        <5>2. Stays(w, i)
          BY <2>g, <5>1 DEF PrefetchedStays, Stays
        <5> QED
          BY <3>0, <4>0, <5>1, <5>2 DEF Stays
      <4>3. CASE Mark(w) \/ SkipFetch(w) \/ EndFetch(w)
        <5>1. /\ taken'[w] = taken[w] /\ thread[w] \in InHand
          BY <4>3 DEF Mark, SkipFetch, EndFetch, InHand
        <5>2. Stays(w, i)
          BY <2>g, <5>1 DEF PrefetchedStays, Stays
        <5>3. target[w] = Plan[w][taken[w]] /\ taken[w] \in 1 .. Len(Plan[w]) /\ target[w] \in Chunks
          BY <5>1, HandFacts, PlanFacts
        <5>4. CASE i # taken[w] \/ ~Exclusive(w, Plan[w][i]) \/ Plan[w][i] \in onDisk
          BY <3>0, <4>0, <5>2, <5>4 DEF Stays
        <5>5. CASE i = taken[w] /\ Exclusive(w, Plan[w][i]) /\ EndFetch(w)
          BY <4>0, <5>3, <5>5 DEF EndFetch, Stays
        <5>6. CASE i = taken[w] /\ Exclusive(w, Plan[w][i]) /\ Mark(w)
          <6>1. thread[w] = "mark"
            BY <5>6 DEF Mark
          <6> QED
            BY <3>0, <4>0, <5>2, <5>6, <6>1 DEF Stays
        <5>7. CASE i = taken[w] /\ Exclusive(w, Plan[w][i]) /\ SkipFetch(w) /\ Plan[w][i] \notin onDisk
          <6>1. thread[w] = "fetch" /\ fileLock[target[w]] # NoWorker
            BY <5>3, <5>7 DEF SkipFetch
          <6> DEFINE v == fileLock[target[w]]
          <6>2. v \in Workers /\ thread[v] = "copy" /\ target[v] = target[w]
            BY SMTT(30), <5>3, <6>1 DEF LocksHeld, IInv, TypeOK
          <6>3. v # w
            BY <6>1, <6>2
          <6>4. taken[v] \in DOMAIN Plan[v] /\ Plan[v][taken[v]] = Plan[w][i]
            <7> HIDE DEF v
            <7> QED
              BY <5>3, <5>7, <6>2, HandFacts DEF InHand
          <6> HIDE DEF v
          <6> QED
            BY <5>7, <6>2, <6>3, <6>4 DEF Exclusive
        <5> QED
          BY <4>3, <5>4, <5>5, <5>6, <5>7
      <4> QED
        BY <2>3, <4>1, <4>2, <4>3
    <3> QED
      BY <3>1, <3>2 DEF PrefetchedStays, Stays
  <2> QED
    BY <1>2, <2>1, <2>2, <2>3, ThreadCases
<1>3. CASE UNCHANGED vars
  BY <1>3 DEF PrefetchedStays, Exclusive, vars, shared, readerVars, threadVars
<1> QED
  BY <1>1, <1>2, <1>3 DEF Next, Quiet

\* The inductive invariant of an epoch with prompt downloads.
PromptInv == PromptDownloads /\ IInv /\ NothingForced /\ LocksHeld /\ PrefetchedStays

LEMMA PromptInvariance == PromptDownloads /\ Spec => []PromptInv
<1>1. PromptDownloads /\ Init => PromptInv
  <2> SUFFICES ASSUME PromptDownloads, Init PROVE PromptInv
    OBVIOUS
  <2>1. IInv
    BY InitInv
  <2>2. NothingForced /\ LocksHeld /\ PrefetchedStays
    BY DEF Init, NothingForced, LocksHeld, PrefetchedStays
  <2> QED
    BY <2>1, <2>2 DEF PromptInv
<1>2. PromptInv /\ [Next]_vars => PromptInv'
  <2> SUFFICES ASSUME PromptInv, [Next]_vars PROVE PromptInv'
    OBVIOUS
  <2>1. IInv' /\ PromptDownloads'
    BY StepInv DEF PromptInv, PromptDownloads
  <2>2. NothingForced'
    BY NothingForcedStep DEF PromptInv
  <2>3. LocksHeld'
    BY LocksHeldStep DEF PromptInv
  <2>4. PrefetchedStays'
    BY <2>1, PrefetchedStep DEF PromptInv
  <2> QED
    BY <2>1, <2>2, <2>3, <2>4 DEF PromptInv
<1> QED
  BY <1>1, <1>2, PTL DEF Spec

\* With prompt downloads, a chunk that a thread has prefetched and no other worker
\* reads is on disk until the reader has consumed it: run(), _maybe_delete_chunks
\* and the threads of the other workers never take it away, whatever plans the
\* others share, whatever the cache held and whichever locks a deletion unlinks.
THEOREM NothingPrefetchedIsLost == PromptDownloads /\ Spec => []PrefetchedStays
<1>1. PromptInv => PrefetchedStays
  BY DEF PromptInv
<1> QED
  BY <1>1, PromptInvariance, PTL

-----------------------------------------------------------------------------
(* Workers with chunks of their own. *)

\* A chunk in a plan is at one place of one plan.
LEMMA OnePlace ==
    ASSUME OwnChunks, NEW v \in Workers, NEW w \in Workers, NEW i \in DOMAIN Plan[v],
           NEW j \in DOMAIN Plan[w], Plan[v][i] = Plan[w][j]
    PROVE  v = w /\ i = j
<1>1. v = w
  BY DEF OwnChunks
<1> QED
  BY <1>1, PlanAssumption

\* Without sharing nobody else asks for the chunk a thread deletes: what a thread
\* has read from a lock count cannot become stale before it removes the file.
THEOREM HeldStaysUnshared == OwnChunks /\ Spec => HeldChunkStays
<1> DEFINE Held == \A w \in Workers, c \in Chunks :
               thread[w] = "remove" /\ thread'[w] # "remove" /\ ~forced[w] /\ c \in onDisk \ onDisk'
                   => Holders(c) = {}
<1>1. OwnChunks /\ IInv /\ [Next]_vars => [Held]_vars
  <2> SUFFICES ASSUME OwnChunks, IInv, [Next]_vars PROVE Held
    OBVIOUS
  <2> SUFFICES ASSUME NEW w \in Workers, NEW c \in Chunks,
                      thread[w] = "remove", thread'[w] # "remove", ~forced[w],
                      c \in onDisk, c \notin onDisk'
               PROVE  Holders(c) = {}
    OBVIOUS
  <2>1. c = target[w]
    <3>1. ASSUME NEW u \in Workers, ReaderStep(u) \/ Abandon(u) PROVE FALSE
      BY <3>1 DEF ReaderStep, Look, Find, RequestForceDownload, GiveUp, Open, Retire, NextChunk,
                  Finish, Abandon, shared
    <3>2. ASSUME NEW u \in Workers, ThreadStep(u)
          PROVE  onDisk' = onDisk \ {target[u]} /\ \E s : thread' = [thread EXCEPT ![u] = s]
      BY <3>2 DEF ThreadStep, ObeyForceStop, TakeForced, NoneForced, Take, TakeEnd, TakeNothing, Mark,
                  Claim, SkipFetch, StartFetch, EndFetch, Receive, ReceiveNothing, Pop, EndScan,
                  Delete, Remove, Unlock, Goto, shared
    <3>3. ASSUME NEW u \in Workers, ThreadStep(u) PROVE c = target[w]
      <4>1. u = w
        BY <3>2, <3>3 DEF IInv, TypeOK
      <4> QED
        BY <3>2, <3>3, <4>1
    <3> QED
      BY <3>1, <3>3 DEF Next, Quiet, vars, shared
  <2>2. /\ evicted[w] >= 1 /\ c = Plan[w][evicted[w]] /\ retired[w] <= Len(Plan[w])
        /\ evicted[w] <= received[w] /\ received[w] <= retired[w]
    BY <2>1 DEF IInv, WorkerInv, TargetInv, ReaderInv
  <2>3. evicted[w] \in 1 .. retired[w] /\ evicted[w] \in DOMAIN Plan[w]
    BY <2>2, PlanFacts DEF IInv, TypeOK
  <2>4. ASSUME NEW v \in Holders(c) PROVE FALSE
    <3>1. PICK i \in 1 .. taken[v] : Plan[v][i] = c
      BY DEF Holders, Markers
    <3>2. v \in Workers /\ i \in DOMAIN Plan[v]
      <4>1. v \in Workers
        BY DEF Holders, Markers
      <4>2. taken[v] \in Nat /\ taken[v] <= Len(Plan[v])
        BY <4>1 DEF IInv, TypeOK
      <4>3. DOMAIN Plan[v] = 1 .. Len(Plan[v]) /\ Len(Plan[v]) \in Nat
        BY <4>1, PlanFacts
      <4> QED BY <4>1, <4>2, <4>3
    <3>3. v = w
      BY <2>2, <2>3, <3>1, <3>2, OnePlace
    <3> QED
      BY <2>2, <2>3, <3>3 DEF Holders
  <2> QED
    BY <2>4
<1>2. OwnChunks /\ [Next]_vars => OwnChunks'
  BY DEF OwnChunks
<1> QED
  BY <1>1, <1>2, Invariance, PTL DEF HeldChunkStays, Spec

-----------------------------------------------------------------------------
(* No file disappears under a reader or a thread. *)

\* A reader about to open its chunk will find it, and so will a thread about to
\* remove what it saw.
SeenStays(w) ==
    /\ reader[w] # "failed" /\ thread[w] # "crashed"
    /\ reader[w] = "open" => Wanted(w) \in onDisk
    /\ thread[w] = "remove" => target[w] \in onDisk

\* A step that removes no chunk of w keeps what w has seen.
LEMMA SeenIdle ==
    ASSUME IInv, NothingForced, NEW w \in Workers, SeenStays(w),
           UNCHANGED <<reader[w], pos[w], thread[w], target[w]>>,
           \A i \in DOMAIN Plan[w] : Plan[w][i] \in onDisk => Plan[w][i] \in onDisk'
    PROVE  SeenStays(w)'
<1>1. pos[w] \in DOMAIN Plan[w]
  BY HandFacts DEF IInv, TypeOK
<1>2. thread[w] = "remove" => evicted[w] \in DOMAIN Plan[w] /\ target[w] = Plan[w][evicted[w]]
  BY HandFacts
<1> QED
  BY <1>1, <1>2 DEF SeenStays, Wanted

LEMMA SeenStep ==
    ASSUME PromptDownloads, OwnChunks, IInv, NothingForced, NEW v \in Workers, SeenStays(v),
           [Next]_vars
    PROVE  SeenStays(v)'
<1>1. ASSUME NEW w \in Workers, ReaderStep(w) \/ Abandon(w) PROVE SeenStays(v)'
  <2>1. UNCHANGED <<onDisk, thread, target>> /\ (v # w => UNCHANGED <<reader[v], pos[v]>>)
    BY <1>1, ReaderFrame DEF threadVars
  <2>2. CASE v # w
    BY <2>1, <2>2, SeenIdle
  <2>3. CASE v = w
    <3>1. /\ reader'[w] # "failed"
          /\ reader'[w] = "open" => Wanted(w) \in onDisk /\ pos'[w] = pos[w]
      BY <1>1, <2>3 DEF ReaderStep, Look, Find, RequestForceDownload, GiveUp, Open, Retire, NextChunk,
                  Finish, Abandon, SeenStays, NothingForced, PromptDownloads, IInv, TypeOK
    <3> QED
      BY <2>1, <2>3, <3>1 DEF SeenStays, Wanted
  <2> QED
    BY <2>2, <2>3
<1>2. ASSUME NEW w \in Workers, ThreadStep(w) PROVE SeenStays(v)'
  <2>1. UNCHANGED <<reader, pos>> /\ (v # w => UNCHANGED <<thread[v], target[v]>>)
    BY <1>2, ThreadFrame DEF readerVars
  <2>2. CASE Remove(w)
    <3>1. /\ thread[w] = "remove" /\ onDisk' = onDisk \ {target[w]}
          /\ evicted[w] \in 1 .. retired[w] /\ target[w] = Plan[w][evicted[w]]
          /\ evicted[w] \in DOMAIN Plan[w] /\ retired[w] \in Nat
      BY <2>2, HandFacts DEF Remove
    <3>2. CASE v # w
      <4>1. ASSUME NEW i \in DOMAIN Plan[v] PROVE Plan[v][i] # target[w]
        BY <3>1, <3>2 DEF OwnChunks
      <4> QED
        BY <2>1, <3>1, <3>2, <4>1, SeenIdle
    <3>3. CASE v = w
      <4>1. thread'[w] = "unlock"
        BY <2>2, <3>3 DEF Remove, Goto, SeenStays, IInv, TypeOK
      <4>2. reader[w] = "open" => Wanted(w) # target[w]
        <5>0. ReaderInv(w) /\ pos[w] \in 1 .. Len(Plan[w]) /\ Len(Plan[w]) \in Nat
          BY HandFacts DEF IInv, TypeOK, WorkerInv
        <5>1. pos[w] \in DOMAIN Plan[w] /\ (reader[w] = "open" => retired[w] < pos[w])
          BY <5>0, HandFacts DEF ReaderInv
        <5> QED
          BY <3>1, <5>1, OnePlace DEF Wanted
      <4> QED
        BY <2>1, <3>1, <3>3, <4>1, <4>2 DEF SeenStays, Wanted
    <3> QED
      BY <3>2, <3>3
  <2>3. CASE ~Remove(w)
    <3>1. onDisk \subseteq onDisk'
      <4>1. Housekeeping(w) => UNCHANGED onDisk
        BY HousekeepingFrame
      <4> QED
        BY <1>2, <2>3, <4>1, ThreadCases
               DEF Take, Claim, StartFetch, Mark, SkipFetch, EndFetch, shared
    <3>2. CASE v # w
      BY <2>1, <3>1, <3>2, SeenIdle
    <3>3. CASE v = w
      <4>1. thread'[w] # "crashed" /\ (thread'[w] = "remove" => target'[w] \in onDisk')
        BY ZenonT(60), <1>2, <2>3, <3>3, ThreadFrame
           DEF ThreadStep, ObeyForceStop, TakeForced, NoneForced, Take, TakeEnd, TakeNothing, Mark,
                  Claim, SkipFetch, StartFetch, EndFetch, Receive, ReceiveNothing, Pop, EndScan,
                  Delete, Unlock, Goto, Downloaded, Maintain, AfterMaintenance, shared,
                  SeenStays, IInv, TypeOK, NothingForced
      <4> QED
        BY <2>1, <3>1, <3>3, <4>1 DEF SeenStays, Wanted
    <3> QED
      BY <3>2, <3>3
  <2> QED
    BY <2>2, <2>3
<1>3. CASE UNCHANGED vars
  BY <1>3 DEF SeenStays, Wanted, vars, shared, readerVars, threadVars
<1> QED
  BY <1>1, <1>2, <1>3 DEF Next, Quiet

\* With prompt downloads and chunks of their own, no reader fails to open a chunk it
\* has seen and no thread ends in an os.remove of a file that is gone, also when
\* the epoch starts with files in the directory.
THEOREM NoWorkerFails == PromptDownloads /\ OwnChunks /\ Spec => []NobodyFails
<1> DEFINE Inv == OwnChunks /\ \A w \in Workers : SeenStays(w)
<1>1. OwnChunks /\ Init => Inv
  BY DEF Init, SeenStays
<1>2. PromptInv /\ Inv /\ [Next]_vars => Inv'
  <2> SUFFICES ASSUME PromptInv, Inv, [Next]_vars PROVE Inv'
    OBVIOUS
  <2>1. \A w \in Workers : SeenStays(w)'
    BY SeenStep DEF PromptInv
  <2> QED
    BY <2>1 DEF OwnChunks
<1>3. Inv => NobodyFails
  BY DEF SeenStays, NobodyFails
<1> HIDE DEF Inv
<1> QED
  BY <1>1, <1>2, <1>3, PromptInvariance, PTL DEF Spec

-----------------------------------------------------------------------------
(* An epoch that starts with an empty cache: who has fetched, counted and    *)
(* consumed how much.                                                       *)

\* The chunks of w that are on disk are among those its thread has fetched, and its
\* reader has opened no other: then its thread downloads every chunk itself.
Fetched(w) == taken[w] - InFlight(w)
FetchInv(w) ==
    /\ \A i \in DOMAIN Plan[w] : Plan[w][i] \in onDisk => i <= Fetched(w)
    /\ reader[w] \in {"open", "retire", "reading"} => pos[w] <= Fetched(w)
    /\ retired[w] <= Fetched(w)
    /\ thread[w] # "mark"

\* At most one chunk of those taken is not fetched yet.
LEMMA FetchedType ==
    ASSUME IInv, NothingForced, NEW w \in Workers
    PROVE  /\ Fetched(w) \in Nat /\ Fetched(w) <= taken[w]
           /\ InFlight(w) = IF thread[w] \in InHand THEN 1 ELSE 0
<1> QED
  BY HandFacts DEF Fetched, InFlight, InHand

\* A step that brings no new chunk of w to the disk and moves no reader.
LEMMA FetchIdle ==
    ASSUME IInv, NothingForced, NEW w \in Workers, FetchInv(w),
           UNCHANGED <<reader[w], pos[w], retired[w]>>,
           Fetched(w)' \in Nat, Fetched(w)' >= Fetched(w), thread'[w] # "mark",
           \A i \in DOMAIN Plan[w] : Plan[w][i] \in onDisk' => Plan[w][i] \in onDisk \/ i <= Fetched(w)'
    PROVE  FetchInv(w)'
<1>0. DOMAIN Plan[w] = 1 .. Len(Plan[w]) /\ Len(Plan[w]) \in Nat
  BY HandFacts
<1>1. DOMAIN Plan[w] \subseteq Nat /\ pos[w] \in Nat /\ retired[w] \in Nat /\ Fetched(w) \in Nat
  <2>1. DOMAIN Plan[w] \subseteq Nat
    BY <1>0
  <2>2. pos[w] \in Nat /\ retired[w] \in Nat
    BY <1>0 DEF IInv, TypeOK
  <2> QED BY <2>1, <2>2, FetchedType
<1> DEFINE m == Fetched(w)
           n == Fetched(w)'
<1>2. m \in Int /\ n \in Nat /\ n >= m
  BY <1>1
<1>3. \A i \in DOMAIN Plan[w] : Plan[w][i] \in onDisk => i <= m
  BY DEF FetchInv
<1>4. \A i \in DOMAIN Plan[w] : Plan[w][i] \in onDisk' => i <= n
  <2> HIDE DEF m, n
  <2>1. \A i \in DOMAIN Plan[w] : Plan[w][i] \in onDisk' => Plan[w][i] \in onDisk \/ i <= n
    BY DEF n
  <2> QED
    BY <1>1, <1>2, <1>3, <2>1
<1>5. (reader'[w] \in {"open", "retire", "reading"} => pos'[w] <= n) /\ retired'[w] <= n
  <2>1. (reader[w] \in {"open", "retire", "reading"} => pos[w] <= m) /\ retired[w] <= m
    BY DEF FetchInv
  <2> HIDE DEF m, n
  <2> QED
    BY <1>1, <1>2, <2>1
<1> QED
  BY <1>4, <1>5 DEF FetchInv

\* Every step keeps FetchInv.
LEMMA FetchStep ==
    ASSUME PromptDownloads, OwnChunks, IInv, IInv', NothingForced, NothingForced',
           \A v \in Workers : SeenStays(v), NEW w \in Workers, FetchInv(w), [Next]_vars
    PROVE  FetchInv(w)'
<1>t. /\ Fetched(w) \in Nat /\ Fetched(w)' \in Nat
      /\ DOMAIN Plan[w] = 1 .. Len(Plan[w]) /\ Len(Plan[w]) \in Nat
      /\ pos[w] \in 1 .. Len(Plan[w]) /\ retired[w] \in Nat /\ taken[w] \in Nat
  <2>1. Fetched(w)' \in Nat
    <3>1. taken'[w] \in Nat /\ (InFlight(w)' = 1 => taken'[w] >= 1) /\ InFlight(w)' \in {0, 1}
      BY DEF IInv, TypeOK, WorkerInv, TargetInv, InFlight, NothingForced
    <3> QED
      BY <3>1 DEF Fetched
  <2> QED
    BY <2>1, FetchedType, HandFacts DEF IInv, TypeOK
<1>1. ASSUME NEW v \in Workers, ReaderStep(v) \/ Abandon(v) PROVE FetchInv(w)'
  <2>1. /\ UNCHANGED <<onDisk, thread, taken>> /\ (w # v => UNCHANGED <<reader[w], pos[w], retired[w]>>)
        /\ Fetched(w)' = Fetched(w)
    BY <1>1, ReaderFrame DEF threadVars, Fetched, InFlight
  <2>2. CASE w # v
    BY <2>1, <2>2, <1>t, FetchIdle DEF FetchInv
  <2>3. CASE w = v
    <3>1. /\ reader'[w] \in {"open", "retire", "reading"} => pos'[w] <= Fetched(w)
          /\ retired'[w] <= Fetched(w)
      <4>0. ReaderInv(w) /\ SeenStays(w)
        BY DEF IInv, WorkerInv
      <4>1. CASE Look(w) \/ Find(w)
        <5>1. /\ pos'[w] = pos[w] /\ retired'[w] = retired[w]
              /\ reader'[w] \in {"open", "wait"} /\ (reader'[w] = "open" => Wanted(w) \in onDisk)
          BY <4>1 DEF Look, Find, IInv, TypeOK
        <5> QED
          BY <5>1, <1>t DEF FetchInv, Wanted
      <4>2. CASE RequestForceDownload(w) \/ GiveUp(w)
        BY <4>2 DEF RequestForceDownload, GiveUp, PromptDownloads, NothingForced
      <4>3. CASE Open(w) \/ Abandon(w)
        BY <4>3 DEF Open, Abandon, FetchInv, IInv, TypeOK
      <4>4. CASE Retire(w)
        <5>1. /\ reader[w] = "retire" /\ pos'[w] = pos[w] /\ retired'[w] = retired[w] + 1
          BY <4>4 DEF Retire, IInv, TypeOK
        <5>2. pos[w] <= Fetched(w) /\ retired[w] = pos[w] - 2
          BY <4>0, <5>1 DEF FetchInv, ReaderInv
        <5> QED
          BY <1>t, <5>1, <5>2
      <4>5. CASE NextChunk(w)
        BY <4>5 DEF NextChunk, FetchInv, IInv, TypeOK
      <4>6. CASE Finish(w)
        <5>1. /\ reader[w] = "reading" /\ reader'[w] = "done" /\ retired'[w] = retired[w] + 1
          BY <4>6 DEF Finish, IInv, TypeOK
        <5>2. pos[w] <= Fetched(w) /\ retired[w] = pos[w] - 1
          BY <4>0, <5>1 DEF FetchInv, ReaderInv
        <5> QED
          BY <1>t, <5>1, <5>2
      <4> QED
        BY <1>1, <2>3, <4>1, <4>2, <4>3, <4>4, <4>5, <4>6 DEF ReaderStep
    <3> QED
      BY <2>1, <3>1 DEF FetchInv
  <2> QED
    BY <2>2, <2>3
<1>2. ASSUME NEW v \in Workers, ThreadStep(v) PROVE FetchInv(w)'
  <2>f. /\ UNCHANGED <<reader, pos, retired>>
        /\ w # v => UNCHANGED <<thread[w], taken[w]>> /\ Fetched(w)' = Fetched(w)
    BY <1>2, ThreadFrame DEF readerVars, Fetched, InFlight
  <2>1. CASE Housekeeping(v)
    <3>1. UNCHANGED <<onDisk, taken>> /\ thread[v] \notin InHand /\ thread'[v] \notin InHand
      BY <2>1, HousekeepingFrame
    <3>2. Fetched(w)' = Fetched(w) /\ thread'[w] # "mark"
      BY <2>f, <3>1 DEF Fetched, InFlight, InHand, FetchInv
    <3> QED
      BY <2>f, <3>1, <3>2, <1>t, FetchIdle
  <2>2. CASE Remove(v)
    <3>1. /\ onDisk' = onDisk \ {target[v]} /\ UNCHANGED taken
          /\ thread[v] = "remove" /\ thread'[v] \in {"unlock", "crashed"}
      BY <2>2 DEF Remove, Goto, IInv, TypeOK
    <3>2. Fetched(w)' = Fetched(w) /\ thread'[w] # "mark"
      BY <2>f, <3>1 DEF Fetched, InFlight, FetchInv
    <3> QED
      BY <2>f, <3>1, <3>2, <1>t, FetchIdle
  <2>3. CASE Take(v)
    <3>1. /\ UNCHANGED onDisk /\ thread[v] = "pick" /\ taken'[v] = taken[v] + 1 /\ taken[v] < Len(Plan[v])
          /\ thread'[v] = IF Plan[v][taken[v] + 1] \in onDisk THEN "mark" ELSE "claim"
      BY <2>3 DEF Take, Goto, shared, IInv, TypeOK
    <3>2. CASE w = v
      <4>1. Fetched(w) = taken[w] /\ Fetched(w)' = taken[w]
        BY <1>t, <3>1, <3>2 DEF Fetched, InFlight
      <4>2. Plan[w][taken[w] + 1] \notin onDisk
        <5>1. taken[w] + 1 \in DOMAIN Plan[w]
          BY <1>t, <3>1, <3>2
        <5> QED
          BY <1>t, <4>1, <5>1 DEF FetchInv
      <4> QED
        BY <2>f, <1>t, <3>1, <3>2, <4>1, <4>2, FetchIdle
    <3> QED
      BY <2>f, <3>1, <3>2, <1>t, FetchIdle DEF FetchInv
  <2>4. CASE Claim(v) \/ StartFetch(v)
    <3>1. /\ UNCHANGED <<onDisk, taken>> /\ thread[v] \in InHand /\ thread'[v] \in {"fetch", "copy"}
      BY <2>4 DEF Claim, StartFetch, Goto, InHand, IInv, TypeOK
    <3>2. Fetched(w)' = Fetched(w) /\ thread'[w] # "mark"
      BY <2>f, <3>1 DEF Fetched, InFlight, InHand, FetchInv
    <3> QED
      BY <2>f, <3>1, <3>2, <1>t, FetchIdle
  <2>5. CASE Mark(v) \/ SkipFetch(v) \/ EndFetch(v)
    <3>1. /\ UNCHANGED taken /\ thread[v] \in InHand /\ thread'[v] \in {"pick", "receive", "top"}
          /\ onDisk' \subseteq onDisk \union {target[v]}
      <4>1. /\ UNCHANGED taken /\ thread[v] \in InHand /\ Downloaded(v)
            /\ onDisk' \in {onDisk, onDisk \union {target[v]}}
        BY <2>5 DEF Mark, SkipFetch, EndFetch, InHand, shared
      <4>2. thread'[v] \in {"pick", "receive", "top"}
        BY <4>1 DEF Downloaded, Goto, Maintain, IInv, TypeOK
      <4> QED
        BY <4>1, <4>2
    <3>2. target[v] = Plan[v][taken[v]] /\ taken[v] \in DOMAIN Plan[v]
      BY <3>1, HandFacts
    <3>3. CASE w = v
      <4>1. Fetched(w) = taken[w] - 1 /\ Fetched(w)' = taken[w]
        BY <1>t, <3>1, <3>3 DEF Fetched, InFlight, InHand
      <4>2. \A i \in DOMAIN Plan[w] : Plan[w][i] = target[v] => i = taken[w]
        BY <3>2, <3>3, OnePlace
      <4>3. \A i \in DOMAIN Plan[w] : Plan[w][i] \in onDisk' => Plan[w][i] \in onDisk \/ i <= Fetched(w)'
        BY <1>t, <3>1, <4>1, <4>2
      <4>4. Fetched(w)' >= Fetched(w) /\ thread'[w] # "mark"
        BY <1>t, <3>1, <3>3, <4>1
      <4> QED
        BY <2>f, <1>t, <4>3, <4>4, FetchIdle
    <3>4. CASE w # v
      <4>1. \A i \in DOMAIN Plan[w] : Plan[w][i] # target[v]
        BY <3>2, <3>4 DEF OwnChunks
      <4>2. \A i \in DOMAIN Plan[w] : Plan[w][i] \in onDisk' => Plan[w][i] \in onDisk
        BY <3>1, <4>1
      <4> QED
        BY <2>f, <1>t, <3>4, <4>2, FetchIdle DEF FetchInv
    <3> QED
      BY <3>3, <3>4
  <2> QED
    BY <1>2, <2>1, <2>2, <2>3, <2>4, <2>5, ThreadCases
<1>3. CASE UNCHANGED vars
  BY <1>3 DEF FetchInv, Fetched, InFlight, vars, shared, readerVars, threadVars
<1> QED
  BY <1>1, <1>2, <1>3 DEF Next, Quiet

\* The i-th chunk of w is counted: its thread has counted itself in, its reader not out.
Counted(w, i) ==
    /\ retired[w] < i
    /\ i <= IF thread[w] \in {"mark", "claim"} THEN taken[w] - 1 ELSE taken[w]

\* Then its count is one; every other count is zero.
CountInv ==
    /\ \A w \in Workers : \A i \in DOMAIN Plan[w] :
         lockCount[Plan[w][i]] = IF Counted(w, i) THEN 1 ELSE 0
    /\ \A c \in Chunks : (\A w \in Workers : \A i \in DOMAIN Plan[w] : Plan[w][i] # c) =>
         lockCount[c] = 0

\* A step that counts one chunk in or out and changes its count accordingly.
LEMMA CountOne ==
    ASSUME OwnChunks, IInv, CountInv, NEW u \in Workers, NEW k \in DOMAIN Plan[u], NEW b \in {0, 1},
           lockCount' = [lockCount EXCEPT ![Plan[u][k]] = b],
           Counted(u, k)' <=> b = 1,
           \A i \in DOMAIN Plan[u] : i # k => (Counted(u, i)' <=> Counted(u, i)),
           \A v \in Workers : v # u => \A i \in DOMAIN Plan[v] : Counted(v, i)' <=> Counted(v, i)
    PROVE  CountInv'
<1>0. \A v \in Workers : \A i \in DOMAIN Plan[v] : Plan[v][i] \in Chunks
  BY PlanFacts
<1>1. ASSUME NEW v \in Workers, NEW i \in DOMAIN Plan[v]
      PROVE  lockCount'[Plan[v][i]] = IF Counted(v, i)' THEN 1 ELSE 0
  <2>1. CASE v = u /\ i = k
    BY <1>0, <2>1 DEF IInv, TypeOK
  <2>2. CASE ~(v = u /\ i = k)
    <3>1. Plan[v][i] # Plan[u][k]
      BY <2>2, OnePlace
    <3>2. lockCount'[Plan[v][i]] = lockCount[Plan[v][i]]
      BY <1>0, <3>1 DEF IInv, TypeOK
    <3>3. Counted(v, i)' <=> Counted(v, i)
      BY <2>2
    <3>4. lockCount[Plan[v][i]] = IF Counted(v, i) THEN 1 ELSE 0
      BY DEF CountInv
    <3> QED
      BY <3>2, <3>3, <3>4
  <2> QED
    BY <2>1, <2>2
<1>2. ASSUME NEW c \in Chunks, \A w \in Workers : \A i \in DOMAIN Plan[w] : Plan[w][i] # c
      PROVE  lockCount'[c] = 0
  <2>1. c # Plan[u][k]
    BY <1>2
  <2> QED
    BY <1>2, <2>1 DEF CountInv, IInv, TypeOK
<1> QED
  BY <1>1, <1>2 DEF CountInv

\* A step that changes neither a count nor who is counted.
LEMMA CountNone ==
    ASSUME CountInv, UNCHANGED lockCount,
           \A v \in Workers : \A i \in DOMAIN Plan[v] : Counted(v, i)' <=> Counted(v, i)
    PROVE  CountInv'
<1>1. ASSUME NEW v \in Workers, NEW i \in DOMAIN Plan[v]
      PROVE  lockCount'[Plan[v][i]] = IF Counted(v, i)' THEN 1 ELSE 0
  BY DEF CountInv
<1> QED
  BY <1>1 DEF CountInv

\* What a reader has read to its end was counted.
LEMMA ConsumedCounted ==
    ASSUME IInv, NothingForced, NEW w \in Workers, FetchInv(w), CountInv,
           reader[w] \in {"retire", "reading"}
    PROVE  \E k \in DOMAIN Plan[w] :
             /\ k = IF reader[w] = "retire" THEN pos[w] - 1 ELSE pos[w]
             /\ k = retired[w] + 1 /\ Counted(w, k) /\ lockCount[Plan[w][k]] = 1
<1> DEFINE k == IF reader[w] = "retire" THEN pos[w] - 1 ELSE pos[w]
<1>1. /\ pos[w] \in 1 .. Len(Plan[w]) /\ DOMAIN Plan[w] = 1 .. Len(Plan[w]) /\ Len(Plan[w]) \in Nat
      /\ taken[w] \in Nat /\ retired[w] \in Nat
  BY HandFacts DEF IInv, TypeOK
<1>2. k \in DOMAIN Plan[w] /\ k = retired[w] + 1
  BY <1>1 DEF IInv, WorkerInv, ReaderInv
<1>3. k <= Fetched(w) /\ Fetched(w) <= taken[w] /\ (thread[w] \in InHand => Fetched(w) = taken[w] - 1)
  BY <1>1, FetchedType DEF FetchInv, Fetched
<1>4. Counted(w, k)
  <2> HIDE DEF k
  <2> QED
    BY <1>1, <1>2, <1>3, FetchedType DEF Counted, InHand
<1>5. lockCount[Plan[w][k]] = 1
  <2> HIDE DEF k
  <2> QED
    BY <1>2, <1>4 DEF CountInv
<1> QED
  BY <1>2, <1>4, <1>5

LEMMA CountInvStep ==
    ASSUME PromptDownloads, OwnChunks, IInv, NothingForced, \A w \in Workers : FetchInv(w),
           CountInv, [Next]_vars
    PROVE  CountInv'
<1>t. \A v \in Workers : /\ taken[v] \in Nat /\ retired[v] \in Nat
                         /\ DOMAIN Plan[v] \subseteq Nat
  <2>1. \A v \in Workers : DOMAIN Plan[v] = 1 .. Len(Plan[v]) /\ Len(Plan[v]) \in Nat
    BY HandFacts
  <2> QED
    BY <2>1, HandFacts
<1>1. ASSUME NEW w \in Workers, ReaderStep(w) \/ Abandon(w) PROVE CountInv'
  <2>1. /\ UNCHANGED <<thread, taken>>
        /\ \A v \in Workers : v # w => \A i \in DOMAIN Plan[v] : Counted(v, i)' <=> Counted(v, i)
    BY <1>1, ReaderFrame DEF threadVars, Counted
  <2>2. CASE Retire(w) \/ Finish(w)
    <3>1. /\ reader[w] \in {"retire", "reading"}
          /\ Decrement(Plan[w][IF reader[w] = "retire" THEN pos[w] - 1 ELSE pos[w]])
          /\ retired'[w] = retired[w] + 1
      BY <2>2 DEF Retire, Finish, Wanted, IInv, TypeOK
    <3>2. PICK k \in DOMAIN Plan[w] :
             /\ k = IF reader[w] = "retire" THEN pos[w] - 1 ELSE pos[w]
             /\ k = retired[w] + 1 /\ Counted(w, k) /\ lockCount[Plan[w][k]] = 1
      BY <3>1, ConsumedCounted
    <3>3. lockCount' = [lockCount EXCEPT ![Plan[w][k]] = 0]
      <4>1. Decrement(Plan[w][k])
        BY <3>1, <3>2
      <4>2. (IF lockCount[Plan[w][k]] = 0 THEN 0 ELSE lockCount[Plan[w][k]] - 1) = 0
        BY <3>2
      <4>3. lockCount' = [lockCount EXCEPT ![Plan[w][k]] =
                            IF lockCount[Plan[w][k]] = 0 THEN 0 ELSE lockCount[Plan[w][k]] - 1]
        BY <4>1 DEF Decrement
      <4> QED
        BY <4>2, <4>3
    <3>4. Counted(w, k)' <=> 0 = 1
      BY <1>t, <3>1, <3>2 DEF Counted
    <3>5. \A i \in DOMAIN Plan[w] : i # k => (Counted(w, i)' <=> Counted(w, i))
      BY <1>t, <2>1, <3>1, <3>2 DEF Counted
    <3>6. 0 \in {0, 1}
      OBVIOUS
    <3> QED
      BY <2>1, <3>3, <3>4, <3>5, <3>6, CountOne
  <2>3. CASE ~(Retire(w) \/ Finish(w))
    <3>1. UNCHANGED <<lockCount, retired>>
      BY <1>1, <2>3 DEF ReaderStep, Look, Find, RequestForceDownload, GiveUp, Open, NextChunk, Abandon,
                        shared
    <3> QED
      BY <2>1, <3>1, CountNone DEF Counted
  <2> QED
    BY <2>2, <2>3
<1>2. ASSUME NEW w \in Workers, ThreadStep(w) PROVE CountInv'
  <2>1. /\ UNCHANGED retired
        /\ \A v \in Workers : v # w => \A i \in DOMAIN Plan[v] : Counted(v, i)' <=> Counted(v, i)
    BY <1>2, ThreadFrame DEF readerVars, Counted
  <2>2. CASE Mark(w) \/ Claim(w)
    <3>1. /\ thread[w] \in {"mark", "claim"} /\ Increment(target[w]) /\ UNCHANGED taken
          /\ thread'[w] \notin {"mark", "claim"}
      BY <2>2 DEF Mark, Claim, Downloaded, Maintain, Goto, IInv, TypeOK
    <3>2. PICK k \in DOMAIN Plan[w] : k = taken[w] /\ target[w] = Plan[w][k]
      BY <3>1, HandFacts DEF InHand
    <3>3. retired[w] < k /\ taken'[w] = k
      BY <1>t, <3>1, <3>2 DEF FetchInv, Fetched, InFlight
    <3>4. ~Counted(w, k) /\ (Counted(w, k)' <=> 1 = 1) /\ 1 \in {0, 1}
      BY <1>t, <2>1, <3>1, <3>2, <3>3 DEF Counted
    <3>5. \A i \in DOMAIN Plan[w] : i # k => (Counted(w, i)' <=> Counted(w, i))
      BY <1>t, <2>1, <3>1, <3>2, <3>3 DEF Counted
    <3>6. lockCount[Plan[w][k]] = 0
      BY <3>4 DEF CountInv
    <3>7. lockCount' = [lockCount EXCEPT ![Plan[w][k]] = 1]
      BY <3>1, <3>2, <3>6 DEF Increment
    <3> QED
      BY <2>1, <3>4, <3>5, <3>7, CountOne
  <2>3. CASE Take(w)
    <3>1. /\ UNCHANGED lockCount /\ thread[w] = "pick" /\ thread'[w] \in {"mark", "claim"}
          /\ taken'[w] = taken[w] + 1
      BY <2>3 DEF Take, Goto, shared, IInv, TypeOK
    <3>2. \A i \in DOMAIN Plan[w] : Counted(w, i)' <=> Counted(w, i)
      BY <1>t, <2>1, <3>1 DEF Counted
    <3> QED
      BY <2>1, <3>1, <3>2, CountNone
  <2>4. CASE ~(Mark(w) \/ Claim(w) \/ Take(w))
    <3>1. /\ UNCHANGED <<lockCount, taken>>
          /\ thread[w] \notin {"mark", "claim"} /\ thread'[w] \notin {"mark", "claim"}
      <4>1. CASE Housekeeping(w)
        BY <4>1, HousekeepingFrame DEF InHand
      <4>2. CASE StartFetch(w) \/ SkipFetch(w) \/ EndFetch(w) \/ Remove(w)
        BY SMTT(30), <4>2 DEF StartFetch, SkipFetch, EndFetch, Remove, Downloaded, Maintain, Goto, shared,
                    IInv, TypeOK
      <4> QED
        BY <1>2, <2>4, <4>1, <4>2, ThreadCases
    <3>2. \A i \in DOMAIN Plan[w] : Counted(w, i)' <=> Counted(w, i)
      BY <2>1, <3>1 DEF Counted
    <3> QED
      BY <2>1, <3>1, <3>2, CountNone
  <2> QED
    BY <2>2, <2>3, <2>4
<1>3. CASE UNCHANGED vars
  BY <1>3, CountNone DEF Counted, vars, shared, readerVars, threadVars
<1> QED
  BY <1>1, <1>2, <1>3 DEF Next, Quiet

\* The inductive invariant of an epoch that starts with an empty cache.
ColdInv ==
    /\ PromptInv /\ OwnChunks /\ CountInv
    /\ \A w \in Workers : SeenStays(w) /\ FetchInv(w)

LEMMA ColdInvariance == PromptDownloads /\ OwnChunks /\ ColdStart /\ Spec => []ColdInv
<1>1. OwnChunks /\ ColdStart /\ Init /\ PromptInv => ColdInv
  <2> SUFFICES ASSUME OwnChunks, ColdStart, Init, PromptInv PROVE ColdInv
    OBVIOUS
  <2>0. \A w \in Workers : \A i \in DOMAIN Plan[w] : Plan[w][i] \in Chunks
    BY PlanFacts
  <2>1. ASSUME NEW w \in Workers PROVE SeenStays(w)
    BY DEF Init, SeenStays
  <2>2. ASSUME NEW w \in Workers PROVE FetchInv(w)
    BY DEF Init, FetchInv, Fetched, InFlight, ColdStart
  <2>3. ASSUME NEW w \in Workers, NEW i \in DOMAIN Plan[w] PROVE ~Counted(w, i)
    <3>1. i \in Nat /\ (i <= 0 => FALSE)
      BY HandFacts DEF PromptInv
    <3> QED
      BY <3>1 DEF Init, Counted
  <2>4. CountInv
    BY <2>0, <2>3 DEF Init, CountInv
  <2> QED
    BY <2>1, <2>2, <2>4 DEF ColdInv
<1>2. ColdInv /\ PromptInv' /\ [Next]_vars => ColdInv'
  <2> SUFFICES ASSUME ColdInv, PromptInv', [Next]_vars PROVE ColdInv'
    OBVIOUS
  <2>1. \A w \in Workers : SeenStays(w)'
    BY SeenStep DEF ColdInv, PromptInv
  <2>2. \A w \in Workers : FetchInv(w)'
    BY FetchStep DEF ColdInv, PromptInv
  <2>3. CountInv'
    BY CountInvStep DEF ColdInv, PromptInv
  <2>4. OwnChunks'
    BY DEF ColdInv, OwnChunks
  <2> QED
    BY <2>1, <2>2, <2>3, <2>4 DEF ColdInv
<1> QED
  BY <1>1, <1>2, PromptInvariance, PTL DEF Spec

\* Each chunk counted is held by the one worker that reads it.
LEMMA CountsHolders == ColdInv => CountExact
<1> SUFFICES ASSUME ColdInv, NEW c \in Chunks
             PROVE  lockCount[c] = Cardinality(Holders(c))
  BY DEF CountExact
<1>0. OwnChunks /\ CountInv /\ IInv /\ NothingForced
  BY DEF ColdInv, PromptInv
<1>t. \A v \in Workers : /\ taken[v] \in Nat /\ retired[v] \in Nat /\ taken[v] <= Len(Plan[v])
                         /\ retired[v] <= Len(Plan[v]) /\ Len(Plan[v]) \in Nat
                         /\ DOMAIN Plan[v] = 1 .. Len(Plan[v])
  BY <1>0, HandFacts
<1>1. ASSUME NEW v \in Workers
      PROVE  v \in Holders(c) <=> \E i \in DOMAIN Plan[v] : Plan[v][i] = c /\ Counted(v, i)
  <2>1. ASSUME v \in Holders(c) PROVE \E i \in DOMAIN Plan[v] : Plan[v][i] = c /\ Counted(v, i)
    <3>1. PICK i \in 1 .. taken[v] : /\ Plan[v][i] = c
                                     /\ ~(i = taken[v] /\ thread[v] \in {"mark", "claim"})
      BY <2>1 DEF Holders, Markers
    <3>2. i \in DOMAIN Plan[v] /\ i \notin 1 .. retired[v]
      BY <1>t, <2>1, <3>1 DEF Holders
    <3>3. Counted(v, i)
      BY <1>t, <3>1, <3>2 DEF Counted
    <3> QED
      BY <3>1, <3>2, <3>3
  <2>2. ASSUME NEW i \in DOMAIN Plan[v], Plan[v][i] = c, Counted(v, i) PROVE v \in Holders(c)
    <3>1. i \in 1 .. taken[v] /\ ~(i = taken[v] /\ thread[v] \in {"mark", "claim"})
      BY <1>t, <2>2 DEF Counted
    <3>2. ASSUME NEW j \in 1 .. retired[v], Plan[v][j] = c PROVE FALSE
      <4>1. j \in DOMAIN Plan[v] /\ i # j
        BY <1>t, <2>2 DEF Counted
      <4> QED
        BY <2>2, <3>2, <4>1, PlanAssumption
    <3> QED
      BY <2>2, <3>1, <3>2 DEF Holders, Markers
  <2> QED
    BY <2>1, <2>2
<1>2. CASE \E w \in Workers : \E i \in DOMAIN Plan[w] : Plan[w][i] = c /\ Counted(w, i)
  <2>1. PICK w \in Workers : \E i \in DOMAIN Plan[w] : Plan[w][i] = c /\ Counted(w, i)
    BY <1>2
  <2>2. PICK i \in DOMAIN Plan[w] : Plan[w][i] = c /\ Counted(w, i)
    BY <2>1
  <2>3. lockCount[c] = 1
    BY <1>0, <2>2 DEF CountInv
  <2>4. Holders(c) = {w}
    <3>1. w \in Holders(c)
      BY <1>1, <2>2
    <3>2. ASSUME NEW v \in Holders(c) PROVE v = w
      <4>1. v \in Workers
        BY DEF Holders, Markers
      <4>2. PICK j \in DOMAIN Plan[v] : Plan[v][j] = c
        BY <1>1, <4>1
      <4> QED
        BY <1>0, <2>2, <4>1, <4>2, OnePlace
    <3> QED
      BY <3>1, <3>2
  <2> QED
    BY <2>3, <2>4, FS_Singleton
<1>3. CASE ~\E w \in Workers : \E i \in DOMAIN Plan[w] : Plan[w][i] = c /\ Counted(w, i)
  <2>1. Holders(c) = {}
    <3>1. \A v \in Holders(c) : v \in Workers
      BY DEF Holders, Markers
    <3> QED
      BY <1>1, <1>3, <3>1
  <2>2. lockCount[c] = 0
    BY <1>0, <1>3 DEF CountInv
  <2> QED
    BY <2>1, <2>2, FS_EmptySet
<1> QED
  BY <1>2, <1>3

\* With prompt downloads and chunks of their own, from an empty cache: the number in
\* <chunk>.cnt is exactly the number of workers that asked for the chunk and have
\* not consumed it, at every point between the steps of both threads.
THEOREM CountsAreExact == PromptDownloads /\ OwnChunks /\ ColdStart /\ Spec => []CountExact
<1> QED
  BY ColdInvariance, CountsHolders, PTL

-----------------------------------------------------------------------------
(* The bounded buffer: every step of a worker fetches the next chunk, consumes  *)
(* one that was fetched, or is not seen.                                        *)

fetched == [w \in Workers |-> taken[w] - InFlight(w)]

\* A step after which one worker has fetched one chunk more.
LEMMA BufferFetch ==
    ASSUME IInv, NothingForced, NEW w \in Workers, UNCHANGED <<retired, taken>>,
           thread[w] \in InHand, thread'[w] \notin InHand,
           \A v \in Workers : v # w => thread'[v] = thread[v]
    PROVE  Buffer!Fetch(w)
<1>1. /\ taken[w] \in Nat /\ retired[w] \in Nat /\ taken[w] <= Len(Plan[w])
      /\ taken[w] <= retired[w] + MaxPreDownload /\ MaxPreDownload \in Nat /\ Len(Plan[w]) \in Nat
  BY HandFacts, SizeAssumption DEF IInv, WorkerInv
<1>2. fetched[w] = taken[w] - 1
  BY DEF fetched, InFlight, InHand
<1>3. fetched' = [fetched EXCEPT ![w] = fetched[w] + 1]
  <2>1. ASSUME NEW v \in Workers
        PROVE  fetched'[v] = IF v = w THEN fetched[w] + 1 ELSE fetched[v]
    <3>1. CASE v = w
      <4>1. fetched'[w] = taken[w] - 0
        BY DEF fetched, InFlight, InHand
      <4> QED
        BY <1>1, <1>2, <3>1, <4>1
    <3>2. CASE v # w
      BY <3>2 DEF fetched, InFlight
    <3> QED
      BY <3>1, <3>2
  <2> QED
    BY <2>1 DEF fetched
<1> QED
  BY <1>1, <1>2, <1>3 DEF Buffer!Fetch, fetched

\* A step after which one worker has consumed one chunk more.
LEMMA BufferConsume ==
    ASSUME NEW w \in Workers, UNCHANGED <<taken, thread>>, retired[w] < Fetched(w),
           retired' = [retired EXCEPT ![w] = retired[w] + 1]
    PROVE  Buffer!Consume(w)
<1>1. fetched' = fetched
  BY DEF fetched, InFlight
<1> QED
  BY <1>1 DEF Buffer!Consume, fetched, Fetched

\* A step after which the same chunks are fetched and consumed.
LEMMA BufferStutter ==
    ASSUME UNCHANGED retired, \A v \in Workers : Fetched(v)' = Fetched(v)
    PROVE  UNCHANGED <<fetched, retired>>
<1> QED
  BY DEF fetched, Fetched

LEMMA BufferStep ==
    ASSUME ColdInv, [Next]_vars
    PROVE  [Buffer!Next]_<<fetched, retired>>
<1> USE DEF ColdInv, PromptInv
<1>1. ASSUME NEW w \in Workers, ReaderStep(w) \/ Abandon(w)
      PROVE  Buffer!Next \/ UNCHANGED <<fetched, retired>>
  <2>1. UNCHANGED <<thread, taken>>
    BY <1>1, ReaderFrame DEF threadVars
  <2>2. CASE Retire(w) \/ Finish(w)
    <3>1. /\ reader[w] \in {"retire", "reading"}
          /\ retired' = [retired EXCEPT ![w] = retired[w] + 1]
      BY <2>2 DEF Retire, Finish
    <3>2. retired[w] < Fetched(w)
      <4>1. ReaderInv(w) /\ pos[w] \in Nat /\ retired[w] \in Nat /\ pos[w] <= Fetched(w) /\ Fetched(w) \in Nat
        BY <3>1, FetchedType DEF FetchInv, IInv, TypeOK, WorkerInv
      <4> QED
        BY <3>1, <4>1 DEF ReaderInv
    <3> QED
      BY <2>1, <3>1, <3>2, BufferConsume DEF Buffer!Next
  <2>3. CASE ~(Retire(w) \/ Finish(w))
    <3>1. UNCHANGED retired
      BY <1>1, <2>3 DEF ReaderStep, Look, Find, RequestForceDownload, GiveUp, Open, NextChunk, Abandon
    <3> QED
      BY <2>1, <3>1, BufferStutter DEF Fetched, InFlight
  <2> QED
    BY <2>2, <2>3
<1>2. ASSUME NEW w \in Workers, ThreadStep(w)
      PROVE  Buffer!Next \/ UNCHANGED <<fetched, retired>>
  <2>f. /\ UNCHANGED retired
        /\ \A v \in Workers : v # w => thread'[v] = thread[v] /\ Fetched(v)' = Fetched(v)
    BY <1>2, ThreadFrame DEF readerVars, Fetched, InFlight
  <2>1. CASE Mark(w) \/ SkipFetch(w) \/ EndFetch(w)
    <3>1. UNCHANGED taken /\ thread[w] \in InHand /\ Downloaded(w)
      BY <2>1 DEF Mark, SkipFetch, EndFetch, InHand
    <3>2. thread'[w] \notin InHand
      BY <3>1 DEF Downloaded, Goto, Maintain, InHand, IInv, TypeOK
    <3> QED
      BY <2>f, <3>1, <3>2, BufferFetch DEF Buffer!Next
  <2>2. CASE Take(w)
    <3>1. thread[w] = "pick" /\ thread'[w] \in {"mark", "claim"} /\ taken'[w] = taken[w] + 1
      BY <2>2 DEF Take, Goto, IInv, TypeOK
    <3>2. Fetched(w)' = Fetched(w)
      BY <3>1, HandFacts DEF Fetched, InFlight
    <3> QED
      BY <2>f, <3>2, BufferStutter
  <2>3. CASE Claim(w) \/ StartFetch(w)
    <3>1. UNCHANGED taken /\ thread[w] \in InHand /\ thread'[w] \in InHand
      BY <2>3 DEF Claim, StartFetch, Goto, InHand, IInv, TypeOK
    <3>2. Fetched(w)' = Fetched(w)
      BY <3>1 DEF Fetched, InFlight, InHand
    <3> QED
      BY <2>f, <3>2, BufferStutter
  <2>4. CASE Housekeeping(w) \/ Remove(w)
    <3>1. UNCHANGED taken /\ thread[w] \notin InHand /\ thread'[w] \notin InHand
      <4>1. CASE Housekeeping(w)
        BY <4>1, HousekeepingFrame
      <4>2. CASE Remove(w)
        BY <4>2 DEF Remove, Goto, InHand, IInv, TypeOK
      <4> QED
        BY <2>4, <4>1, <4>2
    <3>2. Fetched(w)' = Fetched(w)
      BY <3>1 DEF Fetched, InFlight, InHand
    <3> QED
      BY <2>f, <3>2, BufferStutter
  <2> QED
    BY <1>2, <2>1, <2>2, <2>3, <2>4, ThreadCases
<1>3. CASE UNCHANGED vars
  BY <1>3 DEF fetched, InFlight, vars, readerVars, threadVars
<1> QED
  BY <1>1, <1>2, <1>3 DEF Next, Quiet

\* With prompt downloads, chunks of their own and an empty cache, each worker is fed by
\* a bounded buffer: read() only ever consumes a chunk that run() has fetched for it,
\* in the order of the plan, and run() never fetches more than max_pre_download ahead.
THEOREM BufferImplemented ==
    PromptDownloads /\ OwnChunks /\ ColdStart /\ Spec => ImplementsBuffer
<1>1. Init => Buffer!Init
  <2> SUFFICES ASSUME Init PROVE Buffer!Init
    OBVIOUS
  <2>1. \A w \in Workers : taken[w] - InFlight(w) = 0
    BY DEF Init, InFlight
  <2> QED
    BY <2>1 DEF Buffer!Init, Init
<1>2. ColdInv /\ [Next]_vars => [Buffer!Next]_<<fetched, retired>>
  BY BufferStep
<1> QED
  BY <1>1, <1>2, ColdInvariance, PTL DEF Spec, ImplementsBuffer, Buffer!Spec, fetched

-----------------------------------------------------------------------------
(* The limit of the cache.                                                  *)

\* The epoch finds nothing in the cache directory.
EmptyCache == WarmCaches \subseteq {{}}

\* The cache evicts what was consumed, has room for the pre-download budget of every
\* worker, and the budget is at most 2, its default.
Balanced ==
    /\ DeleteWhenProcessed
    /\ MaxPreDownload <= 2
    /\ Cardinality(Workers) * MaxPreDownload <= MaxCacheSize

\* Everything before Base(w) in the plan of w was deleted for good.
Base(w) == received[w] - Returning(w)

\* The chunks of w on disk lie within its budget, because the thread gives a chunk back
\* only once it has deleted it: nothing it received is left to be evicted, and the
\* counter says exactly how many chunks were taken and not given back.
WindowInv(w) ==
    /\ counter[w] + received[w] + Pending(w) = taken[w] + Returning(w)
    /\ Returning(w) <= received[w]
    /\ taken[w] <= Base(w) + MaxPreDownload
    /\ \A i \in DOMAIN Plan[w] : Plan[w][i] \in onDisk => i > Base(w)
    /\ IF thread[w] = "scan" THEN evicted[w] \in {received[w] - 1, received[w]}
                             ELSE evicted[w] = received[w]
    /\ thread[w] \in {"unlock", "scan"} /\ evicted[w] = received[w] =>
         Plan[w][evicted[w]] \notin onDisk

\* Only chunks of some plan are on disk.
PlannedOnly == \A c \in onDisk : \E w \in Workers : \E i \in DOMAIN Plan[w] : Plan[w][i] = c

\* A step that leaves what the thread of w has done and brings no chunk of w to the disk.
LEMMA WindowIdle ==
    ASSUME ColdInv, NEW w \in Workers, WindowInv(w), ~forced'[w],
           UNCHANGED <<thread[w], taken[w], received[w], evicted[w], counter[w]>>,
           \A i \in DOMAIN Plan[w] : Plan[w][i] \in onDisk' => Plan[w][i] \in onDisk
    PROVE  WindowInv(w)'
<1>1. ~forced[w]
  BY DEF ColdInv, PromptInv, NothingForced
<1>2. Returning(w)' = Returning(w) /\ Pending(w)' = Pending(w) /\ Base(w)' = Base(w)
  BY <1>1 DEF Returning, Pending, Base
<1>3. thread[w] \in {"unlock", "scan"} /\ evicted[w] = received[w] => evicted[w] \in DOMAIN Plan[w]
  <2>1. /\ evicted[w] \in Nat /\ received[w] \in Nat /\ received[w] <= Len(Plan[w])
        /\ DOMAIN Plan[w] = 1 .. Len(Plan[w]) /\ Len(Plan[w]) \in Nat
    BY HandFacts DEF ColdInv, PromptInv
  <2>2. thread[w] \in {"unlock", "scan"} => received[w] >= 1
    BY <1>1, <2>1 DEF WindowInv, Returning
  <2> QED
    BY <2>1, <2>2
<1> QED
  BY <1>2, <1>3 DEF WindowInv

\* The steps of the thread itself.
LEMMA WindowOwn ==
    ASSUME Balanced, ColdInv, ColdInv', NEW w \in Workers, WindowInv(w), ThreadStep(w)
    PROVE  WindowInv(w)'
<1> USE DEF ColdInv, PromptInv
<1>t. /\ taken[w] \in Nat /\ received[w] \in Nat /\ evicted[w] \in Nat /\ counter[w] \in Nat
      /\ retired[w] \in Nat /\ received[w] <= retired[w] /\ retired[w] <= Len(Plan[w])
      /\ DOMAIN Plan[w] = 1 .. Len(Plan[w]) /\ Len(Plan[w]) \in Nat
      /\ MaxPreDownload \in Nat /\ MaxPreDownload >= 1
      /\ ~forced[w] /\ ~forced'[w]
      /\ retired[w] <= taken[w] - InFlight(w)
  BY HandFacts, SizeAssumption DEF NothingForced, FetchInv, Fetched
<1> DEFINE t == thread[w]
           tt == thread'[w]
           Same == UNCHANGED <<taken[w], received[w], evicted[w], counter[w], onDisk>>
\* Where the thread is decides what is pending and what is given back.
<1>p. /\ Pending(w) = IF t \in InHand THEN 1 ELSE 0
      /\ Pending(w)' = IF tt \in InHand THEN 1 ELSE 0
      /\ Returning(w) = IF t \in {"scan", "delete", "remove", "unlock"} THEN 1 ELSE 0
      /\ Returning(w)' = IF tt \in {"scan", "delete", "remove", "unlock"} THEN 1 ELSE 0
      /\ InFlight(w) = IF t \in InHand THEN 1 ELSE 0
  BY <1>t DEF Pending, Returning, InHand, InFlight
<1>1. CASE ObeyForceStop(w) \/ NoneForced(w) \/ TakeEnd(w) \/ TakeNothing(w) \/ ReceiveNothing(w)
  <2>1. /\ Same /\ t \in {"top", "pick", "receive"} /\ tt \in {"top", "pick", "receive", "exited"}
    BY <1>1 DEF ObeyForceStop, NoneForced, TakeEnd, TakeNothing, ReceiveNothing, Goto, Maintain,
                AfterMaintenance, shared, IInv, TypeOK
  <2> QED
    BY <1>p, <2>1 DEF WindowInv, Base, InHand
<1>2. CASE Take(w)
  <2>1. /\ UNCHANGED <<received[w], evicted[w], counter[w], onDisk>> /\ taken'[w] = taken[w] + 1
        /\ t = "pick" /\ tt \in {"mark", "claim"} /\ counter[w] < MaxPreDownload
    BY <1>2 DEF Take, Goto, shared, IInv, TypeOK
  <2> QED
    BY SMTT(30), <1>t, <1>p, <2>1 DEF WindowInv, Base, InHand
<1>3. CASE Claim(w) \/ StartFetch(w)
  <2>1. Same /\ t \in {"claim", "fetch"} /\ tt \in {"fetch", "copy"}
    BY <1>3 DEF Claim, StartFetch, Goto, shared, IInv, TypeOK
  <2> QED
    BY <1>p, <2>1 DEF WindowInv, Base, InHand
<1>4. CASE Mark(w) \/ SkipFetch(w) \/ EndFetch(w)
  <2>1. /\ t \in InHand /\ Downloaded(w) /\ UNCHANGED <<taken, received, evicted>>
        /\ onDisk' \in {onDisk, onDisk \union {target[w]}}
    BY <1>4 DEF Mark, SkipFetch, EndFetch, InHand, shared
  <2>2. tt \in {"top", "pick", "receive"} /\ counter'[w] = counter[w] + 1
    BY <2>1 DEF Downloaded, Goto, Maintain, IInv, TypeOK
  <2>3. \A i \in DOMAIN Plan[w] : Plan[w][i] \in onDisk' => i > received[w]
    <3>1. target[w] = Plan[w][taken[w]] /\ taken[w] \in DOMAIN Plan[w]
      BY <2>1, HandFacts
    <3>2. \A i \in DOMAIN Plan[w] : Plan[w][i] = target[w] => i = taken[w]
      BY <3>1, PlanAssumption
    <3>3. taken[w] > received[w]
      <4>1. InFlight(w) = 1
        BY <1>p, <2>1
      <4> HIDE DEF t, tt
      <4> QED BY <1>t, <4>1
    <3>4. \A i \in DOMAIN Plan[w] : Plan[w][i] \in onDisk => i > received[w]
      <4>1. Base(w) = received[w]
        <5>1. Returning(w) = 0
          BY <1>p, <2>1 DEF InHand
        <5> QED BY <1>t, <5>1 DEF Base
      <4>2. \A i \in DOMAIN Plan[w] : Plan[w][i] \in onDisk => i > Base(w)
        BY DEF WindowInv
      <4> QED BY <4>1, <4>2
    <3> QED
      BY <2>1, <3>2, <3>3, <3>4
  <2>4. /\ counter[w] + received[w] + 1 = taken[w] /\ taken[w] <= received[w] + MaxPreDownload
        /\ evicted[w] = received[w]
    <3>1. Pending(w) = 1 /\ Returning(w) = 0 /\ t # "scan"
      BY <1>p, <2>1 DEF InHand
    <3>2. Base(w) = received[w]
      BY <1>t, <3>1 DEF Base
    <3>3. /\ counter[w] + received[w] + Pending(w) = taken[w] + Returning(w)
          /\ taken[w] <= Base(w) + MaxPreDownload /\ evicted[w] = received[w]
      BY <3>1 DEF WindowInv
    <3> QED BY <1>t, <3>1, <3>2, <3>3
  <2>5. Pending(w)' = 0 /\ Returning(w)' = 0 /\ Base(w)' = received[w]
    <3>1. Pending(w)' = 0 /\ Returning(w)' = 0
      BY <1>p, <2>2 DEF InHand
    <3>2. received'[w] = received[w]
      BY <2>1
    <3>3. Base(w)' = received'[w] - Returning(w)'
      BY DEF Base
    <3> QED BY <1>t, <3>1, <3>2, <3>3
  <2>6. /\ taken'[w] = taken[w] /\ received'[w] = received[w] /\ evicted'[w] = evicted[w]
        /\ counter'[w] + received[w] = taken[w] /\ tt \notin {"scan", "unlock"}
    BY <1>t, <2>1, <2>2, <2>4
  <2> QED
    BY <1>t, <2>3, <2>4, <2>5, <2>6 DEF WindowInv
<1>5. CASE Receive(w)
  <2>1. /\ UNCHANGED <<taken[w], evicted[w], counter[w], onDisk>> /\ received'[w] = received[w] + 1
        /\ t = "receive" /\ tt = "scan"
    BY <1>5 DEF Receive, Goto, shared, IInv, TypeOK
  <2>2. /\ counter[w] + received[w] = taken[w] /\ taken[w] <= received[w] + MaxPreDownload
        /\ evicted[w] = received[w] /\ Base(w) = received[w]
    BY <1>t, <1>p, <2>1 DEF WindowInv, Base, InHand
  <2>3. Pending(w)' = 0 /\ Returning(w)' = 1 /\ Base(w)' = received[w]
    BY <1>t, <1>p, <2>1 DEF Base, InHand
  <2>4. /\ counter'[w] + received'[w] = taken'[w] + 1 /\ 1 <= received'[w]
        /\ evicted'[w] = received'[w] - 1 /\ evicted'[w] # received'[w]
    <3>1. /\ counter'[w] = counter[w] /\ taken'[w] = taken[w] /\ evicted'[w] = evicted[w]
          /\ received'[w] = received[w] + 1
      BY <2>1
    <3>2. received[w] \in Nat /\ counter[w] \in Nat /\ taken[w] \in Nat /\ evicted[w] \in Nat
      BY <1>t
    <3> QED
      BY <2>2, <3>1, <3>2
  <2>5. \A i \in DOMAIN Plan[w] : Plan[w][i] \in onDisk' => i > received[w]
    BY <2>1, <2>2 DEF WindowInv
  <2> QED
    BY <1>t, <2>1, <2>2, <2>3, <2>4, <2>5 DEF WindowInv
<1>6. CASE Pop(w)
  <2>1. evicted[w] < received[w] /\ t = "scan" /\ evicted'[w] = evicted[w] + 1 /\ UNCHANGED <<onDisk>>
        /\ UNCHANGED <<taken[w], received[w], counter[w]>>
    BY <1>6 DEF Pop, shared, IInv, TypeOK
  <2>2. evicted[w] + 1 = received[w] /\ evicted[w] + 1 \in DOMAIN Plan[w]
    BY SMTT(30), <1>t, <2>1 DEF WindowInv
  <2>3. lockCount[Plan[w][evicted[w] + 1]] = 0
    <3>1. ~Counted(w, evicted[w] + 1)
      BY <1>t, <2>2 DEF Counted
    <3> QED
      BY <2>2, <3>1 DEF CountInv
  <2>4. tt = "delete"
    BY <1>6, <2>3 DEF Pop, Goto, IInv, TypeOK
  <2> QED
    BY <1>t, <1>p, <2>1, <2>2, <2>4 DEF WindowInv, Base, InHand
<1>7. CASE EndScan(w)
  <2>1. /\ UNCHANGED <<taken[w], received[w], evicted[w], onDisk>> /\ counter'[w] = counter[w] - 1
        /\ t = "scan" /\ tt \in {"top", "exited"} /\ (evicted[w] = received[w] \/ MayKeep(w))
    BY <1>7 DEF EndScan, AfterMaintenance, Goto, shared, IInv, TypeOK
  <2>2. counter[w] >= 1
    BY <1>t, <1>p, <2>1 DEF WindowInv, InHand
  <2>3. ~MayKeep(w)
    BY <1>t, <2>2 DEF MayKeep, Balanced, EnoughPrefetched
  <2>4. evicted[w] = received[w] /\ Plan[w][received[w]] \notin onDisk
    BY <2>1, <2>3 DEF WindowInv
  <2>5. \A i \in DOMAIN Plan[w] : Plan[w][i] \in onDisk => i > received[w]
    <3>1. \A i \in DOMAIN Plan[w] : Plan[w][i] \in onDisk => i > received[w] - 1
      BY <1>p, <2>1 DEF WindowInv, Base
    <3> QED
      BY <1>t, <2>4, <3>1
  <2>6. /\ counter[w] + received[w] = taken[w] + 1
        /\ taken[w] <= received[w] - 1 + MaxPreDownload
    BY <1>t, <1>p, <2>1 DEF WindowInv, Base, InHand
  <2>7. Pending(w)' = 0 /\ Returning(w)' = 0 /\ Base(w)' = received[w]
    BY <1>t, <1>p, <2>1 DEF Base, InHand
  <2>8. /\ counter'[w] + received'[w] = taken'[w] /\ taken'[w] <= received[w] + MaxPreDownload
        /\ tt \notin {"scan", "unlock"} /\ evicted'[w] = received'[w]
    <3>1. /\ counter'[w] = counter[w] - 1 /\ taken'[w] = taken[w] /\ evicted'[w] = evicted[w]
          /\ received'[w] = received[w] /\ tt \in {"top", "exited"}
      BY <2>1
    <3>2. received[w] \in Nat /\ counter[w] \in Nat /\ taken[w] \in Nat /\ MaxPreDownload \in Nat
      BY <1>t
    <3> QED
      BY <2>4, <2>6, <3>1, <3>2
  <2> QED
    BY <1>t, <2>1, <2>5, <2>7, <2>8 DEF WindowInv
<1>8. CASE Delete(w)
  <2>1. Same /\ t = "delete" /\ tt = IF target[w] \in onDisk THEN "remove" ELSE "unlock"
    BY <1>8 DEF Delete, Goto, shared, IInv, TypeOK
  <2>2. target[w] = Plan[w][evicted[w]]
    BY <2>1, HandFacts
  <2> QED
    BY <1>p, <2>1, <2>2 DEF WindowInv, Base, InHand
<1>9. CASE Remove(w)
  <2>1. /\ UNCHANGED <<taken[w], received[w], evicted[w], counter[w]>> /\ t = "remove"
        /\ onDisk' = onDisk \ {target[w]} /\ tt \in {"unlock", "crashed"}
    BY <1>9 DEF Remove, Goto, IInv, TypeOK
  <2>2. target[w] = Plan[w][evicted[w]] /\ tt # "crashed"
    BY <2>1, HandFacts DEF SeenStays
  <2> QED
    BY <1>p, <2>1, <2>2 DEF WindowInv, Base, InHand
<1>10. CASE Unlock(w)
  <2>1. Same /\ t = "unlock" /\ tt = "scan"
    BY <1>t, <1>10 DEF Unlock, Goto, IInv, TypeOK
  <2> QED
    BY <1>t, <1>p, <2>1 DEF WindowInv, Base, InHand
<1> QED
  BY <1>1, <1>2, <1>3, <1>4, <1>5, <1>6, <1>7, <1>8, <1>9, <1>10, ThreadFrame DEF ThreadStep

LEMMA WindowStep ==
    ASSUME Balanced, ColdInv, ColdInv', NEW w \in Workers, WindowInv(w), [Next]_vars
    PROVE  WindowInv(w)'
<1> USE DEF ColdInv, PromptInv
<1>0. ~forced'[w]
  BY DEF NothingForced
<1>1. ASSUME NEW v \in Workers, ReaderStep(v) \/ Abandon(v) PROVE WindowInv(w)'
  BY <1>0, <1>1, ReaderFrame, WindowIdle DEF threadVars
<1>2. ASSUME NEW v \in Workers, ThreadStep(v), v # w PROVE WindowInv(w)'
  <2>1. \A i \in DOMAIN Plan[w] : Plan[w][i] \in onDisk' => Plan[w][i] \in onDisk
    <3>1. CASE EndFetch(v)
      <4>1. onDisk' = onDisk \union {target[v]} /\ thread[v] \in InHand
        BY <3>1 DEF EndFetch, InHand
      <4>2. \A i \in DOMAIN Plan[w] : Plan[w][i] # target[v]
        BY SMTT(30), <1>2, <4>1, HandFacts DEF OwnChunks
      <4> QED
        BY <4>1, <4>2
    <3>2. CASE ~EndFetch(v)
      <4>1. Housekeeping(v) => UNCHANGED onDisk
        BY HousekeepingFrame
      <4> QED
        BY <1>2, <3>2, <4>1, ThreadCases DEF Take, Claim, StartFetch, Mark, SkipFetch, Remove, shared
    <3> QED
      BY <3>1, <3>2
  <2> QED
    BY <1>0, <1>2, <2>1, ThreadFrame, WindowIdle
<1>3. CASE UNCHANGED vars
  BY <1>0, <1>3, WindowIdle DEF vars, shared, threadVars
<1> QED
  BY <1>1, <1>2, <1>3, WindowOwn DEF Next, Quiet

LEMMA PlannedStep ==
    ASSUME ColdInv, PlannedOnly, [Next]_vars
    PROVE  PlannedOnly'
<1> USE DEF ColdInv, PromptInv
<1>1. ASSUME NEW w \in Workers, ReaderStep(w) \/ Abandon(w) PROVE PlannedOnly'
  BY <1>1, ReaderFrame DEF PlannedOnly
<1>2. ASSUME NEW w \in Workers, ThreadStep(w) PROVE PlannedOnly'
  <2>1. CASE EndFetch(w)
    <3>1. onDisk' = onDisk \union {target[w]} /\ thread[w] \in InHand
      BY <2>1 DEF EndFetch, InHand
    <3>2. taken[w] \in DOMAIN Plan[w] /\ target[w] = Plan[w][taken[w]]
      BY <3>1, HandFacts
    <3> QED
      BY <3>1, <3>2 DEF PlannedOnly
  <2>2. CASE ~EndFetch(w)
    <3>1. Housekeeping(w) => UNCHANGED onDisk
      BY HousekeepingFrame
    <3>2. onDisk' \subseteq onDisk
      BY <1>2, <2>2, <3>1, ThreadCases DEF Take, Claim, StartFetch, Mark, SkipFetch, Remove, shared
    <3> QED
      BY <3>2 DEF PlannedOnly
  <2> QED
    BY <2>1, <2>2
<1>3. CASE UNCHANGED vars
  BY <1>3 DEF PlannedOnly, vars, shared
<1> QED
  BY <1>1, <1>2, <1>3 DEF Next, Quiet

\* Chunks within the windows of the workers are at most as many as the places there.
LEMMA WindowsFit ==
    ASSUME Balanced, ColdInv, PlannedOnly, \A w \in Workers : WindowInv(w)
    PROVE  CacheWithinLimit
<1> DEFINE Places == Workers \X (1 .. MaxPreDownload)
           At(c, p) == /\ p[2] + Base(p[1]) \in DOMAIN Plan[p[1]]
                       /\ Plan[p[1]][p[2] + Base(p[1])] = c
           place == [c \in onDisk |-> CHOOSE p \in Places : At(c, p)]
<1>m. MaxPreDownload \in Nat /\ MaxCacheSize \in Nat
  BY SizeAssumption
<1>1. ASSUME NEW c \in onDisk PROVE \E p \in Places : At(c, p)
  <2>1. PICK w \in Workers : \E i \in DOMAIN Plan[w] : Plan[w][i] = c
    BY DEF PlannedOnly
  <2>2. PICK i \in DOMAIN Plan[w] : Plan[w][i] = c
    BY <2>1
  <2>3. /\ taken[w] \in Nat /\ Base(w) \in Int /\ i \in Int
        /\ Fetched(w) <= taken[w] /\ Fetched(w) \in Nat
    BY HandFacts, FetchedType DEF ColdInv, PromptInv, Base, Returning
  <2>4. i <= Fetched(w) /\ i > Base(w) /\ taken[w] <= Base(w) + MaxPreDownload
    BY <2>2 DEF ColdInv, FetchInv, WindowInv
  <2>5. i - Base(w) \in 1 .. MaxPreDownload /\ (i - Base(w)) + Base(w) = i
    BY <1>m, <2>3, <2>4
  <2>6. <<w, i - Base(w)>> \in Places /\ At(c, <<w, i - Base(w)>>)
    BY <2>2, <2>5
  <2> QED
    BY <2>6
<1>2. \A c \in onDisk : place[c] \in Places /\ At(c, place[c])
  <2> HIDE DEF Places, At
  <2> QED
    BY <1>1
<1>3. place \in Injection(onDisk, Places)
  <2>1. place \in [onDisk -> Places]
    BY <1>2
  <2>2. \A a, b \in onDisk : place[a] = place[b] => a = b
    <3> HIDE DEF place, Places
    <3> QED
      BY <1>2
  <2> HIDE DEF place, Places
  <2> QED
    BY <2>1, <2>2 DEF Injection, IsInjective
<1>4. IsFiniteSet(Places) /\ Cardinality(Places) = Cardinality(Workers) * MaxPreDownload
  <2>1. IsFiniteSet(1 .. MaxPreDownload) /\ Cardinality(1 .. MaxPreDownload) = MaxPreDownload
    BY <1>m, FS_Interval
  <2>2. IsFiniteSet(Workers)
    BY PlanAssumption
  <2> QED
    BY <2>1, <2>2, FS_Product
<1>5. IsFiniteSet(onDisk) /\ Cardinality(onDisk) <= Cardinality(Places)
  <2> HIDE DEF place, Places
  <2> QED
    BY <1>3, <1>4, FS_Injection
<1>6. Cardinality(Places) <= MaxCacheSize
  BY <1>4 DEF Balanced
<1>7. Cardinality(onDisk) \in Nat /\ Cardinality(Places) \in Nat
  BY <1>4, <1>5, FS_CardinalityType
<1> HIDE DEF Places
<1> QED
  BY <1>m, <1>5, <1>6, <1>7 DEF CacheWithinLimit

\* With prompt downloads, chunks of their own and an empty cache, and with room for
\* the default budget of 2 per worker, the chunk files never exceed max_cache_size:
\* a thread gives back no chunk of its budget before it has deleted one, since
\* _can_delete_chunk never keeps what was received. The run cache_limit shows that
\* this fails with a larger budget.
THEOREM LimitKept ==
    PromptDownloads /\ OwnChunks /\ EmptyCache /\ Balanced /\ Spec => []CacheWithinLimit
<1> DEFINE Inv == Balanced /\ PlannedOnly /\ \A w \in Workers : WindowInv(w)
<1>1. EmptyCache => ColdStart
  BY DEF EmptyCache, ColdStart
<1>2. EmptyCache /\ Balanced /\ Init /\ ColdInv => Inv
  <2> SUFFICES ASSUME EmptyCache, Balanced, Init, ColdInv PROVE Inv
    OBVIOUS
  <2>1. onDisk = {}
    BY DEF EmptyCache, Init
  <2>2. ASSUME NEW w \in Workers PROVE WindowInv(w)
    BY <2>1, SizeAssumption DEF Init, WindowInv, Base, Pending, Returning
  <2> QED
    BY <2>1, <2>2 DEF PlannedOnly
<1>3. ColdInv /\ ColdInv' /\ Inv /\ [Next]_vars => Inv'
  <2> SUFFICES ASSUME ColdInv, ColdInv', Inv, [Next]_vars PROVE Inv'
    OBVIOUS
  <2>1. \A w \in Workers : WindowInv(w)'
    BY WindowStep
  <2>2. PlannedOnly'
    BY PlannedStep
  <2> QED
    BY <2>1, <2>2 DEF Balanced, DeleteWhenProcessed
<1>4. ColdInv /\ Inv => CacheWithinLimit
  BY WindowsFit
<1> HIDE DEF Inv
<1> QED
  BY <1>1, <1>2, <1>3, <1>4, ColdInvariance, PTL DEF Spec
=============================================================================
