------------------------- MODULE MappedItemsProofs -------------------------
(***************************************************************************)
(* Theorems about MappedItems, for every way a worker may read its chunks:   *)
(* the chunk it is in stays mapped, and a low-memory loader keeps no rows of  *)
(* the chunks it has left.                                                   *)
(***************************************************************************)
EXTENDS MappedItems, SequenceProofs

ReaderActs ==
    ReaderStep \/ Count("reader") \/ Map("reader") \/ View("reader")
ThreadActs ==
    ThreadStep \/ Count("thread") \/ Map("thread") \/ View("thread")

LEMMA TwoThreads == ReadingNext => ReaderActs \/ ThreadActs
  BY DEF ReadingNext, ReaderActs, ThreadActs, Threads

-----------------------------------------------------------------------------
(* What the variables hold. *)

Handing == {"release", "close", "unbuffer", "unmap", "enter", "end", "join", "give"}
Loading == {"count", "map", "view"}
Deleting == {"delete", "last delete"}
Cleaning == {"clean", "last clean"}

Items0 == Indexes \X Nat

TableTypes ==
    /\ reading \in ReadJobs
    /\ here \subseteq Indexes
    /\ counter \in [Indexes -> Int]
    /\ mmap \in [Indexes -> Nat] /\ buffer \in [Indexes -> Nat]
    /\ IsFiniteSet(mapped)
    /\ groups = [c \in Indexes |-> groups[c]]
    /\ at = [t \in Threads |-> at[t]] /\ own \in [Threads -> Nat]

ReaderTypes ==
    /\ now \in Indexes /\ last \in Indexes \union {None} /\ epoch \in Nat
    /\ at["reader"] \in Handing => item \in Items0 /\ item[1] = now
    /\ item[2] \in Nat
    /\ batch \in Seq(Items0) /\ Len(batch) <= reading.batch
    /\ at["reader"] # "collate" => Len(batch) < reading.batch

ThreadTypes ==
    /\ waiting \in Seq(Indexes \union {End}) /\ released \in Seq(Indexes)
    /\ doomed \in Seq(Indexes) /\ forced \in Seq(Indexes)
    /\ at["thread"] \in Loading => fetching \in Indexes
    /\ at["thread"] \in Deleting => doomed # << >> /\ reading.evicts
    /\ at["thread"] = "refetch" => forced # << >>
    /\ ~reading.remote => at["thread"] = "none" /\ here = Indexes
    /\ ~wasForced => forced = << >> /\ at["thread"] # "refetch"

Types == TableTypes /\ ReaderTypes /\ ThreadTypes

LEMMA JobFacts ==
    ASSUME ReadJobAssumption, reading \in ReadJobs
    PROVE  /\ reading.size \in Seq(Nat) /\ Len(reading.size) \in Nat \ {0}
           /\ Indexes = 1 .. Len(reading.size) /\ 1 \in Indexes /\ Len(reading.size) \in Indexes
           /\ reading.batch \in Nat \ {0}
<1>1. reading.size \in Seq(Nat) \ {<< >>} /\ reading.batch \in Nat \ {0}
  BY DEF ReadJobAssumption
<1>2. Indexes = 1 .. Len(reading.size) /\ Len(reading.size) \in Nat \ {0}
  BY <1>1 DEF Indexes
<1> QED BY <1>1, <1>2

\* A mapping that is made gets a number of its own.
LEMMA SmallerImage ==
    ASSUME NEW S, IsFiniteSet(S), NEW f, DOMAIN f = S, f = [x \in S |-> f[x]]
    PROVE  /\ IsFiniteSet({f[x] : x \in S})
           /\ Cardinality({f[x] : x \in S}) \in Nat
           /\ Cardinality({f[x] : x \in S}) <= Cardinality(S)
<1>1. f \in Surjection(S, {f[x] : x \in S})
  BY DEF Surjection
<1>2. /\ IsFiniteSet({f[x] : x \in S})
      /\ Cardinality({f[x] : x \in S}) <= Cardinality(S)
  BY <1>1, FS_Surjection
<1> QED BY <1>2, FS_CardinalityType

LEMMA UnionAtMost ==
    ASSUME NEW S, IsFiniteSet(S), NEW T, IsFiniteSet(T), NEW a \in Nat, NEW b \in Nat,
           Cardinality(S) <= a, Cardinality(T) <= b
    PROVE  IsFiniteSet(S \union T) /\ Cardinality(S \union T) <= a + b
<1>1. /\ IsFiniteSet(S \union T) /\ IsFiniteSet(S \cap T)
      /\ Cardinality(S \union T) = Cardinality(S) + Cardinality(T) - Cardinality(S \cap T)
  <2>1. IsFiniteSet(S \cap T)
    BY FS_Subset
  <2> QED BY <2>1, FS_Union
<1>2. /\ Cardinality(S) \in Nat /\ Cardinality(T) \in Nat /\ Cardinality(S \cap T) \in Nat
  BY <1>1, FS_CardinalityType
<1> QED BY <1>1, <1>2

LEMMA OneAtMost == ASSUME NEW x PROVE IsFiniteSet({x}) /\ Cardinality({x}) <= 1
<1>1. IsFiniteSet({}) /\ Cardinality({}) = 0
  BY FS_EmptySet
<1>2. IsFiniteSet({} \union {x}) /\ Cardinality({} \union {x}) = 1
  BY <1>1, FS_AddElement
<1>3. {} \union {x} = {x}
  OBVIOUS
<1> QED BY <1>2, <1>3

LEMMA AddOneAtMost ==
    ASSUME NEW S, IsFiniteSet(S), NEW x, NEW a \in Nat, Cardinality(S) <= a,
           NEW b, b = a + 1
    PROVE  IsFiniteSet(S \union {x}) /\ Cardinality(S \union {x}) <= b
  BY OneAtMost, UnionAtMost

LEMMA FiveAtMost ==
    ASSUME NEW a, NEW b, NEW c, NEW d, NEW e
    PROVE  IsFiniteSet({a, b, c, d, e}) /\ Cardinality({a, b, c, d, e}) <= 5
<1> DEFINE B == {a} \union {b}
           C == B \union {c}
           D == C \union {d}
           E == D \union {e}
<1>1. IsFiniteSet({a}) /\ Cardinality({a}) <= 1
  BY OneAtMost
<1>2. IsFiniteSet(B) /\ Cardinality(B) <= 2
  <2>1. 1 \in Nat /\ 2 = 1 + 1
    OBVIOUS
  <2> QED BY <1>1, <2>1, AddOneAtMost
<1>3. IsFiniteSet(C) /\ Cardinality(C) <= 3
  <2> HIDE DEF B
  <2>1. 2 \in Nat /\ 3 = 2 + 1
    OBVIOUS
  <2> QED BY <1>2, <2>1, AddOneAtMost
<1>4. IsFiniteSet(D) /\ Cardinality(D) <= 4
  <2> HIDE DEF C
  <2>1. 3 \in Nat /\ 4 = 3 + 1
    OBVIOUS
  <2> QED BY <1>3, <2>1, AddOneAtMost
<1>5. IsFiniteSet(E) /\ Cardinality(E) <= 5
  <2> HIDE DEF D
  <2>1. 4 \in Nat /\ 5 = 4 + 1
    OBVIOUS
  <2> QED BY <1>4, <2>1, AddOneAtMost
<1>6. E = {a, b, c, d, e}
  OBVIOUS
<1> HIDE DEF E
<1> QED BY <1>5, <1>6

\* Of more numbers than a set has members one is not in it.
LEMMA OneIsFree ==
    ASSUME NEW T, IsFiniteSet(T), NEW n \in Nat, Cardinality(T) < n
    PROVE  \E i \in 1 .. n : i \notin T
<1> SUFFICES ASSUME 1 .. n \subseteq T PROVE FALSE
  OBVIOUS
<1>1. IsFiniteSet(1 .. n) /\ Cardinality(1 .. n) = n
  <2>1. IsFiniteSet(1 .. n) /\ Cardinality(1 .. n) = IF 1 > n THEN 0 ELSE n - 1 + 1
    BY FS_Interval
  <2> QED BY <2>1
<1>2. Cardinality(1 .. n) <= Cardinality(T)
  BY FS_Subset
<1>3. Cardinality(T) \in Nat
  BY FS_CardinalityType
<1> QED BY <1>1, <1>2, <1>3

\* A mapping that is made gets a number of its own.
LEMMA FreshNumber ==
    ASSUME ReadJobAssumption, Types, NEW c \in Indexes
    PROVE  Unused(c) \in Nat \ {0} /\ <<c, Unused(c)>> \notin mapped
<1> DEFINE N == Cardinality(mapped) + reading.batch + 6
           Of == {[m \in mapped |-> m[2]][x] : x \in mapped}
           In == {[p \in 1 .. Len(batch) |-> batch[p][2]][x] : x \in 1 .. Len(batch)}
           Few == {item[2], buffer[c], mmap[c], own["reader"], own["thread"]}
           Taken == (Of \union In) \union Few
           Free == {n \in 1 .. Cardinality(mapped) + reading.batch + 6 :
                       /\ <<c, n>> \notin mapped
                       /\ \A p \in DOMAIN batch : batch[p] # <<c, n>>
                       /\ item # <<c, n>> /\ buffer[c] # n /\ mmap[c] # n
                       /\ \A t \in Threads : own[t] # n}
<1>1. IsFiniteSet(mapped) /\ Cardinality(mapped) \in Nat
  BY FS_CardinalityType DEF Types, TableTypes
<1>2. reading.batch \in Nat \ {0} /\ Len(batch) \in Nat /\ Len(batch) <= reading.batch
      /\ DOMAIN batch = 1 .. Len(batch)
  <2>1. batch \in Seq(Items0) /\ Len(batch) <= reading.batch
    BY DEF Types, ReaderTypes
  <2>2. Len(batch) \in Nat /\ DOMAIN batch = 1 .. Len(batch)
    BY <2>1
  <2> QED BY <2>1, <2>2, JobFacts DEF Types, TableTypes
<1>3. IsFiniteSet(Of) /\ Cardinality(Of) <= Cardinality(mapped)
  BY <1>1, SmallerImage
<1>4. IsFiniteSet(In) /\ Cardinality(In) <= reading.batch
  <2>1. IsFiniteSet(1 .. Len(batch)) /\ Cardinality(1 .. Len(batch)) = Len(batch)
    <3>1. IsFiniteSet(1 .. Len(batch)) /\ Cardinality(1 .. Len(batch)) = IF 1 > Len(batch) THEN 0 ELSE Len(batch) - 1 + 1
      <4>1. 1 \in Int /\ Len(batch) \in Int
        BY <1>2
      <4> QED BY <4>1, FS_Interval
    <3> QED BY <1>2, <3>1
  <2>2. IsFiniteSet(In) /\ Cardinality(In) \in Nat /\ Cardinality(In) <= Cardinality(1 .. Len(batch))
    BY <2>1, SmallerImage
  <2> HIDE DEF In
  <2> QED BY <1>2, <2>1, <2>2
<1>5. IsFiniteSet(Few) /\ Cardinality(Few) <= 5
  BY FiveAtMost
<1> HIDE DEF Of, In, Few
<1>6. IsFiniteSet(Of \union In) /\ Cardinality(Of \union In) <= Cardinality(mapped) + reading.batch
  BY <1>1, <1>2, <1>3, <1>4, UnionAtMost
<1>7. IsFiniteSet(Taken) /\ Cardinality(Taken) <= (Cardinality(mapped) + reading.batch) + 5
  <2>1. Cardinality(mapped) + reading.batch \in Nat
    BY <1>1, <1>2
  <2> QED BY <1>5, <1>6, <2>1, UnionAtMost
<1>8. PICK i \in 1 .. N : i \notin Taken
  <2>1. Cardinality(Taken) \in Nat
    BY <1>7, FS_CardinalityType
  <2> HIDE DEF Taken
  <2>2. N \in Nat /\ Cardinality(Taken) < N
    BY <1>1, <1>2, <1>7, <2>1
  <2> HIDE DEF N
  <2> QED BY <1>7, <2>2, OneIsFree
<1>9. i \in Free
  <2>1. <<c, i>> \notin mapped
    <3> SUFFICES ASSUME <<c, i>> \in mapped PROVE FALSE
      OBVIOUS
    <3>1. i \in Of
      BY DEF Of
    <3> QED BY <1>8, <3>1
  <2>2. \A p \in DOMAIN batch : batch[p] # <<c, i>>
    <3> SUFFICES ASSUME NEW p \in DOMAIN batch, batch[p] = <<c, i>> PROVE FALSE
      OBVIOUS
    <3>1. i \in In
      BY <1>2 DEF In
    <3> QED BY <1>8, <3>1
  <2>3. item # <<c, i>> /\ buffer[c] # i /\ mmap[c] # i /\ \A t \in Threads : own[t] # i
    BY <1>8 DEF Few, Threads
  <2> QED BY <1>8, <2>1, <2>2, <2>3
<1>10. Free \subseteq Nat /\ Free # {}
  <2>1. N \in Nat
    BY <1>1, <1>2
  <2>2. Free \subseteq 1 .. N
    OBVIOUS
  <2> QED BY <1>9, <2>1, <2>2
<1>11. Min(Free) \in Free
  BY <1>10, SmallestIn DEF Min
<1>12. Unused(c) = Min(Free)
  BY DEF Unused
<1> QED BY <1>1, <1>2, <1>11, <1>12

-----------------------------------------------------------------------------
(* The types are kept. *)

LEMMA Same ==
    ASSUME ReadingNext
    PROVE  reading' = reading /\ Indexes' = Indexes /\ Tokens' = Tokens
<1>1. reading' = reading
  BY DEF ReadingNext, ReaderStep, ThreadStep, NextItem, Find, ForceDownload, TakeBlock, TakeRow,
         Release, Close, CloseBuffer, CloseMapping, Enter, EndEpoch, Join, Give, Collate, Download,
         ScanParquet, Downloaded, ReceiveEnd, Skip, Evict, Keep, DeleteBuffer, Delete, Cleaned,
         Refetch, Refetched, Count, Map, View
<1> QED BY <1>1 DEF Indexes, Tokens

\* Where the thread that takes a step gets to, and where the other one stays.
LEMMA Moves ==
    ASSUME TableTypes, NEW t \in Threads, NEW l, Goto(t, l)
    PROVE  /\ at' = [s \in Threads |-> at'[s]] /\ at'[t] = l
           /\ \A u \in Threads \ {t} : at'[u] = at[u]
  BY DEF TableTypes, Goto

\* A step of the prepare thread leaves the reader alone.
LEMMA ThreadKeeps ==
    ASSUME TableTypes, ThreadActs
    PROVE  /\ UNCHANGED <<reading, reader>> /\ at'["reader"] = at["reader"]
           /\ at["thread"] # "none" /\ at'["thread"] # "none"
           /\ at' = [t \in Threads |-> at'[t]]
<1>1. "thread" \in Threads /\ "reader" \in Threads
  BY DEF Threads
<1>0. at = [t \in Threads |-> at[t]]
  BY DEF TableTypes
<1> USE <1>0, <1>1 DEF Goto, reader
<1>2. CASE Count("thread") \/ Map("thread") \/ View("thread")
  BY <1>2 DEF Count, Map, View, After
<1>3. CASE Download \/ Refetched
  BY <1>3 DEF Download, Refetched, Fetched
<1>4. CASE ScanParquet \/ Downloaded \/ ReceiveEnd \/ Skip
  BY <1>4 DEF ScanParquet, Downloaded, ReceiveEnd, Skip
<1>5. CASE Evict \/ Keep \/ DeleteBuffer \/ Delete
  BY <1>5 DEF Evict, Keep, DeleteBuffer, Delete, Drop
<1>6. CASE Cleaned \/ Refetch
  BY <1>6 DEF Cleaned, Refetch, Drop
<1> QED BY <1>2, <1>3, <1>4, <1>5, <1>6 DEF ThreadActs, ThreadStep

\* A step of the reader but the first of an epoch and the end of one leaves the thread
\* where it is.
LEMMA ReaderKeeps ==
    ASSUME TableTypes, ReaderActs
    PROVE  /\ UNCHANGED <<reading, here, doomed, urgent>> \/ NextItem
           /\ at'["thread"] = at["thread"] \/ NextItem \/ Join
           /\ at' = [t \in Threads |-> at'[t]]
<1>1. "thread" \in Threads /\ "reader" \in Threads
  BY DEF Threads
<1>0. at = [t \in Threads |-> at[t]]
  BY DEF TableTypes
<1> USE <1>0, <1>1 DEF Goto, thread, tables
<1>2. CASE Count("reader") \/ Map("reader") \/ View("reader")
  BY <1>2 DEF Count, Map, View, After
<1>3. CASE NextItem
  BY <1>3 DEF NextItem
<1>4. CASE Find \/ ForceDownload \/ TakeBlock \/ TakeRow
  BY <1>4 DEF Find, ForceDownload, TakeBlock, TakeRow
<1>5. CASE Release
  BY <1>5 DEF Release
<1>6. CASE Close \/ CloseBuffer \/ CloseMapping
  BY <1>6 DEF Close, CloseBuffer, CloseMapping
<1>7. CASE Enter \/ EndEpoch \/ Join
  BY <1>7 DEF Enter, EndEpoch, Join
<1>8. CASE Give \/ Collate
  BY <1>8 DEF Give, Collate
<1> QED BY <1>2, <1>3, <1>4, <1>5, <1>6, <1>7, <1>8 DEF ReaderActs, ReaderStep

LEMMA ChunkInHand ==
    ASSUME ReadJobAssumption, Types, NEW t \in Threads, at[t] \in Loading
    PROVE  ChunkAt(t) \in Indexes
<1>1. now \in Indexes /\ (at["thread"] \in Loading => fetching \in Indexes)
  BY DEF Types, ReaderTypes, ThreadTypes
<1> QED BY <1>1 DEF ChunkAt, Threads

LEMMA TablesKept ==
    ASSUME ReadJobAssumption, Types, ReadingNext PROVE TableTypes'
<1>1. reading' = reading /\ Indexes' = Indexes /\ at' = [t \in Threads |-> at'[t]]
  BY Same, TwoThreads, ThreadKeeps, ReaderKeeps DEF Types
<1> DEFINE Rest == /\ here \subseteq Indexes
                   /\ counter \in [Indexes -> Int]
                   /\ mmap \in [Indexes -> Nat] /\ buffer \in [Indexes -> Nat]
                   /\ IsFiniteSet(mapped)
                   /\ groups = [c \in Indexes |-> groups[c]]
                   /\ own \in [Threads -> Nat]
<1>2. Rest /\ reading \in ReadJobs
  BY DEF Types, TableTypes
<1>3. SUFFICES Rest'
  BY <1>1, <1>2 DEF TableTypes
<1>4. now \in Indexes /\ last \in Indexes \union {None} /\ None \notin Indexes
  BY <1>2, JobFacts DEF Types, ReaderTypes, None
<1>5. IsFiniteSet(mapped) /\ \A x : IsFiniteSet(mapped \union {x}) /\ IsFiniteSet(mapped \ {x})
  BY <1>2, FS_AddElement, FS_RemoveElement
<1>6. ASSUME NEW t \in Threads, Count(t) PROVE Rest'
  <2>1. ChunkAt(t) \in Indexes
    BY <1>6, ChunkInHand DEF Count, Loading
  <2> QED BY <1>1, <1>2, <1>6, <2>1 DEF Count
<1>7. ASSUME NEW t \in Threads, Map(t) PROVE Rest'
  <2> DEFINE c == ChunkAt(t)
             n == Unused(c)
  <2>1. c \in Indexes
    BY <1>7, ChunkInHand DEF Map, Loading
  <2>2. n \in Nat
    BY <2>1, FreshNumber
  <2>3. /\ \/ /\ mmap' = [mmap EXCEPT ![c] = n] /\ mapped' = mapped \union {<<c, n>>}
              /\ own' = [own EXCEPT ![t] = n]
           \/ UNCHANGED <<mmap, mapped, own>>
        /\ UNCHANGED <<here, counter, buffer, groups>>
    BY <1>7 DEF Map
  <2> HIDE DEF c, n
  <2> QED BY <1>1, <1>2, <1>5, <2>1, <2>2, <2>3
<1>8. ASSUME NEW t \in Threads, View(t) PROVE Rest'
  <2>1. ChunkAt(t) \in Indexes
    BY <1>8, ChunkInHand DEF View, Loading
  <2> QED BY <1>1, <1>2, <1>8, <2>1 DEF View, None
<1>9. CASE UNCHANGED <<here, counter, mmap, buffer, mapped, groups, own>>
  BY <1>1, <1>2, <1>9
<1>10. ASSUME Find \/ TakeBlock \/ TakeRow PROVE Rest'
  <2>1. /\ UNCHANGED <<here, counter, mmap, buffer, mapped, own>>
        /\ groups' = groups \/ \E r : groups' = [groups EXCEPT ![now] = r]
    BY <1>10 DEF Find, TakeBlock, TakeRow, tables
  <2> QED BY <1>1, <1>2, <1>4, <2>1
<1>11. ASSUME Close PROVE Rest'
  <2>1. /\ UNCHANGED <<here, mmap, buffer, mapped, own>>
        /\ counter' = [counter EXCEPT ![last] = @ - 1] \/ counter' = counter
        /\ groups' = groups \/ \E r : groups' = [groups EXCEPT ![last] = r]
    BY <1>11 DEF Close, DropRows, Left
  <2>2. counter' \in [Indexes -> Int]
    BY <1>2, <2>1
  <2> QED BY <1>1, <1>2, <2>1, <2>2
<1>12. ASSUME CloseBuffer \/ CloseMapping PROVE Rest'
  <2>1. /\ UNCHANGED <<here, counter, groups, own>>
        /\ buffer' = buffer \/ buffer' = [buffer EXCEPT ![last] = None]
        /\ mmap' = mmap \/ mmap' = [mmap EXCEPT ![last] = None]
        /\ mapped' = mapped \/ mapped' = mapped \ {<<last, mmap[last]>>}
    BY <1>12 DEF CloseBuffer, CloseMapping, DropBuffer, Unmap, Left
  <2>2. buffer' \in [Indexes -> Nat] /\ mmap' \in [Indexes -> Nat]
    BY <1>2, <2>1 DEF None
  <2>3. IsFiniteSet(mapped')
    BY <1>2, <1>5, <2>1
  <2> QED BY <1>1, <1>2, <2>1, <2>2, <2>3
<1>13. ASSUME Download \/ Refetched PROVE Rest'
  <2>1. /\ UNCHANGED <<counter, mmap, buffer, mapped, groups, own>>
        /\ \/ waiting # << >> /\ waiting[1] # End /\ here' = here \union {waiting[1]}
           \/ forced # << >> /\ here' = here \union {forced[1]}
    BY <1>13 DEF Download, Refetched, Fetched, Types, ThreadTypes
  <2>2. waiting \in Seq(Indexes \union {End}) /\ forced \in Seq(Indexes)
    BY DEF Types, ThreadTypes
  <2>3. /\ waiting # << >> => waiting[1] \in Indexes \union {End}
        /\ forced # << >> => forced[1] \in Indexes
    BY <2>2
  <2> QED BY <1>1, <1>2, <2>1, <2>3
<1>14. ASSUME DeleteBuffer PROVE Rest'
  <2>1. /\ UNCHANGED <<here, counter, mmap, mapped, groups, own>>
        /\ buffer' = buffer \/ \E c : buffer' = [buffer EXCEPT ![c] = None]
    BY <1>14 DEF DeleteBuffer, DropBuffer
  <2> QED BY <1>1, <1>2, <2>1 DEF None
<1>15. ASSUME Delete \/ Refetch PROVE Rest'
  <2>1. \E c : Drop(c)
    BY <1>15 DEF Delete, Refetch
  <2>2. UNCHANGED own
    BY <1>15 DEF Delete, Refetch
  <2>3. buffer' = buffer \/ \E c : buffer' = [buffer EXCEPT ![c] = None]
    BY <1>15 DEF Delete, Refetch
  <2>4. /\ here' \subseteq here
        /\ counter' = counter \/ \E c : counter' = [counter EXCEPT ![c] = 0]
        /\ mmap' = mmap \/ \E c : mmap' = [mmap EXCEPT ![c] = None]
        /\ mapped' = mapped \/ \E x : mapped' = mapped \ {x}
        /\ groups' = groups \/ \E c : \E r : groups' = [groups EXCEPT ![c] = r]
    BY <2>1 DEF Drop, Unmap, DropRows
  <2>5. buffer' \in [Indexes -> Nat] /\ mmap' \in [Indexes -> Nat]
    BY <1>2, <2>3, <2>4 DEF None
  <2>6. counter' \in [Indexes -> Int]
    BY <1>2, <2>4
  <2>7. IsFiniteSet(mapped')
    BY <1>2, <1>5, <2>4
  <2>8. groups' = [c \in Indexes |-> groups'[c]]
    BY <1>2, <2>4
  <2> QED BY <1>1, <1>2, <2>2, <2>4, <2>5, <2>6, <2>7, <2>8
<1> QED
  <2> USE <1>9 DEF tables
  <2>1. CASE NextItem \/ ForceDownload \/ Release \/ Enter \/ EndEpoch \/ Join \/ Give \/ Collate
    BY <2>1 DEF NextItem, ForceDownload, Release, Enter, EndEpoch, Join, Give, Collate
  <2>2. CASE ScanParquet \/ Downloaded \/ ReceiveEnd \/ Skip \/ Evict \/ Keep \/ Cleaned
    BY <2>2 DEF ScanParquet, Downloaded, ReceiveEnd, Skip, Evict, Keep, Cleaned
  <2> QED BY <1>6, <1>7, <1>8, <1>10, <1>11, <1>12, <1>13, <1>14, <1>15, <2>1, <2>2
             DEF ReadingNext, ReaderStep, ThreadStep

LEMMA ReaderTypesKept ==
    ASSUME ReadJobAssumption, Types, ReadingNext PROVE ReaderTypes'
<1>1. reading' = reading /\ Indexes' = Indexes /\ Items0' = Items0
  BY Same DEF Items0
<1>2. /\ now \in Indexes /\ last \in Indexes \union {None} /\ epoch \in Nat
      /\ at["reader"] \in Handing => item \in Items0 /\ item[1] = now
      /\ item[2] \in Nat
      /\ batch \in Seq(Items0) /\ Len(batch) <= reading.batch
      /\ at["reader"] # "collate" => Len(batch) < reading.batch
  BY DEF Types, ReaderTypes
<1>3. /\ Indexes = 1 .. Len(reading.size) /\ 1 \in Indexes /\ Len(reading.size) \in Nat
      /\ reading.batch \in Nat \ {0}
  BY JobFacts DEF Types, TableTypes
<1>4. at = [t \in Threads |-> at[t]] /\ "reader" \in Threads /\ "thread" \in Threads
  BY DEF Types, TableTypes, Threads
<1>5. CASE ThreadActs
  BY <1>1, <1>2, <1>5, ThreadKeeps DEF ReaderTypes, reader, Types
<1>6. CASE UNCHANGED <<now, last, epoch, item, batch>> /\ at'["reader"] # "collate"
           /\ (at'["reader"] \in Handing => at["reader"] \in Handing) /\ at["reader"] # "collate"
  BY <1>1, <1>2, <1>6 DEF ReaderTypes
<1>7. ASSUME Count("reader") \/ Map("reader") \/ View("reader") PROVE ReaderTypes'
  <2>1. /\ UNCHANGED <<now, last, epoch, item, batch>> /\ at'["reader"] # "collate"
        /\ at'["reader"] \notin Handing /\ at["reader"] # "collate"
    BY <1>4, <1>7 DEF Count, Map, View, After, Goto, reader, Handing
  <2> QED BY <1>6, <2>1
<1>8. ASSUME NextItem PROVE ReaderTypes'
  <2>1. /\ UNCHANGED <<last, item, batch>>
        /\ \/ now' = 1 /\ epoch' = epoch + 1
           \/ epoch' = epoch /\ ~LastOfEpoch /\ now' = IF rest = {} THEN now + 1 ELSE now
    BY <1>8 DEF NextItem
  <2>3. at["reader"] = "next" /\ at'["reader"] = "find"
    BY <1>4, <1>8 DEF NextItem, Goto
  <2>2. now' \in Indexes
    BY <1>2, <1>3, <2>1 DEF LastOfEpoch
  <2> QED BY <1>1, <1>2, <2>1, <2>2, <2>3 DEF ReaderTypes, Handing
<1>9. ASSUME Find \/ ForceDownload PROVE ReaderTypes'
  <2>1. /\ UNCHANGED <<now, last, epoch, item, batch>> /\ at'["reader"] # "collate"
        /\ at'["reader"] \notin Handing /\ at["reader"] # "collate"
    BY <1>4, <1>9 DEF Find, ForceDownload, Goto, reader, Handing
  <2> QED BY <1>6, <2>1
<1>10. ASSUME TakeBlock \/ TakeRow PROVE ReaderTypes'
  <2>1. /\ UNCHANGED <<now, last, epoch, batch>> /\ at'["reader"] # "collate"
        /\ at["reader"] # "collate"
        /\ at'["reader"] \in Handing => item' = <<now, buffer[now]>> \/ item' = <<now, None>>
        /\ item' = item \/ item' = <<now, buffer[now]>> \/ item' = <<now, None>>
    BY <1>4, <1>10 DEF TakeBlock, TakeRow, Goto, Handing
  <2>2. buffer[now] \in Nat /\ None \in Nat
    BY <1>2 DEF Types, TableTypes, None
  <2> QED BY <1>1, <1>2, <2>1, <2>2 DEF ReaderTypes, Items0
<1>11. ASSUME Release \/ Close \/ CloseBuffer \/ CloseMapping PROVE ReaderTypes'
  <2>1. /\ UNCHANGED <<now, last, epoch, item, batch>> /\ at'["reader"] # "collate"
        /\ at["reader"] \in Handing /\ at["reader"] # "collate"
    BY <1>4, <1>11 DEF Release, Close, CloseBuffer, CloseMapping, Goto, reader, Handing
  <2> QED BY <1>6, <2>1
<1>12. ASSUME Enter PROVE ReaderTypes'
  <2>1. /\ UNCHANGED <<now, epoch, item, batch>> /\ at'["reader"] # "collate"
        /\ at["reader"] \in Handing /\ at["reader"] # "collate"
        /\ last' \in {None, now}
    BY <1>4, <1>12 DEF Enter, Goto, Handing
  <2> QED BY <1>1, <1>2, <2>1 DEF ReaderTypes
<1>13. ASSUME EndEpoch \/ Join PROVE ReaderTypes'
  <2>1. /\ UNCHANGED <<now, last, epoch, item, batch>> /\ at'["reader"] # "collate"
        /\ at["reader"] \in Handing /\ at["reader"] # "collate"
    BY <1>4, <1>13 DEF EndEpoch, Join, Goto, reader, Handing
  <2> QED BY <1>6, <2>1
<1>14. ASSUME Give PROVE ReaderTypes'
  <2>1. /\ UNCHANGED <<now, last, epoch>> /\ item' = <<None, None>> /\ batch' = Append(batch, item)
        /\ at["reader"] = "give" /\ at'["reader"] \in {"collate", "next"}
        /\ Len(batch') = reading.batch => at'["reader"] = "collate"
    BY <1>4, <1>14 DEF Give, Goto
  <2>2. item \in Items0 /\ Len(batch) < reading.batch
    BY <1>2, <2>1 DEF Handing
  <2>3. batch' \in Seq(Items0) /\ Len(batch') = Len(batch) + 1 /\ Len(batch) \in Nat
    BY <1>2, <2>1, <2>2
  <2>4. at'["reader"] \notin Handing /\ item'[2] \in Nat
    BY <2>1 DEF Handing, None
  <2>5. Len(batch') <= reading.batch /\ (at'["reader"] # "collate" => Len(batch') < reading.batch)
    BY <1>3, <2>1, <2>2, <2>3
  <2> QED BY <1>1, <1>2, <2>1, <2>3, <2>4, <2>5 DEF ReaderTypes
<1>15. ASSUME Collate PROVE ReaderTypes'
  <2>1. /\ UNCHANGED <<now, last, epoch, item>> /\ batch' = << >>
        /\ at'["reader"] \notin Handing
    BY <1>4, <1>15 DEF Collate, Goto, Handing
  <2>2. batch' \in Seq(Items0) /\ Len(batch') = 0
    BY <2>1
  <2> QED BY <1>1, <1>2, <1>3, <2>1, <2>2 DEF ReaderTypes
<1> QED BY <1>5, <1>7, <1>8, <1>9, <1>10, <1>11, <1>12, <1>13, <1>14, <1>15, TwoThreads
        DEF ReaderActs, ReaderStep

LEMMA ThreadTypesKept ==
    ASSUME ReadJobAssumption, Types, ReadingNext PROVE ThreadTypes'
<1>1. reading' = reading /\ Indexes' = Indexes
  BY Same
<1>2. /\ waiting \in Seq(Indexes \union {End}) /\ released \in Seq(Indexes)
      /\ doomed \in Seq(Indexes) /\ forced \in Seq(Indexes)
      /\ at["thread"] \in Loading => fetching \in Indexes
      /\ at["thread"] \in Deleting => doomed # << >> /\ reading.evicts
      /\ at["thread"] = "refetch" => forced # << >>
      /\ ~reading.remote => at["thread"] = "none" /\ here = Indexes
      /\ ~wasForced => forced = << >> /\ at["thread"] # "refetch"
  BY DEF Types, ThreadTypes
<1>3. at = [t \in Threads |-> at[t]] /\ "reader" \in Threads /\ "thread" \in Threads
  BY DEF Types, TableTypes, Threads
<1>4. now \in Indexes /\ last \in Indexes \union {None} /\ TableTypes
  BY DEF Types, ReaderTypes
<1>5. /\ released # << >> => released[1] \in Indexes /\ Tail(released) \in Seq(Indexes)
      /\ doomed # << >> => doomed[1] \in Indexes /\ Tail(doomed) \in Seq(Indexes)
      /\ forced # << >> => forced[1] \in Indexes /\ Tail(forced) \in Seq(Indexes)
      /\ waiting # << >> => waiting[1] \in Indexes \union {End} /\ Tail(waiting) \in Seq(Indexes \union {End})
  BY <1>2
<1>6. /\ \A c \in Indexes : Append(released, c) \in Seq(Indexes) /\ Append(doomed, c) \in Seq(Indexes)
                            /\ Append(forced, c) \in Seq(Indexes)
      /\ Append(waiting, End) \in Seq(Indexes \union {End})
  BY <1>2
<1>7. << >> \in Seq(Indexes) /\ [c \in Indexes |-> c] \in Seq(Indexes \union {End})
  <2>1. Indexes = 1 .. Len(reading.size) /\ Len(reading.size) \in Nat
    BY JobFacts, <1>4 DEF TableTypes
  <2>2. [c \in Indexes |-> c] \in [1 .. Len(reading.size) -> Indexes \union {End}]
    BY <2>1
  <2> QED BY <2>1, <2>2, FunctionIsSeq
<1>8. CASE UNCHANGED <<reading, here, thread>> /\ at'["thread"] = at["thread"]
  BY <1>1, <1>2, <1>8 DEF ThreadTypes, thread
<1>9. ASSUME Count("reader") \/ Map("reader") \/ View("reader") PROVE ThreadTypes'
  <2>1. UNCHANGED <<reading, here, thread>> /\ at'["thread"] = at["thread"]
    BY <1>3, <1>9 DEF Count, Map, View, Goto
  <2> QED BY <1>8, <2>1
<1>10. ASSUME Find \/ TakeBlock \/ TakeRow \/ Close \/ CloseBuffer \/ CloseMapping \/ Enter \/ Give \/ Collate
       PROVE  ThreadTypes'
  <2>1. UNCHANGED <<reading, here, thread>> /\ at'["thread"] = at["thread"]
    BY <1>3, <1>10 DEF Find, TakeBlock, TakeRow, Close, CloseBuffer, CloseMapping, Enter, Give, Collate, Goto, tables
  <2> QED BY <1>8, <2>1
<1>11. ASSUME NextItem PROVE ThreadTypes'
  <2>1. \/ UNCHANGED <<here, thread>> /\ at'["thread"] = at["thread"]
        \/ /\ waiting' = [c \in Indexes |-> c] /\ released' = << >> /\ doomed' = << >>
           /\ forced' = << >> /\ at'["thread"] = "run" /\ reading.remote
           /\ UNCHANGED here
    BY <1>3, <1>11 DEF NextItem, Goto, tables
  <2> QED BY <1>1, <1>7, <1>8, <2>1 DEF ThreadTypes, Loading, Deleting
<1>12. ASSUME ForceDownload PROVE ThreadTypes'
  <2>1. /\ UNCHANGED <<here, waiting, released, doomed, fetching>> /\ at'["thread"] = at["thread"]
        /\ forced' = Append(forced, now) /\ wasForced' = TRUE /\ reading.remote
    BY <1>12 DEF ForceDownload, tables
  <2>2. forced' \in Seq(Indexes) /\ forced' # << >>
    <3>1. Append(forced, now) # << >>
      BY <1>2, <1>4
    <3> QED BY <1>4, <1>6, <2>1, <3>1
  <2> QED BY <1>1, <1>2, <2>1, <2>2 DEF ThreadTypes
<1>13. ASSUME Release PROVE ThreadTypes'
  <2>1. /\ UNCHANGED <<here, waiting, doomed, fetching, forced, wasForced>>
        /\ \/ released' = released
           \/ last # None /\ released' = Append(released, last)
    BY <1>13 DEF Release, tables
  <2>2. at'["thread"] = at["thread"]
    BY <1>3, <1>13 DEF Release, Goto
  <2> QED BY <1>1, <1>2, <1>4, <1>6, <2>1, <2>2 DEF ThreadTypes
<1>14. ASSUME EndEpoch PROVE ThreadTypes'
  <2>1. /\ UNCHANGED <<here, doomed, fetching, forced, wasForced>> /\ at'["thread"] = at["thread"]
        /\ released' = released \/ released' = Append(released, now)
        /\ waiting' = waiting \/ waiting' = Append(waiting, End)
    BY <1>3, <1>14 DEF EndEpoch, Goto, tables
  <2> QED BY <1>1, <1>2, <1>4, <1>6, <2>1 DEF ThreadTypes
<1>15. ASSUME Join PROVE ThreadTypes'
  <2>1. /\ UNCHANGED <<here, thread>> /\ at'["thread"] = "none"
    BY <1>3, <1>15 DEF Join, tables
  <2> QED BY <1>1, <1>2, <2>1 DEF ThreadTypes, thread, Loading, Deleting
<1>16. ASSUME Count("thread") \/ Map("thread") \/ View("thread") PROVE ThreadTypes'
  <2>1. /\ UNCHANGED <<here, thread>> /\ at["thread"] \in Loading /\ at["thread"] # "none"
        /\ at'["thread"] \notin Deleting \union {"refetch"}
    BY <1>3, <1>16 DEF Count, Map, View, After, Goto, Loading, Deleting
  <2> QED BY <1>1, <1>2, <2>1 DEF ThreadTypes, thread
<1>17. ASSUME Download PROVE ThreadTypes'
  <2>1. /\ UNCHANGED <<released, doomed, forced, wasForced>> /\ at["thread"] = "run"
        /\ waiting # << >> /\ fetching' = waiting[1] /\ waiting[1] # End
        /\ waiting' = Tail(waiting)
        /\ at'["thread"] \notin Deleting \union {"refetch", "none"}
    BY <1>3, <1>17 DEF Download, Fetched, Goto, Deleting
  <2> QED BY <1>1, <1>2, <1>5, <2>1 DEF ThreadTypes
<1>18. ASSUME Refetched PROVE ThreadTypes'
  <2>1. /\ UNCHANGED <<waiting, released, doomed, wasForced>> /\ at["thread"] = "refetch"
        /\ fetching' = forced[1] /\ forced' = Tail(forced)
        /\ at'["thread"] \notin Deleting \union {"refetch", "none"}
    BY <1>3, <1>18 DEF Refetched, Fetched, Goto, Deleting
  <2> QED BY <1>1, <1>2, <1>5, <2>1 DEF ThreadTypes
<1>19. ASSUME ScanParquet \/ Downloaded \/ ReceiveEnd \/ Skip \/ Cleaned PROVE ThreadTypes'
  <2>1. /\ UNCHANGED <<here, waiting, released, doomed, forced, wasForced, fetching>> /\ at["thread"] # "none"
        /\ at'["thread"] \notin Deleting \union Loading \union {"refetch"}
    BY <1>3, <1>19 DEF ScanParquet, Downloaded, ReceiveEnd, Skip, Cleaned, Goto, tables, thread, Deleting, Loading
  <2> QED BY <1>1, <1>2, <2>1 DEF ThreadTypes
<1>20. ASSUME Evict PROVE ThreadTypes'
  <2>1. /\ UNCHANGED <<here, waiting, forced, wasForced, fetching>> /\ at["thread"] # "none"
        /\ at'["thread"] \notin Deleting \union Loading \union {"refetch"}
        /\ \/ UNCHANGED <<released, doomed>>
           \/ released # << >> /\ doomed' = Append(doomed, released[1]) /\ released' = Tail(released)
    BY <1>3, <1>20 DEF Evict, Goto, tables, Deleting, Loading
  <2> QED BY <1>1, <1>2, <1>5, <1>6, <2>1 DEF ThreadTypes
<1>21. ASSUME Keep PROVE ThreadTypes'
  <2>1. /\ UNCHANGED <<here, waiting, forced, wasForced, fetching, released, at>>
        /\ at["thread"] \in Cleaning /\ doomed # << >> /\ doomed' = Tail(doomed)
    BY <1>21 DEF Keep, tables, Cleaning
  <2> QED BY <1>1, <1>2, <1>5, <2>1 DEF ThreadTypes, Deleting, Cleaning
<1>22. ASSUME DeleteBuffer PROVE ThreadTypes'
  <2>1. /\ UNCHANGED <<here, thread>> /\ at["thread"] \in Cleaning
        /\ doomed # << >> /\ reading.evicts /\ at'["thread"] \in Deleting
    BY <1>3, <1>22 DEF DeleteBuffer, Goto, Cleaning, Deleting
  <2> QED BY <1>1, <1>2, <2>1 DEF ThreadTypes, thread, Deleting, Cleaning, Loading
<1>23. ASSUME Delete PROVE ThreadTypes'
  <2>1. /\ UNCHANGED <<waiting, forced, wasForced, fetching, released>>
        /\ at["thread"] \in Deleting /\ doomed' = Tail(doomed) /\ at'["thread"] \in Cleaning
    BY <1>3, <1>23 DEF Delete, Goto, Cleaning, Deleting
  <2> QED BY <1>1, <1>2, <1>5, <2>1 DEF ThreadTypes, Deleting, Cleaning, Loading
<1>24. ASSUME Refetch PROVE ThreadTypes'
  <2>1. /\ UNCHANGED <<waiting, released, doomed, forced, wasForced, fetching>>
        /\ at["thread"] = "run" /\ forced # << >> /\ at'["thread"] = "refetch"
    BY <1>3, <1>24 DEF Refetch, Goto
  <2> QED BY <1>1, <1>2, <2>1 DEF ThreadTypes, Deleting, Loading
<1> QED BY <1>9, <1>10, <1>11, <1>12, <1>13, <1>14, <1>15, <1>16, <1>17, <1>18, <1>19, <1>20, <1>21,
           <1>22, <1>23, <1>24, TwoThreads
        DEF ReaderActs, ThreadActs, ReaderStep, ThreadStep

LEMMA TypesStep == ASSUME ReadJobAssumption, Types, ReadingNext PROVE Types'
  BY TablesKept, ReaderTypesKept, ThreadTypesKept DEF Types

-----------------------------------------------------------------------------
(* The reader on its way through the chunks. *)

Between == {"next", "collate", "give"}
Closing == {"close", "unbuffer", "unmap", "enter"}
InChunk == {"find", "count", "map", "view", "take", "release", "end", "join"}

\* What the places of the reader say of the chunk it was in last.
WalkInv ==
    /\ at["reader"] \in {"end", "join"} => last = now
    /\ at["reader"] \in {"close", "unbuffer", "unmap"} => last # None
    /\ at["reader"] \in Closing /\ last = now => LastOfEpoch
    /\ at["reader"] = "join" => LastOfEpoch
    /\ at["reader"] \in Between => last = now \/ (last = None /\ LastOfEpoch)
    /\ at["reader"] = "next" /\ LastOfEpoch => batch = << >>
    /\ reading.remote => last <= now

\* There is a thread from the first item of an epoch on until the reader has joined it.
EpochInv == reading.remote =>
    /\ at["thread"] = "none" =>
          /\ LastOfEpoch
          /\ at["reader"] \in Closing => last = now
          /\ at["reader"] \notin InChunk
    /\ at["thread"] # "none" =>
          /\ at["reader"] \in Between => ~LastOfEpoch
          /\ at["reader"] \in Closing => last # now
    /\ LastOfEpoch /\ at["reader"] \in Between => last = None
    /\ epoch = 0 =>
          /\ at["thread"] = "none" /\ at["reader"] \in {"next", "failed"}
          /\ here = {} /\ last = None /\ \A c \in Indexes : counter[c] = 0

Walks == WalkInv /\ EpochInv

LEMMA WalksStep ==
    ASSUME ReadJobAssumption, Types, ReadingNext, Walks PROVE Walks'
<1>1. reading' = reading /\ Indexes' = Indexes /\ TableTypes
  BY Same DEF Types
<1>2. /\ now \in Indexes /\ last \in Indexes \union {None} /\ epoch \in Nat
      /\ Indexes = 1 .. Len(reading.size) /\ 1 \in Indexes /\ Len(reading.size) \in Nat
      /\ None \notin Indexes /\ None = 0
  BY JobFacts DEF Types, TableTypes, ReaderTypes, None
<1>4. at = [t \in Threads |-> at[t]] /\ "reader" \in Threads /\ "thread" \in Threads
  BY DEF Types, TableTypes, Threads
<1> USE DEF Walks
<1>5. CASE ThreadActs
  <2>1. /\ UNCHANGED <<reading, reader>> /\ at'["reader"] = at["reader"]
        /\ at["thread"] # "none" /\ at'["thread"] # "none"
    BY <1>1, <1>5, ThreadKeeps
  <2>2. LastOfEpoch' = LastOfEpoch
    BY <2>1 DEF LastOfEpoch, reader
  <2> QED BY <2>1, <2>2 DEF WalkInv, EpochInv, reader
\* The steps within a chunk.
<1>6. ASSUME UNCHANGED <<now, last, epoch, rest, batch>>, at["reader"] \in InChunk,
             at'["reader"] \in {"find", "count", "map", "view", "take", "release", "failed"},
             at'["thread"] = at["thread"]
      PROVE  Walks'
  BY <1>1, <1>6 DEF WalkInv, EpochInv, InChunk, Between, Closing
<1>7. ASSUME Count("reader") \/ Map("reader") \/ View("reader") PROVE Walks'
  <2>1. /\ UNCHANGED <<now, last, epoch, rest, batch>> /\ at["reader"] \in InChunk
        /\ at'["reader"] \in {"map", "view", "take", "failed"}
        /\ at'["thread"] = at["thread"]
    BY <1>4, <1>7 DEF Count, Map, View, After, Goto, reader, InChunk
  <2> QED BY <1>6, <2>1
<1>8. ASSUME NextItem PROVE Walks'
  <2>1. /\ UNCHANGED last
        /\ \/ now' = 1 /\ epoch' = epoch + 1 /\ LastOfEpoch
           \/ epoch' = epoch /\ ~LastOfEpoch /\ now' = IF rest = {} THEN now + 1 ELSE now
    BY <1>8 DEF NextItem
  <2>2. /\ at["reader"] = "next" /\ at'["reader"] = "find"
        /\ reading.remote => at'["thread"] # "none"
    BY <1>4, <1>8 DEF NextItem, Goto
  <2>3. last = now \/ (last = None /\ LastOfEpoch)
    BY <2>2 DEF WalkInv, Between
  <2>4. reading.remote => last = None \/ ~LastOfEpoch
    BY <2>2 DEF EpochInv, Between
  <2>5. WalkInv'
    BY <1>1, <1>2, <2>1, <2>2, <2>3, <2>4 DEF WalkInv, Closing, Between
  <2>6. EpochInv'
    <3>1. reading.remote => epoch' # 0
      BY <1>2, <2>1, <2>2 DEF EpochInv, Between
    <3> QED BY <1>1, <2>2, <3>1 DEF EpochInv, Closing, Between
  <2> QED BY <2>5, <2>6
<1>9. ASSUME Find \/ ForceDownload PROVE Walks'
  <2>1. /\ UNCHANGED <<now, last, epoch, rest, batch>> /\ at["reader"] \in InChunk
        /\ at'["reader"] \in {"find", "count", "take"}
        /\ at'["thread"] = at["thread"]
    BY <1>4, <1>9 DEF Find, ForceDownload, Goto, reader, InChunk
  <2> QED BY <1>6, <2>1
<1>10. ASSUME TakeBlock \/ TakeRow PROVE Walks'
  <2>1. /\ UNCHANGED <<now, last, epoch, batch>> /\ at["reader"] = "take"
        /\ at'["reader"] \in {"release", "failed"}
        /\ at'["thread"] = at["thread"]
    BY <1>4, <1>10 DEF TakeBlock, TakeRow, Goto
  <2> QED BY <1>1, <2>1 DEF WalkInv, EpochInv, InChunk, Between, Closing
<1>11. ASSUME Release PROVE Walks'
  <2>1. UNCHANGED <<now, last, epoch, rest, batch>> /\ at["reader"] = "release"
    BY <1>11 DEF Release, reader
  <2>2. /\ at'["reader"] = CASE now = last -> "end" [] last = None -> "enter" [] OTHER -> "close"
        /\ at'["thread"] = at["thread"]
    BY <1>4, <1>11 DEF Release, Goto
  <2>3. \/ at'["reader"] = "end" /\ last = now
        \/ at'["reader"] = "enter" /\ last = None /\ last # now
        \/ at'["reader"] = "close" /\ last # None /\ last # now
    BY <1>2, <2>2
  <2> QED BY <1>1, <2>1, <2>2, <2>3 DEF WalkInv, EpochInv, InChunk, Between, Closing
<1>12. ASSUME Close \/ CloseBuffer \/ CloseMapping PROVE Walks'
  <2>1. /\ UNCHANGED <<now, last, epoch, rest, batch>> /\ at["reader"] \in {"close", "unbuffer", "unmap"}
        /\ at'["reader"] \in {"unbuffer", "unmap", "enter"}
        /\ at'["thread"] = at["thread"]
    BY <1>4, <1>12 DEF Close, CloseBuffer, CloseMapping, Goto, reader
  <2>2. LastOfEpoch' = LastOfEpoch
    BY <1>1, <2>1 DEF LastOfEpoch
  <2> QED BY <1>1, <2>1, <2>2 DEF WalkInv, EpochInv, InChunk, Between, Closing
<1>13. ASSUME Enter PROVE Walks'
  <2>1. /\ UNCHANGED <<now, epoch, rest, batch>> /\ at["reader"] = "enter"
        /\ last' = IF last = now THEN None ELSE now
    BY <1>13 DEF Enter
  <2>2. /\ at'["reader"] = IF last = now THEN "give" ELSE "end"
        /\ at'["thread"] = at["thread"]
    BY <1>4, <1>13 DEF Enter, Goto
  <2>3. LastOfEpoch' = LastOfEpoch
    BY <1>1, <2>1 DEF LastOfEpoch
  <2> QED BY <1>1, <1>2, <2>1, <2>2, <2>3 DEF WalkInv, EpochInv, InChunk, Between, Closing
<1>14. ASSUME EndEpoch PROVE Walks'
  <2>1. UNCHANGED <<now, last, epoch, rest, batch>> /\ at["reader"] = "end"
    BY <1>14 DEF EndEpoch, reader
  <2>2. /\ \/ at'["reader"] = "join" /\ LastOfEpoch
           \/ at'["reader"] = "give" /\ ~(LastOfEpoch /\ reading.remote)
        /\ at'["thread"] = at["thread"]
    BY <1>4, <1>14 DEF EndEpoch, Goto
  <2>3. LastOfEpoch' = LastOfEpoch
    BY <1>1, <2>1 DEF LastOfEpoch
  <2> QED BY <1>1, <2>1, <2>2, <2>3 DEF WalkInv, EpochInv, InChunk, Between, Closing
<1>15. ASSUME Join PROVE Walks'
  <2>1. /\ UNCHANGED <<now, last, epoch, rest, batch>> /\ at["reader"] = "join"
        /\ at'["reader"] = "close" /\ at'["thread"] = "none"
    BY <1>4, <1>15 DEF Join, reader
  <2>2. LastOfEpoch' = LastOfEpoch
    BY <1>1, <2>1 DEF LastOfEpoch
  <2> QED BY <1>1, <1>2, <2>1, <2>2 DEF WalkInv, EpochInv, InChunk, Between, Closing
<1>16. ASSUME Give PROVE Walks'
  <2>1. UNCHANGED <<now, last, epoch, rest>> /\ at["reader"] = "give"
    BY <1>16 DEF Give
  <2>2. /\ at'["reader"] \in {"collate", "next"} /\ (LastOfEpoch => at'["reader"] = "collate")
        /\ at'["thread"] = at["thread"]
    BY <1>4, <1>16 DEF Give, Goto
  <2>3. LastOfEpoch' = LastOfEpoch
    BY <1>1, <2>1 DEF LastOfEpoch
  <2> QED BY <1>1, <2>1, <2>2, <2>3 DEF WalkInv, EpochInv, InChunk, Between, Closing
<1>17. ASSUME Collate PROVE Walks'
  <2>1. UNCHANGED <<now, last, epoch, rest>> /\ at["reader"] = "collate" /\ batch' = << >>
    BY <1>17 DEF Collate
  <2>2. at'["reader"] \in {"killed", "next"} /\ at'["thread"] = at["thread"]
    BY <1>4, <1>17 DEF Collate, Goto
  <2>3. LastOfEpoch' = LastOfEpoch
    BY <1>1, <2>1 DEF LastOfEpoch
  <2> QED BY <1>1, <2>1, <2>2, <2>3 DEF WalkInv, EpochInv, InChunk, Between, Closing
<1> QED BY <1>5, <1>7, <1>8, <1>9, <1>10, <1>11, <1>12, <1>13, <1>14, <1>15, <1>16, <1>17, TwoThreads
        DEF ReaderActs, ReaderStep

-----------------------------------------------------------------------------
(* The chunks that were read. *)

Asked(c) ==
    \/ \E i \in DOMAIN released : released[i] = c
    \/ \E i \in DOMAIN doomed : doomed[i] = c

\* Only a chunk the reader is leaving, or has left, may be deleted.
RelInv == at["thread"] # "none" =>
    \A c \in Indexes : Asked(c) =>
      \/ c < now /\ (c = last => Leaving)
      \/ c = now /\ at["reader"] = "join"

LEMMA TailFrom ==
    ASSUME NEW S, NEW s \in Seq(S), s # << >>, NEW i \in DOMAIN Tail(s)
    PROVE  \E k \in DOMAIN s : k # 1 /\ s[k] = Tail(s)[i]
<1>1. IsSeq(s) /\ IsSeq(Tail(s))
  BY TailFacts DEF IsSeq
<1>2. /\ Len(s) \in Nat /\ DOMAIN s = 1 .. Len(s) /\ Len(Tail(s)) = Len(s) - 1
      /\ \A k \in 1 .. Len(s) - 1 : Tail(s)[k] = s[k + 1]
  BY <1>1, TailFacts, SeqFacts
<1>3. DOMAIN Tail(s) = 1 .. Len(s) - 1
  BY <1>1, <1>2, SeqFacts
<1> QED BY <1>2, <1>3

LEMMA AppendFrom ==
    ASSUME NEW S, NEW s \in Seq(S), NEW x, NEW i \in DOMAIN Append(s, x)
    PROVE  \/ Append(s, x)[i] = x /\ i = Len(s) + 1
           \/ i \in DOMAIN s /\ Append(s, x)[i] = s[i]
<1>1. IsSeq(s) /\ IsSeq(Append(s, x))
  BY AppendFacts DEF IsSeq
<1>2. /\ Len(s) \in Nat /\ DOMAIN s = 1 .. Len(s) /\ Len(Append(s, x)) = Len(s) + 1
      /\ \A k \in 1 .. Len(s) : Append(s, x)[k] = s[k]
      /\ Append(s, x)[Len(s) + 1] = x
  BY <1>1, AppendFacts, SeqFacts
<1>3. DOMAIN Append(s, x) = 1 .. Len(s) + 1
  BY <1>1, <1>2, SeqFacts
<1> QED BY <1>2, <1>3

LEMMA FirstIn ==
    ASSUME NEW S, NEW s \in Seq(S), s # << >>
    PROVE  1 \in DOMAIN s /\ s[1] \in S
  OBVIOUS

LEMMA ThreadAsks ==
    ASSUME Types, ThreadActs, NEW c, Asked(c)' PROVE Asked(c)
<1>1. released \in Seq(Indexes) /\ doomed \in Seq(Indexes)
  BY DEF Types, ThreadTypes
<1>2. CASE UNCHANGED <<released, doomed>>
  BY <1>2 DEF Asked
<1>3. CASE released' = released /\ doomed # << >> /\ doomed' = Tail(doomed)
  <2>1. CASE \E i \in DOMAIN released : released[i] = c
    BY <2>1 DEF Asked
  <2>2. CASE \E i \in DOMAIN Tail(doomed) : Tail(doomed)[i] = c
    BY <1>1, <1>3, <2>2, TailFrom DEF Asked
  <2> QED BY <1>3, <2>1, <2>2 DEF Asked
<1>4. CASE released # << >> /\ doomed' = Append(doomed, released[1]) /\ released' = Tail(released)
  <2>1. 1 \in DOMAIN released
    BY <1>1, <1>4, FirstIn
  <2>2. CASE \E i \in DOMAIN Tail(released) : Tail(released)[i] = c
    BY <1>1, <1>4, <2>2, TailFrom DEF Asked
  <2>3. CASE \E i \in DOMAIN Append(doomed, released[1]) : Append(doomed, released[1])[i] = c
    <3>1. PICK i \in DOMAIN Append(doomed, released[1]) : Append(doomed, released[1])[i] = c
      BY <2>3
    <3>2. c = released[1] \/ (i \in DOMAIN doomed /\ doomed[i] = c)
      BY <1>1, <3>1, AppendFrom
    <3> QED BY <2>1, <3>2 DEF Asked
  <2> QED BY <1>4, <2>2, <2>3 DEF Asked
<1>5. CASE Evict
  BY <1>2, <1>4, <1>5 DEF Evict
<1>6. CASE Keep
  BY <1>3, <1>6 DEF Keep
<1>7. CASE Delete
  <2>1. doomed # << >>
    BY <1>7 DEF Types, ThreadTypes, Delete, Deleting
  <2> QED BY <1>3, <1>7, <2>1 DEF Delete
<1>8. CASE Count("thread") \/ Map("thread") \/ View("thread")
  BY <1>2, <1>8 DEF Count, Map, View, thread
<1>9. CASE Download \/ ScanParquet \/ Downloaded \/ ReceiveEnd \/ Skip
  BY <1>2, <1>9 DEF Download, ScanParquet, Downloaded, ReceiveEnd, Skip, thread
<1>10. CASE DeleteBuffer \/ Cleaned \/ Refetch \/ Refetched
  BY <1>2, <1>10 DEF DeleteBuffer, Cleaned, Refetch, Refetched, thread
<1> QED BY <1>5, <1>6, <1>7, <1>8, <1>9, <1>10 DEF ThreadActs, ThreadStep

LEMMA RelStep ==
    ASSUME ReadJobAssumption, Types, ReadingNext, Walks, RelInv PROVE RelInv'
<1>1. reading' = reading /\ Indexes' = Indexes /\ TableTypes
  BY Same DEF Types
<1>2. /\ now \in Indexes /\ last \in Indexes \union {None}
      /\ Indexes = 1 .. Len(reading.size) /\ Len(reading.size) \in Nat
      /\ None \notin Indexes
  BY JobFacts DEF Types, TableTypes, ReaderTypes, None
<1>3. released \in Seq(Indexes)
  BY DEF Types, ThreadTypes
<1>4. at = [t \in Threads |-> at[t]] /\ "reader" \in Threads /\ "thread" \in Threads
  BY DEF Types, TableTypes, Threads
<1>5. CASE ThreadActs
  <2>1. /\ UNCHANGED <<reading, reader>> /\ at'["reader"] = at["reader"] /\ at["thread"] # "none"
    BY <1>1, <1>5, ThreadKeeps
  <2>2. Leaving' = Leaving
    BY <2>1 DEF Leaving
  <2>3. \A c : Asked(c)' => Asked(c)
    BY <1>5, ThreadAsks
  <2> QED BY <1>1, <2>1, <2>2, <2>3 DEF RelInv, reader
<1>6. ASSUME UNCHANGED <<now, last, released, doomed>>, at'["thread"] = at["thread"],
             at["reader"] # "join", Leaving => Leaving'
      PROVE  RelInv'
  BY <1>1, <1>6 DEF RelInv, Asked
<1>7. ASSUME Count("reader") \/ Map("reader") \/ View("reader") PROVE RelInv'
  <2>1. /\ UNCHANGED <<now, last, released, doomed>> /\ at'["thread"] = at["thread"]
        /\ at["reader"] # "join" /\ ~Leaving
    BY <1>4, <1>7 DEF Count, Map, View, Goto, reader, thread, Leaving
  <2> QED BY <1>6, <2>1
<1>8. ASSUME NextItem PROVE RelInv'
  <2>1. CASE reading.remote /\ at["thread"] = "none"
    <3>1. released' = << >> /\ doomed' = << >>
      BY <1>8, <2>1 DEF NextItem
    <3> QED BY <3>1 DEF RelInv, Asked
  <2>2. CASE ~reading.remote
    <3>1. at'["thread"] = at["thread"] /\ at["thread"] = "none"
      BY <1>4, <1>8, <2>2 DEF NextItem, Goto, Types, ThreadTypes
    <3> QED BY <3>1 DEF RelInv
  <2>3. CASE reading.remote /\ at["thread"] # "none"
    <3>1. /\ UNCHANGED <<last, released, doomed>> /\ at'["thread"] = at["thread"] /\ at["reader"] = "next"
      BY <1>4, <1>8, <2>3 DEF NextItem, Goto, thread
    <3>2. ~LastOfEpoch
      BY <2>3, <3>1 DEF Walks, EpochInv, Between
    <3>3. now' = now \/ now' = now + 1
      BY <1>8, <3>2 DEF NextItem
    <3>4. \A c \in Indexes : Asked(c)' => c < now /\ c # last
      BY <2>3, <3>1 DEF RelInv, Asked, Leaving
    <3> QED BY <1>1, <1>2, <3>1, <3>3, <3>4 DEF RelInv
  <2> QED BY <2>1, <2>2, <2>3
<1>9. ASSUME Find \/ ForceDownload \/ TakeBlock \/ TakeRow \/ Give \/ Collate PROVE RelInv'
  <2>1. /\ UNCHANGED <<now, last, released, doomed>> /\ at'["thread"] = at["thread"]
        /\ at["reader"] # "join" /\ ~Leaving
    BY <1>4, <1>9 DEF Find, ForceDownload, TakeBlock, TakeRow, Give, Collate, Goto, reader, thread, Leaving
  <2> QED BY <1>6, <2>1
<1>10. ASSUME Release PROVE RelInv'
  <2>1. UNCHANGED <<now, last, doomed>> /\ at["reader"] = "release" /\ at'["thread"] = at["thread"]
    BY <1>4, <1>10 DEF Release, Goto, reader
  <2>2. CASE released' = released
    <3>1. ~Leaving
      BY <2>1 DEF Leaving
    <3> QED BY <1>6, <2>1, <2>2, <3>1
  <2>3. CASE released' # released
    <3>1. reading.remote /\ now # last /\ last # None /\ released' = Append(released, last)
      BY <1>10, <2>3 DEF Release
    <3>2. at'["reader"] = "close"
      BY <1>4, <1>10, <3>1 DEF Release, Goto
    <3>3. last < now
      BY <1>2, <3>1 DEF Walks, WalkInv
    <3>4. ASSUME NEW c, Asked(c)' PROVE Asked(c) \/ c = last
      <4>1. CASE \E i \in DOMAIN doomed : doomed[i] = c
        BY <4>1 DEF Asked
      <4>2. CASE \E i \in DOMAIN Append(released, last) : Append(released, last)[i] = c
        BY <1>3, <4>2, AppendFrom DEF Asked
      <4> QED BY <2>1, <3>1, <3>4, <4>1, <4>2 DEF Asked
    <3> QED BY <1>1, <1>2, <2>1, <3>2, <3>3, <3>4 DEF RelInv, Leaving
  <2> QED BY <2>2, <2>3
<1>11. ASSUME Close \/ CloseBuffer \/ CloseMapping PROVE RelInv'
  <2>1. /\ UNCHANGED <<now, last, released, doomed>> /\ at'["thread"] = at["thread"]
        /\ at["reader"] # "join" /\ at'["reader"] \in {"unbuffer", "unmap", "enter"}
    BY <1>4, <1>11 DEF Close, CloseBuffer, CloseMapping, Goto, reader, thread
  <2> QED BY <1>6, <2>1 DEF Leaving
<1>12. ASSUME Enter PROVE RelInv'
  <2>1. /\ UNCHANGED <<now, released, doomed>> /\ at'["thread"] = at["thread"]
        /\ at["reader"] = "enter" /\ last' \in {None, now}
    BY <1>4, <1>12 DEF Enter, Goto, thread
  <2> QED BY <1>1, <1>2, <2>1 DEF RelInv, Asked
<1>13. ASSUME EndEpoch PROVE RelInv'
  <2>1. UNCHANGED <<now, last, doomed>> /\ at["reader"] = "end" /\ at'["thread"] = at["thread"]
    BY <1>4, <1>13 DEF EndEpoch, Goto, reader
  <2>2. CASE released' = released
    <3>1. ~Leaving
      BY <2>1 DEF Leaving
    <3> QED BY <1>6, <2>1, <2>2, <3>1
  <2>3. CASE released' # released
    <3>1. released' = Append(released, now) /\ at'["reader"] = "join"
      BY <1>4, <1>13, <2>3 DEF EndEpoch, Goto
    <3>2. ASSUME NEW c, Asked(c)' PROVE Asked(c) \/ c = now
      <4>1. CASE \E i \in DOMAIN doomed : doomed[i] = c
        BY <4>1 DEF Asked
      <4>2. CASE \E i \in DOMAIN Append(released, now) : Append(released, now)[i] = c
        BY <1>3, <4>2, AppendFrom DEF Asked
      <4> QED BY <2>1, <3>1, <3>2, <4>1, <4>2 DEF Asked
    <3> QED BY <1>1, <1>2, <2>1, <3>1, <3>2 DEF RelInv, Leaving
  <2> QED BY <2>2, <2>3
<1>14. ASSUME Join PROVE RelInv'
  <2>1. at'["thread"] = "none"
    BY <1>4, <1>14 DEF Join
  <2> QED BY <2>1 DEF RelInv
<1> QED BY <1>5, <1>7, <1>8, <1>9, <1>10, <1>11, <1>12, <1>13, <1>14, TwoThreads
        DEF ReaderActs, ReaderStep

-----------------------------------------------------------------------------
(* The files that are there. *)

Reading == {"count", "map", "view", "take"}
Queued(c) == \E i \in DOMAIN waiting : waiting[i] = c

\* A chunk that is read or loaded is there; one that is still to be downloaded in the first
\* epoch is not.
HereInv == ~wasForced =>
    /\ at["reader"] \in Reading => now \in here
    /\ at["thread"] \in Loading => fetching \in here
    /\ reading.remote /\ epoch = 1 => \A c \in Indexes : Queued(c) => c \notin here
    /\ \A i, j \in DOMAIN waiting : waiting[i] = waiting[j] /\ waiting[i] # End => i = j

LEMMA HereStep ==
    ASSUME ReadJobAssumption, Types, ReadingNext, Walks, RelInv, HereInv PROVE HereInv'
<1>1. reading' = reading /\ Indexes' = Indexes /\ TableTypes
  BY Same DEF Types
<1>2. /\ now \in Indexes /\ last \in Indexes \union {None} /\ epoch \in Nat
      /\ Indexes = 1 .. Len(reading.size) /\ Len(reading.size) \in Nat
      /\ End \notin Indexes
  BY JobFacts DEF Types, TableTypes, ReaderTypes, End
<1>3. waiting \in Seq(Indexes \union {End}) /\ doomed \in Seq(Indexes)
  BY DEF Types, ThreadTypes
<1>4. at = [t \in Threads |-> at[t]] /\ "reader" \in Threads /\ "thread" \in Threads
  BY DEF Types, TableTypes, Threads
<1>5. ASSUME UNCHANGED <<here, waiting, fetching, epoch, wasForced, now>>,
             at'["thread"] \in Loading => at["thread"] \in Loading,
             at'["reader"] \in Reading => at["reader"] \in Reading \/ now \in here
      PROVE  HereInv'
  BY <1>1, <1>5 DEF HereInv, Queued
<1>6. ASSUME Count("reader") \/ Map("reader") \/ View("reader") PROVE HereInv'
  <2>1. /\ UNCHANGED <<here, waiting, fetching, epoch, wasForced, now>> /\ at'["thread"] = at["thread"]
        /\ at["reader"] \in Reading
    BY <1>4, <1>6 DEF Count, Map, View, Goto, reader, thread, Reading
  <2> QED BY <1>5, <2>1
<1>7. ASSUME Count("thread") \/ Map("thread") \/ View("thread") PROVE HereInv'
  <2>1. /\ UNCHANGED <<here, waiting, fetching, epoch, wasForced, now>> /\ at'["reader"] = at["reader"]
        /\ at["thread"] \in Loading
    BY <1>4, <1>7 DEF Count, Map, View, Goto, reader, thread, Loading
  <2> QED BY <1>5, <2>1
<1>8. ASSUME NextItem PROVE HereInv'
  <2>1. /\ UNCHANGED <<here, wasForced>> /\ at["reader"] = "next" /\ at'["reader"] = "find"
    BY <1>4, <1>8 DEF NextItem, Goto, tables, thread
  <2>2. CASE reading.remote /\ at["thread"] = "none"
    <3>1. LastOfEpoch /\ (epoch = 0 => here = {})
      BY <2>1, <2>2 DEF Walks, EpochInv
    <3>2. /\ epoch' = epoch + 1 /\ waiting' = [c \in Indexes |-> c] /\ at'["thread"] = "run"
      BY <1>4, <1>8, <2>2, <3>1 DEF NextItem
    <3> QED BY <1>1, <1>2, <2>1, <3>1, <3>2 DEF HereInv, Queued, Reading, Loading
  <2>3. CASE ~(reading.remote /\ at["thread"] = "none")
    <3>1. UNCHANGED <<waiting, fetching>> /\ at'["thread"] = at["thread"]
      BY <1>4, <1>8, <2>3 DEF NextItem, Goto, thread
    <3>2. reading.remote => epoch' = epoch
      <4>1. reading.remote => ~LastOfEpoch
        BY <2>1, <2>3 DEF Walks, EpochInv, Between
      <4> QED BY <1>8, <4>1 DEF NextItem
    <3> QED BY <1>1, <2>1, <3>1, <3>2 DEF HereInv, Queued, Reading
  <2> QED BY <2>2, <2>3
<1>9. ASSUME Find \/ TakeBlock \/ TakeRow PROVE HereInv'
  <2>1. /\ UNCHANGED <<here, waiting, fetching, epoch, wasForced, now>> /\ at'["thread"] = at["thread"]
        /\ at["reader"] \in Reading \/ now \in here
    BY <1>4, <1>9 DEF Find, TakeBlock, TakeRow, Goto, reader, thread, tables, Reading
  <2> QED BY <1>5, <2>1
<1>10. ASSUME ForceDownload PROVE HereInv'
  BY <1>10 DEF ForceDownload, HereInv
<1>11. ASSUME Release \/ Close \/ CloseBuffer \/ CloseMapping \/ Enter \/ Join \/ Give \/ Collate
       PROVE  HereInv'
  <2>1. UNCHANGED <<here, waiting, fetching, epoch, wasForced, now>>
    BY <1>11 DEF Release, Close, CloseBuffer, CloseMapping, Enter, Join, Give, Collate, reader, thread, tables
  <2>2. at'["reader"] \notin Reading
    <3>1. CASE Release
      <4>1. at'["reader"] = CASE now = last -> "end" [] last = None -> "enter" [] OTHER -> "close"
        BY <1>4, <3>1 DEF Release, Goto
      <4>2. at'["reader"] \in {"end", "enter", "close"}
        BY <4>1
      <4> QED BY <4>2 DEF Reading
    <3>2. CASE ~Release
      BY <1>4, <1>11, <3>2 DEF Close, CloseBuffer, CloseMapping, Enter, Join, Give, Collate, Goto, Reading
    <3> QED BY <3>1, <3>2
  <2>3. at'["thread"] = at["thread"] \/ at'["thread"] = "none"
    BY <1>4, <1>11 DEF Release, Close, CloseBuffer, CloseMapping, Enter, Join, Give, Collate, Goto
  <2> QED BY <1>5, <2>1, <2>2, <2>3 DEF Loading
<1>12. ASSUME EndEpoch PROVE HereInv'
  <2>1. UNCHANGED <<here, fetching, epoch, wasForced, now>> /\ at'["thread"] = at["thread"]
    BY <1>4, <1>12 DEF EndEpoch, Goto, tables, reader
  <2>2. at'["reader"] \notin Reading
    BY <1>4, <1>12 DEF EndEpoch, Goto, Reading
  <2>3. CASE waiting' = waiting
    BY <1>5, <2>1, <2>2, <2>3
  <2>4. CASE waiting' = Append(waiting, End)
    <3>1. \A i \in DOMAIN Append(waiting, End) :
             \/ Append(waiting, End)[i] = End
             \/ i \in DOMAIN waiting /\ Append(waiting, End)[i] = waiting[i]
      BY <1>3, AppendFrom
    <3>2. \A c \in Indexes : Queued(c)' => Queued(c)
      BY <1>2, <2>4, <3>1 DEF Queued
    <3> QED BY <1>1, <2>1, <2>2, <2>4, <3>1, <3>2 DEF HereInv
  <2> QED BY <1>12, <2>3, <2>4 DEF EndEpoch
<1>13. ASSUME Download PROVE HereInv'
  <2>1. /\ UNCHANGED <<epoch, wasForced, now>> /\ at'["reader"] = at["reader"]
        /\ fetching' = waiting[1] /\ here' = here \union {waiting[1]}
        /\ waiting # << >> /\ waiting[1] # End /\ waiting' = Tail(waiting)
    BY <1>4, <1>13 DEF Download, Fetched, Goto, reader
  <2>2. IsSeq(waiting) /\ IsSeq(Tail(waiting))
    BY <1>3, <2>1, TailFacts DEF IsSeq
  <2>3. /\ Len(waiting) \in Nat \ {0} /\ DOMAIN waiting = 1 .. Len(waiting)
        /\ DOMAIN Tail(waiting) = 1 .. Len(waiting) - 1
        /\ \A k \in 1 .. Len(waiting) - 1 : Tail(waiting)[k] = waiting[k + 1]
    BY <2>1, <2>2, TailFacts, SeqFacts
  <2>4. ASSUME ~wasForced, NEW k \in DOMAIN Tail(waiting), Tail(waiting)[k] # End
        PROVE  Queued(Tail(waiting)[k]) /\ Tail(waiting)[k] # waiting[1]
    <3>1. Tail(waiting)[k] = waiting[k + 1] /\ k + 1 \in DOMAIN waiting /\ 1 \in DOMAIN waiting /\ k + 1 # 1
      BY <2>3
    <3> QED BY <2>4, <3>1 DEF HereInv, Queued
  <2>5. ASSUME ~wasForced, NEW i \in DOMAIN Tail(waiting), NEW j \in DOMAIN Tail(waiting),
               Tail(waiting)[i] = Tail(waiting)[j], Tail(waiting)[i] # End
        PROVE  i = j
    <3>1. /\ Tail(waiting)[i] = waiting[i + 1] /\ i + 1 \in DOMAIN waiting
          /\ Tail(waiting)[j] = waiting[j + 1] /\ j + 1 \in DOMAIN waiting
          /\ i \in Nat /\ j \in Nat
      BY <2>3
    <3>2. i + 1 = j + 1
      BY <2>5, <3>1 DEF HereInv
    <3> QED BY <3>1, <3>2
  <2>6. ~wasForced => \A c \in Indexes : Queued(c)' => Queued(c) /\ c # waiting[1]
    BY <1>2, <2>1, <2>4 DEF Queued
  <2> QED BY <1>1, <2>1, <2>5, <2>6 DEF HereInv
<1>14. ASSUME ScanParquet \/ Downloaded \/ ReceiveEnd \/ Skip \/ Evict \/ Keep \/ DeleteBuffer \/ Cleaned
       PROVE  HereInv'
  <2>1. UNCHANGED <<here, waiting, fetching, epoch, wasForced, now>> /\ at'["reader"] = at["reader"]
    BY <1>4, <1>14 DEF ScanParquet, Downloaded, ReceiveEnd, Skip, Evict, Keep, DeleteBuffer, Cleaned,
                       Goto, tables, reader, thread
  <2>2. at'["thread"] \notin Loading
    BY <1>4, <1>14 DEF ScanParquet, Downloaded, ReceiveEnd, Skip, Evict, Keep, DeleteBuffer, Cleaned,
                       Goto, Loading
  <2> QED BY <1>5, <2>1, <2>2
<1>15. ASSUME Delete PROVE HereInv'
  <2>1. /\ UNCHANGED <<waiting, fetching, epoch, wasForced, now>> /\ at'["reader"] = at["reader"]
        /\ here' = here \ {doomed[1]} /\ at["thread"] \in Deleting /\ at'["thread"] \notin Loading
    BY <1>4, <1>15 DEF Delete, Drop, Goto, reader, Deleting, Loading
  <2>2. doomed # << >> /\ at["thread"] # "none"
    BY <2>1 DEF Types, ThreadTypes, Deleting
  <2>3. 1 \in DOMAIN doomed /\ doomed[1] \in Indexes
    BY <1>3, <2>2, FirstIn
  <2>4. doomed[1] # now \/ at["reader"] = "join"
    BY <1>2, <2>2, <2>3 DEF RelInv, Asked
  <2> QED BY <1>1, <2>1, <2>4 DEF HereInv, Queued, Reading
<1>16. ASSUME Refetch \/ Refetched PROVE HereInv'
  <2>1. wasForced' = wasForced /\ wasForced
    <3>1. CASE Refetch
      BY <3>1 DEF Refetch, Types, ThreadTypes
    <3>2. CASE Refetched
      BY <3>2 DEF Refetched, Types, ThreadTypes
    <3> QED BY <1>16, <3>1, <3>2
  <2> QED BY <2>1 DEF HereInv
<1> QED BY <1>6, <1>7, <1>8, <1>9, <1>10, <1>11, <1>12, <1>13, <1>14, <1>15, <1>16, TwoThreads
        DEF ReaderActs, ReaderStep, ThreadActs, ThreadStep

-----------------------------------------------------------------------------
(* The row groups a low-memory loader keeps. *)

RowsInv == ~Tokens =>
    /\ at["reader"] \notin {"unbuffer", "unmap"}
    /\ \A c \in Indexes : groups[c] # NoGroups =>
         \/ c = last /\ at["reader"] # "enter"
         \/ /\ c = now /\ at["reader"] \in {"release", "close", "enter"}
            /\ ~(at["reader"] = "enter" /\ last = now)

LEMMA RowsStep ==
    ASSUME ReadJobAssumption, Types, ReadingNext, Walks, RowsInv PROVE RowsInv'
<1>1. reading' = reading /\ Indexes' = Indexes /\ Tokens' = Tokens /\ NoGroups' = NoGroups
  BY Same DEF NoGroups, Indexes
<1>2. now \in Indexes /\ last \in Indexes \union {None} /\ None \notin Indexes
  BY JobFacts DEF Types, TableTypes, ReaderTypes, None
<1>3. groups = [c \in Indexes |-> groups[c]]
  BY DEF Types, TableTypes
<1>4. at = [t \in Threads |-> at[t]] /\ "reader" \in Threads /\ "thread" \in Threads
  BY DEF Types, TableTypes, Threads
<1>5. SUFFICES ASSUME ~Tokens PROVE RowsInv'
  BY <1>1 DEF RowsInv
<1>6. CASE ThreadActs
  <2>1. UNCHANGED <<reading, reader>> /\ at'["reader"] = at["reader"]
    BY <1>6, ThreadKeeps DEF Types
  <2>2. groups' = groups \/ \E d : groups' = [groups EXCEPT ![d] = NoGroups]
    <3>1. CASE Delete \/ Refetch
      BY <1>5, <3>1 DEF Delete, Refetch, Drop, DropRows
    <3>2. CASE Count("thread") \/ Map("thread") \/ View("thread")
      BY <3>2 DEF Count, Map, View
    <3>3. CASE ThreadStep /\ ~Delete /\ ~Refetch
      BY <3>3 DEF ThreadStep, Download, ScanParquet, Downloaded, ReceiveEnd, Skip, Evict, Keep,
                  DeleteBuffer, Cleaned, Refetched, tables
    <3> QED BY <1>6, <3>1, <3>2, <3>3 DEF ThreadActs
  <2>3. \A c \in Indexes : groups'[c] # NoGroups => groups[c] # NoGroups
    BY <1>3, <2>2
  <2> QED BY <1>1, <1>5, <2>1, <2>3 DEF RowsInv, reader
<1>7. ASSUME UNCHANGED <<groups, now, last>>, at["reader"] \notin {"release", "close", "enter", "unbuffer", "unmap"},
             at'["reader"] \notin {"enter", "unbuffer", "unmap"}
      PROVE  RowsInv'
  BY <1>1, <1>5, <1>7 DEF RowsInv
<1>8. ASSUME Count("reader") \/ Map("reader") \/ View("reader") PROVE RowsInv'
  <2>1. /\ UNCHANGED <<groups, now, last>>
        /\ at["reader"] \in Loading /\ at'["reader"] \in {"map", "view", "take", "failed"}
    BY <1>4, <1>8 DEF Count, Map, View, After, Goto, reader, Loading
  <2> QED BY <1>7, <2>1 DEF Loading
<1>9. ASSUME NextItem PROVE RowsInv'
  <2>1. /\ UNCHANGED <<groups, last>> /\ at["reader"] = "next" /\ at'["reader"] = "find"
    BY <1>4, <1>9 DEF NextItem, Goto, tables
  <2> QED BY <1>1, <1>5, <2>1 DEF RowsInv
<1>10. ASSUME Find \/ ForceDownload PROVE RowsInv'
  <2>1. /\ UNCHANGED <<groups, now, last>> /\ at["reader"] = "find" /\ at'["reader"] \in {"find", "count", "take"}
    BY <1>4, <1>10 DEF Find, ForceDownload, Goto, reader, tables
  <2> QED BY <1>7, <2>1
<1>11. ASSUME TakeRow PROVE RowsInv'
  <2>1. /\ UNCHANGED <<now, last>> /\ at["reader"] = "take" /\ at'["reader"] = "release"
        /\ groups' = groups \/ \E r : groups' = [groups EXCEPT ![now] = r]
    BY <1>4, <1>11 DEF TakeRow, Goto
  <2>2. \A c \in Indexes \ {now} : groups'[c] = groups[c]
    BY <1>3, <2>1
  <2> QED BY <1>1, <1>5, <2>1, <2>2 DEF RowsInv
<1>12. ASSUME Release PROVE RowsInv'
  <2>1. UNCHANGED <<groups, now, last>> /\ at["reader"] = "release"
    BY <1>12 DEF Release, tables, reader
  <2>2. at'["reader"] = CASE now = last -> "end" [] last = None -> "enter" [] OTHER -> "close"
    BY <1>4, <1>12 DEF Release, Goto
  <2>3. \/ now = last /\ at'["reader"] = "end"
        \/ now # last /\ last = None /\ at'["reader"] = "enter"
        \/ now # last /\ last # None /\ at'["reader"] = "close"
    BY <1>2, <2>2
  <2> QED BY <1>1, <1>2, <1>5, <2>1, <2>3 DEF RowsInv
<1>13. ASSUME Close PROVE RowsInv'
  <2>1. /\ UNCHANGED <<now, last>> /\ at["reader"] = "close" /\ at'["reader"] = "enter"
    BY <1>4, <1>5, <1>13 DEF Close, Goto, reader
  <2>3. groups' = [groups EXCEPT ![last] = NoGroups]
    BY <1>5, <1>13 DEF Close, DropRows, Left
  <2>2. \A c \in Indexes : groups'[c] = IF c = last THEN NoGroups ELSE groups[c]
    BY <1>3, <2>3
  <2> QED BY <1>1, <1>5, <2>1, <2>2 DEF RowsInv
<1>14. ASSUME CloseBuffer \/ CloseMapping \/ TakeBlock PROVE RowsInv'
  BY <1>5, <1>14 DEF CloseBuffer, CloseMapping, TakeBlock, RowsInv
<1>15. ASSUME Enter PROVE RowsInv'
  <2>1. /\ UNCHANGED <<groups, now>> /\ at["reader"] = "enter"
        /\ last' = IF last = now THEN None ELSE now
        /\ at'["reader"] = IF last = now THEN "give" ELSE "end"
    BY <1>4, <1>15 DEF Enter, Goto, tables
  <2> QED BY <1>1, <1>5, <2>1 DEF RowsInv
<1>16. ASSUME EndEpoch \/ Join \/ Give \/ Collate PROVE RowsInv'
  <2>1. /\ UNCHANGED <<groups, now, last>> /\ at["reader"] \in {"end", "join", "give", "collate"}
        /\ at'["reader"] \in {"join", "give", "close", "collate", "next", "killed"}
    BY <1>4, <1>16 DEF EndEpoch, Join, Give, Collate, Goto, reader, tables
  <2> QED BY <1>7, <2>1
<1> QED BY <1>6, <1>8, <1>9, <1>10, <1>11, <1>12, <1>13, <1>14, <1>15, <1>16, TwoThreads
        DEF ReaderActs, ReaderStep

-----------------------------------------------------------------------------
(* How often a chunk is loaded. *)

\* The counts are as many as the loads: of no chunk that was deleted once is a load lost.
Trusted == ~reading.evicts \/ ~reading.remote \/ epoch <= 1
Careful == Tokens /\ ~wasForced /\ Trusted

Loads(c) == at["thread"] \in {"map", "view"} /\ fetching = c

\* The chunk the reader was in last, and the one it gets into.
GetsIn == at["reader"] \in {"map", "view", "take", "release"} \union Closing
HasMap == at["reader"] \in {"view", "take", "release"} \union Closing
Inside(c) ==
    \/ c = last
    \/ c = now /\ now # last /\ GetsIn
Held(c) ==
    \/ c = last /\ at["reader"] \notin {"unbuffer", "unmap", "enter"}
    \/ c = now /\ now # last /\ GetsIn
Open(c) ==
    \/ c = last /\ at["reader"] # "enter"
    \/ c = now /\ now # last /\ HasMap

CountedFor(c) ==
    /\ c \in here =>
         /\ counter[c] >= 0
         /\ Held(c) => counter[c] >= 1
         /\ Loads(c) => counter[c] >= 1
         /\ Held(c) /\ Loads(c) => counter[c] >= 2
         /\ Open(c) => mmap[c] # None
    /\ c \notin here => ~Loads(c)
    /\ c \notin here /\ (~reading.evicts \/ Queued(c)) => counter[c] >= 0 /\ ~Inside(c)
CountInv == Careful => \A c \in Indexes : CountedFor(c)

LEMMA Monotone ==
    ASSUME ReadJobAssumption, Types, ReadingNext
    PROVE  /\ epoch' = epoch \/ (NextItem /\ LastOfEpoch /\ epoch' = epoch + 1)
           /\ ~wasForced' => ~wasForced /\ ~ForceDownload /\ ~Refetch /\ ~Refetched
           /\ Careful' => Careful
<1>1. epoch' = epoch \/ (NextItem /\ LastOfEpoch /\ epoch' = epoch + 1)
  <2>1. CASE NextItem
    BY <2>1 DEF NextItem
  <2>2. CASE ThreadActs
    BY <2>2, ThreadKeeps DEF Types, reader
  <2>3. CASE ReaderActs /\ ~NextItem
    BY <2>3 DEF ReaderActs, ReaderStep, Count, Map, View, Find, ForceDownload, TakeBlock, TakeRow,
                Release, Close, CloseBuffer, CloseMapping, Enter, EndEpoch, Join, Give, Collate, reader
  <2> QED BY <2>1, <2>2, <2>3, TwoThreads
<1>2. ~wasForced' => ~wasForced /\ ~ForceDownload /\ ~Refetch /\ ~Refetched
  <2>1. ForceDownload => wasForced'
    BY DEF ForceDownload
  <2>2. Refetch \/ Refetched => wasForced /\ wasForced'
    BY DEF Refetch, Refetched, Types, ThreadTypes
  <2>3. ~ForceDownload => wasForced' = wasForced
    <3>1. CASE NextItem
      BY <3>1 DEF NextItem, thread
    <3>2. CASE ThreadActs
      BY <3>2 DEF ThreadActs, ThreadStep, Count, Map, View, Download, ScanParquet, Downloaded, ReceiveEnd,
                  Skip, Evict, Keep, DeleteBuffer, Delete, Cleaned, Refetch, Refetched, thread
    <3>3. ASSUME ReaderActs, ~NextItem, ~ForceDownload PROVE wasForced' = wasForced
      BY <3>3 DEF ReaderActs, ReaderStep, Count, Map, View, Find, TakeBlock, TakeRow,
                  Release, Close, CloseBuffer, CloseMapping, Enter, EndEpoch, Join, Give, Collate, thread
    <3> QED BY <3>1, <3>2, <3>3, TwoThreads
  <2> QED BY <2>1, <2>2, <2>3
<1>3. Careful' => Careful
  <2>1. reading' = reading /\ Tokens' = Tokens
    BY Same
  <2>2. epoch \in Nat
    BY DEF Types, ReaderTypes
  <2> QED BY <1>1, <1>2, <2>1, <2>2 DEF Careful, Trusted
<1> QED BY <1>1, <1>2, <1>3

LEMMA Quiet ==
    ASSUME CountInv, Careful' => Careful, UNCHANGED <<reading, here, counter, mmap>>,
           \A c \in Indexes :
              /\ Held(c)' => Held(c)
              /\ Loads(c)' => Loads(c)
              /\ Inside(c)' => Inside(c)
              /\ Open(c)' => Open(c)
              /\ reading.evicts /\ Queued(c)' => Queued(c)
    PROVE  CountInv'
<1>1. Indexes' = Indexes
  BY DEF Indexes
<1> QED BY <1>1 DEF CountInv, CountedFor

\* The reader stays where it is.
LEMMA StaysPut ==
    ASSUME UNCHANGED reader, at'["reader"] = at["reader"]
    PROVE  \A c : Held(c)' = Held(c) /\ Inside(c)' = Inside(c) /\ Open(c)' = Open(c)
  BY DEF Held, Inside, Open, GetsIn, HasMap, reader

LEMMA QueuedKept ==
    ASSUME Types, ReadingNext, ~(NextItem /\ reading.remote /\ at["thread"] = "none"),
           NEW c \in Indexes, End \notin Indexes, Queued(c)'
    PROVE  Queued(c)
<1>1. waiting \in Seq(Indexes \union {End})
  BY DEF Types, ThreadTypes
<1>2. CASE waiting' = waiting
  BY <1>2 DEF Queued
<1>3. CASE EndEpoch
  <2>1. CASE waiting' = Append(waiting, End)
    <3>1. PICK i \in DOMAIN Append(waiting, End) : Append(waiting, End)[i] = c
      BY <2>1 DEF Queued
    <3>2. i \in DOMAIN waiting /\ waiting[i] = c
      BY <1>1, <3>1, AppendFrom
    <3> QED BY <3>2 DEF Queued
  <2> QED BY <1>2, <1>3, <2>1 DEF EndEpoch
<1>4. CASE Download
  <2>1. waiting # << >> /\ waiting' = Tail(waiting)
    BY <1>4 DEF Download
  <2> QED BY <1>1, <2>1, TailFrom DEF Queued
<1>5. CASE NextItem
  BY <1>2, <1>5 DEF NextItem, thread
<1>6. ASSUME ReaderActs, ~NextItem, ~EndEpoch PROVE waiting' = waiting
  BY <1>6 DEF ReaderActs, ReaderStep, Count, Map, View, Find, ForceDownload, TakeBlock, TakeRow,
              Release, Close, CloseBuffer, CloseMapping, Enter, Join, Give, Collate, thread
<1>7. ASSUME ThreadActs, ~Download PROVE waiting' = waiting
  BY <1>7 DEF ThreadActs, ThreadStep, Count, Map, View, ScanParquet, Downloaded, ReceiveEnd,
              Skip, Evict, Keep, DeleteBuffer, Delete, Cleaned, Refetch, Refetched, thread
<1> QED BY <1>2, <1>3, <1>4, <1>5, <1>6, <1>7, TwoThreads

LEMMA CountStep ==
    ASSUME ReadJobAssumption, Types, ReadingNext, Walks, RelInv, HereInv, CountInv PROVE CountInv'
<1>1. reading' = reading /\ Indexes' = Indexes /\ TableTypes /\ (Careful' => Careful /\ ~wasForced)
  BY Same, Monotone DEF Types, Careful
<1>2. /\ now \in Indexes /\ last \in Indexes \union {None} /\ epoch \in Nat
      /\ Indexes = 1 .. Len(reading.size) /\ Len(reading.size) \in Nat
      /\ None \notin Indexes /\ End \notin Indexes
  BY JobFacts DEF Types, TableTypes, ReaderTypes, End, None
<1>3. counter \in [Indexes -> Int] /\ mmap \in [Indexes -> Nat]
  BY DEF Types, TableTypes
<1>4. at = [t \in Threads |-> at[t]] /\ "reader" \in Threads /\ "thread" \in Threads
  BY DEF Types, TableTypes, Threads
<1>5. SUFFICES ASSUME Careful, ~wasForced, Careful' PROVE CountInv'
  BY <1>1 DEF CountInv
<1>6. \A c \in Indexes : CountedFor(c)
  BY <1>5 DEF CountInv
<1> DEFINE Starts == NextItem /\ reading.remote /\ at["thread"] = "none"
<1>7. ~Starts => \A c \in Indexes : Queued(c)' => Queued(c)
  BY <1>2, QueuedKept
\* The steps that load and close nothing.
<1>8. ASSUME ~Starts, UNCHANGED <<here, counter, mmap>>, at'["thread"] \in {at["thread"], "none"},
             fetching' = fetching,
             \A c \in Indexes :
                /\ Held(c)' => Held(c)
                /\ Inside(c)' => Inside(c)
                /\ Open(c)' => Open(c)
      PROVE  CountInv'
  <2>1. \A c : Loads(c)' => Loads(c)
    BY <1>8 DEF Loads
  <2> QED BY <1>1, <1>7, <1>8, <2>1, Quiet
<1>9. ASSUME UNCHANGED <<reader, here, counter, mmap>>, ThreadActs, at'["reader"] = at["reader"],
             \A c : Loads(c)' => Loads(c)
      PROVE  CountInv'
  <2>1. ~Starts
    BY <1>9, ThreadKeeps DEF Types
  <2>2. \A c : Held(c)' = Held(c) /\ Inside(c)' = Inside(c) /\ Open(c)' = Open(c)
    BY <1>9, StaysPut
  <2> HIDE DEF Starts
  <2> QED BY <1>1, <1>7, <1>9, <2>1, <2>2, Quiet
<1>10. ASSUME Count("reader") PROVE CountInv'
  <2>1. /\ UNCHANGED <<here, mmap, now, last, waiting, fetching>> /\ at["reader"] = "count"
        /\ counter' = [counter EXCEPT ![now] = @ + 1]
    BY <1>10 DEF Count, ChunkAt, reader, thread
  <2>2. /\ at'["thread"] = at["thread"] /\ at'["reader"] \in {"map", "take"}
        /\ at'["reader"] = "take" => mmap[now] # None
    BY <1>4, <1>10 DEF Count, Goto, ChunkAt, After
  <2>3. /\ counter'[now] = counter[now] + 1 /\ counter[now] \in Int
        /\ \A c \in Indexes \ {now} : counter'[c] = counter[c]
    BY <1>2, <1>3, <2>1
  <2>4. now \in here
    BY <1>5, <2>1 DEF HereInv, Reading
  <2>5. \A c \in Indexes : Loads(c)' = Loads(c) /\ Queued(c)' = Queued(c)
    BY <2>1, <2>2 DEF Loads, Queued
  <2>6. \A c \in Indexes : (Held(c)' => Held(c) \/ c = now) /\ (Inside(c)' => Inside(c) \/ c = now)
    BY <2>1, <2>2 DEF Held, Inside
  <2>7. \A c \in Indexes : Open(c)' => Open(c) \/ mmap[c] # None
    BY <2>1, <2>2 DEF Open, HasMap, Closing
  <2>8. ASSUME NEW c \in Indexes PROVE CountedFor(c)'
    <3>1. CountedFor(c) /\ counter[c] \in Int
      BY <1>3, <1>6
    <3>2. CASE c = now
      <4>1. Loads(c) => counter[c] >= 1
        BY <2>4, <3>1, <3>2 DEF CountedFor
      <4>2. counter[c] >= 0 /\ (Open(c) => mmap[c] # None)
        BY <2>4, <3>1, <3>2 DEF CountedFor
      <4> QED BY <2>1, <2>3, <2>4, <2>5, <2>7, <3>1, <3>2, <4>1, <4>2 DEF CountedFor
    <3>3. CASE c # now
      BY <1>1, <2>1, <2>3, <2>5, <2>6, <2>7, <3>1, <3>3 DEF CountedFor
    <3> QED BY <3>2, <3>3
  <2> QED BY <1>1, <2>8 DEF CountInv
<1>11. ASSUME Count("thread") PROVE CountInv'
  <2>1. /\ UNCHANGED <<here, mmap, reader, waiting, fetching>> /\ at["thread"] = "count"
        /\ counter' = [counter EXCEPT ![fetching] = @ + 1]
    BY <1>11 DEF Count, ChunkAt, reader, thread
  <2>2. /\ at'["reader"] = at["reader"] /\ at'["thread"] \in {"map", "loaded"}
    BY <1>4, <1>11 DEF Count, Goto, ChunkAt, After
  <2>3. fetching \in Indexes /\ fetching \in here
    BY <1>5, <2>1 DEF HereInv, Loading, Types, ThreadTypes
  <2>4. /\ counter'[fetching] = counter[fetching] + 1 /\ counter[fetching] \in Int
        /\ \A c \in Indexes \ {fetching} : counter'[c] = counter[c]
    BY <1>3, <2>1, <2>3
  <2>5. \A c : Held(c)' = Held(c) /\ Inside(c)' = Inside(c) /\ Open(c)' = Open(c)
    BY <2>1, <2>2, StaysPut
  <2>6. \A c \in Indexes : Queued(c)' = Queued(c) /\ (Loads(c)' => c = fetching)
    BY <2>1 DEF Queued, Loads
  <2>7. ASSUME NEW c \in Indexes PROVE CountedFor(c)'
    <3>1. CountedFor(c) /\ counter[c] \in Int
      BY <1>3, <1>6
    <3>2. CASE c = fetching
      <4>1. counter[c] >= 0 /\ (Held(c) => counter[c] >= 1) /\ (Open(c) => mmap[c] # None)
        BY <2>3, <3>1, <3>2 DEF CountedFor
      <4> QED BY <2>1, <2>3, <2>4, <2>5, <3>1, <3>2, <4>1 DEF CountedFor
    <3>3. CASE c # fetching
      BY <1>1, <2>1, <2>4, <2>5, <2>6, <3>1, <3>3 DEF CountedFor
    <3> QED BY <3>2, <3>3
  <2> QED BY <1>1, <2>7 DEF CountInv
<1>12. ASSUME NEW t \in Threads, Map(t) PROVE CountInv'
  <2> DEFINE d == ChunkAt(t)
             n == Unused(d)
  <2>1. d \in Indexes
    BY <1>12, ChunkInHand DEF Map, Loading
  <2>2. n \in Nat \ {0}
    BY <2>1, FreshNumber
  <2>3. /\ UNCHANGED <<here, counter, now, last, waiting, fetching>> /\ at[t] = "map"
        /\ mmap' = mmap \/ mmap' = [mmap EXCEPT ![d] = n]
        /\ d \in here => mmap' = [mmap EXCEPT ![d] = n]
    BY <1>12 DEF Map, reader, thread
  <2>4. /\ at'[t] \in {"view", "failed"} /\ \A u \in Threads \ {t} : at'[u] = at[u]
    BY <1>4, <1>12 DEF Map, Goto
  <2> HIDE DEF n, d
  <2>5. \A c \in Indexes : mmap'[c] = mmap[c] \/ mmap'[c] # None
    BY <1>3, <2>1, <2>2, <2>3 DEF None
  <2>6. \A c \in Indexes : Loads(c)' => Loads(c)
    BY <2>3, <2>4, <1>4 DEF Loads
  <2>7. \A c \in Indexes : Held(c)' => Held(c)
    BY <2>3, <2>4, <1>4 DEF Held, GetsIn, Closing
  <2>8. \A c \in Indexes : Inside(c)' => Inside(c)
    BY <2>3, <2>4, <1>4 DEF Inside, GetsIn, Closing
  <2>9. \A c \in Indexes : Open(c)' => Open(c) \/ mmap'[c] # None
    <3>1. CASE t = "thread"
      BY <2>3, <2>4, <3>1, <1>4 DEF Open, HasMap
    <3>2. CASE t = "reader"
      <4>1. d = now /\ at["reader"] = "map"
        BY <2>3, <3>2 DEF d, ChunkAt
      <4>2. mmap'[now] # None
        BY <1>3, <1>5, <2>1, <2>2, <2>3, <4>1 DEF HereInv, Reading, None
      <4> QED BY <2>3, <2>4, <3>2, <4>1, <4>2 DEF Open
    <3> QED BY <3>1, <3>2 DEF Threads
  <2>10. ASSUME NEW c \in Indexes PROVE CountedFor(c)'
    <3>1. CountedFor(c) /\ Queued(c)' = Queued(c)
      BY <1>6, <2>3 DEF Queued
    <3> QED BY <1>1, <2>3, <2>5, <2>6, <2>7, <2>8, <2>9, <3>1 DEF CountedFor
  <2> QED BY <1>1, <2>10 DEF CountInv
<1>13. ASSUME View("reader") PROVE CountInv'
  <2>1. /\ UNCHANGED <<here, counter, mmap, now, last, fetching>> /\ at["reader"] = "view"
        /\ at'["thread"] = at["thread"] /\ at'["reader"] = "take"
    BY <1>4, <1>13 DEF View, Goto, After, reader, thread
  <2>2. ~Starts
    BY <2>1 DEF NextItem
  <2> QED BY <1>8, <2>1, <2>2 DEF Held, Inside, Open, GetsIn, HasMap
<1>14. ASSUME View("thread") PROVE CountInv'
  <2>1. /\ UNCHANGED <<here, counter, mmap, reader, fetching>>
        /\ at'["reader"] = at["reader"] /\ at'["thread"] = "loaded"
    BY <1>4, <1>14 DEF View, Goto, After, thread
  <2> QED BY <1>9, <1>14, <2>1 DEF Loads, ThreadActs
<1>15. ASSUME NextItem PROVE CountInv'
  <2>1. /\ UNCHANGED <<here, counter, mmap, last>> /\ at["reader"] = "next" /\ at'["reader"] = "find"
    BY <1>4, <1>15 DEF NextItem, Goto, tables
  <2>2. \A c \in Indexes : (Held(c)' => Held(c)) /\ (Inside(c)' => Inside(c)) /\ (Open(c)' => Open(c))
    BY <2>1 DEF Held, Inside, Open, GetsIn, HasMap, Closing
  <2>3. CASE ~Starts
    <3>1. fetching' = fetching /\ at'["thread"] = at["thread"]
      BY <1>4, <1>15, <2>3 DEF NextItem, Goto, thread
    <3> QED BY <1>8, <2>1, <2>2, <2>3, <3>1
  <2>4. CASE Starts
    <3>1. at'["thread"] = "run" /\ \A c : ~Loads(c) /\ ~Loads(c)'
      BY <1>4, <2>4 DEF NextItem, Loads
    <3>2. CASE ~reading.evicts
      BY <1>1, <2>1, <2>2, <3>1, <3>2, Quiet
    <3>3. CASE reading.evicts
      <4>1. epoch' <= 1 /\ epoch' = epoch + 1
        <5>1. LastOfEpoch
          BY <2>4 DEF Walks, EpochInv
        <5> QED BY <1>1, <1>5, <2>4, <3>3, <5>1 DEF Careful, Trusted, NextItem
      <4>2. here = {} /\ last = None /\ \A c \in Indexes : counter[c] = 0
        BY <1>2, <2>4, <4>1 DEF Walks, EpochInv
      <4>3. \A c \in Indexes : ~Inside(c)'
        BY <1>2, <2>1, <4>2 DEF Inside, GetsIn, Closing
      <4> QED BY <1>1, <2>1, <3>1, <4>2, <4>3 DEF CountInv, CountedFor
    <3> QED BY <3>2, <3>3
  <2> QED BY <2>3, <2>4
<1>16. ASSUME Find \/ ForceDownload \/ TakeBlock \/ TakeRow PROVE CountInv'
  <2>1. /\ UNCHANGED <<here, counter, mmap, now, last, fetching>> /\ at'["thread"] = at["thread"]
        /\ at["reader"] \in {"find", "take"}
    BY <1>4, <1>16 DEF Find, ForceDownload, TakeBlock, TakeRow, Goto, reader, thread, tables
  <2>2. \/ at["reader"] = "find" /\ at'["reader"] \in {"find", "count", "take"} /\ (at'["reader"] = "take" => ~Tokens)
        \/ at["reader"] = "take" /\ at'["reader"] \in {"release", "failed"}
    BY <1>4, <1>16 DEF Find, ForceDownload, TakeBlock, TakeRow, Goto
  <2>3. ~Starts
    BY <2>1 DEF NextItem
  <2>4. Tokens
    BY <1>5 DEF Careful
  <2> QED BY <1>8, <2>1, <2>2, <2>3, <2>4 DEF Held, Inside, Open, GetsIn, HasMap, Closing
<1>17. ASSUME Release PROVE CountInv'
  <2>1. /\ UNCHANGED <<here, counter, mmap, now, last, fetching>> /\ at'["thread"] = at["thread"]
        /\ at["reader"] = "release"
    BY <1>4, <1>17 DEF Release, Goto, reader, tables
  <2>2. at'["reader"] = CASE now = last -> "end" [] last = None -> "enter" [] OTHER -> "close"
    BY <1>4, <1>17 DEF Release, Goto
  <2>3. \/ now = last /\ at'["reader"] = "end"
        \/ now # last /\ last = None /\ at'["reader"] = "enter"
        \/ now # last /\ last # None /\ at'["reader"] = "close"
    BY <1>2, <2>2
  <2>4. ~Starts
    BY <2>1 DEF NextItem
  <2>5. \A c \in Indexes : Held(c)' => Held(c)
    BY <1>2, <2>1, <2>3 DEF Held, GetsIn
  <2>6. \A c \in Indexes : Inside(c)' => Inside(c)
    BY <1>2, <2>1, <2>3 DEF Inside, GetsIn
  <2>7. \A c \in Indexes : Open(c)' => Open(c)
    BY <1>2, <2>1, <2>3 DEF Open, HasMap
  <2> QED BY <1>8, <2>1, <2>4, <2>5, <2>6, <2>7
<1>18. ASSUME Close PROVE CountInv'
  <2>1. /\ UNCHANGED <<here, mmap, now, last, waiting, fetching>> /\ at["reader"] = "close"
        /\ counter' = [counter EXCEPT ![last] = @ - 1]
    BY <1>5, <1>18 DEF Close, Left, reader, thread, Careful
  <2>2. at'["thread"] = at["thread"] /\ at'["reader"] \in {"unbuffer", "enter"}
    BY <1>4, <1>18 DEF Close, Goto
  <2>3. last \in Indexes
    BY <1>2, <2>1 DEF Walks, WalkInv
  <2>4. /\ counter'[last] = counter[last] - 1 /\ counter[last] \in Int
        /\ \A c \in Indexes \ {last} : counter'[c] = counter[c]
    BY <1>3, <2>1, <2>3
  <2>5. /\ \A c \in Indexes : Held(c)' => Held(c) /\ c # last
        /\ Held(last) /\ Inside(last)
    <3>1. Held(last) /\ Inside(last)
      BY <2>1 DEF Held, Inside
    <3>2. \A c \in Indexes : Held(c)' => c = now /\ now # last
      BY <2>1, <2>2 DEF Held
    <3>3. GetsIn
      BY <2>1 DEF GetsIn, Closing
    <3> QED BY <3>1, <3>2, <3>3 DEF Held
  <2>6. \A c \in Indexes : (Inside(c)' => Inside(c)) /\ (Open(c)' => Open(c))
    BY <2>1, <2>2 DEF Inside, Open, GetsIn, HasMap, Closing
  <2>7. \A c \in Indexes : Loads(c)' = Loads(c) /\ Queued(c)' = Queued(c)
    BY <2>1, <2>2 DEF Loads, Queued
  <2>8. ASSUME NEW c \in Indexes PROVE CountedFor(c)'
    <3>1. CountedFor(c) /\ counter[c] \in Int
      BY <1>3, <1>6
    <3>2. CASE c = last
      <4>1. c \in here => counter[c] >= 1 /\ (Loads(c) => counter[c] >= 2) /\ (Open(c) => mmap[c] # None)
        BY <2>5, <3>1, <3>2 DEF CountedFor
      <4>2. c \notin here => ~Loads(c) /\ ~(~reading.evicts \/ Queued(c))
        BY <2>5, <3>1, <3>2 DEF CountedFor
      <4> QED BY <1>1, <2>1, <2>4, <2>5, <2>6, <2>7, <3>1, <3>2, <4>1, <4>2 DEF CountedFor
    <3>3. CASE c # last
      BY <1>1, <2>1, <2>4, <2>5, <2>6, <2>7, <3>1, <3>3 DEF CountedFor
    <3> QED BY <3>2, <3>3
  <2> QED BY <1>1, <2>8 DEF CountInv

<1>19. ASSUME CloseBuffer PROVE CountInv'
  <2>1. /\ UNCHANGED <<here, counter, mmap, now, last, fetching>> /\ at["reader"] = "unbuffer"
        /\ at'["thread"] = at["thread"] /\ at'["reader"] = "unmap"
    BY <1>4, <1>19 DEF CloseBuffer, Goto, reader, thread
  <2>2. ~Starts
    BY <2>1 DEF NextItem
  <2> QED BY <1>8, <2>1, <2>2 DEF Held, Inside, Open, GetsIn, HasMap, Closing
<1>20. ASSUME CloseMapping PROVE CountInv'
  <2>1. /\ UNCHANGED <<here, counter, now, last, waiting, fetching>> /\ at["reader"] = "unmap"
        /\ mmap' = [mmap EXCEPT ![last] = None]
        /\ at'["thread"] = at["thread"] /\ at'["reader"] = "enter"
    BY <1>4, <1>20 DEF CloseMapping, Unmap, Left, Goto, reader, thread
  <2>2. \A c \in Indexes : mmap'[c] = mmap[c] \/ c = last
    BY <1>3, <2>1
  <2>3. \A c \in Indexes : (Held(c)' => Held(c)) /\ (Inside(c)' => Inside(c))
    BY <2>1 DEF Held, Inside, GetsIn, Closing
  <2>4. \A c \in Indexes : Open(c)' => Open(c) /\ c # last
    BY <2>1 DEF Open, HasMap, Closing
  <2>5. \A c \in Indexes : Loads(c)' = Loads(c) /\ Queued(c)' = Queued(c)
    BY <2>1 DEF Loads, Queued
  <2>6. ASSUME NEW c \in Indexes PROVE CountedFor(c)'
    <3>1. CountedFor(c)
      BY <1>6
    <3> QED BY <1>1, <2>1, <2>2, <2>3, <2>4, <2>5, <3>1 DEF CountedFor
  <2> QED BY <1>1, <2>6 DEF CountInv
<1>21. ASSUME Enter PROVE CountInv'
  <2>1. /\ UNCHANGED <<here, counter, mmap, now, fetching>> /\ at["reader"] = "enter"
        /\ at'["thread"] = at["thread"] /\ at'["reader"] = (IF last = now THEN "give" ELSE "end")
        /\ last' = IF last = now THEN None ELSE now
    BY <1>4, <1>21 DEF Enter, Goto, thread, tables
  <2>2. ~Starts
    BY <2>1 DEF NextItem
  <2>3. \A c \in Indexes : (Held(c)' => Held(c)) /\ (Inside(c)' => Inside(c)) /\ (Open(c)' => Open(c))
    BY <1>2, <2>1 DEF Held, Inside, Open, GetsIn, HasMap, Closing
  <2> QED BY <1>8, <2>1, <2>2, <2>3
<1>22. ASSUME EndEpoch PROVE CountInv'
  <2>1. /\ UNCHANGED <<here, counter, mmap, now, last, fetching>> /\ at["reader"] = "end"
        /\ at'["thread"] = at["thread"] /\ at'["reader"] \in {"join", "give"}
    BY <1>4, <1>22 DEF EndEpoch, Goto, reader, tables
  <2>2. ~Starts
    BY <2>1 DEF NextItem
  <2>3. \A c \in Indexes : (Held(c)' => Held(c)) /\ (Inside(c)' => Inside(c)) /\ (Open(c)' => Open(c))
    BY <2>1 DEF Held, Inside, Open, GetsIn, HasMap, Closing
  <2> QED BY <1>8, <2>1, <2>2, <2>3
<1>23. ASSUME Join PROVE CountInv'
  <2>1. /\ UNCHANGED <<here, counter, mmap, now, last, fetching>> /\ at["reader"] = "join"
        /\ at'["thread"] = "none" /\ at'["reader"] = "close"
    BY <1>4, <1>23 DEF Join, reader, thread, tables
  <2>2. ~Starts
    BY <2>1 DEF NextItem
  <2>3. now = last
    BY <2>1 DEF Walks, WalkInv
  <2>4. \A c \in Indexes : (Held(c)' => Held(c)) /\ (Inside(c)' => Inside(c)) /\ (Open(c)' => Open(c))
    BY <2>1, <2>3 DEF Held, Inside, Open
  <2> QED BY <1>8, <2>1, <2>2, <2>4
<1>24. ASSUME Give \/ Collate PROVE CountInv'
  <2>1. /\ UNCHANGED <<here, counter, mmap, now, last, fetching>> /\ at["reader"] \in {"give", "collate"}
        /\ at'["thread"] = at["thread"] /\ at'["reader"] \in {"next", "collate", "killed"}
    BY <1>4, <1>24 DEF Give, Collate, Goto, thread, tables
  <2>2. ~Starts
    BY <2>1 DEF NextItem
  <2>3. \A c \in Indexes : (Held(c)' => Held(c)) /\ (Inside(c)' => Inside(c)) /\ (Open(c)' => Open(c))
    BY <2>1 DEF Held, Inside, Open, GetsIn, HasMap, Closing
  <2> QED BY <1>8, <2>1, <2>2, <2>3
<1>25. ASSUME Download PROVE CountInv'
  <2>1. /\ UNCHANGED <<counter, mmap, reader>> /\ at["thread"] = "run"
        /\ waiting # << >> /\ waiting[1] # End /\ here' = here \union {waiting[1]}
    BY <1>25 DEF Download, Fetched
  <2>2. /\ at'["reader"] = at["reader"] /\ at'["thread"] \in {"count", "scan", "loaded"}
    BY <1>4, <1>25 DEF Download, Fetched, Goto
  <2>3. \A c : ~Loads(c) /\ ~Loads(c)'
    BY <2>1, <2>2 DEF Loads
  <2>4. \A c : Held(c)' = Held(c) /\ Inside(c)' = Inside(c) /\ Open(c)' = Open(c)
    BY <2>1, <2>2, StaysPut
  <2>5. \A c \in Indexes : Queued(c)' => Queued(c)
    BY <1>7, <2>1, <1>25, <1>2, QueuedKept, ThreadKeeps DEF NextItem
  <2>6. waiting \in Seq(Indexes \union {End})
    BY DEF Types, ThreadTypes
  <2>7. 1 \in DOMAIN waiting /\ waiting[1] \in Indexes
    BY <2>1, <2>6, FirstIn
  <2>8. ASSUME NEW c \in Indexes PROVE CountedFor(c)'
    <3>1. CountedFor(c) /\ (Held(c) => Inside(c)) /\ (Open(c) => Inside(c))
      <4>1. (Held(c) => Inside(c)) /\ (Open(c) => Inside(c))
        BY DEF Held, Inside, Open, GetsIn, HasMap
      <4> QED BY <1>6, <4>1
    <3>2. CASE c \in here \/ c # waiting[1]
      BY <1>1, <2>1, <2>3, <2>4, <2>5, <3>1, <3>2 DEF CountedFor
    <3>3. CASE c \notin here /\ c = waiting[1]
      <4>1. Queued(c)
        BY <2>7, <3>3 DEF Queued
      <4>2. counter[c] >= 0 /\ ~Inside(c)
        BY <3>1, <3>3, <4>1 DEF CountedFor
      <4> QED BY <1>1, <2>1, <2>3, <2>4, <3>1, <3>3, <4>2 DEF CountedFor
    <3> QED BY <3>2, <3>3
  <2> QED BY <1>1, <2>8 DEF CountInv
<1>26. ASSUME ScanParquet \/ Downloaded \/ ReceiveEnd \/ Skip \/ Evict \/ Keep \/ DeleteBuffer \/ Cleaned
       PROVE  CountInv'
  <2>1. UNCHANGED <<here, counter, mmap, reader>> /\ at'["reader"] = at["reader"]
    BY <1>4, <1>26 DEF ScanParquet, Downloaded, ReceiveEnd, Skip, Evict, Keep, DeleteBuffer, Cleaned, Goto, tables
  <2>2. at'["thread"] \notin {"map", "view"}
    BY <1>4, <1>26 DEF ScanParquet, Downloaded, ReceiveEnd, Skip, Evict, Keep, DeleteBuffer, Cleaned, Goto
  <2> QED BY <1>9, <1>26, <2>1, <2>2 DEF Loads, ThreadActs, ThreadStep
<1>27. ASSUME Delete PROVE CountInv'
  <2> DEFINE d == doomed[1]
  <2>1. /\ UNCHANGED <<reader, waiting>> /\ at["thread"] \in Deleting /\ at'["reader"] = at["reader"]
        /\ at'["thread"] \notin {"map", "view"} /\ here' = here \ {d}
    BY <1>4, <1>27 DEF Delete, Drop, Goto, Deleting
  <2>2. doomed \in Seq(Indexes) /\ doomed # << >> /\ reading.evicts /\ reading.remote /\ at["thread"] # "none"
    BY <2>1 DEF Types, ThreadTypes, Deleting
  <2>3. d \in Indexes
    BY <2>2, FirstIn
  <2>4. \/ UNCHANGED <<counter, mmap>>
        \/ counter' = [counter EXCEPT ![d] = 0] /\ mmap' = [mmap EXCEPT ![d] = None]
    BY <1>5, <1>27 DEF Delete, Drop, Unmap, Careful
  <2> HIDE DEF d
  <2>5. \A c \in Indexes \ {d} : counter'[c] = counter[c] /\ mmap'[c] = mmap[c]
    BY <1>3, <2>3, <2>4
  <2>6. \A c : ~Loads(c) /\ ~Loads(c)'
    BY <2>1 DEF Loads, Deleting
  <2>7. \A c : Held(c)' = Held(c) /\ Inside(c)' = Inside(c) /\ Open(c)' = Open(c)
    BY <2>1, StaysPut
  <2>8. epoch = 1 /\ \A c \in Indexes : Queued(c) => c \notin here
    <3>1. epoch <= 1 /\ epoch # 0
      BY <1>5, <2>2 DEF Careful, Trusted, Walks, EpochInv
    <3> QED BY <1>2, <1>5, <2>2, <3>1 DEF HereInv
  <2>9. d \notin here => UNCHANGED <<counter, mmap>>
    BY <1>5, <1>27 DEF Delete, Drop, Careful, d
  <2>10. ASSUME NEW c \in Indexes PROVE CountedFor(c)'
    <3>1. CountedFor(c) /\ Queued(c)' = Queued(c)
      BY <1>6, <2>1 DEF Queued
    <3>2. CASE c # d
      BY <1>1, <2>1, <2>5, <2>6, <2>7, <3>1, <3>2 DEF CountedFor
    <3>3. CASE c = d /\ d \in here
      BY <1>1, <2>1, <2>2, <2>6, <2>8, <3>1, <3>3 DEF CountedFor
    <3>4. CASE c = d /\ d \notin here
      BY <1>1, <2>1, <2>6, <2>7, <2>9, <3>1, <3>4 DEF CountedFor
    <3> QED BY <3>2, <3>3, <3>4
  <2> QED BY <1>1, <2>10 DEF CountInv
<1>28. CASE Refetch \/ Refetched
  BY <1>5, <1>28, Monotone DEF Careful
<1> QED
  <2>1. CASE ReaderActs
    BY <1>10, <1>12, <1>13, <1>15, <1>16, <1>17, <1>18, <1>19, <1>20, <1>21, <1>22, <1>23, <1>24, <1>4, <2>1
       DEF ReaderActs, ReaderStep
  <2>2. CASE ThreadActs
    BY <1>11, <1>12, <1>14, <1>25, <1>26, <1>27, <1>28, <1>4, <2>2 DEF ThreadActs, ThreadStep
  <2> QED BY <2>1, <2>2, TwoThreads

-----------------------------------------------------------------------------
(* The mappings that are closed. *)

\* A chunk that is closed because its count is 0 is not being loaded.
UnmapInv == Careful /\ at["reader"] \in {"unbuffer", "unmap"} =>
    /\ ~Loads(last)
    /\ at["reader"] = "unmap" => buffer[last] = None

LEMMA UnmapStep ==
    ASSUME ReadJobAssumption, Types, ReadingNext, Walks, HereInv, CountInv, UnmapInv PROVE UnmapInv'
<1>1. reading' = reading /\ Indexes' = Indexes /\ TableTypes /\ (Careful' => Careful /\ ~wasForced)
  BY Same, Monotone DEF Types, Careful
<1>2. now \in Indexes /\ last \in Indexes \union {None} /\ None \notin Indexes
  BY <1>1, JobFacts DEF Types, TableTypes, ReaderTypes, None
<1>3. counter \in [Indexes -> Int] /\ buffer \in [Indexes -> Nat]
  BY DEF Types, TableTypes
<1>4. at = [t \in Threads |-> at[t]] /\ "reader" \in Threads /\ "thread" \in Threads
  BY DEF Types, TableTypes, Threads
<1>5. SUFFICES ASSUME Careful, ~wasForced, Careful', at'["reader"] \in {"unbuffer", "unmap"} PROVE UnmapInv'
  BY <1>1 DEF UnmapInv
<1>6. \A c \in Indexes : CountedFor(c)
  BY <1>5 DEF CountInv
<1>7. CASE ReaderActs
  <2>1. CASE Close
    <3>1. /\ UNCHANGED <<last, fetching>> /\ at["reader"] = "close" /\ counter'[last] = 0
          /\ counter' = [counter EXCEPT ![last] = @ - 1]
      BY <1>4, <1>5, <2>1 DEF Close, Left, Goto, reader, thread, Careful
    <3>2. at'["thread"] = at["thread"] /\ at'["reader"] # "unmap"
      BY <1>4, <2>1 DEF Close, Goto
    <3>3. last \in Indexes
      BY <1>2, <3>1 DEF Walks, WalkInv
    <3>4. counter[last] = 1
      BY <1>3, <3>1, <3>3
    <3>5. ~Loads(last)
      BY <1>6, <3>1, <3>3, <3>4 DEF CountedFor, Held
    <3> QED BY <3>1, <3>2, <3>5 DEF UnmapInv, Loads
  <2>2. CASE CloseBuffer
    <3>1. /\ UNCHANGED <<last, fetching>> /\ at["reader"] = "unbuffer" /\ at'["thread"] = at["thread"]
          /\ buffer' = [buffer EXCEPT ![last] = None]
      BY <1>4, <2>2 DEF CloseBuffer, DropBuffer, Left, Goto, reader, thread
    <3>2. last \in Indexes
      BY <1>2, <3>1 DEF Walks, WalkInv
    <3>3. buffer'[last] = None
      BY <1>3, <3>1, <3>2
    <3> QED BY <1>5, <3>1, <3>3 DEF UnmapInv, Loads
  <2>3. CASE Release
    <3>1. at'["reader"] = CASE now = last -> "end" [] last = None -> "enter" [] OTHER -> "close"
      BY <1>4, <2>3 DEF Release, Goto
    <3>2. at'["reader"] \in {"end", "enter", "close"}
      BY <3>1
    <3> QED BY <1>5, <3>2
  <2>4. ASSUME ~Close, ~CloseBuffer, ~Release PROVE FALSE
    <3>1. CASE Count("reader") \/ Map("reader") \/ View("reader")
      BY <1>4, <1>5, <3>1 DEF Count, Map, View, Goto, After
    <3>2. CASE NextItem \/ Find \/ ForceDownload \/ TakeBlock \/ TakeRow
      BY <1>4, <1>5, <3>2 DEF NextItem, Find, ForceDownload, TakeBlock, TakeRow, Goto
    <3>3. CASE CloseMapping \/ Enter \/ EndEpoch \/ Join \/ Give \/ Collate
      BY <1>4, <1>5, <3>3 DEF CloseMapping, Enter, EndEpoch, Join, Give, Collate, Goto
    <3> QED BY <1>7, <2>4, <3>1, <3>2, <3>3 DEF ReaderActs, ReaderStep
  <2> QED BY <2>1, <2>2, <2>3, <2>4
<1>8. CASE ThreadActs
  <2>1. UNCHANGED reader /\ last' = last /\ at'["reader"] = at["reader"] /\ at["reader"] \in {"unbuffer", "unmap"}
    BY <1>5, <1>8, ThreadKeeps DEF Types, reader
  <2>2. last \in Indexes
    BY <1>2, <2>1 DEF Walks, WalkInv
  <2>3. ~Loads(last) /\ (at["reader"] = "unmap" => buffer[last] = None)
    BY <1>5, <2>1 DEF UnmapInv
  <2>4. ~Loads(last)'
    <3>1. CASE Count("thread")
      <4>1. /\ UNCHANGED <<last, fetching>> /\ at["thread"] = "count"
            /\ mmap[fetching] # None => at'["thread"] = "loaded"
        BY <1>4, <3>1 DEF Count, ChunkAt, After, Goto, reader, thread
      <4>2. last = fetching => last \in here
        BY <1>5, <4>1 DEF HereInv, Loading
      <4>3. last = fetching => mmap[fetching] # None
        BY <1>6, <2>1, <2>2, <4>2 DEF CountedFor, Open
      <4> QED BY <4>1, <4>3 DEF Loads
    <3>2. CASE Map("thread") \/ View("thread")
      <4>1. /\ UNCHANGED <<last, fetching>> /\ at["thread"] \in {"map", "view"}
        BY <3>2 DEF Map, View, reader, thread
      <4> QED BY <2>3, <4>1 DEF Loads
    <3>3. CASE ThreadStep
      BY <1>4, <3>3 DEF ThreadStep, Download, ScanParquet, Downloaded, ReceiveEnd, Skip, Evict, Keep,
         DeleteBuffer, Delete, Cleaned, Refetch, Refetched, Fetched, Goto, Loads
    <3> QED BY <1>8, <3>1, <3>2, <3>3 DEF ThreadActs
  <2>5. buffer[last] = None => buffer'[last] = None
    <3>1. CASE View("thread")
      <4>1. at["thread"] = "view" /\ buffer' = [buffer EXCEPT ![fetching] = own["thread"]]
        BY <3>1 DEF View, ChunkAt
      <4>2. last # fetching
        BY <2>3, <4>1 DEF Loads
      <4> QED BY <1>3, <2>2, <4>1, <4>2
    <3>2. CASE ~View("thread")
      <4>1. buffer' = buffer \/ \E d : buffer' = [buffer EXCEPT ![d] = None]
        BY <1>8, <3>2 DEF ThreadActs, ThreadStep, Count, Map, Download, ScanParquet, Downloaded, ReceiveEnd, Skip,
           Evict, Keep, DeleteBuffer, DropBuffer, Delete, Cleaned, Refetch, Refetched, tables
      <4> QED BY <1>3, <2>2, <4>1
    <3> QED BY <3>1, <3>2
  <2> QED BY <2>1, <2>3, <2>4, <2>5 DEF UnmapInv
<1> QED BY <1>7, <1>8, TwoThreads

\* A chunk that is still to be read in this epoch.
Ahead(c) ==
    \/ c > now
    \/ c = now /\ (rest # {} \/ at["reader"] \in {"find"} \union Reading)
Sound(c) == Trusted \/ Ahead(c)

LEMMA SoundKept ==
    ASSUME ReadJobAssumption, Types, ReadingNext, Walks, Counted'
    PROVE  Counted /\ \A c \in Indexes : Sound(c)' => Sound(c)
<1>1. reading' = reading /\ TableTypes
  BY Same DEF Types
<1>2. now \in Nat /\ epoch \in Nat /\ Indexes \subseteq Nat
  BY <1>1, JobFacts DEF Types, TableTypes, ReaderTypes
<1>3. epoch' = epoch \/ (NextItem /\ LastOfEpoch /\ epoch' = epoch + 1)
  BY Monotone
<1>4. ~wasForced' /\ ~wasForced
  BY Monotone DEF Counted
<1>5. Counted
  BY <1>1, <1>2, <1>3, <1>4 DEF Counted
<1>6. at = [t \in Threads |-> at[t]] /\ "reader" \in Threads /\ "thread" \in Threads
  BY DEF Types, TableTypes, Threads
<1>7. ASSUME NEW c \in Indexes, Sound(c)' PROVE Sound(c)
  <2>1. CASE LastOfEpoch /\ NextItem
    <3>1. epoch' = epoch + 1
      BY <2>1 DEF NextItem
    <3> QED BY <1>1, <1>2, <3>1 DEF Counted, Sound, Trusted
  <2>2. CASE ~(LastOfEpoch /\ NextItem)
    <3>1. epoch' = epoch
      BY <1>3, <2>2
    <3>2. Ahead(c)' => Ahead(c)
      <4>1. CASE NextItem
        <5>1. /\ now' = IF rest = {} THEN now + 1 ELSE now
              /\ rest # {} => rest' = rest
          BY <2>2, <4>1 DEF NextItem
        <5> QED BY <1>2, <5>1 DEF Ahead
      <4>2. CASE ThreadActs
        <5>1. UNCHANGED <<now, rest>> /\ at'["reader"] = at["reader"]
          BY <4>2, ThreadKeeps DEF Types, reader
        <5> QED BY <5>1 DEF Ahead
      <4>3. ASSUME UNCHANGED <<now, rest>>, at["reader"] \in {"find"} \union Reading \/ at'["reader"] \notin {"find"} \union Reading
            PROVE  Ahead(c)' => Ahead(c)
        BY <4>3 DEF Ahead
      <4>4. CASE Count("reader") \/ Map("reader") \/ View("reader")
        <5>1. UNCHANGED <<now, rest>> /\ at["reader"] \in Reading
          BY <4>4 DEF Count, Map, View, reader, Reading
        <5> QED BY <4>3, <5>1
      <4>5. CASE Find \/ ForceDownload
        <5>1. UNCHANGED <<now, rest>> /\ at["reader"] = "find"
          BY <4>5 DEF Find, ForceDownload, reader
        <5> QED BY <4>3, <5>1
      <4>6. CASE TakeBlock \/ TakeRow
        <5>1. now' = now /\ at["reader"] = "take"
          BY <4>6 DEF TakeBlock, TakeRow
        <5>2. Ahead(now)
          BY <5>1 DEF Ahead, Reading
        <5>3. c > now \/ c = now \/ ~Ahead(c)'
          BY <5>1 DEF Ahead
        <5> QED BY <5>2, <5>3 DEF Ahead
      <4>7. CASE Release
        <5>1. UNCHANGED <<now, rest>>
          BY <4>7 DEF Release, reader
        <5>2. at'["reader"] = CASE now = last -> "end" [] last = None -> "enter" [] OTHER -> "close"
          BY <1>6, <4>7 DEF Release, Goto
        <5>3. at'["reader"] \in {"end", "enter", "close"}
          BY <5>2
        <5> QED BY <4>3, <5>1, <5>3 DEF Reading
      <4>8. CASE Close \/ CloseBuffer \/ CloseMapping \/ Enter \/ EndEpoch \/ Join \/ Give \/ Collate
        <5>1. UNCHANGED <<now, rest>>
          BY <4>8 DEF Close, CloseBuffer, CloseMapping, Enter, EndEpoch, Join, Give, Collate, reader
        <5>2. at'["reader"] \notin {"find"} \union Reading
          BY <1>6, <4>8 DEF Close, CloseBuffer, CloseMapping, Enter, EndEpoch, Join, Give, Collate, Goto, Reading
        <5> QED BY <4>3, <5>1, <5>2
      <4> QED BY <4>1, <4>2, <4>4, <4>5, <4>6, <4>7, <4>8, TwoThreads DEF ReaderActs, ReaderStep
    <3> QED BY <1>1, <1>7, <3>1, <3>2 DEF Sound, Trusted
  <2> QED BY <2>1, <2>2
<1> QED BY <1>5, <1>7

\* What a buffer is a view of is mapped, and what either thread is about to make one of.
BufInv == Tokens /\ Counted =>
    /\ \A c \in Indexes : Sound(c) /\ buffer[c] # None => <<c, buffer[c]>> \in mapped
    /\ at["thread"] = "view" /\ Sound(fetching) => <<fetching, own["thread"]>> \in mapped
    /\ at["reader"] = "view" => <<now, own["reader"]>> \in mapped
    /\ at["thread"] \in Deleting /\ doomed[1] \in here => buffer[doomed[1]] = None

LEMMA BufStep ==
    ASSUME ReadJobAssumption, Types, ReadingNext, Walks, RelInv, HereInv, UnmapInv, BufInv PROVE BufInv'
<1>1. reading' = reading /\ Indexes' = Indexes /\ Tokens' = Tokens /\ TableTypes
  BY Same DEF Types
<1>2. /\ now \in Indexes /\ last \in Indexes \union {None} /\ None \notin Indexes /\ Indexes \subseteq Nat
  BY <1>1, JobFacts DEF Types, TableTypes, ReaderTypes, None
<1>3. buffer \in [Indexes -> Nat] /\ own = [t \in Threads |-> own[t]]
  BY DEF Types, TableTypes
<1>4. at = [t \in Threads |-> at[t]] /\ "reader" \in Threads /\ "thread" \in Threads /\ "reader" # "thread"
  BY DEF Types, TableTypes, Threads
<1>5. SUFFICES ASSUME Tokens, Counted' PROVE BufInv'
  BY <1>1 DEF BufInv
<1>6. Counted /\ \A c \in Indexes : Sound(c)' => Sound(c)
  BY <1>5, SoundKept
<1>7. /\ \A c \in Indexes : Sound(c) /\ buffer[c] # None => <<c, buffer[c]>> \in mapped
      /\ at["thread"] = "view" /\ Sound(fetching) => <<fetching, own["thread"]>> \in mapped
      /\ at["reader"] = "view" => <<now, own["reader"]>> \in mapped
      /\ at["thread"] \in Deleting /\ doomed[1] \in here => buffer[doomed[1]] = None
  BY <1>5, <1>6 DEF BufInv
<1>8. ~wasForced
  BY <1>6 DEF Counted
<1>9. at["thread"] = "view" => fetching \in Indexes
  BY DEF Types, ThreadTypes, Loading
<1>10. /\ at["thread"] \in Deleting => doomed[1] \in Indexes
       /\ at["thread"] \in Deleting =>
             \/ doomed[1] < now /\ (doomed[1] = last => Leaving)
             \/ doomed[1] = now /\ at["reader"] = "join"
  <2>1. SUFFICES ASSUME at["thread"] \in Deleting
                 PROVE  /\ doomed[1] \in Indexes
                        /\ \/ doomed[1] < now /\ (doomed[1] = last => Leaving)
                           \/ doomed[1] = now /\ at["reader"] = "join"
    OBVIOUS
  <2>2. doomed \in Seq(Indexes) /\ doomed # << >> /\ at["thread"] # "none"
    BY <2>1 DEF Types, ThreadTypes, Deleting
  <2>3. 1 \in DOMAIN doomed /\ doomed[1] \in Indexes
    BY <2>2, FirstIn
  <2> QED BY <2>2, <2>3 DEF RelInv, Asked
\* The steps that leave buffers and mappings alone.
<1>11. ASSUME UNCHANGED <<buffer, mapped, own>>,
              at'["thread"] = "view" => at["thread"] = "view" /\ fetching' = fetching,
              at'["reader"] = "view" => at["reader"] = "view" /\ now' = now,
              at'["thread"] \in Deleting => at["thread"] \in Deleting /\ here' = here /\ doomed' = doomed
       PROVE  BufInv'
  <2>1. \A c \in Indexes : Sound(c)' /\ buffer'[c] # None => <<c, buffer'[c]>> \in mapped'
    BY <1>6, <1>7, <1>11
  <2>2. at'["thread"] = "view" /\ Sound(fetching)' => <<fetching', own'["thread"]>> \in mapped'
    <3>1. ASSUME at'["thread"] = "view", Sound(fetching)' PROVE <<fetching', own'["thread"]>> \in mapped'
      <4>1. at["thread"] = "view" /\ fetching' = fetching /\ fetching \in Indexes
        BY <1>9, <1>11, <3>1
      <4>2. Sound(fetching)
        BY <1>1, <1>6, <3>1, <4>1 DEF Sound, Ahead, Trusted
      <4> QED BY <1>7, <1>11, <4>1, <4>2
    <3> QED BY <3>1
  <2>3. at'["reader"] = "view" => <<now', own'["reader"]>> \in mapped'
    BY <1>7, <1>11
  <2>4. at'["thread"] \in Deleting /\ doomed'[1] \in here' => buffer'[doomed'[1]] = None
    BY <1>7, <1>11
  <2> QED BY <1>1, <2>1, <2>2, <2>3, <2>4 DEF BufInv
<1>12. CASE Count("reader")
  <2>1. UNCHANGED <<buffer, mapped, own, fetching, now, here, doomed>>
    BY <1>12 DEF Count, reader, thread
  <2>2. at'["thread"] = at["thread"] /\ at'["reader"] # "view"
    BY <1>4, <1>12 DEF Count, Goto, After
  <2> QED BY <1>11, <2>1, <2>2
<1>13. CASE Count("thread")
  <2>1. UNCHANGED <<buffer, mapped, own, fetching, now, here, doomed>>
    BY <1>13 DEF Count, reader, thread
  <2>2. at'["reader"] = at["reader"] /\ at'["thread"] \notin Deleting \union {"view"}
    BY <1>4, <1>13 DEF Count, Goto, After, Deleting
  <2> QED BY <1>11, <2>1, <2>2
<1>14. CASE NextItem
  <2>1. UNCHANGED <<buffer, mapped, own, here>> /\ at'["reader"] = "find"
    BY <1>4, <1>14 DEF NextItem, Goto, tables
  <2>2. \/ UNCHANGED <<fetching, doomed>> /\ at'["thread"] = at["thread"]
        \/ at'["thread"] = "run"
    BY <1>4, <1>14 DEF NextItem, Goto, thread
  <2> QED BY <1>11, <2>1, <2>2 DEF Deleting
<1>15. CASE Find \/ ForceDownload \/ TakeBlock \/ TakeRow
  <2>1. UNCHANGED <<buffer, mapped, own, fetching, now, here, doomed>>
    BY <1>15 DEF Find, ForceDownload, TakeBlock, TakeRow, reader, thread, tables
  <2>2. at'["thread"] = at["thread"] /\ at'["reader"] # "view"
    BY <1>4, <1>15 DEF Find, ForceDownload, TakeBlock, TakeRow, Goto
  <2> QED BY <1>11, <2>1, <2>2
<1>16. CASE Release
  <2>1. UNCHANGED <<buffer, mapped, own, fetching, now, here, doomed>> /\ at'["thread"] = at["thread"]
    BY <1>4, <1>16 DEF Release, Goto, reader, tables
  <2>2. at'["reader"] = CASE now = last -> "end" [] last = None -> "enter" [] OTHER -> "close"
    BY <1>4, <1>16 DEF Release, Goto
  <2>3. at'["reader"] # "view"
    BY <2>2
  <2> QED BY <1>11, <2>1, <2>3
<1>17. CASE Close \/ Enter \/ EndEpoch \/ Join \/ Give \/ Collate
  <2>1. UNCHANGED <<buffer, mapped, own, fetching, now, here, doomed>>
    BY <1>17 DEF Close, Enter, EndEpoch, Join, Give, Collate, reader, thread, tables
  <2>2. /\ at'["thread"] = at["thread"] \/ at'["thread"] = "none"
        /\ at'["reader"] # "view"
    BY <1>4, <1>17 DEF Close, Enter, EndEpoch, Join, Give, Collate, Goto
  <2> QED BY <1>11, <2>1, <2>2 DEF Deleting
<1>18. CASE Download \/ ScanParquet \/ Downloaded \/ ReceiveEnd \/ Skip \/ Evict \/ Cleaned
  <2>1. UNCHANGED <<buffer, mapped, own, now>> /\ at'["reader"] = at["reader"]
    BY <1>4, <1>18 DEF Download, ScanParquet, Downloaded, ReceiveEnd, Skip, Evict, Cleaned, Fetched, Goto, reader, tables
  <2>2. at'["thread"] \notin Deleting \union {"view"}
    BY <1>4, <1>18 DEF Download, ScanParquet, Downloaded, ReceiveEnd, Skip, Evict, Cleaned, Fetched, Goto, Deleting
  <2> QED BY <1>11, <2>1, <2>2
<1>19. CASE Keep
  <2>1. UNCHANGED <<buffer, mapped, own, now, at>> /\ at["thread"] \notin Deleting \union {"view"}
    BY <1>19 DEF Keep, reader, tables, Deleting
  <2> QED BY <1>11, <2>1
<1>20. CASE Refetch \/ Refetched
  BY <1>5, <1>20, Monotone DEF Counted
<1>21. ASSUME NEW t \in Threads, Map(t) PROVE BufInv'
  <2>1. /\ UNCHANGED <<buffer, here, doomed, fetching, now>>
        /\ \/ /\ mapped' = mapped \union {<<ChunkAt(t), Unused(ChunkAt(t))>>}
              /\ own' = [own EXCEPT ![t] = Unused(ChunkAt(t))]
              /\ at'[t] = "view"
           \/ UNCHANGED <<mapped, own>> /\ at'[t] = "failed"
    BY <1>4, <1>21 DEF Map, Goto, reader, thread
  <2>2. \A u \in Threads \ {t} : at'[u] = at[u]
    BY <1>4, <1>21 DEF Map, Goto
  <2>3. CASE UNCHANGED <<mapped, own>> /\ at'[t] = "failed"
    BY <1>4, <1>11, <2>1, <2>2, <2>3 DEF Deleting, Threads
  <2>4. CASE /\ mapped' = mapped \union {<<ChunkAt(t), Unused(ChunkAt(t))>>}
             /\ own' = [own EXCEPT ![t] = Unused(ChunkAt(t))]
             /\ at'[t] = "view"
    <3>1. own'[t] = Unused(ChunkAt(t)) /\ \A u \in Threads \ {t} : own'[u] = own[u]
      BY <1>3, <2>4
    <3>2. <<ChunkAt(t), own'[t]>> \in mapped'
      BY <2>4, <3>1
    <3>3. \A c \in Indexes : Sound(c)' /\ buffer'[c] # None => <<c, buffer'[c]>> \in mapped'
      BY <1>6, <1>7, <2>1, <2>4
    <3>4. at'["thread"] = "view" /\ Sound(fetching)' => <<fetching', own'["thread"]>> \in mapped'
      <4>1. CASE t = "thread"
        BY <2>1, <3>2, <4>1, <1>4 DEF ChunkAt
      <4>2. CASE t = "reader"
        <5>1. at'["thread"] = at["thread"] /\ own'["thread"] = own["thread"]
          BY <1>4, <2>2, <3>1, <4>2
        <5>2. ASSUME at["thread"] = "view", Sound(fetching)' PROVE Sound(fetching)
          BY <1>1, <1>6, <1>9, <2>1, <5>2 DEF Sound, Ahead, Trusted
        <5> QED BY <1>7, <2>1, <2>4, <5>1, <5>2
      <4> QED BY <4>1, <4>2 DEF Threads
    <3>5. at'["reader"] = "view" => <<now', own'["reader"]>> \in mapped'
      <4>1. CASE t = "reader"
        BY <2>1, <3>2, <4>1 DEF ChunkAt
      <4>2. CASE t = "thread"
        <5>1. at'["reader"] = at["reader"] /\ own'["reader"] = own["reader"]
          BY <1>4, <2>2, <3>1, <4>2
        <5> QED BY <1>7, <2>1, <2>4, <5>1
      <4> QED BY <4>1, <4>2 DEF Threads
    <3>6. at'["thread"] \in Deleting /\ doomed'[1] \in here' => buffer'[doomed'[1]] = None
      <4>1. at'["thread"] = at["thread"] \/ at'["thread"] = "view"
        BY <1>4, <2>2, <2>4
      <4> QED BY <1>7, <2>1, <4>1 DEF Deleting
    <3> QED BY <1>1, <3>3, <3>4, <3>5, <3>6 DEF BufInv
  <2> QED BY <2>1, <2>3, <2>4
<1>22. ASSUME NEW t \in Threads, View(t) PROVE BufInv'
  <2> DEFINE d == ChunkAt(t)
  <2>1. /\ UNCHANGED <<mapped, here, doomed, fetching, now>> /\ at[t] = "view"
        /\ buffer' = [buffer EXCEPT ![d] = own[t]] /\ own' = [own EXCEPT ![t] = None]
        /\ at'[t] \in {"take", "loaded"}
    BY <1>4, <1>22 DEF View, Goto, After, reader, thread
  <2>2. \A u \in Threads \ {t} : at'[u] = at[u]
    BY <1>4, <1>22 DEF View, Goto
  <2>3. d \in Indexes
    BY <2>1, ChunkInHand DEF Loading
  <2>4. (t = "reader" => d = now) /\ (t = "thread" => d = fetching)
    BY <1>4 DEF d, ChunkAt
  <2> HIDE DEF d
  <2>5. buffer'[d] = own[t] /\ \A c \in Indexes \ {d} : buffer'[c] = buffer[c]
    BY <1>3, <2>1, <2>3
  <2>6. \A u \in Threads \ {t} : own'[u] = own[u]
    BY <1>3, <2>1
  <2>7. Sound(d) => <<d, own[t]>> \in mapped
    BY <1>7, <2>1, <2>4 DEF Threads
  <2>8. \A c \in Indexes : Sound(c)' /\ buffer'[c] # None => <<c, buffer'[c]>> \in mapped'
    BY <1>6, <1>7, <2>1, <2>3, <2>5, <2>7
  <2>9. at'["thread"] = "view" /\ Sound(fetching)' => <<fetching', own'["thread"]>> \in mapped'
    <3>1. ASSUME at'["thread"] = "view", Sound(fetching)' PROVE <<fetching', own'["thread"]>> \in mapped'
      <4>1. t # "thread"
        BY <2>1, <3>1
      <4>2. at["thread"] = "view" /\ own'["thread"] = own["thread"]
        BY <1>4, <2>2, <2>6, <3>1, <4>1
      <4>3. Sound(fetching)
        BY <1>1, <1>6, <1>9, <2>1, <3>1, <4>2 DEF Sound, Ahead, Trusted
      <4> QED BY <1>7, <2>1, <4>2, <4>3
    <3> QED BY <3>1
  <2>10. at'["reader"] = "view" => <<now', own'["reader"]>> \in mapped'
    <3>1. ASSUME at'["reader"] = "view" PROVE t # "reader"
      BY <2>1, <3>1
    <3> QED BY <1>4, <1>7, <2>1, <2>2, <2>6, <3>1
  <2>11. at'["thread"] \in Deleting /\ doomed'[1] \in here' => buffer'[doomed'[1]] = None
    <3>1. ASSUME at'["thread"] \in Deleting, doomed[1] \in here PROVE buffer'[doomed[1]] = None
      <4>1. t # "thread"
        BY <2>1, <3>1 DEF Deleting
      <4>2. t = "reader" /\ at["thread"] \in Deleting
        BY <1>4, <2>2, <3>1, <4>1 DEF Threads
      <4>3. doomed[1] \in Indexes /\ doomed[1] # d
        BY <1>2, <1>10, <2>1, <2>4, <4>2
      <4> QED BY <1>7, <2>5, <3>1, <4>2, <4>3
    <3> QED BY <2>1, <3>1
  <2> QED BY <1>1, <2>8, <2>9, <2>10, <2>11 DEF BufInv
\* A buffer is dropped.
<1>23. ASSUME UNCHANGED <<mapped, own, here, doomed, fetching, now>>,
              NEW d \in Indexes, buffer' = [buffer EXCEPT ![d] = None] \/ buffer' = buffer,
              at'["thread"] = "view" => at["thread"] = "view",
              at'["reader"] = "view" => at["reader"] = "view",
              at'["thread"] \in Deleting =>
                  at["thread"] \in Deleting \/ doomed[1] \notin here \/ (doomed[1] = d /\ buffer'[d] = None)
       PROVE  BufInv'
  <2>1. \A c \in Indexes : buffer'[c] = buffer[c] \/ buffer'[c] = None
    BY <1>3, <1>23
  <2>2. \A c \in Indexes : Sound(c)' /\ buffer'[c] # None => <<c, buffer'[c]>> \in mapped'
    BY <1>6, <1>7, <1>23, <2>1
  <2>3. at'["thread"] = "view" /\ Sound(fetching)' => <<fetching', own'["thread"]>> \in mapped'
    <3>1. ASSUME at["thread"] = "view", Sound(fetching)' PROVE Sound(fetching)
      BY <1>1, <1>6, <1>9, <1>23, <3>1 DEF Sound, Ahead, Trusted
    <3> QED BY <1>7, <1>23, <3>1
  <2>4. at'["reader"] = "view" => <<now', own'["reader"]>> \in mapped'
    BY <1>7, <1>23
  <2>5. at'["thread"] \in Deleting /\ doomed'[1] \in here' => buffer'[doomed'[1]] = None
    BY <1>7, <1>10, <1>23, <2>1
  <2> QED BY <1>1, <2>2, <2>3, <2>4, <2>5 DEF BufInv
<1>24. CASE CloseBuffer
  <2>1. /\ UNCHANGED <<mapped, own, here, doomed, fetching, now>> /\ at["reader"] = "unbuffer"
        /\ buffer' = [buffer EXCEPT ![last] = None]
        /\ at'["thread"] = at["thread"] /\ at'["reader"] = "unmap"
    BY <1>4, <1>24 DEF CloseBuffer, DropBuffer, Left, Goto, reader, thread
  <2>2. last \in Indexes
    BY <1>2, <2>1 DEF Walks, WalkInv
  <2> QED BY <1>23, <2>1, <2>2
<1>25. CASE DeleteBuffer
  <2>1. /\ UNCHANGED <<mapped, own, here, doomed, fetching, now>> /\ at'["reader"] = at["reader"]
        /\ \/ buffer' = [buffer EXCEPT ![doomed[1]] = None]
           \/ buffer' = buffer /\ doomed[1] \notin here
        /\ doomed # << >> /\ at'["thread"] \in Deleting
    BY <1>4, <1>5, <1>25 DEF DeleteBuffer, DropBuffer, Goto, reader, thread, Deleting
  <2>2. doomed[1] \in Indexes
    BY <2>1, FirstIn DEF Types, ThreadTypes
  <2>3. buffer' = [buffer EXCEPT ![doomed[1]] = None] => buffer'[doomed[1]] = None
    BY <1>3, <2>2
  <2> QED BY <1>23, <2>1, <2>2, <2>3 DEF Deleting
<1>26. CASE CloseMapping
  <2>1. /\ UNCHANGED <<buffer, own, here, doomed, fetching, now>> /\ at["reader"] = "unmap"
        /\ mapped' = mapped \ {<<last, mmap[last]>>}
        /\ at'["thread"] = at["thread"] /\ at'["reader"] = "enter"
    BY <1>4, <1>26 DEF CloseMapping, Unmap, Left, Goto, reader, thread
  <2>2. last \in Indexes
    BY <1>2, <2>1 DEF Walks, WalkInv
  <2>3. Sound(last) => buffer[last] = None /\ ~(at["thread"] = "view" /\ fetching = last)
    <3>1. CASE Trusted
      BY <1>5, <1>8, <2>1, <3>1 DEF UnmapInv, Careful, Loads
    <3>2. CASE ~Trusted
      <4>1. last <= now /\ (last = now => rest = {})
        BY <2>1, <3>2 DEF Trusted, Walks, WalkInv, Closing, LastOfEpoch
      <4>2. ~Ahead(last)
        BY <1>2, <2>1, <2>2, <4>1 DEF Ahead, Reading
      <4> QED BY <3>2, <4>2 DEF Sound
    <3> QED BY <3>1, <3>2
  <2>4. \A c \in Indexes : Sound(c)' /\ buffer'[c] # None => <<c, buffer'[c]>> \in mapped'
    BY <1>6, <1>7, <2>1, <2>3
  <2>5. at'["thread"] = "view" /\ Sound(fetching)' => <<fetching', own'["thread"]>> \in mapped'
    <3>1. ASSUME at["thread"] = "view", Sound(fetching)' PROVE Sound(fetching)
      BY <1>1, <1>6, <1>9, <2>1, <3>1 DEF Sound, Ahead, Trusted
    <3> QED BY <1>7, <2>1, <2>3, <3>1
  <2>6. at'["thread"] \in Deleting /\ doomed'[1] \in here' => buffer'[doomed'[1]] = None
    BY <1>7, <2>1
  <2> QED BY <1>1, <2>1, <2>4, <2>5, <2>6 DEF BufInv
<1>27. CASE Delete
  <2>1. /\ UNCHANGED <<buffer, own, fetching, now>> /\ at["thread"] \in Deleting
        /\ \/ mapped' = mapped
           \/ doomed[1] \in here /\ mapped' = mapped \ {<<doomed[1], mmap[doomed[1]]>>}
        /\ at'["reader"] = at["reader"] /\ at'["thread"] \notin Deleting \union {"view"}
    BY <1>4, <1>5, <1>27 DEF Delete, Drop, Unmap, Goto, reader, thread, Deleting
  <2>2. \A c \in Indexes : Sound(c)' /\ buffer'[c] # None => <<c, buffer'[c]>> \in mapped'
    BY <1>6, <1>7, <2>1
  <2>3. at'["reader"] = "view" => <<now', own'["reader"]>> \in mapped'
    <3>1. at["reader"] = "view" => doomed[1] # now
      BY <1>2, <1>10, <2>1
    <3> QED BY <1>7, <2>1, <3>1
  <2> QED BY <1>1, <2>1, <2>2, <2>3 DEF BufInv
<1> QED
  <2>1. CASE ReaderActs
    BY <1>4, <1>12, <1>14, <1>15, <1>16, <1>17, <1>21, <1>22, <1>24, <1>26, <2>1 DEF ReaderActs, ReaderStep
  <2>2. CASE ThreadActs
    BY <1>4, <1>13, <1>18, <1>19, <1>20, <1>21, <1>22, <1>25, <1>27, <2>2 DEF ThreadActs, ThreadStep
  <2> QED BY <2>1, <2>2, TwoThreads

-----------------------------------------------------------------------------
(* The items in hand. *)

\* The item that was read, and those in the batch.
ItemInv == Tokens /\ Counted =>
    /\ at["reader"] \in Handing =>
         \/ item \in mapped
         \/ last = now /\ Leaving
         \/ at["reader"] = "give" /\ last = None
    /\ at["reader"] \in InChunk \union Closing /\ last # now =>
         \A p \in DOMAIN batch : batch[p][1] # now
    /\ ~Leaving => \A p \in DOMAIN batch : batch[p][1] = last => batch[p] \in mapped

OrderInv == \A p \in DOMAIN batch : batch[p][1] <= now

LEMMA BatchGrows ==
    ASSUME Types, ReadingNext, NEW p \in DOMAIN batch'
    PROVE  \/ p \in DOMAIN batch /\ batch'[p] = batch[p]
           \/ Give /\ batch'[p] = item
<1>1. batch \in Seq(Items0)
  BY DEF Types, ReaderTypes
<1>2. CASE batch' = batch
  BY <1>2
<1>3. CASE Give
  <2>1. batch' = Append(batch, item)
    BY <1>3 DEF Give
  <2> QED BY <1>1, <1>3, <2>1, AppendFrom
<1>4. CASE Collate
  <2>1. batch' = << >>
    BY <1>4 DEF Collate
  <2> QED BY <2>1
<1>5. CASE ThreadActs
  BY <1>2, <1>5, ThreadKeeps DEF Types, reader
<1>6. ASSUME ReaderActs, ~Give, ~Collate PROVE batch' = batch
  BY <1>6 DEF ReaderActs, ReaderStep, Count, Map, View, NextItem, Find, ForceDownload, TakeBlock, TakeRow,
              Release, Close, CloseBuffer, CloseMapping, Enter, EndEpoch, Join, reader
<1> QED BY <1>2, <1>3, <1>4, <1>5, <1>6, TwoThreads

LEMMA OrderStep ==
    ASSUME ReadJobAssumption, Types, ReadingNext, Walks, OrderInv PROVE OrderInv'
<1>1. now \in Nat /\ TableTypes
  <2>1. reading \in ReadJobs /\ now \in Indexes /\ TableTypes
    BY DEF Types, TableTypes, ReaderTypes
  <2>2. Indexes = 1 .. Len(reading.size) /\ Len(reading.size) \in Nat \ {0}
    BY <2>1, JobFacts
  <2> QED BY <2>1, <2>2
<1>2. batch \in Seq(Items0) /\ DOMAIN batch = 1 .. Len(batch) /\ Indexes \subseteq Nat
  BY <1>1, JobFacts DEF Types, TableTypes, ReaderTypes
<1>3. \A p \in DOMAIN batch : batch[p][1] \in Nat
  <2>1. \A p \in DOMAIN batch : batch[p] \in Items0
    BY <1>2
  <2> QED BY <1>2, <2>1 DEF Items0
<1>4. CASE NextItem
  <2>1. batch' = batch /\ at["reader"] = "next"
    BY <1>4 DEF NextItem
  <2>2. LastOfEpoch => batch = << >>
    BY <2>1 DEF Walks, WalkInv
  <2>3. ~LastOfEpoch => now' = now \/ now' = now + 1
    BY <1>4 DEF NextItem
  <2>4. CASE LastOfEpoch
    BY <2>1, <2>2, <2>4 DEF OrderInv
  <2>5. CASE ~LastOfEpoch
    BY <1>1, <1>3, <2>1, <2>3, <2>5 DEF OrderInv
  <2> QED BY <2>4, <2>5
<1>5. ASSUME ~NextItem PROVE now' = now
  <2>1. CASE ThreadActs
    BY <2>1, ThreadKeeps DEF Types, reader
  <2>2. CASE ReaderActs
    BY <1>5, <2>2 DEF ReaderActs, ReaderStep, Count, Map, View, Find, ForceDownload, TakeBlock, TakeRow,
              Release, Close, CloseBuffer, CloseMapping, Enter, EndEpoch, Join, Give, Collate, reader
  <2> QED BY <2>1, <2>2, TwoThreads
<1>6. ASSUME NEW p \in DOMAIN batch', ~NextItem PROVE batch'[p][1] <= now'
  <2>1. now' = now
    BY <1>5, <1>6
  <2>2. CASE p \in DOMAIN batch /\ batch'[p] = batch[p]
    BY <2>1, <2>2 DEF OrderInv
  <2>3. CASE Give /\ batch'[p] = item
    <3>1. item[1] = now
      BY <2>3 DEF Give, Types, ReaderTypes, Handing
    <3> QED BY <1>1, <2>1, <2>3, <3>1
  <2> QED BY <2>2, <2>3, BatchGrows
<1> QED BY <1>4, <1>6 DEF OrderInv

\* Which mappings are closed by a step.
LEMMA LostMapping ==
    ASSUME ReadJobAssumption, Types, ReadingNext, RelInv, Counted', NEW x \in mapped, x \notin mapped'
    PROVE  \/ CloseMapping /\ x[1] = last
           \/ /\ ThreadActs
              /\ \/ x[1] < now /\ (x[1] = last => Leaving)
                 \/ x[1] = now /\ at["reader"] = "join"
<1>1. CASE CloseMapping
  <2>1. mapped' = mapped \ {<<last, mmap[last]>>}
    BY <1>1 DEF CloseMapping, Unmap, Left
  <2> QED BY <1>1, <2>1
<1>2. CASE Delete
  <2>1. x = <<doomed[1], mmap[doomed[1]]>> /\ at["thread"] \in Deleting
    BY <1>2 DEF Delete, Drop, Unmap, Deleting
  <2>2. doomed \in Seq(Indexes) /\ doomed # << >> /\ at["thread"] # "none"
    BY <2>1 DEF Types, ThreadTypes, Deleting
  <2>3. 1 \in DOMAIN doomed /\ doomed[1] \in Indexes
    BY <2>2, FirstIn
  <2>4. ThreadActs
    BY <1>2 DEF ThreadActs, ThreadStep
  <2> QED BY <2>1, <2>2, <2>3, <2>4 DEF RelInv, Asked
<1>3. CASE Refetch \/ Refetched
  BY <1>3, Monotone DEF Counted
<1>4. ASSUME ReaderActs, ~CloseMapping PROVE mapped \subseteq mapped'
  BY <1>4 DEF ReaderActs, ReaderStep, Count, Map, View, NextItem, Find, ForceDownload, TakeBlock, TakeRow,
              Release, Close, CloseBuffer, Enter, EndEpoch, Join, Give, Collate, tables
<1>5. ASSUME ThreadActs, ~Delete, ~Refetch, ~Refetched PROVE mapped \subseteq mapped'
  BY <1>5 DEF ThreadActs, ThreadStep, Count, Map, View, Download, ScanParquet, Downloaded, ReceiveEnd, Skip,
              Evict, Keep, DeleteBuffer, Cleaned, tables
<1> QED BY <1>1, <1>2, <1>3, <1>4, <1>5, TwoThreads

LEMMA ItemStep ==
    ASSUME ReadJobAssumption, Types, ReadingNext, Walks, RelInv, BufInv, OrderInv, ItemInv PROVE ItemInv'
<1>1. reading' = reading /\ Indexes' = Indexes /\ Tokens' = Tokens /\ TableTypes
  BY Same DEF Types
<1>2. /\ now \in Indexes /\ last \in Indexes \union {None} /\ None \notin Indexes /\ Indexes \subseteq Nat
      /\ at["reader"] \in Handing => item[1] = now
  BY <1>1, JobFacts DEF Types, TableTypes, ReaderTypes, None
<1>3. \A p \in DOMAIN batch : batch[p][1] \in Indexes
  <2>1. batch \in Seq(Items0)
    BY DEF Types, ReaderTypes
  <2>2. \A p \in DOMAIN batch : batch[p] \in Items0
    BY <2>1
  <2> QED BY <2>2 DEF Items0
<1>4. at = [t \in Threads |-> at[t]] /\ "reader" \in Threads /\ "thread" \in Threads /\ "reader" # "thread"
  BY DEF Types, TableTypes, Threads
<1>5. SUFFICES ASSUME Tokens, Counted' PROVE ItemInv'
  BY <1>1 DEF ItemInv
<1>6. Counted
  BY <1>5, SoundKept
<1>7. /\ at["reader"] \in Handing =>
            \/ item \in mapped
            \/ last = now /\ Leaving
            \/ at["reader"] = "give" /\ last = None
      /\ at["reader"] \in InChunk \union Closing /\ last # now =>
            \A p \in DOMAIN batch : batch[p][1] # now
      /\ ~Leaving => \A p \in DOMAIN batch : batch[p][1] = last => batch[p] \in mapped
  BY <1>5, <1>6 DEF ItemInv
<1>8. CASE ThreadActs
  <2>1. /\ UNCHANGED <<now, last, item, batch>> /\ at'["reader"] = at["reader"] /\ Leaving' = Leaving
    BY <1>1, <1>8, ThreadKeeps DEF reader, Leaving
  <2>2. \A x \in mapped : x \in mapped' \/ (x[1] < now /\ (x[1] = last => Leaving)) \/ (x[1] = now /\ at["reader"] = "join")
    <3>1. ~CloseMapping
      <4>1. CloseMapping => at'["reader"] # at["reader"]
        BY <1>4 DEF CloseMapping, Goto
      <4> QED BY <2>1, <4>1
    <3> QED BY <1>5, <3>1, LostMapping
  <2>3. at["reader"] = "join" => last = now /\ Leaving
    BY DEF Walks, WalkInv, Leaving
  <2>4. at'["reader"] \in Handing =>
            \/ item' \in mapped'
            \/ last' = now' /\ Leaving'
            \/ at'["reader"] = "give" /\ last' = None
    BY <1>2, <1>7, <2>1, <2>2, <2>3
  <2>5. ~Leaving => \A p \in DOMAIN batch : batch[p][1] = last => batch[p] \in mapped'
    BY <1>2, <1>3, <1>7, <2>2, <2>3
  <2> QED BY <1>7, <2>1, <2>4, <2>5 DEF ItemInv
<1>9. CASE CloseMapping
  <2>1. /\ UNCHANGED <<now, last, item, batch>> /\ at["reader"] = "unmap" /\ at'["reader"] = "enter"
        /\ mapped' = mapped \ {<<last, mmap[last]>>}
    BY <1>4, <1>9 DEF CloseMapping, Unmap, Left, Goto, reader
  <2>2. item \in mapped' \/ last = now
    BY <1>2, <1>7, <2>1 DEF Handing
  <2> QED BY <1>7, <2>1, <2>2 DEF ItemInv, Leaving, Closing
\* The other steps of the reader close no mapping.
<1>10. ASSUME ReaderActs, ~CloseMapping PROVE mapped \subseteq mapped'
  BY <1>10 DEF ReaderActs, ReaderStep, Count, Map, View, NextItem, Find, ForceDownload, TakeBlock, TakeRow,
              Release, Close, CloseBuffer, Enter, EndEpoch, Join, Give, Collate, tables
<1>11. ASSUME mapped \subseteq mapped', UNCHANGED <<now, last, item, batch>>,
              at'["reader"] \in Handing => at["reader"] \in Handing \ {"give"},
              at'["reader"] \in InChunk \union Closing => at["reader"] \in InChunk \union Closing,
              Leaving' <=> Leaving
       PROVE  ItemInv'
  BY <1>7, <1>11 DEF ItemInv
<1>12. CASE Count("reader") \/ Map("reader") \/ View("reader")
  <2>1. UNCHANGED <<now, last, item, batch>> /\ at["reader"] \in Loading
    BY <1>12 DEF Count, Map, View, reader, Loading
  <2>2. at'["reader"] \in {"map", "view", "take", "failed"}
    BY <1>4, <1>12 DEF Count, Map, View, After, Goto
  <2>3. mapped \subseteq mapped'
    BY <1>12 DEF Count, Map, View
  <2> QED BY <1>11, <2>1, <2>2, <2>3 DEF Loading, Handing, InChunk, Closing, Leaving
<1>13. CASE NextItem
  <2>1. UNCHANGED <<last, batch, mapped>> /\ at["reader"] = "next" /\ at'["reader"] = "find"
    BY <1>4, <1>13 DEF NextItem, Goto, tables
  <2>2. last # now' => \A p \in DOMAIN batch : batch[p][1] # now'
    <3>1. CASE LastOfEpoch
      BY <2>1, <3>1 DEF Walks, WalkInv
    <3>2. CASE ~LastOfEpoch
      <4>1. last = now
        BY <2>1, <3>2 DEF Walks, WalkInv, Between
      <4>2. now' = now \/ now' = now + 1
        BY <1>13, <3>2 DEF NextItem
      <4> QED BY <1>2, <1>3, <4>1, <4>2 DEF OrderInv
    <3> QED BY <3>1, <3>2
  <2> QED BY <1>7, <2>1, <2>2 DEF ItemInv, Handing, Leaving
<1>14. CASE Find \/ ForceDownload
  <2>1. UNCHANGED <<now, last, item, batch, mapped>> /\ at["reader"] = "find"
    BY <1>14 DEF Find, ForceDownload, reader, tables
  <2>2. at'["reader"] \in {"find", "count", "take"}
    BY <1>4, <1>14 DEF Find, ForceDownload, Goto
  <2> QED BY <1>11, <2>1, <2>2 DEF Handing, InChunk, Closing, Leaving
<1>15. CASE TakeBlock
  <2>1. /\ UNCHANGED <<now, last, batch, mapped>> /\ at["reader"] = "take"
        /\ \/ at'["reader"] = "failed"
           \/ at'["reader"] = "release" /\ buffer[now] # None /\ item' = <<now, buffer[now]>>
    BY <1>4, <1>15 DEF TakeBlock, Goto, tables
  <2>2. buffer[now] # None => <<now, buffer[now]>> \in mapped
    <3>1. Sound(now)
      BY <2>1 DEF Sound, Ahead, Reading
    <3> QED BY <1>2, <1>5, <1>6, <3>1 DEF BufInv
  <2> QED BY <1>7, <2>1, <2>2 DEF ItemInv, Handing, InChunk, Closing, Leaving
<1>16. CASE TakeRow
  BY <1>5, <1>16 DEF TakeRow
<1>17. CASE Release
  <2>1. UNCHANGED <<now, last, item, batch, mapped>> /\ at["reader"] = "release"
    BY <1>17 DEF Release, reader, tables
  <2>2. at'["reader"] = CASE now = last -> "end" [] last = None -> "enter" [] OTHER -> "close"
    BY <1>4, <1>17 DEF Release, Goto
  <2>3. at'["reader"] \in {"end", "enter", "close"}
    BY <2>2
  <2>4. ~Leaving /\ item \in mapped
    BY <1>7, <2>1 DEF Leaving, Handing
  <2> QED BY <1>7, <2>1, <2>3, <2>4 DEF ItemInv, InChunk
<1>18. CASE Close \/ CloseBuffer
  <2>1. UNCHANGED <<now, last, item, batch, mapped>> /\ at["reader"] \in {"close", "unbuffer"}
    BY <1>18 DEF Close, CloseBuffer, reader
  <2>2. at'["reader"] \in {"unbuffer", "unmap", "enter"}
    BY <1>4, <1>18 DEF Close, CloseBuffer, Goto
  <2> QED BY <1>11, <2>1, <2>2 DEF Handing, InChunk, Closing, Leaving
<1>19. CASE Enter
  <2>1. /\ UNCHANGED <<now, item, batch, mapped>> /\ at["reader"] = "enter"
        /\ last' = (IF last = now THEN None ELSE now)
        /\ at'["reader"] = (IF last = now THEN "give" ELSE "end")
    BY <1>4, <1>19 DEF Enter, Goto, tables
  <2>2. CASE last = now
    BY <1>2, <1>3, <2>1, <2>2 DEF ItemInv, InChunk, Closing
  <2>3. CASE last # now
    <3>1. item \in mapped /\ \A p \in DOMAIN batch : batch[p][1] # now
      BY <1>7, <2>1, <2>3 DEF Handing, Closing
    <3> QED BY <2>1, <2>3, <3>1 DEF ItemInv
  <2> QED BY <2>2, <2>3
<1>20. CASE EndEpoch
  <2>1. UNCHANGED <<now, last, item, batch, mapped>> /\ at["reader"] = "end"
    BY <1>20 DEF EndEpoch, reader, tables
  <2>2. at'["reader"] \in {"join", "give"}
    BY <1>4, <1>20 DEF EndEpoch, Goto
  <2>3. ~Leaving /\ item \in mapped /\ last = now
    BY <1>7, <2>1 DEF Leaving, Handing, Walks, WalkInv
  <2> QED BY <1>7, <2>1, <2>2, <2>3 DEF ItemInv
<1>21. CASE Join
  <2>1. UNCHANGED <<now, last, item, batch, mapped>> /\ at["reader"] = "join" /\ at'["reader"] = "close"
    BY <1>4, <1>21 DEF Join, reader, tables
  <2> QED BY <1>11, <2>1 DEF Handing, InChunk, Closing, Leaving
<1>22. CASE Give
  <2>1. /\ UNCHANGED <<now, last, mapped>> /\ at["reader"] = "give" /\ at'["reader"] \in {"collate", "next"}
    BY <1>4, <1>22 DEF Give, Goto, tables
  <2>2. item[1] = last => item \in mapped
    BY <1>2, <1>7, <2>1 DEF Handing, Leaving
  <2>3. \A p \in DOMAIN batch' : batch'[p][1] = last => batch'[p] \in mapped
    BY <1>7, <2>1, <2>2, BatchGrows DEF Leaving
  <2> QED BY <2>1, <2>3 DEF ItemInv, Handing, InChunk, Closing
<1>23. CASE Collate
  <2>1. batch' = << >> /\ at'["reader"] \in {"killed", "next"}
    BY <1>4, <1>23 DEF Collate, Goto
  <2> QED BY <2>1 DEF ItemInv, Handing, InChunk, Closing
<1> QED BY <1>8, <1>9, <1>12, <1>13, <1>14, <1>15, <1>16, <1>17, <1>18, <1>19, <1>20, <1>21, <1>22, <1>23, TwoThreads
        DEF ReaderActs, ReaderStep

-----------------------------------------------------------------------------
(* The whole. *)

MappedInv ==
    /\ Types /\ Walks /\ RelInv /\ HereInv /\ RowsInv
    /\ CountInv /\ UnmapInv /\ BufInv /\ OrderInv /\ ItemInv

LEMMA MappedStep ==
    ASSUME ReadJobAssumption, MappedInv, ReadingNext PROVE MappedInv'
  BY TypesStep, WalksStep, RelStep, HereStep, RowsStep, CountStep, UnmapStep, BufStep, OrderStep, ItemStep
     DEF MappedInv

LEMMA MappedUsable == ASSUME MappedInv PROVE InHandUsable
<1>1. ASSUME Tokens, Counted, ~Leaving, NEW p \in DOMAIN batch, batch[p][1] = last
      PROVE  batch[p] \in mapped
  BY <1>1 DEF MappedInv, ItemInv
<1>2. ASSUME ~Tokens, at["reader"] = "next", NEW c \in Indexes \ {last}
      PROVE  groups[c] = NoGroups
  BY <1>2 DEF MappedInv, RowsInv
<1> QED BY <1>1, <1>2 DEF InHandUsable

LEMMA MappedInit == ASSUME ReadJobAssumption, ReadingInit PROVE MappedInv
<1>1. /\ reading \in ReadJobs /\ (here = {} \/ (~reading.remote /\ here = Indexes)) /\ mapped = {}
      /\ counter = [c \in Indexes |-> 0] /\ mmap = [c \in Indexes |-> None]
      /\ buffer = [c \in Indexes |-> None] /\ groups = [c \in Indexes |-> NoGroups]
      /\ own = [t \in Threads |-> None]
  BY DEF ReadingInit
<1>2. /\ rest = {} /\ now = Len(reading.size) /\ epoch = 0 /\ last = None
      /\ item = <<None, None>> /\ batch = << >>
      /\ waiting = << >> /\ released = << >> /\ doomed = << >> /\ forced = << >> /\ ~wasForced
  BY DEF ReadingInit
<1>3. at["thread"] = "none" /\ at["reader"] \in {"next", "failed"} /\ at = [t \in Threads |-> at[t]]
  BY DEF ReadingInit, Threads
<1>4. now \in Indexes /\ reading.batch \in Nat \ {0} /\ Indexes \subseteq Nat \ {0} /\ None = 0
  <2>1. Indexes = 1 .. Len(reading.size) /\ Len(reading.size) \in Nat \ {0} /\ reading.batch \in Nat \ {0}
    BY <1>1, JobFacts
  <2> QED BY <1>2, <2>1 DEF None
<1>5. LastOfEpoch
  BY <1>2 DEF LastOfEpoch
<1>6. ~reading.remote => here = Indexes
  BY DEF ReadingInit
<1>7. TableTypes
  <2>1. here \subseteq Indexes /\ IsFiniteSet(mapped)
    BY <1>1, FS_EmptySet
  <2> QED BY <1>1, <1>3, <1>4, <2>1 DEF TableTypes
<1>8. ReaderTypes
  <2>1. << >> \in Seq(Items0) /\ Len(<< >>) = 0
    OBVIOUS
  <2>2. item[2] \in Nat
    BY <1>2, <1>4
  <2>3. at["reader"] \notin Handing
    BY <1>3 DEF Handing
  <2> QED BY <1>2, <1>4, <2>1, <2>2, <2>3 DEF ReaderTypes
<1>9. ThreadTypes
  BY <1>2, <1>3, <1>6 DEF ThreadTypes, Loading, Deleting
<1>10. Walks
  <2>1. WalkInv
    BY <1>2, <1>3, <1>4, <1>5 DEF WalkInv, Closing, Between
  <2>2. reading.remote => here = {} /\ \A c \in Indexes : counter[c] = 0
    BY <1>1 DEF ReadingInit
  <2> QED BY <1>2, <1>3, <1>5, <2>1, <2>2 DEF Walks, EpochInv, Closing, InChunk, Between
<1>11. RelInv /\ HereInv
  BY <1>2, <1>3 DEF RelInv, HereInv, Reading, Loading, Queued
<1>12. RowsInv
  BY <1>1, <1>3 DEF RowsInv
<1>13. CountInv
  <2>1. \A c \in Indexes : counter[c] = 0 /\ mmap[c] = None
    BY <1>1
  <2>2. \A c \in Indexes : ~Loads(c)
    BY <1>3 DEF Loads
  <2>3. \A c \in Indexes : ~Inside(c) /\ ~Held(c) /\ ~Open(c)
    BY <1>2, <1>3, <1>4 DEF Inside, Held, Open, GetsIn, HasMap, Closing
  <2> QED BY <2>1, <2>2, <2>3 DEF CountInv, CountedFor
<1>14. UnmapInv /\ BufInv
  <2>1. \A c \in Indexes : buffer[c] = None
    BY <1>1
  <2> QED BY <1>3, <2>1 DEF UnmapInv, BufInv, Deleting
<1>15. OrderInv /\ ItemInv
  BY <1>2, <1>3 DEF OrderInv, ItemInv, Handing, InChunk, Closing
<1> QED BY <1>7, <1>8, <1>9, <1>10, <1>11, <1>12, <1>13, <1>14, <1>15 DEF MappedInv, Types

LEMMA MappedStays == ASSUME MappedInv, UNCHANGED readingVars PROVE MappedInv'
<1> USE DEF readingVars, tables, reader, thread
<1>1. Types'
  BY DEF MappedInv, Types, TableTypes, ReaderTypes, ThreadTypes, Indexes, Items0, Handing, Loading, Deleting
<1>2. Walks'
  BY DEF MappedInv, Walks, WalkInv, EpochInv, LastOfEpoch, Indexes
<1>3. RelInv' /\ HereInv' /\ RowsInv'
  <2>1. RelInv'
    BY DEF MappedInv, RelInv, Asked, Leaving, Indexes
  <2>2. HereInv'
    BY DEF MappedInv, HereInv, Queued, Indexes
  <2>3. RowsInv'
    <3>1. Indexes' = Indexes /\ Tokens' = Tokens /\ NoGroups' = NoGroups
      BY DEF Indexes, Tokens, NoGroups
    <3> QED BY <3>1 DEF MappedInv, RowsInv
  <2> QED BY <2>1, <2>2, <2>3
<1>4. CountInv' /\ UnmapInv'
  <2>1. Indexes' = Indexes /\ Careful' = Careful
    BY DEF Indexes, Careful, Trusted, Tokens
  <2>2. \A c : Loads(c)' = Loads(c) /\ Queued(c)' = Queued(c)
    BY DEF Loads, Queued
  <2>3. \A c : Held(c)' = Held(c) /\ Inside(c)' = Inside(c) /\ Open(c)' = Open(c)
    BY StaysPut
  <2>4. CountInv'
    BY <2>1, <2>2, <2>3 DEF MappedInv, CountInv, CountedFor
  <2>5. UnmapInv'
    BY <2>1, <2>2 DEF MappedInv, UnmapInv
  <2> QED BY <2>4, <2>5
<1>5. BufInv' /\ OrderInv' /\ ItemInv'
  <2>1. Indexes' = Indexes /\ Tokens' = Tokens /\ Counted' = Counted /\ Leaving' = Leaving
    BY DEF Indexes, Tokens, Counted, Leaving
  <2>2. \A c : Sound(c)' = Sound(c)
    BY DEF Sound, Trusted, Ahead
  <2>3. BufInv'
    BY <2>1, <2>2 DEF MappedInv, BufInv
  <2>4. OrderInv' /\ ItemInv'
    BY <2>1 DEF MappedInv, OrderInv, ItemInv
  <2> QED BY <2>3, <2>4
<1> QED BY <1>1, <1>2, <1>3, <1>4, <1>5 DEF MappedInv
=============================================================================
