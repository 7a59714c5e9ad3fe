-------------------------- MODULE ProcessingProofs --------------------------
(****************************************************************************)
(* Theorems about Processing, for every job: an error that a worker reports *)
(* is never lost, a killed job can be resumed, a checkpoint lists only what *)
(* was uploaded, an append replaces nothing, the inputs of an item that is  *)
(* ready are there, and a job that keeps the order of its inputs writes its *)
(* samples in it.  Before them, theorems about WorkSplit.                   *)
(****************************************************************************)
EXTENDS Processing, SequenceProofs, TLAPS

-----------------------------------------------------------------------------
(* The split of the items without weights, for any number of items, any chunk *)
(* size and any number of workers.                                            *)

\* Where the list of worker w ends.
LastItem(n, size, world, w) ==
    IF w = world - 1 THEN n ELSE FirstItem(n, size, world, w + 1)

-----------------------------------------------------------------------------
(* Arithmetic. *)

LEMMA Times ==
    ASSUME NEW a \in Int, NEW b \in Int
    PROVE  a * b \in Int
OBVIOUS

LEMMA TimesMonotone ==
    ASSUME NEW a \in Int, NEW b \in Int, NEW c \in Nat, a <= b
    PROVE  a * c <= b * c
<1>1. b - a \in Nat
  OBVIOUS
<1>2. (b - a) * c \in Nat
  BY <1>1
<1> QED BY <1>2

LEMMA TimesStrict ==
    ASSUME NEW a \in Int, NEW b \in Int, NEW c \in Nat, a * c < b * c
    PROVE  a < b
<1>1. ~(b <= a)
  BY TimesMonotone
<1> QED BY <1>1

LEMMA Recompose ==
    ASSUME NEW n \in Int, NEW d \in Int, NEW q \in Int, NEW r \in Int, r = n - d * q
    PROVE  n = q * d + r
OBVIOUS

LEMMA Division ==
    ASSUME NEW n \in Nat, NEW d \in Nat \ {0}
    PROVE  /\ n \div d \in Nat /\ n % d \in 0 .. d - 1
           /\ n = (n \div d) * d + (n % d)
<1> DEFINE q == n \div d
           r == n % d
<1>1. q \in Nat
  BY SMT
<1>2. r \in 0 .. d - 1
  BY SMT
<1>3. r = n - d * q
  BY SMT
<1> HIDE DEF q, r
<1>4. n = q * d + r
  BY <1>1, <1>2, <1>3, Recompose
<1> QED BY <1>1, <1>2, <1>4 DEF q, r

\* The quotient of what is less than m times d.
LEMMA Quotient ==
    ASSUME NEW a \in Nat, NEW d \in Nat \ {0}, NEW m \in Int, a < m * d
    PROVE  \E q \in Nat : q < m /\ q * d <= a /\ a < (q + 1) * d
<1> DEFINE q == a \div d
<1>1. q \in Nat /\ d * q <= a /\ a < d * q + d
  BY SMT
<1> HIDE DEF q
<1>2. q * d = d * q /\ (q + 1) * d = d * q + d
  BY <1>1
<1>3. q * d < m * d
  <2>1. q * d \in Int /\ m * d \in Int
    BY <1>1, Times
  <2> QED BY <1>1, <1>2, <2>1
<1>4. q < m
  BY <1>1, <1>3, TimesStrict
<1>5. (q + 1) * d \in Int
  BY <1>1, Times
<1> QED BY <1>1, <1>2, <1>4, <1>5

-----------------------------------------------------------------------------
(* The first items of the workers. *)

\* With a chunk size: the workers but the last have equally many full chunks.
LEMMA AlignedFirst ==
    ASSUME NEW n \in Nat, NEW size \in Nat \ {0}, NEW world \in Nat \ {0}
    PROVE  \E each \in Nat :
              /\ each % size = 0
              /\ world * each <= n
              /\ \A w \in Nat : FirstItem(n, size, world, w) = w * each
<1> DEFINE chunks == n \div size
           share == chunks \div world
           each == share * size
<1>1. chunks \in Nat /\ share \in Nat
  BY Division
<1>2. each \in Nat /\ each % size = 0
  BY <1>1
<1>3. world * each <= n
  <2>1. share * world <= chunks
    BY <1>1, Division
  <2>2. (share * world) * size <= chunks * size
    BY <1>1, <2>1, TimesMonotone, Times
  <2>3. chunks * size <= n
    BY Division
  <2>4. world * each = (share * world) * size
    BY <1>1
  <2> QED BY <1>1, <1>2, <2>2, <2>3, <2>4
<1>4. \A w \in Nat : FirstItem(n, size, world, w) = w * each
  BY DEF FirstItem
<1> QED BY <1>2, <1>3, <1>4

\* Without one: the last workers have one item more each.
LEMMA EvenFirst ==
    ASSUME NEW n \in Nat, NEW world \in Nat \ {0}
    PROVE  \E base \in Nat, full \in 1 .. world :
              /\ n = full * base + (world - full) * (base + 1)
              /\ \A w \in Nat : FirstItem(n, 0, world, w) =
                     IF w <= full THEN w * base ELSE full * base + (w - full) * (base + 1)
<1> DEFINE base == n \div world
           rem == n % world
           full == world - rem
<1>1. base \in Nat /\ rem \in 0 .. world - 1 /\ n = base * world + rem
  BY Division
<1>2. full \in 1 .. world
  BY <1>1
<1>3. n = full * base + (world - full) * (base + 1)
  BY <1>1, <1>2
<1>4. ASSUME NEW w \in Nat
      PROVE  FirstItem(n, 0, world, w) =
                IF w <= full THEN w * base ELSE full * base + (w - full) * (base + 1)
  <2>1. FirstItem(n, 0, world, w) = w * base + (IF w > full THEN w - full ELSE 0)
    BY DEF FirstItem
  <2>2. w > full => w * base + (w - full) = full * base + (w - full) * (base + 1)
    BY <1>1, <1>2
  <2> QED BY <1>1, <1>2, <2>1, <2>2
<1> QED BY <1>1, <1>2, <1>3, <1>4

\* The workers' parts lie one behind the other, ...
LEMMA FirstItemFacts ==
    ASSUME NEW n \in Nat, NEW size \in Nat, NEW world \in Nat \ {0}
    PROVE  /\ \A w \in 0 .. world : FirstItem(n, size, world, w) \in Nat
           /\ \A v, w \in 0 .. world : v <= w =>
                 FirstItem(n, size, world, v) <= FirstItem(n, size, world, w)
           /\ FirstItem(n, size, world, world) <= n
<1>1. CASE size > 0
  <2>0. size \in Nat \ {0}
    BY <1>1
  <2>1. PICK each \in Nat : /\ each % size = 0
                            /\ world * each <= n
                            /\ \A w \in Nat : FirstItem(n, size, world, w) = w * each
    BY <2>0, AlignedFirst, Zenon
  <2> QED BY <2>1, TimesMonotone
<1>2. CASE size = 0
  <2>1. PICK base \in Nat, full \in 1 .. world :
            /\ n = full * base + (world - full) * (base + 1)
            /\ \A w \in Nat : FirstItem(n, 0, world, w) =
                  IF w <= full THEN w * base ELSE full * base + (w - full) * (base + 1)
    BY EvenFirst
  <2>2. \A w \in Nat : FirstItem(n, 0, world, w) \in Nat
    <3> TAKE w \in Nat
    <3>1. CASE w <= full
      BY <2>1, <3>1
    <3>2. CASE w > full
      <4>1. (w - full) * (base + 1) \in Nat /\ full * base \in Nat
        BY <3>2
      <4> QED BY <2>1, <3>2, <4>1
    <3> QED BY <3>1, <3>2
  <2>3. ASSUME NEW v \in 0 .. world, NEW w \in 0 .. world, v <= w
        PROVE  FirstItem(n, 0, world, v) <= FirstItem(n, 0, world, w)
    <3>1. CASE w <= full
      <4>1. v * base <= w * base
        BY <2>3, TimesMonotone
      <4> QED BY SMTT(30), <2>1, <2>3, <3>1, <4>1
    <3>2. CASE v > full
      <4>1. (v - full) * (base + 1) <= (w - full) * (base + 1)
        BY <2>3, <3>2, TimesMonotone
      <4> QED BY <2>1, <2>3, <3>2, <4>1, Times
    <3>3. CASE v <= full /\ w > full
      <4>1. v * base <= full * base /\ (w - full) * (base + 1) \in Nat
        BY <2>3, <3>3, TimesMonotone
      <4> QED BY <2>1, <3>3, <4>1, Times
    <3> QED BY <3>1, <3>2, <3>3
  <2>4. FirstItem(n, 0, world, world) = n
    <3>1. CASE full = world
      BY <2>1, <3>1
    <3>2. CASE full < world
      BY <2>1, <3>2
    <3> QED BY <3>1, <3>2
  <2> QED BY <1>2, <2>2, <2>3, <2>4
<1> QED BY <1>1, <1>2

\* ... and every item lies in one.
LEMMA SomeWorker ==
    ASSUME NEW n \in Nat, NEW size \in Nat, NEW world \in Nat \ {0}, NEW i \in 1 .. n
    PROVE  \E w \in 0 .. world - 1 : /\ FirstItem(n, size, world, w) < i
                                     /\ i <= LastItem(n, size, world, w)
<1>1. CASE size > 0
  <2>0. size \in Nat \ {0}
    BY <1>1
  <2>1. PICK each \in Nat : /\ each % size = 0
                            /\ world * each <= n
                            /\ \A w \in Nat : FirstItem(n, size, world, w) = w * each
    BY <2>0, AlignedFirst, Zenon
  <2>2. CASE (world - 1) * each < i
    <3>1. FirstItem(n, size, world, world - 1) < i /\ LastItem(n, size, world, world - 1) = n
      BY <2>1, <2>2 DEF LastItem
    <3> QED BY <3>1
  <2>3. CASE ~((world - 1) * each < i)
    <3>1. each > 0 /\ i - 1 \in Nat /\ i - 1 < (world - 1) * each
      <4>1. (world - 1) * each \in Int
        BY Times
      <4>2. each = 0 => (world - 1) * each = 0
        OBVIOUS
      <4> QED BY <2>3, <4>1, <4>2
    <3>2. PICK w \in Nat : w < world - 1 /\ w * each <= i - 1 /\ i - 1 < (w + 1) * each
      <4>1. each \in Nat \ {0} /\ world - 1 \in Int
        BY <3>1
      <4> QED BY <3>1, <4>1, Quotient, Zenon
    <3>3. FirstItem(n, size, world, w) = w * each /\ LastItem(n, size, world, w) = (w + 1) * each
      BY <2>1, <3>2 DEF LastItem
    <3>4. w * each \in Int /\ (w + 1) * each \in Int
      BY Times
    <3>5. w * each < i /\ i <= (w + 1) * each
      BY <3>2, <3>4
    <3> QED BY <3>2, <3>3, <3>5
  <2> QED BY <2>2, <2>3
<1>2. CASE size = 0
  <2>1. PICK base \in Nat, full \in 1 .. world :
            /\ n = full * base + (world - full) * (base + 1)
            /\ \A w \in Nat : FirstItem(n, 0, world, w) =
                  IF w <= full THEN w * base ELSE full * base + (w - full) * (base + 1)
    BY EvenFirst
  <2>2. CASE i <= full * base
    <3>1. base > 0 /\ i - 1 \in Nat /\ i - 1 < full * base
      <4>1. full * base \in Int
        BY Times
      <4>2. base = 0 => full * base = 0
        OBVIOUS
      <4> QED BY <2>2, <4>1, <4>2
    <3>2. PICK w \in Nat : w < full /\ w * base <= i - 1 /\ i - 1 < (w + 1) * base
      <4>1. base \in Nat \ {0} /\ full \in Int
        BY <3>1
      <4> QED BY <3>1, <4>1, Quotient, Zenon
    <3>3. FirstItem(n, 0, world, w) = w * base /\ FirstItem(n, 0, world, w + 1) = (w + 1) * base
      BY <2>1, <3>2
    <3>4. w * base \in Int /\ (w + 1) * base \in Int
      BY Times
    <3>5. w * base < i /\ i <= (w + 1) * base
      BY <3>2, <3>4
    <3> QED BY <1>2, <3>2, <3>3, <3>5 DEF LastItem
  <2>3. CASE ~(i <= full * base)
    <3> DEFINE least == full * base
               more == base + 1
    <3>1. least \in Int /\ more \in Nat \ {0} /\ (world - full) * more \in Int
      BY Times
    <3> HIDE DEF more
    <3>2. n = least + (world - full) * more
      BY <2>1 DEF more
    <3> HIDE DEF least
    <3>3. i - 1 - least \in Nat /\ i - 1 - least < (world - full) * more
      BY <2>3, <3>1, <3>2 DEF least
    <3>4. PICK j \in Nat : /\ j < world - full
                           /\ j * more <= i - 1 - least /\ i - 1 - least < (j + 1) * more
      <4>1. world - full \in Int
        OBVIOUS
      <4> QED BY <3>1, <3>3, <4>1, Quotient, Zenon
    <3> DEFINE w == full + j
    <3>5. j * more \in Int /\ (j + 1) * more \in Int /\ (j = 0 => j * more = 0)
      BY <3>1, <3>4, Times
    <3>6. FirstItem(n, 0, world, w) = least + j * more
      <4>1. CASE j = 0
        BY <2>1, <3>1, <3>5, <4>1 DEF least
      <4>2. CASE j > 0
        BY <2>1, <4>2 DEF least, more
      <4> QED BY <4>1, <4>2
    <3>7. FirstItem(n, 0, world, w + 1) = least + (j + 1) * more
      <4>1. w + 1 \in Nat /\ ~(w + 1 <= full) /\ (w + 1) - full = j + 1
        OBVIOUS
      <4> QED BY <2>1, <4>1 DEF least, more
    <3>8. FirstItem(n, 0, world, w) < i /\ i <= FirstItem(n, 0, world, w + 1)
      BY <3>1, <3>4, <3>5, <3>6, <3>7
    <3>9. w \in 0 .. world - 1 /\ i <= LastItem(n, 0, world, w)
      BY <3>4, <3>8 DEF LastItem
    <3> QED BY <1>2, <3>8, <3>9
  <2> QED BY <2>2, <2>3
<1> QED BY <1>1, <1>2

-----------------------------------------------------------------------------
\* A worker's part is a range of items that may be empty, ...
LEMMA RangeFacts ==
    ASSUME NEW n \in Nat, NEW size \in Nat, NEW world \in Nat \ {0}, NEW w \in 0 .. world - 1
    PROVE  /\ FirstItem(n, size, world, w) \in Nat /\ LastItem(n, size, world, w) \in Nat
           /\ FirstItem(n, size, world, w) <= LastItem(n, size, world, w)
<1>1. /\ w \in 0 .. world /\ w + 1 \in 0 .. world /\ world \in 0 .. world
      /\ w <= w + 1 /\ w <= world
  OBVIOUS
<1>2. /\ FirstItem(n, size, world, w) \in Nat /\ FirstItem(n, size, world, w + 1) \in Nat
      /\ FirstItem(n, size, world, world) \in Nat
      /\ FirstItem(n, size, world, w) <= FirstItem(n, size, world, w + 1)
      /\ FirstItem(n, size, world, w) <= FirstItem(n, size, world, world)
      /\ FirstItem(n, size, world, world) <= n
  BY <1>1, FirstItemFacts
<1> QED BY <1>2 DEF LastItem

\* ... and its list holds the items of the range.
LEMMA ListIs ==
    ASSUME NEW n \in Nat, NEW size \in Nat, NEW world \in Nat \ {0}, NEW w \in 0 .. world - 1
    PROVE  Sequentially(n, size, world)[w] =
               [p \in 1 .. LastItem(n, size, world, w) - FirstItem(n, size, world, w) |->
                   FirstItem(n, size, world, w) + p]
BY DEF Sequentially, LastItem

LEMMA ListLength ==
    ASSUME NEW n \in Nat, NEW size \in Nat, NEW world \in Nat \ {0}, NEW w \in 0 .. world - 1
    PROVE  Len(Sequentially(n, size, world)[w]) =
               LastItem(n, size, world, w) - FirstItem(n, size, world, w)
<1> DEFINE first == FirstItem(n, size, world, w)
           last == LastItem(n, size, world, w)
<1>1. first \in Nat /\ last \in Nat /\ first <= last
  BY RangeFacts
<1> HIDE DEF first, last
<1>2. Len([p \in 1 .. last - first |-> first + p]) = last - first
  BY <1>1
<1>3. Sequentially(n, size, world)[w] = [p \in 1 .. last - first |-> first + p]
  BY ListIs DEF first, last
<1>4. Len(Sequentially(n, size, world)[w]) = last - first
  BY <1>2, <1>3
<1> QED BY <1>4 DEF first, last

\* Item i is at one place of the lists of the workers 0 .. world - 1.
OneHolds(l, world, i) ==
    \E w \in 0 .. world - 1 : \E p \in DOMAIN l[w] :
        /\ l[w][p] = i
        /\ \A v \in 0 .. world - 1 : \A q \in DOMAIN l[v] : l[v][q] = i => v = w /\ q = p

\* Whatever the number of items and workers, and with align_chunking or without:
\* every item is in the list of a worker, and in no other place of any list
\* (_map_items_to_workers_sequentially).
THEOREM EveryItemOnce ==
    ASSUME NEW n \in Nat, NEW size \in Nat, NEW world \in Nat \ {0}, NEW i \in 1 .. n
    PROVE  OneHolds(Sequentially(n, size, world), world, i)
<1> DEFINE split == Sequentially(n, size, world)
           first(w) == FirstItem(n, size, world, w)
           last(w) == LastItem(n, size, world, w)
<1>1. PICK w \in 0 .. world - 1 : first(w) < i /\ i <= last(w)
  BY SomeWorker
<1>2. ASSUME NEW v \in 0 .. world - 1
      PROVE  /\ first(v) \in Nat /\ last(v) \in Nat
             /\ split[v] = [q \in 1 .. last(v) - first(v) |-> first(v) + q]
  BY RangeFacts, ListIs
<1>3. ASSUME NEW u \in 0 .. world - 1, NEW v \in 0 .. world - 1, u < v
      PROVE  last(u) <= first(v)
  <2>1. u + 1 \in 0 .. world /\ v \in 0 .. world /\ u + 1 <= v /\ u # world - 1
    BY <1>3
  <2>2. FirstItem(n, size, world, u + 1) <= FirstItem(n, size, world, v)
    BY <2>1, FirstItemFacts, Zenon
  <2> QED BY <2>1, <2>2 DEF LastItem
<1> DEFINE p == i - first(w)
<1>4. p \in DOMAIN split[w] /\ split[w][p] = i
  <2>1. /\ first(w) \in Nat /\ last(w) \in Nat
        /\ split[w] = [q \in 1 .. last(w) - first(w) |-> first(w) + q]
    BY <1>2, Zenon
  <2>2. p \in 1 .. last(w) - first(w)
    BY <1>1, <2>1
  <2>3. first(w) + p = i
    BY <2>1
  <2> QED BY <2>1, <2>2, <2>3, Zenon
<1>5. ASSUME NEW v \in 0 .. world - 1, NEW q \in DOMAIN split[v], split[v][q] = i
      PROVE  v = w /\ q = p
  <2>1. /\ first(v) \in Nat /\ last(v) \in Nat
        /\ split[v] = [x \in 1 .. last(v) - first(v) |-> first(v) + x]
    BY <1>2, Zenon
  <2>2. q \in 1 .. last(v) - first(v)
    BY <2>1, Zenon
  <2>3. i = first(v) + q
    BY <1>5, <2>1, <2>2, Zenon
  <2>4. first(v) < i /\ i <= last(v) /\ q = i - first(v)
    BY <2>1, <2>2, <2>3
  <2>5. first(w) \in Nat /\ last(w) \in Nat
    BY <1>2, Zenon
  <2>6. ~(v < w)
    <3>1. v < w => last(v) <= first(w)
      BY <1>3, Zenon
    <3> QED BY <1>1, <2>1, <2>4, <2>5, <3>1
  <2>7. ~(w < v)
    <3>1. w < v => last(w) <= first(v)
      BY <1>3, Zenon
    <3> QED BY <1>1, <2>1, <2>4, <2>5, <3>1
  <2> QED BY <2>4, <2>6, <2>7
<1> HIDE DEF split, p
<1>6. OneHolds(split, world, i)
  BY <1>4, <1>5 DEF OneHolds
<1> QED BY <1>6 DEF split

\* With align_chunking every worker but the last has full chunks only, so that the
\* chunks are those of a single worker.
THEOREM FullChunksButLast ==
    ASSUME NEW n \in Nat, NEW size \in Nat \ {0}, NEW world \in Nat \ {0},
           NEW w \in 0 .. world - 2
    PROVE  Len(Sequentially(n, size, world)[w]) % size = 0
<1>1. PICK each \in Nat : /\ each % size = 0
                          /\ world * each <= n
                          /\ \A v \in Nat : FirstItem(n, size, world, v) = v * each
  BY AlignedFirst, Zenon
<1>2. w \in 0 .. world - 1 /\ w # world - 1
  OBVIOUS
<1>3. Len(Sequentially(n, size, world)[w]) =
         FirstItem(n, size, world, w + 1) - FirstItem(n, size, world, w)
  <2>1. LastItem(n, size, world, w) = FirstItem(n, size, world, w + 1)
    BY <1>2 DEF LastItem
  <2>2. size \in Nat
    OBVIOUS
  <2>3. Len(Sequentially(n, size, world)[w]) =
           LastItem(n, size, world, w) - FirstItem(n, size, world, w)
    BY <1>2, <2>2, ListLength, Zenon
  <2> QED BY <2>1, <2>3
<1>4. (w + 1) * each - w * each = each
  BY <1>1
<1> QED BY SMTT(30), <1>1, <1>3, <1>4
\* Without it two workers differ by one item at most.
THEOREM EvenSplit ==
    ASSUME NEW n \in Nat, NEW world \in Nat \ {0},
           NEW v \in 0 .. world - 1, NEW w \in 0 .. world - 1, v <= w
    PROVE  Len(Sequentially(n, 0, world)[w]) - Len(Sequentially(n, 0, world)[v]) \in {0, 1}
<1>1. PICK base \in Nat, full \in 1 .. world :
          /\ n = full * base + (world - full) * (base + 1)
          /\ \A x \in Nat : FirstItem(n, 0, world, x) =
                IF x <= full THEN x * base ELSE full * base + (x - full) * (base + 1)
  BY EvenFirst
<1>2. ASSUME NEW x \in 0 .. world - 1
      PROVE  Len(Sequentially(n, 0, world)[x]) = IF x < full THEN base ELSE base + 1
  <2>1. LastItem(n, 0, world, x) = FirstItem(n, 0, world, x + 1)
    <3>1. CASE full = world
      BY <1>1, <3>1 DEF LastItem
    <3>2. CASE full < world
      BY <1>1, <3>2 DEF LastItem
    <3> QED BY <3>1, <3>2
  <2>2. Len(Sequentially(n, 0, world)[x]) = FirstItem(n, 0, world, x + 1) - FirstItem(n, 0, world, x)
    BY <2>1, ListLength
  <2>3. CASE x < full
    BY <1>1, <2>2, <2>3
  <2>4. CASE x = full
    BY <1>1, <2>2, <2>4
  <2>5. CASE x > full
    BY <1>1, <2>2, <2>5
  <2> QED BY <2>3, <2>4, <2>5
<1> QED BY <1>2

-----------------------------------------------------------------------------
(* The processing of a job. *)

\* A remove queue in which no end token waits.
Endless(queue) == \E S : queue \in Seq(S) /\ \A m \in S : m.kind # "end"

\* What the processes of worker w are doing as long as it may still fail: its
\* remover runs and has not been told to end.
RemoverInv(w) ==
    /\ phase[w] \in {"setup", "loop", "failed"} => Endless(toRemove[w])
    /\ phase[w] \in {"loop", "failed"} => remover[w] = "running"

\* The workers there are, and which of them have reported an error.
ErrorInv ==
    /\ DOMAIN phase \subseteq Workers
    /\ DOMAIN remover = DOMAIN phase /\ DOMAIN toRemove = DOMAIN phase
    /\ \A w \in errors : w \in DOMAIN phase /\ phase[w] = "failed"

\* The inductive invariant.  ErrorsSurface alone is not inductive: main leaves the
\* join only when no worker is alive, and a failed worker stays alive because its
\* remover was never told to end.
IInv == ErrorInv /\ ErrorsSurface /\ \A w \in DOMAIN phase : RemoverInv(w)

-----------------------------------------------------------------------------
\* What is put behind a queue without an end token, is it no end token itself,
\* leaves none.
LEMMA EndlessAppend ==
    ASSUME NEW queue, Endless(queue), NEW m, m.kind # "end"
    PROVE  Endless(Append(queue, m))
<1>1. PICK S : queue \in Seq(S) /\ \A x \in S : x.kind # "end"
  BY DEF Endless
<1>2. Append(queue, m) \in Seq(S \union {m})
  BY <1>1
<1>3. \A x \in S \union {m} : x.kind # "end"
  BY <1>1
<1> QED BY <1>2, <1>3 DEF Endless

\* The first message of such a queue is no end token, and none is in the rest.
LEMMA EndlessTail ==
    ASSUME NEW queue, Endless(queue), queue # << >>
    PROVE  Head(queue).kind # "end" /\ Endless(Tail(queue))
<1>1. PICK S : queue \in Seq(S) /\ \A x \in S : x.kind # "end"
  BY DEF Endless
<1>2. Head(queue) \in S /\ Tail(queue) \in Seq(S)
  BY <1>1
<1> QED BY <1>1, <1>2 DEF Endless

LEMMA EndlessEmpty == Endless(<< >>)
<1> DEFINE S == {[kind |-> "chunks"]}
<1>1. << >> \in Seq(S)
  OBVIOUS
<1>2. \A m \in S : m.kind # "end"
  OBVIOUS
<1> HIDE DEF S
<1> QED BY <1>1, <1>2 DEF Endless

-----------------------------------------------------------------------------
LEMMA InitInv == Init => IInv
BY DEF Init, IInv, ErrorInv, ErrorsSurface

\* A step of one worker, or of a process of its own, that changes neither who
\* reported an error nor where main is, if it leaves that worker as RemoverInv says.
LEMMA OneWorker ==
    ASSUME IInv, NEW w \in DOMAIN phase,
           UNCHANGED <<job, main, errors>>,
           DOMAIN phase' = DOMAIN phase, DOMAIN remover' = DOMAIN phase,
           DOMAIN toRemove' = DOMAIN phase,
           \A v \in DOMAIN phase \ {w} : /\ phase'[v] = phase[v] /\ remover'[v] = remover[v]
                                         /\ toRemove'[v] = toRemove[v],
           phase[w] = "failed" => phase'[w] = "failed",
           RemoverInv(w) => RemoverInv(w)'
    PROVE  IInv'
BY DEF IInv, ErrorInv, ErrorsSurface, RemoverInv, Workers

\* A worker reports an error.
LEMMA Reports ==
    ASSUME IInv, NEW w \in DOMAIN phase, Up, phase[w] = "loop",
           phase' = [phase EXCEPT ![w] = "failed"], errors' = errors \union {w},
           UNCHANGED <<job, main, remover, toRemove>>
    PROVE  IInv'
BY DEF IInv, ErrorInv, ErrorsSurface, RemoverInv, Workers, Up

\* A step that changes nothing the invariant is about but main.
LEMMA OnlyMain ==
    ASSUME IInv, UNCHANGED <<job, errors, phase, remover, toRemove>>, ErrorsSurface'
    PROVE  IInv'
BY DEF IInv, ErrorInv, RemoverInv, Workers

\* The item is handled: its inputs are handed to the remover.
LEMMA HandledInv ==
    ASSUME IInv, NEW w \in DOMAIN phase, NEW i, Handled(w, i),
           UNCHANGED <<job, main, errors, phase, remover>>
    PROVE  IInv'
<1>1. /\ DOMAIN toRemove' = DOMAIN phase
      /\ \A v \in DOMAIN phase \ {w} : toRemove'[v] = toRemove[v]
  BY DEF Handled, IInv, ErrorInv
<1>2. ASSUME Endless(toRemove[w]) PROVE Endless(toRemove'[w])
  <2>1. CASE job.downloaders > 0
    <3>1. toRemove'[w] = Append(toRemove[w], [kind |-> "inputs", of |-> job.files[i]])
      BY <2>1 DEF Handled, IInv, ErrorInv
    <3> QED BY <3>1, <1>2, EndlessAppend
  <2>2. CASE ~(job.downloaders > 0)
    BY <1>2, <2>2 DEF Handled, IInv, ErrorInv
  <2> QED BY <2>1, <2>2
<1>3. RemoverInv(w) => RemoverInv(w)'
  BY <1>2 DEF RemoverInv
<1> QED BY <1>1, <1>3, OneWorker DEF IInv, ErrorInv

LEMMA NextInv ==
    ASSUME IInv, [Next]_vars
    PROVE  IInv'
<1> USE DEF jobVars, mainVars, queueVars, writerVars, uploadVars, diskVars, outputVars, launchVars
<1>1. CASE UNCHANGED vars
  BY <1>1, OnlyMain DEF vars, IInv, ErrorsSurface
<1>2. CASE Stopped
  BY <1>2, OnlyMain DEF Stopped, vars, IInv, ErrorsSurface
<1>3. CASE Crash
  BY <1>3 DEF Crash, IInv, ErrorInv, ErrorsSurface
<1>3a. CASE CrashSaving
  BY <1>3a, OnlyMain DEF CrashSaving, IInv, ErrorsSurface
<1>4. CASE MainStep
  <2>1. CASE Launch
    <3>1. /\ phase' = [w \in Workers |-> "setup"] /\ remover' = [w \in Workers |-> "off"]
          /\ toRemove' = [w \in Workers |-> << >>] /\ errors' = {} /\ Workers' = Workers
      BY <2>1 DEF Launch, CleanOutput, Fresh, CleanCaches, NewWorkers, NewWriters, Workers
    <3> QED BY <3>1, EndlessEmpty DEF IInv, ErrorInv, ErrorsSurface, RemoverInv
  <2>2. CASE Refuse
    BY <2>2, OnlyMain DEF Refuse, ErrorsSurface
  <2>2a. CASE RefuseLate \/ RefuseConfig
    BY <2>2a, OnlyMain DEF RefuseLate, RefuseConfig, ErrorsSurface
  <2>3. CASE ExitOnError
    BY <2>3, OnlyMain DEF ExitOnError, ErrorsSurface
  <2>4. CASE AllWorkersEnd
    <3>1. errors = {}
      <4>1. CASE main = "running"
        BY <2>4, <4>1 DEF AllWorkersEnd
      <4>2. CASE main # "running"
        \* A worker whose error is waiting is alive.
        <5>1. \A w \in errors : w \in Workers /\ phase[w] = "failed" /\ remover[w] = "running"
          BY DEF IInv, ErrorInv, RemoverInv
        <5> QED BY <2>4, <5>1 DEF AllWorkersEnd, Alive
      <4> QED BY <4>1, <4>2
    <3> QED BY <2>4, <3>1, OnlyMain DEF AllWorkersEnd, ErrorsSurface
  <2>5. CASE Merge
    BY <2>5, OnlyMain DEF Merge, IInv, ErrorsSurface
  <2>6. CASE CleanCheckpoints
    BY <2>6, OnlyMain DEF CleanCheckpoints, IInv, ErrorsSurface
  <2>7. CASE \E w \in DOMAIN phase : SeeProgress(w)
    <3>1. UNCHANGED <<job, errors, phase, remover, toRemove>>
      BY <2>7 DEF SeeProgress
    <3>2. main' \in {main, "joining"}
      BY <2>7 DEF SeeProgress
    <3> QED BY <3>1, <3>2, OnlyMain DEF IInv, ErrorsSurface
  <2> QED BY <1>4, <2>1, <2>2, <2>2a, <2>3, <2>4, <2>5, <2>6, <2>7 DEF MainStep
<1>5. ASSUME NEW w \in DOMAIN phase, WorkerStep(w) PROVE IInv'
  <2>1. CASE Setup(w)
    BY <2>1, OneWorker DEF Setup, IInv, ErrorInv, RemoverInv
  <2>2. CASE Skip(w)
    BY <2>2, HandledInv DEF Skip
  <2>3. CASE AddItem(w)
    BY <2>3, HandledInv DEF AddItem
  <2>4. CASE AddItemAndClose(w)
    BY <2>4, HandledInv DEF AddItemAndClose
  <2>5. CASE Transform(w)
    BY <2>5, HandledInv DEF Transform
  <2>6. CASE Fail(w)
    BY <2>6, Reports DEF Fail, HasItem, Working
  <2>7. CASE PassEnd(w)
    BY <2>7, OnlyMain DEF PassEnd, IInv, ErrorsSurface
  <2>8. CASE Conclude(w)
    BY <2>8, OneWorker DEF Conclude, Working, IInv, ErrorInv, RemoverInv
  <2>9. CASE ConcludeFails(w)
    BY <2>9, Reports DEF ConcludeFails, Working
  <2>10. CASE Flushed(w)
    BY <2>10, OneWorker DEF Flushed, IInv, ErrorInv, RemoverInv
  <2>11. CASE Exit(w)
    BY <2>11, OneWorker DEF Exit, IInv, ErrorInv, RemoverInv
  <2> QED BY <1>5, <2>1, <2>2, <2>3, <2>4, <2>5, <2>6, <2>7, <2>8, <2>9, <2>10, <2>11
          DEF WorkerStep
<1>6. ASSUME NEW w \in DOMAIN phase, RemoveFiles(w) PROVE IInv'
  <2> DEFINE m == Head(toRemove[w])
  <2>1. /\ toRemove[w] # << >>
        /\ toRemove' = [toRemove EXCEPT ![w] = Tail(@)]
        /\ remover' = [remover EXCEPT ![w] = IF m.kind = "end" THEN "ended" ELSE @]
        /\ UNCHANGED <<job, main, errors, phase>>
    BY <1>6 DEF RemoveFiles
  <2>2. Endless(toRemove[w]) => m.kind # "end" /\ Endless(toRemove'[w])
    BY <2>1, EndlessTail DEF IInv, ErrorInv
  <2>3. RemoverInv(w) => RemoverInv(w)'
    BY <2>1, <2>2 DEF RemoverInv, IInv, ErrorInv
  <2> QED BY <2>1, <2>3, OneWorker DEF IInv, ErrorInv
<1>7. ASSUME NEW w \in DOMAIN phase, NEW d \in Downloaders, DownloaderStep(w, d) PROVE IInv'
  BY <1>7, OnlyMain DEF DownloaderStep, Download, DownloadEnds, DownloadFails, IInv, ErrorsSurface
<1>8. ASSUME NEW w \in DOMAIN phase, NEW u \in Uploaders, UploaderStep(w, u) PROVE IInv'
  <2>1. CASE CopyFails(w, u) \/ UploadEnds(w, u)
    BY <2>1, OnlyMain DEF CopyFails, UploadEnds, IInv, ErrorsSurface
  <2>2. CASE Upload(w, u) \/ UploadFails(w, u)
    <3> DEFINE spent == [kind |-> "chunks", of |-> Spent(Message(w, u))]
    <3>1. /\ toRemove' = [toRemove EXCEPT ![w] = Append(@, spent)]
          /\ UNCHANGED <<job, main, errors, phase, remover>>
      BY <2>2 DEF Upload, UploadFails
    <3>2. Endless(toRemove[w]) => Endless(toRemove'[w])
      BY <3>1, EndlessAppend DEF IInv, ErrorInv
    <3>3. RemoverInv(w) => RemoverInv(w)'
      BY <3>1, <3>2 DEF RemoverInv
    <3> QED BY <3>1, <3>3, OneWorker DEF IInv, ErrorInv
  <2> QED BY <1>8, <2>1, <2>2 DEF UploaderStep
<1> QED BY <1>1, <1>2, <1>3, <1>3a, <1>4, <1>5, <1>6, <1>7, <1>8 DEF Next

\* An error some worker reports keeps the program from ending well, for every job
\* and in every order of the processes (_exit_on_error and the joins of
\* DataProcessor.run).
THEOREM ErrorsAlwaysSurface == Spec => []ErrorsSurface
<1>1. IInv => ErrorsSurface
  BY DEF IInv
<1> QED BY <1>1, InitInv, NextInv, PTL DEF Spec
-----------------------------------------------------------------------------
(* How the items are shared out. *)

\* The lists of a job are those it began with, also after a restart.
LEMMA ListsStay ==
    ASSUME [Next]_vars
    PROVE  UNCHANGED jobVars
<1> USE DEF jobVars, mainVars, queueVars, writerVars, uploadVars, diskVars, outputVars, launchVars
<1>1. CASE MainStep
  BY <1>1 DEF MainStep, Refuse, RefuseLate, RefuseConfig, Launch, ExitOnError, AllWorkersEnd, Merge, CleanCheckpoints,
              SeeProgress
<1>2. CASE Crash \/ CrashSaving
  BY <1>2 DEF Crash, CrashSaving
<1>3. CASE Stopped \/ UNCHANGED vars
  BY <1>3 DEF Stopped, vars
<1>4. ASSUME NEW w \in DOMAIN phase, WorkerStep(w) \/ RemoveFiles(w)
      PROVE  UNCHANGED jobVars
  BY <1>4 DEF WorkerStep, Setup, Skip, AddItem, AddItemAndClose, Transform, Fail, PassEnd, Conclude,
              ConcludeFails, Flushed, Exit, RemoveFiles
<1>5. ASSUME NEW w \in DOMAIN phase, NEW d \in Downloaders, DownloaderStep(w, d)
      PROVE  UNCHANGED jobVars
  BY <1>5 DEF DownloaderStep, Download, DownloadEnds, DownloadFails
<1>6. ASSUME NEW w \in DOMAIN phase, NEW u \in Uploaders, UploaderStep(w, u)
      PROVE  UNCHANGED jobVars
  BY <1>6 DEF UploaderStep, Upload, UploadFails, CopyFails, UploadEnds
<1> QED BY <1>1, <1>2, <1>3, <1>4, <1>5, <1>6 DEF Next

\* The lists l share out n items as WorkIsSplit asks of a job without weights.
Parted(l, n, size, world) ==
    /\ \A i \in 1 .. n :
         Cardinality({p \in UNION {{w} \X DOMAIN l[w] : w \in 0 .. world - 1} : l[p[1]][p[2]] = i}) = 1
    /\ \A v, w \in 0 .. world - 1 :
         /\ size > 0 => (v < world - 1 => Len(l[v]) % size = 0)
         /\ size = 0 => (v <= w => Len(l[w]) - Len(l[v]) \in {0, 1})

LEMMA SequentialSplit ==
    ASSUME NEW n \in Nat, NEW size \in Nat, NEW world \in Nat \ {0}
    PROVE  Parted(Sequentially(n, size, world), n, size, world)
<1> DEFINE l == Sequentially(n, size, world)
           Places(i) == {p \in UNION {{w} \X DOMAIN l[w] : w \in 0 .. world - 1} : l[p[1]][p[2]] = i}
           At(i, w, q) ==
               /\ l[w][q] = i
               /\ \A v \in 0 .. world - 1 : \A k \in DOMAIN l[v] : l[v][k] = i => v = w /\ k = q
<1>1. ASSUME NEW i \in 1 .. n PROVE Cardinality(Places(i)) = 1
  <2>0. OneHolds(l, world, i)
    BY EveryItemOnce
  <2> HIDE DEF l, At
  <2>1. PICK w \in 0 .. world - 1 : \E q \in DOMAIN l[w] : At(i, w, q)
    BY <2>0 DEF OneHolds, At
  <2>2. PICK q \in DOMAIN l[w] : At(i, w, q)
    BY <2>1
  <2>3. <<w, q>> \in Places(i)
    BY <2>2 DEF At
  <2>4. \A p \in Places(i) : p = <<w, q>>
    BY <2>2 DEF At
  <2> HIDE DEF Places
  <2>5. Places(i) = {<<w, q>>}
    BY <2>3, <2>4
  <2> QED BY <2>5, FS_Singleton
<1>2. ASSUME NEW v \in 0 .. world - 1, size > 0, v < world - 1
      PROVE  Len(l[v]) % size = 0
  <2>1. v \in 0 .. world - 2 /\ size \in Nat \ {0}
    BY <1>2
  <2> QED BY <2>1, FullChunksButLast
<1>3. ASSUME NEW v \in 0 .. world - 1, NEW w \in 0 .. world - 1, size = 0, v <= w
      PROVE  Len(l[w]) - Len(l[v]) \in {0, 1}
  <2>1. Len(Sequentially(n, 0, world)[w]) - Len(Sequentially(n, 0, world)[v]) \in {0, 1}
    BY <1>3, EvenSplit
  <2> QED BY <2>1, <1>3
<1> HIDE DEF l
<1>4. /\ \A i \in 1 .. n : Cardinality(Places(i)) = 1
      /\ \A v, w \in 0 .. world - 1 :
           /\ size > 0 => (v < world - 1 => Len(l[v]) % size = 0)
           /\ size = 0 => (v <= w => Len(l[w]) - Len(l[v]) \in {0, 1})
  BY <1>1, <1>2, <1>3
<1> QED BY <1>4 DEF l, Parted

\* A job without weights shares out its items so that each is in one list, once, and
\* the lists are as even, or as aligned, as _map_items_to_workers_sequentially
\* says, over this node's workers and over those of up to four nodes.
THEOREM ItemsAreSplit == Spec => [](job.weights = << >> => WorkIsSplit)
<1> DEFINE Inv == job \in Jobs /\ lists \in ListsOf(job)
<1>1. Init => Inv
  BY DEF Init
<1>2. Inv /\ [Next]_vars => Inv'
  <2> SUFFICES ASSUME Inv, [Next]_vars PROVE Inv'
    OBVIOUS
  <2>1. UNCHANGED jobVars
    BY ListsStay
  <2> QED BY <2>1 DEF jobVars
<1>3. Inv => (job.weights = << >> => WorkIsSplit)
  <2> SUFFICES ASSUME Inv, job.weights = << >>, job.source = "list", ~job.invalid,
                      NEW world \in 1 .. 4,
                      NEW l \in {IF world = job.workers THEN lists
                                 ELSE Sequentially(job.items, IF job.align THEN job.chunkSize ELSE 0, world)}
               PROVE  /\ \A i \in Items :
                           Cardinality({p \in UNION {{w} \X DOMAIN l[w] : w \in 0 .. world - 1} :
                                            l[p[1]][p[2]] = i}) = 1
                      /\ \A v, w \in 0 .. world - 1 :
                           IF job.align THEN v < world - 1 => Len(l[v]) % job.chunkSize = 0
                                        ELSE v <= w => Len(l[w]) - Len(l[v]) \in {0, 1}
    BY ZenonT(150) DEF WorkIsSplit
  <2> DEFINE size == IF job.align THEN job.chunkSize ELSE 0
  <2>1. lists = Sequentially(job.items, size, job.workers)
    BY DEF ListsOf
  <2>2. /\ job.items \in Nat /\ size \in Nat
        /\ job.align => size = job.chunkSize /\ size > 0
        /\ ~job.align => size = 0
    BY JobAssumption
  <2>3. l = Sequentially(job.items, size, world) /\ world \in Nat \ {0}
    BY <2>1
  <2> HIDE DEF size
  <2>4. Parted(l, job.items, size, world)
    BY <2>2, <2>3, SequentialSplit
  <2>5. \A i \in Items :
            Cardinality({p \in UNION {{w} \X DOMAIN l[w] : w \in 0 .. world - 1} :
                             l[p[1]][p[2]] = i}) = 1
    BY <2>4 DEF Items, Parted
  <2>6. \A v, w \in 0 .. world - 1 :
            /\ size > 0 => (v < world - 1 => Len(l[v]) % size = 0)
            /\ size = 0 => (v <= w => Len(l[w]) - Len(l[v]) \in {0, 1})
    BY <2>4 DEF Parted
  <2>7. ASSUME NEW v \in 0 .. world - 1, NEW w \in 0 .. world - 1
        PROVE  IF job.align THEN v < world - 1 => Len(l[v]) % job.chunkSize = 0
                            ELSE v <= w => Len(l[w]) - Len(l[v]) \in {0, 1}
    <3>1. CASE job.align
      BY <2>2, <2>6, <3>1
    <3>2. CASE ~job.align
      BY <2>2, <2>6, <3>2
    <3> QED BY <3>1, <3>2
  <2> QED BY <2>5, <2>7
<1> QED BY <1>1, <1>2, <1>3, PTL DEF Spec

-----------------------------------------------------------------------------
(* The chunks a worker has written, and the files that name them. *)

\* Where the names of the chunks of worker w start, if these chunks exist.
Start(chunks, w) == Max({0} \union {c.index + 1 : c \in {d \in ToSet(chunks) : d.rank = w}})

\* A list of chunks with names.
Known(chunks) == IsSeq(chunks) /\ \A c \in ToSet(chunks) : c.index \in Nat

\* Chunks that worker w has written, and that leave room for the next name when w
\* starts again behind them.
Listed(w, list, first) ==
    /\ IsSeq(list)
    /\ \A k \in DOMAIN list :
         /\ list[k].rank = w /\ list[k].index \in Nat
         /\ IsSeq(list[k].items) /\ list[k].items # << >>
         /\ list[k].index < first + DoneTill(list)
    /\ \A k, l \in DOMAIN list : list[k].index = list[l].index => list[k] = list[l]

LEMMA StartFacts ==
    ASSUME NEW chunks, Known(chunks), NEW w
    PROVE  /\ Start(chunks, w) \in Nat
           /\ \A c \in ToSet(chunks) : c.rank = w => c.index < Start(chunks, w)
           /\ Start(chunks, w) # 0 =>
                \E c \in ToSet(chunks) : c.rank = w /\ Start(chunks, w) = c.index + 1
<1> DEFINE D == {d \in ToSet(chunks) : d.rank = w}
           N == {c.index + 1 : c \in D}
           f == [c \in D |-> c.index + 1]
<1>1. IsFiniteSet(D)
  BY SeqFacts, FS_Subset DEF Known
<1>2. f \in Surjection(D, N)
  BY DEF Surjection
<1>3. IsFiniteSet(N)
  <2> HIDE DEF D, N, f
  <2> QED BY <1>1, <1>2, FS_Surjection
<1>4. \A c \in D : c.index + 1 \in Nat
  BY DEF Known
<1>5. {0} \union N \in SUBSET Nat /\ {0} \union N # {}
  BY <1>4
<1>6. IsFiniteSet(N \union {0})
  <2> HIDE DEF N
  <2> QED BY <1>3, FS_AddElement
<1>7. {0} \union N = N \union {0}
  OBVIOUS
<1>8. Start(chunks, w) = Max({0} \union N)
  BY DEF Start
<1>9. /\ Start(chunks, w) \in {0} \union N
      /\ \A x \in {0} \union N : x <= Start(chunks, w)
  <2> HIDE DEF N
  <2> QED BY <1>5, <1>6, <1>7, <1>8, MaxFacts
<1>10. \A c \in D : c.index + 1 <= Start(chunks, w)
  BY <1>9
<1>11. Start(chunks, w) \in Nat
  BY <1>5, <1>9
<1>12. ASSUME NEW c \in ToSet(chunks), c.rank = w PROVE c.index < Start(chunks, w)
  <2>1. c \in D /\ c.index \in Nat
    BY <1>12 DEF Known
  <2> HIDE DEF D
  <2> QED BY <1>10, <1>11, <2>1
<1> QED BY <1>9, <1>11, <1>12

LEMMA StartGrows ==
    ASSUME NEW a, NEW b, Known(a), Known(b), ToSet(a) \subseteq ToSet(b), NEW w
    PROVE  Start(a, w) <= Start(b, w)
<1>1. CASE Start(a, w) = 0
  BY <1>1, StartFacts
<1>2. CASE Start(a, w) # 0
  <2>1. PICK c \in ToSet(a) : c.rank = w /\ Start(a, w) = c.index + 1
    BY <1>2, StartFacts
  <2>2. c.index \in Nat /\ c.index < Start(b, w) /\ Start(b, w) \in Nat
    BY <2>1, StartFacts DEF Known
  <2> QED BY <2>1, <2>2
<1> QED BY <1>1, <1>2

\* The samples of some chunks: where each is.
Samples(chunks) == UNION {{k} \X DOMAIN chunks[k].items : k \in DOMAIN chunks}

LEMMA SamplesFinite ==
    ASSUME NEW chunks, IsSeq(chunks), \A k \in DOMAIN chunks : IsSeq(chunks[k].items)
    PROVE  IsFiniteSet(Samples(chunks)) /\ DoneTill(chunks) \in Nat
<1> DEFINE Of(k) == {k} \X DOMAIN chunks[k].items
           S == {Of(k) : k \in DOMAIN chunks}
           f == [k \in DOMAIN chunks |-> Of(k)]
<1>1. IsFiniteSet(DOMAIN chunks)
  BY SeqFacts, FS_Interval
<1>2. f \in Surjection(DOMAIN chunks, S)
  BY DEF Surjection
<1>3. IsFiniteSet(S)
  <2> HIDE DEF S, f
  <2> QED BY <1>1, <1>2, FS_Surjection
<1>4. ASSUME NEW k \in DOMAIN chunks PROVE IsFiniteSet(Of(k))
  <2>1. IsFiniteSet(DOMAIN chunks[k].items)
    <3>1. Len(chunks[k].items) \in Nat /\ DOMAIN chunks[k].items = 1 .. Len(chunks[k].items)
      BY SeqFacts
    <3> QED BY <3>1, FS_Interval
  <2> QED BY <2>1, FS_Singleton, FS_Product
<1>5. \A T \in S : IsFiniteSet(T)
  <2> HIDE DEF Of
  <2> QED BY <1>4
<1>6. IsFiniteSet(UNION S)
  <2> HIDE DEF S
  <2> QED BY <1>3, <1>5, FS_UNION
<1>7. Samples(chunks) = UNION S
  BY DEF Samples
<1>8. DoneTill(chunks) = Cardinality(Samples(chunks))
  BY DEF DoneTill, Samples
<1> HIDE DEF S
<1> QED BY <1>6, <1>7, <1>8, FS_CardinalityType

\* A chunk more: its samples are counted.
LEMMA DoneExact ==
    ASSUME NEW chunks, IsSeq(chunks), \A k \in DOMAIN chunks : IsSeq(chunks[k].items),
           NEW c, IsSeq(c.items)
    PROVE  DoneTill(Append(chunks, c)) = DoneTill(chunks) + Len(c.items)
<1> DEFINE more == Append(chunks, c)
           n == Len(chunks) + 1
           new == {n} \X DOMAIN c.items
<1>1. /\ IsSeq(more) /\ DOMAIN chunks = 1 .. Len(chunks) /\ DOMAIN more = 1 .. n
      /\ Len(chunks) \in Nat
      /\ \A k \in DOMAIN chunks : more[k] = chunks[k]
      /\ more[n] = c
  BY SeqFacts, AppendFacts
<1> HIDE DEF more
<1>2. \A k \in DOMAIN more : k \in DOMAIN chunks \/ k = n
  BY <1>1
<1>3. n \in DOMAIN more /\ n \notin DOMAIN chunks /\ DOMAIN chunks \subseteq DOMAIN more
  BY <1>1
<1>4. IsFiniteSet(Samples(chunks)) /\ DoneTill(chunks) \in Nat
  BY SamplesFinite
<1>5. Samples(more) = Samples(chunks) \union new
  BY <1>1, <1>2, <1>3 DEF Samples
<1>6. Samples(chunks) \intersect new = {}
  BY <1>3 DEF Samples
<1>7. IsFiniteSet(new) /\ Cardinality(new) = Len(c.items) /\ Len(c.items) \in Nat
  <2>1. Len(c.items) \in Nat /\ DOMAIN c.items = 1 .. Len(c.items)
    BY SeqFacts
  <2> DEFINE l == Len(c.items)
  <2> HIDE DEF l
  <2>2. IsFiniteSet(1 .. l) /\ Cardinality(1 .. l) = l
    <3>1. l \in Nat /\ 1 \in Int /\ l \in Int
      BY <2>1 DEF l
    <3>2. IsFiniteSet(1 .. l)
      BY <3>1, FS_Interval
    <3>3. Cardinality(1 .. l) = IF 1 > l THEN 0 ELSE l - 1 + 1
      BY <3>1, FS_Interval
    <3> QED BY <3>1, <3>2, <3>3
  <2>3. IsFiniteSet({n}) /\ Cardinality({n}) = 1
    BY FS_Singleton
  <2>4. new = {n} \X (1 .. l)
    BY <2>1 DEF l
  <2>5. IsFiniteSet({n} \X (1 .. l)) /\ Cardinality({n} \X (1 .. l)) = 1 * l
    <3> DEFINE I == 1 .. l
               N == {n}
    <3> HIDE DEF I, N
    <3>1. IsFiniteSet(I) /\ Cardinality(I) = l /\ IsFiniteSet(N) /\ Cardinality(N) = 1
      BY <2>2, <2>3 DEF I, N
    <3>2. IsFiniteSet(N \X I) /\ Cardinality(N \X I) = Cardinality(N) * Cardinality(I)
      BY <3>1, FS_Product
    <3> QED BY <3>1, <3>2 DEF I, N
  <2>6. 1 * l = l
    BY <2>1 DEF l
  <2> HIDE DEF new, n
  <2> QED BY <2>1, <2>4, <2>5, <2>6 DEF l
<1> HIDE DEF new
<1>8. Cardinality(Samples(more)) = Cardinality(Samples(chunks)) + Cardinality(new) - Cardinality({})
  BY <1>4, <1>5, <1>6, <1>7, FS_Union
<1>9. Cardinality({}) = 0
  BY FS_EmptySet
<1>10. DoneTill(chunks) = Cardinality(Samples(chunks)) /\ DoneTill(more) = Cardinality(Samples(more))
  BY DEF DoneTill, Samples
<1> QED BY <1>4, <1>7, <1>8, <1>9, <1>10 DEF more

\* At least a sample more.
LEMMA DoneAppend ==
    ASSUME NEW chunks, IsSeq(chunks), \A k \in DOMAIN chunks : IsSeq(chunks[k].items),
           NEW c, IsSeq(c.items), c.items # << >>
    PROVE  /\ DoneTill(chunks) \in Nat /\ DoneTill(Append(chunks, c)) \in Nat
           /\ DoneTill(chunks) + 1 <= DoneTill(Append(chunks, c))
<1>1. DoneTill(chunks) \in Nat
  BY SamplesFinite
<1>2. Len(c.items) \in Nat /\ Len(c.items) > 0
  BY SeqFacts
<1>3. DoneTill(Append(chunks, c)) = DoneTill(chunks) + Len(c.items)
  BY DoneExact
<1> QED BY <1>1, <1>2, <1>3

LEMMA ListedEmpty ==
    ASSUME NEW w, NEW first \in Nat
    PROVE  Listed(w, << >>, first)
<1>1. DOMAIN << >> = {}
  OBVIOUS
<1> QED BY <1>1, EmptyIsSeq DEF Listed

LEMMA EmptyDone == DoneTill(<< >>) = 0
<1>1. Samples(<< >>) = {}
  BY DEF Samples
<1>2. DoneTill(<< >>) = Cardinality(Samples(<< >>))
  BY DEF DoneTill, Samples
<1> QED BY <1>1, <1>2, FS_EmptySet

LEMMA ListedDone ==
    ASSUME NEW w, NEW list, NEW first, Listed(w, list, first)
    PROVE  DoneTill(list) \in Nat
BY SamplesFinite DEF Listed

LEMMA ListedLater ==
    ASSUME NEW w, NEW list, NEW first \in Nat, Listed(w, list, first), NEW later \in Nat, first <= later
    PROVE  Listed(w, list, later)
<1>1. DoneTill(list) \in Nat
  BY ListedDone
<1>2. \A k \in DOMAIN list : list[k].index \in Nat /\ list[k].index < first + DoneTill(list)
  BY DEF Listed
<1>3. \A k \in DOMAIN list : list[k].index < later + DoneTill(list)
  BY <1>1, <1>2
<1> QED BY <1>3 DEF Listed

\* The chunk that is closed next, with a name no chunk of the list has.
LEMMA ListedAppend ==
    ASSUME NEW w, NEW list, NEW first \in Nat, Listed(w, list, first), NEW next \in Nat,
           next <= first + DoneTill(list), \A k \in DOMAIN list : list[k].index < next,
           NEW items, IsSeq(items), items # << >>
    PROVE  /\ Listed(w, Append(list, Chunk(w, next, items)), first)
           /\ next + 1 <= first + DoneTill(Append(list, Chunk(w, next, items)))
           /\ \A k \in DOMAIN Append(list, Chunk(w, next, items)) :
                Append(list, Chunk(w, next, items))[k].index < next + 1
<1> DEFINE c == Chunk(w, next, items)
           more == Append(list, c)
<1>1. c.rank = w /\ c.index = next /\ c.items = items
  BY DEF Chunk
<1>2. IsSeq(list) /\ \A k \in DOMAIN list : IsSeq(list[k].items)
  BY DEF Listed
<1>3. /\ DoneTill(list) \in Nat /\ DoneTill(more) \in Nat
      /\ DoneTill(list) + 1 <= DoneTill(more)
  <2> HIDE DEF c
  <2> QED BY <1>1, <1>2, DoneAppend
<1>4. /\ IsSeq(more) /\ DOMAIN list = 1 .. Len(list) /\ DOMAIN more = 1 .. Len(list) + 1
      /\ Len(list) \in Nat
      /\ \A k \in DOMAIN list : more[k] = list[k]
      /\ more[Len(list) + 1] = c
  BY <1>2, SeqFacts, AppendFacts
<1> HIDE DEF more, c
<1>5. \A k \in DOMAIN more : k \in DOMAIN list \/ k = Len(list) + 1
  BY <1>4
<1>6. \A k \in DOMAIN list : list[k].index \in Nat /\ list[k].index < next
  BY DEF Listed
<1>7. ASSUME NEW k \in DOMAIN more
      PROVE  more[k].index \in Nat /\ more[k].index < next + 1 /\ more[k].index < first + DoneTill(more)
  <2>1. more[k].index \in Nat /\ more[k].index <= next
    BY <1>1, <1>4, <1>5, <1>6
  <2> QED BY <1>3, <2>1
<1>8. \A k \in DOMAIN more : more[k].rank = w /\ IsSeq(more[k].items) /\ more[k].items # << >>
  BY <1>1, <1>4, <1>5 DEF Listed
<1>9. \A k, l \in DOMAIN more : more[k].index = more[l].index => more[k] = more[l]
  <2> SUFFICES ASSUME NEW k \in DOMAIN more, NEW l \in DOMAIN more, more[k].index = more[l].index
               PROVE  more[k] = more[l]
    OBVIOUS
  <2>1. CASE k \in DOMAIN list /\ l \in DOMAIN list
    BY <1>4, <2>1 DEF Listed
  <2>2. CASE k \notin DOMAIN list \/ l \notin DOMAIN list
    <3>1. \A j \in DOMAIN list : more[j].index \in Nat /\ more[j].index < next
      BY <1>4, <1>6
    <3>2. more[Len(list) + 1].index = next
      BY <1>1, <1>4
    <3> QED BY <1>5, <2>2, <3>1, <3>2
  <2> QED BY <2>1, <2>2
<1>10. Listed(w, more, first)
  BY <1>4, <1>7, <1>8, <1>9 DEF Listed
<1>11. next + 1 <= first + DoneTill(more)
  BY <1>3
<1> QED BY <1>7, <1>10, <1>11 DEF more, c
-----------------------------------------------------------------------------
(* The queue of an uploader. *)

Queued(c, q, n) == \E p \in 1 .. n : q[p] = ChunkMessage(c)

\* Chunks that are among the files or wait before position n + 1 of the queue.
Backed(chunks, files, q, n) == \A c \in ToSet(chunks) : c \in files \/ Queued(c, q, n)

\* A checkpoint waits behind the chunks it lists.
QueueBacked(q, files) ==
    \A p \in DOMAIN q : q[p].kind = "checkpoint" => Backed(q[p].chunks, files, q, p - 1)

\* A message for an uploader of worker w, whose chunks are in the list.  The files
\* of map() are in no list.
MessageOK(w, m, list, first, map) ==
    \/ m = EndMessage
    \/ /\ m.kind = "checkpoint"
       /\ Listed(w, m.chunks, first) /\ ToSet(m.chunks) \subseteq ToSet(list)
    \/ \E c : /\ m = ChunkMessage(c) /\ c.rank = w
              /\ ~map => c \in ToSet(list) /\ c.index >= first

QueueOK(w, q, list, first, map) == IsSeq(q) /\ \A p \in DOMAIN q : MessageOK(w, q[p], list, first, map)

\* What is known of a message.
LEMMA MessageKinds ==
    ASSUME NEW w, NEW m, NEW list, NEW first, NEW map, MessageOK(w, m, list, first, map)
    PROVE  /\ m.kind \in {"chunk", "checkpoint", "end"}
           /\ m.kind = "chunk" =>
                /\ m = ChunkMessage(m.chunks[1]) /\ m.chunks[1].rank = w
                /\ ~map => m.chunks[1] \in ToSet(list) /\ m.chunks[1].index >= first
           /\ m.kind = "checkpoint" =>
                Listed(w, m.chunks, first) /\ ToSet(m.chunks) \subseteq ToSet(list)
<1>1. EndMessage.kind = "end"
  BY DEF EndMessage
<1>2. \A c : ChunkMessage(c).kind = "chunk" /\ ChunkMessage(c).chunks[1] = c
  BY DEF ChunkMessage
<1>3. CASE m = EndMessage
  BY <1>1, <1>3
<1>4. CASE m.kind = "checkpoint" /\ Listed(w, m.chunks, first) /\ ToSet(m.chunks) \subseteq ToSet(list)
  BY <1>4
<1>5. ASSUME NEW c, m = ChunkMessage(c), c.rank = w,
             ~map => c \in ToSet(list) /\ c.index >= first
      PROVE  /\ m.kind = "chunk" /\ m = ChunkMessage(m.chunks[1]) /\ m.chunks[1].rank = w
             /\ ~map => m.chunks[1] \in ToSet(list) /\ m.chunks[1].index >= first
  BY <1>2, <1>5
<1> QED BY <1>3, <1>4, <1>5 DEF MessageOK

LEMMA QueueAppend ==
    ASSUME NEW w, NEW q, NEW list, NEW first, NEW map, QueueOK(w, q, list, first, map),
           NEW m, MessageOK(w, m, list, first, map)
    PROVE  QueueOK(w, Append(q, m), list, first, map)
<1>1. /\ IsSeq(q) /\ IsSeq(Append(q, m)) /\ DOMAIN q = 1 .. Len(q)
      /\ DOMAIN Append(q, m) = 1 .. Len(q) + 1 /\ Len(q) \in Nat
      /\ \A p \in 1 .. Len(q) : Append(q, m)[p] = q[p]
      /\ Append(q, m)[Len(q) + 1] = m
  BY SeqFacts, AppendFacts DEF QueueOK
<1>2. \A p \in DOMAIN Append(q, m) : p \in DOMAIN q \/ p = Len(q) + 1
  BY <1>1
<1> QED BY <1>1, <1>2 DEF QueueOK

LEMMA QueueTail ==
    ASSUME NEW w, NEW q, NEW list, NEW first, NEW map, QueueOK(w, q, list, first, map), q # << >>
    PROVE  QueueOK(w, Tail(q), list, first, map) /\ MessageOK(w, Head(q), list, first, map)
<1>1. /\ IsSeq(q) /\ IsSeq(Tail(q)) /\ DOMAIN q = 1 .. Len(q) /\ Len(q) \in Nat \ {0}
      /\ DOMAIN Tail(q) = 1 .. Len(q) - 1
      /\ \A p \in 1 .. Len(q) - 1 : Tail(q)[p] = q[p + 1]
      /\ Head(q) = q[1]
  BY SeqFacts, TailFacts DEF QueueOK
<1>2. \A p \in DOMAIN Tail(q) : p + 1 \in DOMAIN q
  BY <1>1
<1>3. 1 \in DOMAIN q
  BY <1>1
<1> QED BY <1>1, <1>2, <1>3 DEF QueueOK

\* The list of the worker may grow.
LEMMA QueueGrows ==
    ASSUME NEW w, NEW q, NEW list, NEW first, NEW map, QueueOK(w, q, list, first, map),
           NEW more, ToSet(list) \subseteq ToSet(more)
    PROVE  QueueOK(w, q, more, first, map)
<1>1. \A m : MessageOK(w, m, list, first, map) => MessageOK(w, m, more, first, map)
  BY DEF MessageOK
<1> QED BY <1>1 DEF QueueOK

LEMMA BackedAppend ==
    ASSUME NEW q, IsSeq(q), NEW files, QueueBacked(q, files), NEW m,
           m.kind = "checkpoint" => Backed(m.chunks, files, q, Len(q))
    PROVE  /\ QueueBacked(Append(q, m), files)
           /\ \A list : Backed(list, files, q, Len(q))
                           => Backed(list, files, Append(q, m), Len(q) + 1)
<1>1. /\ DOMAIN q = 1 .. Len(q) /\ DOMAIN Append(q, m) = 1 .. Len(q) + 1 /\ Len(q) \in Nat
      /\ \A p \in 1 .. Len(q) : Append(q, m)[p] = q[p]
      /\ Append(q, m)[Len(q) + 1] = m
  BY SeqFacts, AppendFacts
<1>2. ASSUME NEW n \in 0 .. Len(q), NEW k \in n .. Len(q) + 1, NEW list, Backed(list, files, q, n)
      PROVE  Backed(list, files, Append(q, m), k)
  <2>1. \A c : Queued(c, q, n) => Queued(c, Append(q, m), k)
    <3> SUFFICES ASSUME NEW c, NEW p \in 1 .. n, q[p] = ChunkMessage(c)
                 PROVE  \E r \in 1 .. k : Append(q, m)[r] = ChunkMessage(c)
      BY DEF Queued
    <3>1. p \in 1 .. k /\ p \in 1 .. Len(q)
      BY <1>1
    <3> QED BY <1>1, <3>1
  <2> QED BY <1>2, <2>1 DEF Backed
<1>3. QueueBacked(Append(q, m), files)
  <2> SUFFICES ASSUME NEW p \in 1 .. Len(q) + 1, Append(q, m)[p].kind = "checkpoint"
               PROVE  Backed(Append(q, m)[p].chunks, files, Append(q, m), p - 1)
    BY <1>1 DEF QueueBacked
  <2>1. CASE p \in 1 .. Len(q)
    <3>1. p - 1 \in 0 .. Len(q) /\ p - 1 \in p - 1 .. Len(q) + 1
      BY <1>1
    <3>2. Append(q, m)[p] = q[p] /\ Backed(q[p].chunks, files, q, p - 1)
      BY <1>1, <2>1 DEF QueueBacked
    <3> QED BY <1>2, <3>1, <3>2
  <2>2. CASE p = Len(q) + 1
    <3>1. Len(q) \in 0 .. Len(q) /\ p - 1 \in Len(q) .. Len(q) + 1
      BY <1>1, <2>2
    <3>2. Append(q, m)[p] = m /\ Backed(m.chunks, files, q, Len(q))
      BY <1>1, <2>2
    <3> QED BY <1>2, <3>1, <3>2
  <2> QED BY <1>1, <2>1, <2>2
<1>4. Len(q) \in 0 .. Len(q) /\ Len(q) + 1 \in Len(q) .. Len(q) + 1
  BY <1>1
<1> QED BY <1>2, <1>3, <1>4

\* The first message is served: a chunk is among the files then, and no other
\* chunk of the list has left.
LEMMA BackedTail ==
    ASSUME NEW q, IsSeq(q), q # << >>, NEW files, QueueBacked(q, files), NEW later,
           NEW list, Backed(list, files, q, Len(q)),
           \A p \in DOMAIN q : q[p].kind = "checkpoint" => ToSet(q[p].chunks) \subseteq ToSet(list),
           \A c \in ToSet(list) : c \in files => c \in later,
           \A c : Head(q) = ChunkMessage(c) => c \in later
    PROVE  /\ QueueBacked(Tail(q), later)
           /\ Backed(list, later, Tail(q), Len(Tail(q)))
<1>1. /\ DOMAIN q = 1 .. Len(q) /\ Len(q) \in Nat \ {0} /\ Len(Tail(q)) = Len(q) - 1
      /\ DOMAIN Tail(q) = 1 .. Len(q) - 1
      /\ \A p \in 1 .. Len(q) - 1 : Tail(q)[p] = q[p + 1]
      /\ Head(q) = q[1]
  BY SeqFacts, TailFacts
<1>2. ASSUME NEW n \in 1 .. Len(q), NEW chunks, ToSet(chunks) \subseteq ToSet(list),
             Backed(chunks, files, q, n)
      PROVE  Backed(chunks, later, Tail(q), n - 1)
  <2> SUFFICES ASSUME NEW c \in ToSet(chunks) PROVE c \in later \/ Queued(c, Tail(q), n - 1)
    BY DEF Backed
  <2>1. CASE c \in files
    BY <1>2, <2>1
  <2>2. CASE Queued(c, q, n)
    <3>1. PICK p \in 1 .. n : q[p] = ChunkMessage(c)
      BY <2>2 DEF Queued
    <3>2. CASE p = 1
      BY <1>1, <3>1, <3>2
    <3>3. CASE p # 1
      <4>1. p - 1 \in 1 .. n - 1 /\ p - 1 \in 1 .. Len(q) - 1 /\ (p - 1) + 1 = p
        BY <1>1, <3>3
      <4>2. Tail(q)[p - 1] = ChunkMessage(c)
        BY <1>1, <3>1, <4>1
      <4> QED BY <4>1, <4>2 DEF Queued
    <3> QED BY <3>2, <3>3
  <2> QED BY <1>2, <2>1, <2>2 DEF Backed
<1>3. Backed(list, later, Tail(q), Len(q) - 1)
  <2>1. Len(q) \in 1 .. Len(q)
    BY <1>1
  <2> QED BY <1>2, <2>1
<1>4. QueueBacked(Tail(q), later)
  <2> SUFFICES ASSUME NEW p \in 1 .. Len(q) - 1, Tail(q)[p].kind = "checkpoint"
               PROVE  Backed(Tail(q)[p].chunks, later, Tail(q), p - 1)
    BY <1>1 DEF QueueBacked
  <2>1. p + 1 \in DOMAIN q /\ p \in 1 .. Len(q) /\ (p + 1) - 1 = p /\ Tail(q)[p] = q[p + 1]
    BY <1>1
  <2>2. Backed(q[p + 1].chunks, files, q, p) /\ ToSet(q[p + 1].chunks) \subseteq ToSet(list)
    BY <2>1 DEF QueueBacked
  <2> QED BY <1>2, <2>1, <2>2
<1> QED BY <1>1, <1>3, <1>4

\* Files that come, while none of the list leaves.
LEMMA BackedLater ==
    ASSUME NEW q, NEW files, QueueBacked(q, files), NEW later, NEW list,
           Backed(list, files, q, Len(q)),
           \A p \in DOMAIN q : q[p].kind = "checkpoint" => ToSet(q[p].chunks) \subseteq ToSet(list),
           \A c \in ToSet(list) : c \in files => c \in later
    PROVE  QueueBacked(q, later) /\ Backed(list, later, q, Len(q))
BY DEF QueueBacked, Backed
\* The queue of an uploader between the list and the files.  If it is the only one
\* and no upload fails, what is listed waits in it or is among the files.
Pipe(w, q, list, first, map, files, single) ==
    /\ QueueOK(w, q, list, first, map)
    /\ single => Backed(list, files, q, Len(q)) /\ QueueBacked(q, files)

LEMMA PipeChunk ==
    ASSUME NEW w, NEW q, NEW list, NEW first, NEW map, NEW files, NEW single,
           Pipe(w, q, list, first, map, files, single),
           NEW c, c.rank = w, NEW more, ToSet(list) \subseteq ToSet(more),
           ToSet(more) \subseteq ToSet(list) \union {c},
           ~map => c \in ToSet(more) /\ c.index >= first
    PROVE  Pipe(w, Append(q, ChunkMessage(c)), more, first, map, files, single)
<1> DEFINE m == ChunkMessage(c)
<1>1. MessageOK(w, m, more, first, map)
  BY DEF MessageOK
<1>2. QueueOK(w, q, more, first, map)
  BY QueueGrows DEF Pipe
<1>3. QueueOK(w, Append(q, m), more, first, map)
  <2> HIDE DEF m
  <2> QED BY <1>1, <1>2, QueueAppend
<1>4. ASSUME single
      PROVE  Backed(more, files, Append(q, m), Len(Append(q, m))) /\ QueueBacked(Append(q, m), files)
  <2>1. IsSeq(q) /\ m.kind # "checkpoint" /\ Backed(list, files, q, Len(q)) /\ QueueBacked(q, files)
    BY <1>4 DEF Pipe, QueueOK, ChunkMessage
  <2>2. /\ Len(Append(q, m)) = Len(q) + 1 /\ Append(q, m)[Len(q) + 1] = m /\ Len(q) \in Nat
    BY <2>1, SeqFacts, AppendFacts
  <2>3. Backed(list, files, Append(q, m), Len(q) + 1) /\ QueueBacked(Append(q, m), files)
    <3> HIDE DEF m
    <3> QED BY <2>1, BackedAppend
  <2>4. Queued(c, Append(q, m), Len(q) + 1)
    BY <2>2 DEF Queued
  <2> QED BY <2>2, <2>3, <2>4 DEF Backed
<1> QED BY <1>3, <1>4 DEF Pipe

LEMMA PipeCheckpoint ==
    ASSUME NEW w, NEW q, NEW list, NEW first, NEW map, NEW files, NEW single,
           Pipe(w, q, list, first, map, files, single), Listed(w, list, first)
    PROVE  Pipe(w, Append(q, [kind |-> "checkpoint", chunks |-> list]), list, first, map, files, single)
<1> DEFINE m == [kind |-> "checkpoint", chunks |-> list]
<1>1. MessageOK(w, m, list, first, map) /\ m.chunks = list
  BY DEF MessageOK
<1> HIDE DEF m
<1>2. QueueOK(w, Append(q, m), list, first, map)
  BY <1>1, QueueAppend DEF Pipe
<1>3. ASSUME single
      PROVE  Backed(list, files, Append(q, m), Len(Append(q, m))) /\ QueueBacked(Append(q, m), files)
  <2>1. IsSeq(q) /\ Backed(list, files, q, Len(q)) /\ QueueBacked(q, files)
    BY <1>3 DEF Pipe, QueueOK
  <2>2. Len(Append(q, m)) = Len(q) + 1
    BY <2>1, AppendFacts
  <2> QED BY <1>1, <2>1, <2>2, BackedAppend
<1> QED BY <1>2, <1>3 DEF Pipe, m

LEMMA PipeEnd ==
    ASSUME NEW w, NEW q, NEW list, NEW first, NEW map, NEW files, NEW single,
           Pipe(w, q, list, first, map, files, single)
    PROVE  Pipe(w, Append(q, EndMessage), list, first, map, files, single)
<1> DEFINE m == EndMessage
<1>1. MessageOK(w, m, list, first, map) /\ m.kind # "checkpoint"
  BY DEF MessageOK, EndMessage
<1> HIDE DEF m
<1>2. QueueOK(w, Append(q, m), list, first, map)
  BY <1>1, QueueAppend DEF Pipe
<1>3. ASSUME single
      PROVE  Backed(list, files, Append(q, m), Len(Append(q, m))) /\ QueueBacked(Append(q, m), files)
  <2>1. IsSeq(q) /\ Backed(list, files, q, Len(q)) /\ QueueBacked(q, files)
    BY <1>3 DEF Pipe, QueueOK
  <2>2. Len(Append(q, m)) = Len(q) + 1
    BY <2>1, AppendFacts
  <2> QED BY <1>1, <2>1, <2>2, BackedAppend
<1> QED BY <1>2, <1>3 DEF Pipe, m

\* What CheckpointMessages puts behind the queue.
LEMMA PipeCheckpoints ==
    ASSUME NEW w, NEW q, NEW list, NEW first, NEW map, NEW files, NEW single,
           Pipe(w, q, list, first, map, files, single), Listed(w, list, first),
           NEW ms, ms \in {<< >>, << [kind |-> "checkpoint", chunks |-> list] >>}
    PROVE  Pipe(w, q \o ms, list, first, map, files, single)
<1>1. q \o << >> = q /\ \A x : q \o <<x>> = Append(q, x)
  BY ConcatOne DEF Pipe, QueueOK
<1> QED BY <1>1, PipeCheckpoint

\* The first message is served.
LEMMA PipeTail ==
    ASSUME NEW w, NEW q, NEW list, NEW first, NEW map, NEW files, NEW single,
           Pipe(w, q, list, first, map, files, single), q # << >>, NEW later,
           single => /\ \A c \in ToSet(list) : c \in files => c \in later
                     /\ \A c : Head(q) = ChunkMessage(c) => c \in later
    PROVE  Pipe(w, Tail(q), list, first, map, later, single)
<1>1. \A p \in DOMAIN q : q[p].kind = "checkpoint" => ToSet(q[p].chunks) \subseteq ToSet(list)
  BY MessageKinds DEF Pipe, QueueOK
<1>2. IsSeq(q) /\ QueueOK(w, Tail(q), list, first, map)
  BY QueueTail DEF Pipe, QueueOK
<1>3. single => QueueBacked(Tail(q), later) /\ Backed(list, later, Tail(q), Len(Tail(q)))
  BY <1>1, <1>2, BackedTail DEF Pipe
<1> QED BY <1>2, <1>3 DEF Pipe

LEMMA PipeLater ==
    ASSUME NEW w, NEW q, NEW list, NEW first, NEW map, NEW files, NEW single,
           Pipe(w, q, list, first, map, files, single), NEW later,
           single => \A c \in ToSet(list) : c \in files => c \in later
    PROVE  Pipe(w, q, list, first, map, later, single)
<1>1. \A p \in DOMAIN q : q[p].kind = "checkpoint" => ToSet(q[p].chunks) \subseteq ToSet(list)
  BY MessageKinds DEF Pipe, QueueOK
<1> QED BY <1>1, BackedLater DEF Pipe

-----------------------------------------------------------------------------
(* The output directory. *)

\* The directory, the index that is appended to, and the chunks that were there.
AppendInv ==
    /\ Known(existing) /\ (index = NoIndex \/ Known(index))
    /\ job.mode # "append" => existing = << >>
    /\ job.mode = "append" =>
         /\ index = NoIndex => existing = << >> /\ job.old = << >>
         /\ ToSet(existing) \subseteq ToSet(index) /\ ToSet(job.old) \subseteq ToSet(index)
         /\ ToSet(job.old) \subseteq remote
         /\ DOMAIN phase # {} => ToSet(job.old) \subseteq ToSet(existing)

\* What worker w has written has names of its own, and waits or is uploaded.
WorkerInv(w) ==
    /\ Listed(w, infos[w], Start(existing, w))
    /\ nextChunk[w] \in Nat /\ Start(existing, w) <= nextChunk[w]
    /\ nextChunk[w] <= Start(existing, w) + DoneTill(infos[w])
    /\ \A k \in DOMAIN infos[w] : infos[w][k].index < nextChunk[w]
    /\ IsSeq(pending[w]) /\ counter[w] \in Nat
    /\ job.recipe = "map" => pending[w] = << >> /\ infos[w] = << >>
    /\ Reliable => ToSet(saved[w]) \subseteq ToSet(infos[w])
    /\ \A u \in Uploaders : Pipe(w, toUpload[w][u], infos[w], Start(existing, w), job.recipe = "map",
                                 remote, Reliable)

CheckpointInv(w) ==
    /\ Listed(w, saved[w], Start(existing, w))
    /\ job.recipe = "map" => saved[w] = << >>
    /\ Reliable => ToSet(saved[w]) \subseteq remote

\* The workers there are.
ShapeInv ==
    /\ job \in Jobs
    /\ DOMAIN phase = IF main \in {"start", "refused"} THEN {} ELSE Workers
    /\ DOMAIN phase # {} => ~job.invalid
    /\ DOMAIN infos = DOMAIN phase /\ DOMAIN nextChunk = DOMAIN phase
    /\ DOMAIN pending = DOMAIN phase /\ DOMAIN counter = DOMAIN phase
    /\ DOMAIN toUpload = DOMAIN phase /\ indexed \subseteq DOMAIN phase
    /\ \A w \in DOMAIN phase : toUpload[w] = [u \in Uploaders |-> toUpload[w][u]]
    /\ saved = [w \in Workers |-> saved[w]]

\* The inductive invariant.
OutInv ==
    /\ ShapeInv /\ AppendInv
    /\ \A w \in DOMAIN phase : WorkerInv(w)
    /\ \A w \in Workers : CheckpointInv(w)

\* A run under way has a configuration among its checkpoints, and a run that finds
\* none finds no checkpoint either.
ConfigInv ==
    Reliable /\ job.checkpoint =>
        /\ main \in {"running", "joining", "merging", "published", "failed"} => config # "none"
        /\ main \in {"start", "refused"} /\ config = "none" => \A w \in Workers : saved[w] = << >>

outVars == <<job, main \in {"start", "refused"}, DOMAIN phase, infos, nextChunk, pending, counter,
             toUpload, saved, existing, index, remote, indexed>>

LEMMA JobFacts ==
    ASSUME ShapeInv
    PROVE  /\ job.workers \in Nat \ {0} /\ job.uploaders \in Nat \ {0} /\ 0 \in Uploaders
           /\ job.recipe = "map" => job.mode # "append"
           /\ job.recipe = "optimize" /\ ~job.invalid => job.chunkSize \in Nat \ {0}
           /\ IsSeq(job.old) /\ \A c \in ToSet(job.old) : c.rank \in Nat /\ c.index \in Nat
<1>1. job \in Jobs
  BY DEF ShapeInv
<1>2. /\ job.workers \in Nat \ {0} /\ job.uploaders \in Nat \ {0} /\ job.chunkSize \in Nat
      /\ job.recipe = "optimize" /\ ~job.invalid => job.chunkSize > 0
      /\ job.mode \in IF job.recipe = "map" THEN {"keep", "empty"}
                                            ELSE {"none", "append", "overwrite"}
      /\ job.old \in Seq([rank : Nat, index : Nat, items : Seq(Nat)])
  BY <1>1, JobAssumption
<1>3. 0 \in Uploaders
  BY <1>2 DEF Uploaders
<1>4. IsSeq(job.old)
  BY <1>2 DEF IsSeq
<1>5. ASSUME NEW c \in ToSet(job.old) PROVE c.rank \in Nat /\ c.index \in Nat
  <2>1. PICK k \in DOMAIN job.old : c = job.old[k]
    BY DEF ToSet
  <2> DEFINE R == [rank : Nat, index : Nat, items : Seq(Nat)]
  <2>2. k \in 1 .. Len(job.old) /\ job.old \in Seq(R)
    BY <1>2, <1>4, <2>1, SeqFacts
  <2>3. c \in R
    <3> HIDE DEF R
    <3> QED BY <2>1, <2>2, ElementOfSeq
  <2> QED BY <2>3
<1> QED BY <1>2, <1>3, <1>4, <1>5

\* The index that is not there names no chunk a worker could write.
LEMMA NoIndexFacts == \A c \in ToSet(NoIndex) : c.rank = -1
BY DEF NoIndex, ToSet

LEMMA StartIs ==
    ASSUME NEW w
    PROVE  StartIndex(w) = Start(existing', w)
BY DEF StartIndex, Start

LEMMA OutInit == Init => OutInv
<1> SUFFICES ASSUME Init PROVE OutInv
  OBVIOUS
<1>1. ShapeInv
  BY DEF Init, ShapeInv
<1>2. Known(existing) /\ existing = << >>
  BY EmptyIsSeq DEF Init, Known
<1>3. AppendInv
  <2>1. index # NoIndex => index = job.old
    BY DEF Init
  <2>2. index = NoIndex => job.old = << >>
    <3> SUFFICES ASSUME job.old # << >> PROVE job.old # NoIndex
      BY DEF Init
    <3>1. IsSeq(job.old) /\ \A c \in ToSet(job.old) : c.rank \in Nat
      BY <1>1, JobFacts
    <3>2. 1 \in DOMAIN job.old
      BY <3>1, SeqFacts
    <3>3. job.old[1].rank \in Nat
      BY <3>1, <3>2 DEF ToSet
    <3>4. NoIndex[1].rank = -1
      BY DEF NoIndex
    <3> QED BY <3>3, <3>4
  <2>3. index = NoIndex \/ Known(index)
    BY <1>1, <2>1, JobFacts DEF Known
  <2>4. ToSet(job.old) \subseteq ToSet(index) /\ ToSet(existing) = {}
    BY <1>2, <2>1, <2>2, EmptyIsSeq
  <2>5. remote = ToSet(job.old) /\ DOMAIN phase = {}
    BY DEF Init
  <2> QED BY <1>2, <2>2, <2>3, <2>4, <2>5 DEF AppendInv
<1>4. \A w \in Workers : CheckpointInv(w)
  <2> TAKE w \in Workers
  <2>1. saved[w] = << >>
    BY DEF Init
  <2>2. Start(existing, w) \in Nat
    BY <1>2, StartFacts
  <2> QED BY <2>1, <2>2, ListedEmpty, EmptyIsSeq DEF CheckpointInv
<1>5. DOMAIN phase = {}
  BY DEF Init
<1> QED BY <1>1, <1>3, <1>4, <1>5 DEF OutInv

LEMMA OutIdle == OutInv /\ UNCHANGED outVars => OutInv'
<1> SUFFICES ASSUME OutInv, UNCHANGED outVars PROVE OutInv'
  OBVIOUS
<1>1. /\ job' = job /\ (main' \in {"start", "refused"} <=> main \in {"start", "refused"})
      /\ DOMAIN phase' = DOMAIN phase /\ infos' = infos
      /\ nextChunk' = nextChunk /\ pending' = pending /\ counter' = counter
      /\ toUpload' = toUpload /\ saved' = saved /\ existing' = existing /\ index' = index
      /\ remote' = remote /\ indexed' = indexed
  BY DEF outVars
<1>2. Workers' = Workers /\ Uploaders' = Uploaders /\ (Reliable' <=> Reliable)
  BY <1>1 DEF Workers, Uploaders, Reliable, Fault
<1>3. ShapeInv' /\ AppendInv'
  BY <1>1, <1>2 DEF OutInv, ShapeInv, AppendInv
<1>4. \A w \in DOMAIN phase : WorkerInv(w)'
  BY <1>1, <1>2 DEF OutInv, WorkerInv
<1>5. \A w \in Workers : CheckpointInv(w)'
  BY <1>1, <1>2 DEF OutInv, CheckpointInv
<1> QED BY <1>1, <1>2, <1>3, <1>4, <1>5 DEF OutInv

\* A step of the writer of worker w.
LEMMA WriterStep ==
    ASSUME OutInv, NEW w \in DOMAIN phase,
           UNCHANGED <<job, main, saved, existing, index, remote>>, DOMAIN phase' = DOMAIN phase,
           DOMAIN infos' = DOMAIN phase, DOMAIN nextChunk' = DOMAIN phase,
           DOMAIN pending' = DOMAIN phase, DOMAIN counter' = DOMAIN phase,
           DOMAIN toUpload' = DOMAIN phase, indexed' \subseteq DOMAIN phase,
           toUpload'[w] = [u \in Uploaders |-> toUpload'[w][u]],
           \A v \in DOMAIN phase \ {w} :
               /\ infos'[v] = infos[v] /\ nextChunk'[v] = nextChunk[v] /\ pending'[v] = pending[v]
               /\ counter'[v] = counter[v] /\ toUpload'[v] = toUpload[v],
           WorkerInv(w)'
    PROVE  OutInv'
<1>1. Workers' = Workers /\ Uploaders' = Uploaders /\ (Reliable' <=> Reliable)
  BY DEF Workers, Uploaders, Reliable, Fault
<1>2. ShapeInv' /\ AppendInv'
  BY <1>1 DEF OutInv, ShapeInv, AppendInv
<1>3. ASSUME NEW v \in DOMAIN phase \ {w} PROVE WorkerInv(v)'
  BY <1>1 DEF OutInv, WorkerInv
<1>4. \A v \in Workers : CheckpointInv(v)'
  BY <1>1 DEF OutInv, CheckpointInv
<1> QED BY <1>1, <1>2, <1>3, <1>4 DEF OutInv

\* What is known of worker w.
LEMMA WorkerFacts ==
    ASSUME OutInv, NEW w \in DOMAIN phase
    PROVE  /\ WorkerInv(w) /\ w \in Workers /\ Start(existing, w) \in Nat
           /\ toUpload[w] = [u \in Uploaders |-> toUpload[w][u]]
           /\ Reliable => Uploaders = {0} /\ counter[w] % job.uploaders = 0
<1>1. WorkerInv(w) /\ w \in Workers
  BY DEF OutInv, ShapeInv
<1>2. Start(existing, w) \in Nat
  BY StartFacts DEF OutInv, AppendInv
<1>3. Reliable => Uploaders = {0} /\ counter[w] % job.uploaders = 0
  <2> SUFFICES ASSUME Reliable PROVE Uploaders = {0} /\ counter[w] % job.uploaders = 0
    OBVIOUS
  <2>1. job.uploaders = 1 /\ counter[w] \in Nat
    BY <1>1 DEF Reliable, WorkerInv
  <2>2. counter[w] % 1 = 0
    BY <2>1
  <2> QED BY <2>1, <2>2 DEF Uploaders
<1> QED BY <1>1, <1>2, <1>3 DEF OutInv, ShapeInv

\* The messages of CheckpointMessages.
LEMMA CheckpointIs ==
    ASSUME NEW w
    PROVE  CheckpointMessages(w) \in {<< >>, << [kind |-> "checkpoint", chunks |-> infos'[w]] >>}
BY DEF CheckpointMessages

LEMMA SkipStep == ASSUME OutInv, NEW w \in DOMAIN phase, Skip(w) PROVE OutInv'
<1> USE DEF jobVars, mainVars, writerVars, outputVars, launchVars, diskVars
<1>1. /\ UNCHANGED <<job, main, saved, existing, index, remote, phase, infos, nextChunk, pending, toUpload, indexed>>
      /\ counter' = [counter EXCEPT ![w] = @ + 1]
  BY DEF Skip, Handled
<1>2. WorkerInv(w) /\ toUpload[w] = [u \in Uploaders |-> toUpload[w][u]]
  BY WorkerFacts
<1>3. Uploaders' = Uploaders /\ (Reliable' <=> Reliable)
  BY <1>1 DEF Uploaders, Reliable, Fault
<1>4. counter'[w] = counter[w] + 1 /\ DOMAIN counter' = DOMAIN phase
      /\ \A v \in DOMAIN phase \ {w} : counter'[v] = counter[v]
  BY <1>1 DEF OutInv, ShapeInv
<1>5. counter'[w] \in Nat
  BY <1>2, <1>4 DEF WorkerInv
<1>6. WorkerInv(w)'
  BY <1>1, <1>2, <1>3, <1>5 DEF WorkerInv
<1> QED BY <1>1, <1>2, <1>4, <1>6, WriterStep DEF OutInv, ShapeInv

LEMMA AddItemStep == ASSUME OutInv, NEW w \in DOMAIN phase, AddItem(w) PROVE OutInv'
<1> USE DEF jobVars, mainVars, writerVars, outputVars, launchVars, diskVars
<1>1. /\ UNCHANGED <<job, main, saved, existing, index, remote, phase, infos, nextChunk, indexed>>
      /\ counter' = [counter EXCEPT ![w] = @ + 1]
      /\ pending' = [pending EXCEPT ![w] = Append(@, Next1(w))]
      /\ toUpload' = [toUpload EXCEPT ![w][Turn(w)] = @ \o CheckpointMessages(w)]
      /\ job.recipe = "optimize"
  BY DEF AddItem, Handled
<1>2. WorkerInv(w) /\ toUpload[w] = [u \in Uploaders |-> toUpload[w][u]]
  BY WorkerFacts
<1>3. Uploaders' = Uploaders /\ (Reliable' <=> Reliable)
  BY <1>1 DEF Uploaders, Reliable, Fault
<1>4. /\ counter'[w] = counter[w] + 1 /\ pending'[w] = Append(pending[w], Next1(w))
      /\ DOMAIN counter' = DOMAIN phase /\ DOMAIN pending' = DOMAIN phase
      /\ DOMAIN toUpload' = DOMAIN phase
      /\ \A v \in DOMAIN phase \ {w} : /\ counter'[v] = counter[v] /\ pending'[v] = pending[v]
                                       /\ toUpload'[v] = toUpload[v]
  BY <1>1 DEF OutInv, ShapeInv
<1>5. counter'[w] \in Nat /\ IsSeq(pending'[w])
  BY <1>2, <1>4, AppendFacts DEF WorkerInv
<1>6. /\ toUpload'[w] = [u \in Uploaders |-> toUpload'[w][u]]
      /\ \A u \in Uploaders : toUpload'[w][u] \in {toUpload[w][u], toUpload[w][u] \o CheckpointMessages(w)}
  BY <1>1, <1>2 DEF OutInv, ShapeInv
<1>7. ASSUME NEW u \in Uploaders
      PROVE  Pipe(w, toUpload'[w][u], infos[w], Start(existing, w), job.recipe = "map", remote, Reliable)
  <2>1. CheckpointMessages(w) \in {<< >>, << [kind |-> "checkpoint", chunks |-> infos[w]] >>}
    BY <1>1, CheckpointIs
  <2>2. /\ Pipe(w, toUpload[w][u], infos[w], Start(existing, w), job.recipe = "map", remote, Reliable)
        /\ Listed(w, infos[w], Start(existing, w))
    BY <1>2 DEF WorkerInv
  <2>3. Pipe(w, toUpload[w][u] \o CheckpointMessages(w), infos[w], Start(existing, w),
             job.recipe = "map", remote, Reliable)
    BY <2>1, <2>2, PipeCheckpoints
  <2> QED BY <1>6, <2>2, <2>3
<1>8. WorkerInv(w)'
  BY <1>1, <1>2, <1>3, <1>5, <1>7 DEF WorkerInv
<1> QED BY <1>1, <1>4, <1>6, <1>8, WriterStep DEF OutInv, ShapeInv

\* The writer of w has closed a chunk: what is left to say is what happened to the
\* queues.
LEMMA CloseStep ==
    ASSUME OutInv, NEW w \in DOMAIN phase, pending[w] # << >>,
           CloseChunk(w, Chunk(w, nextChunk[w], pending[w]))
    PROVE  /\ infos'[w] = Append(infos[w], Chunk(w, nextChunk[w], pending[w]))
           /\ nextChunk'[w] = nextChunk[w] + 1
           /\ DOMAIN infos' = DOMAIN phase /\ DOMAIN nextChunk' = DOMAIN phase
           /\ \A v \in DOMAIN phase \ {w} : infos'[v] = infos[v] /\ nextChunk'[v] = nextChunk[v]
           /\ Listed(w, infos'[w], Start(existing, w))
           /\ nextChunk'[w] \in Nat /\ Start(existing, w) <= nextChunk'[w]
           /\ nextChunk'[w] <= Start(existing, w) + DoneTill(infos'[w])
           /\ \A k \in DOMAIN infos'[w] : infos'[w][k].index < nextChunk'[w]
           /\ ToSet(infos'[w]) = ToSet(infos[w]) \union {Chunk(w, nextChunk[w], pending[w])}
<1> DEFINE c == Chunk(w, nextChunk[w], pending[w])
<1>1. /\ infos'[w] = Append(infos[w], c) /\ nextChunk'[w] = nextChunk[w] + 1
      /\ DOMAIN infos' = DOMAIN phase /\ DOMAIN nextChunk' = DOMAIN phase
      /\ \A v \in DOMAIN phase \ {w} : infos'[v] = infos[v] /\ nextChunk'[v] = nextChunk[v]
  BY DEF CloseChunk, OutInv, ShapeInv
<1>2. WorkerInv(w) /\ Start(existing, w) \in Nat
  BY WorkerFacts
<1>3. /\ Listed(w, infos[w], Start(existing, w)) /\ nextChunk[w] \in Nat
      /\ Start(existing, w) <= nextChunk[w]
      /\ nextChunk[w] <= Start(existing, w) + DoneTill(infos[w])
      /\ \A k \in DOMAIN infos[w] : infos[w][k].index < nextChunk[w]
      /\ IsSeq(pending[w])
  BY <1>2 DEF WorkerInv
<1>4. /\ Listed(w, Append(infos[w], c), Start(existing, w))
      /\ nextChunk[w] + 1 <= Start(existing, w) + DoneTill(Append(infos[w], c))
      /\ \A k \in DOMAIN Append(infos[w], c) : Append(infos[w], c)[k].index < nextChunk[w] + 1
  BY <1>2, <1>3, ListedAppend
<1>5. ToSet(Append(infos[w], c)) = ToSet(infos[w]) \union {c}
  BY <1>3, AppendFacts DEF Listed
<1>6. nextChunk'[w] \in Nat /\ Start(existing, w) <= nextChunk'[w]
  BY <1>1, <1>2, <1>3
<1> HIDE DEF c
<1> QED BY <1>1, <1>4, <1>5, <1>6 DEF c

LEMMA AddItemAndCloseStep ==
    ASSUME OutInv, NEW w \in DOMAIN phase, AddItemAndClose(w)
    PROVE  OutInv'
<1> USE DEF jobVars, mainVars, writerVars, outputVars, launchVars
<1> DEFINE c == Chunk(w, nextChunk[w], pending[w])
<1>1. /\ UNCHANGED <<job, main, saved, existing, index, remote, phase, indexed>>
      /\ counter' = [counter EXCEPT ![w] = @ + 1]
      /\ pending' = [pending EXCEPT ![w] = <<Next1(w)>>]
      /\ CloseChunk(w, c)
      /\ toUpload' = [toUpload EXCEPT ![w][Turn(w)] =
                         (@ \o <<ChunkMessage(c)>>) \o CheckpointMessages(w)]
      /\ job.recipe = "optimize" /\ Len(pending[w]) = job.chunkSize
  BY DEF AddItemAndClose, Handled
<1>2. /\ WorkerInv(w) /\ toUpload[w] = [u \in Uploaders |-> toUpload[w][u]]
      /\ Start(existing, w) \in Nat
      /\ Reliable => Uploaders = {0} /\ Turn(w) = 0
  BY WorkerFacts DEF Turn
<1>3. Uploaders' = Uploaders /\ (Reliable' <=> Reliable)
  BY <1>1 DEF Uploaders, Reliable, Fault
<1>4. pending[w] # << >>
  <2>1. IsSeq(pending[w]) /\ ShapeInv /\ ~job.invalid
    BY <1>2 DEF WorkerInv, OutInv, ShapeInv
  <2>2. job.chunkSize \in Nat \ {0}
    BY <1>1, <2>1, JobFacts
  <2> QED BY <1>1, <2>1, <2>2, SeqFacts
<1>5. /\ infos'[w] = Append(infos[w], c)
      /\ DOMAIN infos' = DOMAIN phase /\ DOMAIN nextChunk' = DOMAIN phase
      /\ \A v \in DOMAIN phase \ {w} : infos'[v] = infos[v] /\ nextChunk'[v] = nextChunk[v]
      /\ Listed(w, infos'[w], Start(existing, w))
      /\ nextChunk'[w] \in Nat /\ Start(existing, w) <= nextChunk'[w]
      /\ nextChunk'[w] <= Start(existing, w) + DoneTill(infos'[w])
      /\ \A k \in DOMAIN infos'[w] : infos'[w][k].index < nextChunk'[w]
      /\ ToSet(infos'[w]) = ToSet(infos[w]) \union {c}
  BY <1>1, <1>4, CloseStep
<1>6. c.rank = w /\ c.index = nextChunk[w]
  BY DEF Chunk
<1> HIDE DEF c
<1>7. /\ counter'[w] = counter[w] + 1 /\ pending'[w] = <<Next1(w)>>
      /\ DOMAIN counter' = DOMAIN phase /\ DOMAIN pending' = DOMAIN phase
      /\ DOMAIN toUpload' = DOMAIN phase
      /\ \A v \in DOMAIN phase \ {w} : /\ counter'[v] = counter[v] /\ pending'[v] = pending[v]
                                       /\ toUpload'[v] = toUpload[v]
  BY <1>1 DEF OutInv, ShapeInv
<1>8. counter'[w] \in Nat /\ IsSeq(pending'[w])
  BY <1>2, <1>7, OneIsSeq DEF WorkerInv
<1>9. /\ toUpload'[w] = [u \in Uploaders |-> toUpload'[w][u]]
      /\ \A u \in Uploaders : toUpload'[w][u] =
            IF u = Turn(w) THEN (toUpload[w][u] \o <<ChunkMessage(c)>>) \o CheckpointMessages(w)
                           ELSE toUpload[w][u]
  BY <1>1, <1>2 DEF OutInv, ShapeInv
<1>10. ASSUME NEW u \in Uploaders
       PROVE  Pipe(w, toUpload'[w][u], infos'[w], Start(existing, w), job.recipe = "map", remote, Reliable)
  <2> DEFINE q == toUpload[w][u]
             map == job.recipe = "map"
  <2>1. Pipe(w, q, infos[w], Start(existing, w), map, remote, Reliable) /\ c.index >= Start(existing, w)
    BY <1>2, <1>6 DEF WorkerInv
  <2>2. Pipe(w, Append(q, ChunkMessage(c)), infos'[w], Start(existing, w), map, remote, Reliable)
    <3> HIDE DEF q, map
    <3> QED BY <1>5, <1>6, <2>1, PipeChunk
  <2>3. q \o <<ChunkMessage(c)>> = Append(q, ChunkMessage(c))
    BY <2>1, ConcatOne DEF Pipe, QueueOK
  <2>4. CASE u = Turn(w)
    <3>0. CheckpointMessages(w) \in {<< >>, << [kind |-> "checkpoint", chunks |-> infos'[w]] >>}
      BY CheckpointIs
    <3>1. Pipe(w, Append(q, ChunkMessage(c)) \o CheckpointMessages(w), infos'[w], Start(existing, w),
               map, remote, Reliable)
      <4> HIDE DEF q, map
      <4> QED BY <1>5, <2>2, <3>0, PipeCheckpoints
    <3> QED BY <1>9, <2>3, <2>4, <3>1
  <2>5. CASE u # Turn(w)
    <3>1. ~Reliable /\ toUpload'[w][u] = q
      BY <1>2, <1>9, <2>5
    <3>2. QueueOK(w, q, infos'[w], Start(existing, w), map)
      BY <1>5, <2>1, QueueGrows DEF Pipe
    <3> QED BY <3>1, <3>2 DEF Pipe
  <2> QED BY <2>4, <2>5
<1>11. WorkerInv(w)'
  <2>1. Reliable => ToSet(saved'[w]) \subseteq ToSet(infos'[w])
    BY <1>1, <1>2, <1>5 DEF WorkerInv
  <2> QED BY <1>1, <1>3, <1>5, <1>8, <1>10, <2>1 DEF WorkerInv
<1> QED BY <1>1, <1>5, <1>7, <1>9, <1>11, WriterStep DEF OutInv, ShapeInv

LEMMA TransformStep == ASSUME OutInv, NEW w \in DOMAIN phase, Transform(w) PROVE OutInv'
<1> USE DEF jobVars, mainVars, writerVars, outputVars, launchVars, diskVars
<1> DEFINE c == Chunk(w, Next1(w), <<Next1(w)>>)
<1>1. /\ UNCHANGED <<job, main, saved, existing, index, remote, phase, infos, nextChunk, pending, indexed>>
      /\ counter' = [counter EXCEPT ![w] = @ + 1]
      /\ toUpload' = [toUpload EXCEPT ![w][Turn(w)] = Append(@, ChunkMessage(c))]
      /\ job.recipe = "map"
  BY DEF Transform, Handled
<1>2. WorkerInv(w) /\ toUpload[w] = [u \in Uploaders |-> toUpload[w][u]]
  BY WorkerFacts
<1>3. Uploaders' = Uploaders /\ (Reliable' <=> Reliable)
  BY <1>1 DEF Uploaders, Reliable, Fault
<1>4. c.rank = w
  BY DEF Chunk
<1> HIDE DEF c
<1>5. /\ counter'[w] = counter[w] + 1
      /\ DOMAIN counter' = DOMAIN phase /\ DOMAIN toUpload' = DOMAIN phase
      /\ \A v \in DOMAIN phase \ {w} : counter'[v] = counter[v] /\ toUpload'[v] = toUpload[v]
  BY <1>1 DEF OutInv, ShapeInv
<1>6. counter'[w] \in Nat
  BY <1>2, <1>5 DEF WorkerInv
<1>7. /\ toUpload'[w] = [u \in Uploaders |-> toUpload'[w][u]]
      /\ \A u \in Uploaders :
            toUpload'[w][u] \in {toUpload[w][u], Append(toUpload[w][u], ChunkMessage(c))}
  BY <1>1, <1>2 DEF OutInv, ShapeInv
<1>8. ASSUME NEW u \in Uploaders
      PROVE  Pipe(w, toUpload'[w][u], infos[w], Start(existing, w), job.recipe = "map", remote, Reliable)
  <2>1. Pipe(w, toUpload[w][u], infos[w], Start(existing, w), job.recipe = "map", remote, Reliable)
    BY <1>2 DEF WorkerInv
  <2>2. Pipe(w, Append(toUpload[w][u], ChunkMessage(c)), infos[w], Start(existing, w),
             job.recipe = "map", remote, Reliable)
    BY <1>1, <1>4, <2>1, PipeChunk
  <2> QED BY <1>7, <2>1, <2>2
<1>9. WorkerInv(w)'
  BY <1>1, <1>2, <1>3, <1>6, <1>8 DEF WorkerInv
<1> QED BY <1>1, <1>5, <1>7, <1>9, WriterStep DEF OutInv, ShapeInv

LEMMA ConcludeStep == ASSUME OutInv, NEW w \in DOMAIN phase, Conclude(w) PROVE OutInv'
<1> USE DEF jobVars, mainVars, writerVars, outputVars, launchVars
<1> DEFINE c == Chunk(w, nextChunk[w], pending[w])
           last == IF pending[w] = << >> THEN << >> ELSE <<ChunkMessage(c)>>
           written(u) == IF u = 0 THEN last ELSE << >>
           listed(u) == IF u = Turn(w) THEN CheckpointMessages(w) ELSE << >>
           first == Start(existing, w)
           map == job.recipe = "map"
<1>1. /\ UNCHANGED <<job, main, saved, existing, index, remote, counter>>
      /\ phase' = [phase EXCEPT ![w] = "flush"] /\ indexed' \subseteq indexed \union {w}
      /\ pending' = [pending EXCEPT ![w] = << >>]
      /\ IF pending[w] = << >> THEN UNCHANGED <<infos, nextChunk, local>> ELSE CloseChunk(w, c)
      /\ toUpload' = [toUpload EXCEPT ![w] = [u \in Uploaders |->
                         ((@[u] \o written(u)) \o listed(u)) \o <<EndMessage>>]]
  BY DEF Conclude
<1>2. /\ WorkerInv(w) /\ first \in Nat
      /\ Reliable => Uploaders = {0}
  BY WorkerFacts
<1>3. Uploaders' = Uploaders /\ (Reliable' <=> Reliable) /\ 0 \in Uploaders
  BY <1>1, JobFacts DEF Uploaders, Reliable, Fault, OutInv
<1>4. /\ DOMAIN infos' = DOMAIN phase /\ DOMAIN nextChunk' = DOMAIN phase
      /\ \A v \in DOMAIN phase \ {w} : infos'[v] = infos[v] /\ nextChunk'[v] = nextChunk[v]
      /\ Listed(w, infos'[w], first)
      /\ nextChunk'[w] \in Nat /\ first <= nextChunk'[w]
      /\ nextChunk'[w] <= first + DoneTill(infos'[w])
      /\ \A k \in DOMAIN infos'[w] : infos'[w][k].index < nextChunk'[w]
      /\ ToSet(infos'[w]) = ToSet(infos[w]) \union IF pending[w] = << >> THEN {} ELSE {c}
      /\ map => infos'[w] = << >>
  <2>1. CASE pending[w] = << >>
    BY <1>1, <1>2, <2>1 DEF WorkerInv, OutInv, ShapeInv
  <2>2. CASE pending[w] # << >>
    <3>1. ~map
      BY <1>2, <2>2 DEF WorkerInv
    <3>2. CloseChunk(w, c)
      BY <1>1, <2>2
    <3> QED BY <2>2, <3>1, <3>2, CloseStep
  <2> QED BY <2>1, <2>2
<1>5. c.rank = w /\ c.index = nextChunk[w] /\ c.index >= first
  BY <1>2 DEF Chunk, WorkerInv
<1>6. /\ DOMAIN phase' = DOMAIN phase /\ DOMAIN pending' = DOMAIN phase
      /\ DOMAIN toUpload' = DOMAIN phase /\ pending'[w] = << >>
      /\ \A v \in DOMAIN phase \ {w} : pending'[v] = pending[v] /\ toUpload'[v] = toUpload[v]
  BY <1>1 DEF OutInv, ShapeInv
<1>7. /\ toUpload'[w] = [u \in Uploaders |-> toUpload'[w][u]]
      /\ \A u \in Uploaders : toUpload'[w][u] =
            ((toUpload[w][u] \o written(u)) \o listed(u)) \o <<EndMessage>>
  <2> HIDE DEF written, listed
  <2> QED BY <1>1 DEF OutInv, ShapeInv
<1>8. ASSUME NEW u \in Uploaders
      PROVE  Pipe(w, toUpload'[w][u], infos'[w], first, map, remote, Reliable)
  <2> DEFINE q == toUpload[w][u]
  <2>1. Pipe(w, q, infos[w], first, map, remote, Reliable)
    BY <1>2 DEF WorkerInv
  <2>2. q \o << >> = q /\ \A x : q \o <<x>> = Append(q, x)
    BY <2>1, ConcatOne DEF Pipe, QueueOK
  <2>3. Pipe(w, q \o written(u), infos'[w], first, map, remote, Reliable)
    <3>1. CASE pending[w] = << >>
      BY <1>1, <2>1, <2>2, <3>1
    <3>2. CASE pending[w] # << >> /\ u = 0
      <4>1. q \o written(u) = Append(q, ChunkMessage(c))
        BY <2>2, <3>2
      <4>2. ToSet(infos'[w]) = ToSet(infos[w]) \union {c}
        BY <1>4, <3>2
      <4> HIDE DEF written, q, c, first, map
      <4> QED BY <1>5, <2>1, <4>1, <4>2, PipeChunk
    <3>3. CASE pending[w] # << >> /\ u # 0
      <4>1. q \o written(u) = q /\ ~Reliable
        BY <1>2, <2>2, <3>3
      <4>2. QueueOK(w, q, infos'[w], first, map)
        BY <1>4, <2>1, QueueGrows DEF Pipe
      <4> QED BY <4>1, <4>2 DEF Pipe
    <3> QED BY <3>1, <3>2, <3>3
  <2>4. listed(u) \in {<< >>, << [kind |-> "checkpoint", chunks |-> infos'[w]] >>}
    BY CheckpointIs
  <2> HIDE DEF written, listed, q, first, map
  <2>5. Pipe(w, (q \o written(u)) \o listed(u), infos'[w], first, map, remote, Reliable)
    BY <1>4, <2>3, <2>4, PipeCheckpoints
  <2>6. /\ ((q \o written(u)) \o listed(u)) \o <<EndMessage>>
             = Append((q \o written(u)) \o listed(u), EndMessage)
    BY <2>5, ConcatOne DEF Pipe, QueueOK
  <2>7. Pipe(w, ((q \o written(u)) \o listed(u)) \o <<EndMessage>>, infos'[w], first, map, remote, Reliable)
    BY <2>5, <2>6, PipeEnd
  <2> QED BY <1>7, <2>7 DEF q
<1> HIDE DEF c, written, listed, last
<1>9. Reliable => ToSet(saved'[w]) \subseteq ToSet(infos'[w])
  BY <1>1, <1>2, <1>4 DEF WorkerInv
<1>10. IsSeq(pending'[w]) /\ counter'[w] \in Nat /\ first' = first /\ (map' <=> map)
  BY <1>1, <1>2, <1>6, EmptyIsSeq DEF WorkerInv
<1>11. WorkerInv(w)'
  <2>1. \A u \in Uploaders' :
            Pipe(w, toUpload'[w][u], infos'[w], Start(existing', w), job'.recipe = "map", remote', Reliable')
    <3>1. existing' = existing /\ job' = job /\ remote' = remote
      BY <1>1
    <3>2. Reliable' = Reliable
      BY <3>1 DEF Reliable, Fault
    <3> QED BY <1>3, <1>8, <3>1, <3>2
  <2>2. Listed(w, infos'[w], Start(existing', w)) /\ nextChunk'[w] <= Start(existing', w) + DoneTill(infos'[w])
        /\ Start(existing', w) <= nextChunk'[w]
    BY <1>1, <1>4
  <2>3. Reliable' => ToSet(saved'[w]) \subseteq ToSet(infos'[w])
    BY <1>3, <1>9
  <2> HIDE DEF first, map
  <2> QED BY <1>1, <1>4, <1>6, <1>10, <2>1, <2>2, <2>3 DEF WorkerInv, map
<1> QED BY <1>1, <1>4, <1>6, <1>7, <1>11, WriterStep DEF OutInv, ShapeInv

-----------------------------------------------------------------------------
(* The uploaders take a message. *)

LEMMA ServeStep ==
    ASSUME OutInv, NEW w \in DOMAIN phase, NEW u \in Uploaders, toUpload[w][u] # << >>,
           toUpload' = [toUpload EXCEPT ![w][u] = Tail(@)],
           UNCHANGED <<job, main, phase, infos, nextChunk, pending, counter, existing, index, indexed>>,
           \A v \in DOMAIN phase : \A d \in ToSet(infos[v]) : d \in remote => d \in remote',
           Reliable => \A c : Head(toUpload[w][u]) = ChunkMessage(c) => c \in remote',
           AppendInv', saved' = [v \in Workers |-> saved'[v]],
           \A v \in Workers : CheckpointInv(v)',
           \A v \in DOMAIN phase : Reliable => ToSet(saved'[v]) \subseteq ToSet(infos[v])
    PROVE  OutInv'
<1>1. Workers' = Workers /\ Uploaders' = Uploaders /\ (Reliable' <=> Reliable)
  BY DEF Workers, Uploaders, Reliable, Fault
<1>2. /\ DOMAIN toUpload' = DOMAIN phase
      /\ \A v \in DOMAIN phase : \A x \in Uploaders :
            toUpload'[v][x] = IF v = w /\ x = u THEN Tail(toUpload[v][x]) ELSE toUpload[v][x]
      /\ \A v \in DOMAIN phase : toUpload'[v] = [x \in Uploaders |-> toUpload'[v][x]]
  BY DEF OutInv, ShapeInv
<1>3. ShapeInv'
  BY <1>1, <1>2 DEF OutInv, ShapeInv
<1>4. ASSUME NEW v \in DOMAIN phase, NEW x \in Uploaders
      PROVE  Pipe(v, toUpload'[v][x], infos[v], Start(existing, v), job.recipe = "map", remote', Reliable)
  <2>1. Pipe(v, toUpload[v][x], infos[v], Start(existing, v), job.recipe = "map", remote, Reliable)
    BY DEF OutInv, WorkerInv
  <2>2. CASE v = w /\ x = u
    BY <1>2, <2>1, <2>2, PipeTail
  <2>3. CASE ~(v = w /\ x = u)
    BY <1>2, <2>1, <2>3, PipeLater
  <2> QED BY <2>2, <2>3
<1>5. ASSUME NEW v \in DOMAIN phase PROVE WorkerInv(v)'
  BY <1>1, <1>4 DEF OutInv, WorkerInv
<1> QED BY <1>1, <1>3, <1>5 DEF OutInv

LEMMA UploadStep ==
    ASSUME OutInv, NEW w \in DOMAIN phase, NEW u \in Uploaders, Upload(w, u)
    PROVE  OutInv'
<1> USE DEF jobVars, mainVars, writerVars, launchVars, diskVars
<1> DEFINE q == toUpload[w][u]
           m == Head(q)
           map == job.recipe = "map"
<1>1. /\ UNCHANGED <<job, main, phase, infos, nextChunk, pending, counter, existing, index, indexed>>
      /\ toUpload' = [toUpload EXCEPT ![w][u] = Tail(@)] /\ q # << >>
      /\ m.kind # "end"
      /\ m.kind = "chunk" => remote' = Put(remote, m.chunks[1]) /\ saved' = saved
      /\ m.kind # "chunk" => saved' = [saved EXCEPT ![w] = m.chunks] /\ remote' = remote
  BY DEF Upload, HasMessage, Message
<1>2. WorkerInv(w) /\ w \in Workers /\ Start(existing, w) \in Nat
  BY WorkerFacts
<1>3. Pipe(w, q, infos[w], Start(existing, w), map, remote, Reliable)
  BY <1>2 DEF WorkerInv
<1>4. IsSeq(q) /\ MessageOK(w, m, infos[w], Start(existing, w), map)
  BY <1>1, <1>3, QueueTail DEF Pipe, QueueOK
<1>5. /\ m.kind \in {"chunk", "checkpoint", "end"}
      /\ m.kind = "chunk" =>
           /\ m = ChunkMessage(m.chunks[1]) /\ m.chunks[1].rank = w
           /\ ~map => m.chunks[1] \in ToSet(infos[w]) /\ m.chunks[1].index >= Start(existing, w)
      /\ m.kind = "checkpoint" =>
           Listed(w, m.chunks, Start(existing, w)) /\ ToSet(m.chunks) \subseteq ToSet(infos[w])
  BY <1>4, MessageKinds
<1>6. DOMAIN phase = Workers /\ Workers' = Workers /\ (Reliable' <=> Reliable)
  BY <1>1 DEF OutInv, ShapeInv, Workers, Reliable, Fault
<1>7. ASSUME NEW v \in DOMAIN phase
      PROVE  (Reliable => ToSet(saved[v]) \subseteq ToSet(infos[v])) /\ CheckpointInv(v)
  BY <1>6 DEF OutInv, WorkerInv
<1>8. saved = [v \in Workers |-> saved[v]]
  BY DEF OutInv, ShapeInv
<1>9. CASE m.kind = "chunk"
  <2> DEFINE c == m.chunks[1]
  <2>1. /\ remote' = Put(remote, c) /\ saved' = saved /\ c.rank = w /\ m = ChunkMessage(c)
        /\ ~map => c \in ToSet(infos[w]) /\ c.index >= Start(existing, w)
    BY <1>1, <1>5, <1>9
  <2>2. \A d : ChunkMessage(d).chunks[1] = d
    BY DEF ChunkMessage
  <2> HIDE DEF m, c
  <2>3. /\ c \in remote'
        /\ \A d : d \in remote /\ (d.rank # c.rank \/ d.index # c.index) => d \in remote'
    BY <2>1 DEF Put, Name
  \* No other chunk of the workers has that name.
  <2>4. ASSUME NEW v \in DOMAIN phase, NEW d \in ToSet(infos[v]), d \in remote PROVE d \in remote'
    <3>1. Listed(v, infos[v], Start(existing, v)) /\ (map => infos[v] = << >>)
      BY DEF OutInv, WorkerInv
    <3>2. PICK k \in DOMAIN infos[v] : d = infos[v][k]
      BY DEF ToSet
    <3>3. d.rank = v
      BY <3>1, <3>2 DEF Listed
    <3>4. CASE v # w
      BY <2>1, <2>3, <2>4, <3>3, <3>4
    <3>5. CASE v = w
      <4>1. ~map
        BY <3>1, <3>2
      <4>2. PICK l \in DOMAIN infos[w] : c = infos[w][l]
        BY <2>1, <4>1 DEF ToSet
      <4>3. d.index = c.index => d = c
        BY <3>1, <3>2, <3>5, <4>2 DEF Listed
      <4> QED BY <2>3, <2>4, <4>3
    <3> QED BY <3>4, <3>5
  <2>5. ASSUME NEW d, m = ChunkMessage(d) PROVE d \in remote'
    <3>1. m.chunks[1] = d /\ m.chunks[1] = c
      BY <2>1, <2>2, <2>5
    <3> QED BY <2>3, <3>1
  \* Nor has a chunk that was there before.
  <2>6. AppendInv'
    <3>1. ASSUME job.mode = "append", NEW d \in ToSet(job.old) PROVE d \in remote'
      <4>1. d \in remote /\ d \in ToSet(existing) /\ Known(existing)
        BY <3>1 DEF OutInv, AppendInv
      <4>2. ~map
        BY <3>1, JobFacts DEF OutInv
      <4>3. d.rank = w => d.index < Start(existing, w)
        BY <4>1, StartFacts
      <4>4. d.index \in Nat
        BY <4>1 DEF Known
      <4>5. d.rank # c.rank \/ d.index # c.index
        <5>1. c.index \in Nat
          <6>1. PICK l \in DOMAIN infos[w] : c = infos[w][l]
            BY <2>1, <4>2 DEF ToSet
          <6> QED BY <1>2, <6>1 DEF WorkerInv, Listed
        <5> QED BY <1>2, <2>1, <4>2, <4>3, <4>4, <5>1
      <4> QED BY <2>3, <4>1, <4>5
    <3> QED BY <1>1, <3>1 DEF OutInv, AppendInv
  <2>7. \A v \in Workers : CheckpointInv(v)'
    <3> TAKE v \in Workers
    <3>1. CheckpointInv(v) /\ (Reliable => ToSet(saved[v]) \subseteq ToSet(infos[v]))
      BY <1>6, <1>7
    <3>2. Reliable => ToSet(saved[v]) \subseteq remote'
      BY <1>6, <2>4, <3>1 DEF CheckpointInv
    <3> QED BY <1>1, <1>6, <2>1, <3>1, <3>2 DEF CheckpointInv
  <2> HIDE DEF q
  <2> QED BY <1>1, <1>7, <1>8, <2>1, <2>4, <2>5, <2>6, <2>7, ServeStep DEF q, m
<1>10. CASE m.kind = "checkpoint"
  <2>1. /\ saved' = [saved EXCEPT ![w] = m.chunks] /\ remote' = remote
        /\ Listed(w, m.chunks, Start(existing, w)) /\ ToSet(m.chunks) \subseteq ToSet(infos[w])
    BY <1>1, <1>5, <1>10
  <2>2. /\ saved' = [v \in Workers |-> saved'[v]]
        /\ \A v \in Workers : saved'[v] = IF v = w THEN m.chunks ELSE saved[v]
    BY <1>2, <1>8, <2>1
  <2>3. \A d : m # ChunkMessage(d)
    BY <1>10 DEF ChunkMessage
  \* All it lists has been uploaded: nothing waits before it.
  <2>4. Reliable => ToSet(m.chunks) \subseteq remote
    <3> SUFFICES ASSUME Reliable, NEW d \in ToSet(m.chunks) PROVE d \in remote
      OBVIOUS
    <3>1. q[1] = m /\ 1 \in DOMAIN q /\ QueueBacked(q, remote)
      BY <1>1, <1>3, <1>4, SeqFacts, TailFacts DEF Pipe
    <3> HIDE DEF q, m
    <3>2. Backed(m.chunks, remote, q, 1 - 1)
      BY <1>10, <3>1 DEF QueueBacked
    <3>3. d \in remote \/ \E p \in 1 .. 1 - 1 : q[p] = ChunkMessage(d)
      BY <3>2 DEF Backed, Queued
    <3> QED BY <3>3
  <2> HIDE DEF m
  <2>5. AppendInv'
    BY <1>1, <2>1 DEF OutInv, AppendInv
  <2>6. \A v \in Workers : CheckpointInv(v)'
    <3> TAKE v \in Workers
    <3>1. CASE v = w
      <4>1. map => m.chunks = << >>
        <5> SUFFICES ASSUME map, m.chunks # << >> PROVE FALSE
          OBVIOUS
        <5>1. infos[w] = << >> /\ IsSeq(m.chunks)
          BY <1>2, <2>1 DEF WorkerInv, Listed
        <5>2. 1 \in DOMAIN m.chunks
          BY <5>1, SeqFacts
        <5>3. m.chunks[1] \in ToSet(infos[w])
          BY <2>1, <5>2 DEF ToSet
        <5> QED BY <5>1, <5>3, EmptyIsSeq
      <4> QED BY <1>1, <1>6, <2>1, <2>2, <2>4, <3>1, <4>1 DEF CheckpointInv
    <3>2. CASE v # w
      BY <1>1, <1>6, <1>7, <2>1, <2>2, <3>2 DEF CheckpointInv
    <3> QED BY <3>1, <3>2
  <2>7. \A v \in DOMAIN phase : Reliable => ToSet(saved'[v]) \subseteq ToSet(infos[v])
    BY <1>6, <1>7, <2>1, <2>2
  <2> HIDE DEF q
  <2> QED BY <1>1, <2>1, <2>2, <2>3, <2>5, <2>6, <2>7, ServeStep DEF q, m
<1> QED BY <1>1, <1>5, <1>9, <1>10

LEMMA DropStep ==
    ASSUME OutInv, NEW w \in DOMAIN phase, NEW u \in Uploaders,
           UploadFails(w, u) \/ UploadEnds(w, u)
    PROVE  OutInv'
<1> USE DEF jobVars, mainVars, writerVars, outputVars, launchVars, diskVars
<1>1. /\ UNCHANGED <<job, main, phase, infos, nextChunk, pending, counter, existing, index, saved, remote, indexed>>
      /\ toUpload' = [toUpload EXCEPT ![w][u] = Tail(@)] /\ toUpload[w][u] # << >>
  BY DEF UploadFails, UploadEnds, HasMessage
<1>2. Reliable => \A c : Head(toUpload[w][u]) # ChunkMessage(c)
  <2> SUFFICES ASSUME Reliable PROVE \A c : Head(toUpload[w][u]) # ChunkMessage(c)
    OBVIOUS
  <2>1. Head(toUpload[w][u]).kind = "end"
    BY DEF UploadFails, UploadEnds, Reliable, Message
  <2> QED BY <2>1 DEF ChunkMessage
<1>3. DOMAIN phase = Workers /\ Workers' = Workers /\ (Reliable' <=> Reliable)
  BY <1>1 DEF OutInv, ShapeInv, Workers, Reliable, Fault
<1>4. AppendInv' /\ saved' = [v \in Workers |-> saved'[v]]
  BY <1>1 DEF OutInv, ShapeInv, AppendInv
<1>5. \A v \in Workers : CheckpointInv(v)'
  BY <1>1, <1>3 DEF OutInv, CheckpointInv
<1>6. \A v \in DOMAIN phase : Reliable => ToSet(saved'[v]) \subseteq ToSet(infos[v])
  BY <1>1 DEF OutInv, WorkerInv
<1> QED BY <1>1, <1>2, <1>4, <1>5, <1>6, ServeStep

-----------------------------------------------------------------------------
(* The main process. *)

\* The directory is cleaned.
LEMMA CleanFacts ==
    ASSUME OutInv, main = "start", CleanOutput, job' = job
    PROVE  /\ saved' = [w \in Workers |-> saved'[w]]
           /\ \A w \in Workers : saved'[w] \in {saved[w], << >>}
           /\ \A w \in Workers : Reliable => ToSet(saved'[w]) \subseteq remote'
           /\ index' \in {index, NoIndex}
           /\ job.mode = "append" => remote' = remote /\ index' = index
<1> DEFINE clean == Cleans
<1>1. /\ remote' = IF clean THEN {} ELSE remote
      /\ index' = IF job.mode = "overwrite" THEN NoIndex ELSE index
      /\ saved' = IF clean \/ ~job.checkpoint THEN [w \in Workers |-> << >>] ELSE saved
  BY DEF CleanOutput
<1>2. saved = [w \in Workers |-> saved[w]]
  BY DEF OutInv, ShapeInv
<1>3. /\ saved' = [w \in Workers |-> saved'[w]]
      /\ \A w \in Workers : saved'[w] \in {saved[w], << >>}
      /\ \A w \in Workers : clean => saved'[w] = << >>
  BY <1>1, <1>2
<1>4. ASSUME NEW w \in Workers, Reliable PROVE ToSet(saved'[w]) \subseteq remote'
  BY <1>1, <1>3, <1>4, EmptyIsSeq DEF OutInv, CheckpointInv
<1>5. job.mode = "append" => ~clean
  BY DEF Cleans
<1> QED BY <1>1, <1>3, <1>4, <1>5

\* A job that starts nothing when the directory is clean.
LEMMA CleanedInv ==
    ASSUME OutInv, main = "start", CleanOutput, main' \in {"start", "refused"},
           UNCHANGED <<job, phase, infos, nextChunk, pending, counter, toUpload, existing, indexed>>
    PROVE  OutInv'
<1>1. main = "start" /\ CleanOutput /\ job' = job
  OBVIOUS
<1>2. /\ saved' = [w \in Workers |-> saved'[w]]
      /\ \A w \in Workers : saved'[w] \in {saved[w], << >>}
      /\ \A w \in Workers : Reliable => ToSet(saved'[w]) \subseteq remote'
      /\ index' \in {index, NoIndex}
      /\ job.mode = "append" => remote' = remote /\ index' = index
  BY <1>1, CleanFacts
<1>3. Workers' = Workers /\ (Reliable' <=> Reliable) /\ DOMAIN phase = {}
  BY <1>1 DEF Workers, Reliable, Fault, OutInv, ShapeInv
<1>4. ShapeInv' /\ AppendInv'
  <2>1. ShapeInv'
    BY <1>1, <1>2, <1>3 DEF OutInv, ShapeInv
  <2>2. AppendInv'
    BY <1>1, <1>2, <1>3 DEF OutInv, AppendInv
  <2> QED BY <2>1, <2>2
<1>5. ASSUME NEW w \in Workers PROVE CheckpointInv(w)'
  <2>1. CheckpointInv(w) /\ Listed(w, << >>, Start(existing, w))
    BY StartFacts, ListedEmpty DEF OutInv, AppendInv
  <2> QED BY <1>1, <1>2, <1>3, <2>1 DEF CheckpointInv
<1> QED BY <1>1, <1>3, <1>4, <1>5 DEF OutInv

LEMMA RefuseLateStep == ASSUME OutInv, RefuseLate PROVE OutInv'
<1> USE DEF jobVars, mainVars, writerVars, launchVars, diskVars
<1>1. /\ main = "start" /\ CleanOutput /\ main' = "refused"
      /\ UNCHANGED <<job, phase, infos, nextChunk, pending, counter, toUpload, existing, indexed>>
  BY DEF RefuseLate, uploadVars
<1> QED BY <1>1, CleanedInv

\* The checkpoints that are read are those there are, or none.
LEMMA LoadedIs ==
    ASSUME OutInv, ConfigInv, main = "start", CleanOutput, job' = job, NEW w \in Workers
    PROVE  /\ Loaded(w) \in {saved'[w], << >>}
           /\ Reliable => Loaded(w) = saved'[w]
<1>1. Loaded(w) = IF config = "none" THEN << >> ELSE saved'[w]
  BY DEF Loaded
<1>2. saved'[w] \in {saved[w], << >>}
  BY CleanFacts
<1>3. ~job.checkpoint => saved'[w] = << >>
  BY DEF CleanOutput
<1>4. Reliable /\ job.checkpoint /\ config = "none" => saved[w] = << >>
  BY DEF ConfigInv
<1> QED BY <1>1, <1>2, <1>3, <1>4

LEMMA LaunchStep == ASSUME OutInv, ConfigInv, Launch PROVE OutInv'
<1> USE DEF jobVars, mainVars, writerVars, launchVars
<1>1. /\ main = "start" /\ CleanOutput /\ main' = "running" /\ ~job.invalid /\ job' = job
      /\ existing' = Existing
      /\ phase' = [w \in Workers |-> "setup"]
      /\ counter' = [w \in Workers |-> 0]
      /\ toUpload' = [w \in Workers |-> [u \in Uploaders |-> << >>]]
      /\ pending' = [w \in Workers |-> << >>]
      /\ infos' = [w \in Workers |-> Loaded(w)] /\ indexed' = {}
      /\ nextChunk' = [w \in Workers |-> StartIndex(w) + DoneTill(Loaded(w))]
  BY DEF Launch, Fresh, NewWorkers, NewWriters, CleanCaches
<1>2. /\ saved' = [w \in Workers |-> saved'[w]]
      /\ \A w \in Workers : saved'[w] \in {saved[w], << >>}
      /\ \A w \in Workers : Reliable => ToSet(saved'[w]) \subseteq remote'
      /\ index' \in {index, NoIndex}
      /\ job.mode = "append" => remote' = remote /\ index' = index
  BY <1>1, CleanFacts
<1>3. Workers' = Workers /\ Uploaders' = Uploaders /\ (Reliable' <=> Reliable) /\ DOMAIN phase = {}
  BY <1>1 DEF Workers, Uploaders, Reliable, Fault, OutInv, ShapeInv
<1>4. Known(existing) /\ Known(existing') /\ ToSet(existing) \subseteq ToSet(existing')
  <2>1. Known(existing) /\ Known(<< >>) /\ ToSet(<< >>) = {}
    BY EmptyIsSeq DEF OutInv, AppendInv, Known
  <2>2. existing' = IF job.mode = "append" /\ index # NoIndex THEN index ELSE << >>
    BY <1>1 DEF Existing
  <2> QED BY <2>1, <2>2 DEF OutInv, AppendInv
<1>5. AppendInv'
  <2>1. existing' = IF job.mode = "append" /\ index # NoIndex THEN index ELSE << >>
    BY <1>1 DEF Existing
  <2>2. job.mode = "append" => ToSet(job.old) \subseteq ToSet(existing') /\ ToSet(existing') \subseteq ToSet(index)
    BY <2>1, EmptyIsSeq DEF OutInv, AppendInv
  <2>3. index' = NoIndex \/ Known(index')
    BY <1>2 DEF OutInv, AppendInv
  <2> QED BY <1>1, <1>2, <1>4, <2>1, <2>2, <2>3 DEF OutInv, AppendInv
<1>6. ASSUME NEW w \in Workers
      PROVE  /\ Start(existing', w) \in Nat
             /\ Listed(w, saved'[w], Start(existing', w)) /\ (job.recipe = "map" => saved'[w] = << >>)
             /\ Listed(w, Loaded(w), Start(existing', w)) /\ (job.recipe = "map" => Loaded(w) = << >>)
             /\ Reliable => Loaded(w) = saved'[w]
  <2>1. /\ Start(existing, w) \in Nat /\ Start(existing', w) \in Nat
        /\ Start(existing, w) <= Start(existing', w)
    BY <1>4, StartFacts, StartGrows
  <2>2. CheckpointInv(w)
    BY DEF OutInv
  <2>3. Listed(w, saved[w], Start(existing', w)) /\ Listed(w, << >>, Start(existing', w))
    BY <2>1, <2>2, ListedLater, ListedEmpty DEF CheckpointInv
  <2>4. Loaded(w) \in {saved'[w], << >>} /\ (Reliable => Loaded(w) = saved'[w])
    BY <1>1, LoadedIs
  <2> QED BY <1>2, <2>1, <2>2, <2>3, <2>4 DEF CheckpointInv
<1>7. \A w \in Workers : CheckpointInv(w)'
  BY <1>1, <1>2, <1>3, <1>6 DEF CheckpointInv
<1>8. ShapeInv'
  BY <1>1, <1>2, <1>3 DEF OutInv, ShapeInv
<1>9. ASSUME NEW w \in Workers PROVE WorkerInv(w)'
  <2> DEFINE first == Start(existing', w)
             list == Loaded(w)
  <2>1. /\ infos'[w] = list /\ pending'[w] = << >> /\ counter'[w] = 0
        /\ nextChunk'[w] = first + DoneTill(list)
        /\ \A u \in Uploaders : toUpload'[w][u] = << >>
    BY <1>1, <1>2, StartIs
  <2>2. first \in Nat /\ Listed(w, list, first) /\ (job.recipe = "map" => list = << >>)
    BY <1>6
  <2>3. DoneTill(list) \in Nat
    BY <2>2, ListedDone
  <2>4. \A k \in DOMAIN list : list[k].index < first + DoneTill(list)
    BY <2>2 DEF Listed
  <2>5. Pipe(w, << >>, list, first, job.recipe = "map", remote', Reliable)
    <3>1. DOMAIN << >> = {} /\ Len(<< >>) = 0 /\ IsSeq(<< >>)
      BY EmptyIsSeq
    <3>2. Reliable => ToSet(list) \subseteq remote'
      BY <1>2, <1>6
    <3> HIDE DEF first, list
    <3> QED BY <3>1, <3>2 DEF Pipe, QueueOK, Backed, QueueBacked
  <2>6. Reliable' = Reliable
    BY <1>1 DEF Reliable, Fault
  <2>7. \A u \in Uploaders' : Pipe(w, toUpload'[w][u], infos'[w], Start(existing', w),
                                    job'.recipe = "map", remote', Reliable')
    BY <1>1, <1>3, <2>1, <2>5, <2>6
  <2>8. Reliable' => ToSet(saved'[w]) \subseteq ToSet(infos'[w])
    BY <1>6, <2>1, <2>6
  <2>9. nextChunk'[w] \in Nat /\ first <= nextChunk'[w] /\ nextChunk'[w] <= first + DoneTill(list)
    <3> HIDE DEF first, list
    <3> QED BY <2>1, <2>2, <2>3
  <2>10. Listed(w, infos'[w], Start(existing', w)) /\ IsSeq(pending'[w]) /\ counter'[w] \in Nat
    BY <2>1, <2>2, EmptyIsSeq
  <2> QED BY <1>1, <2>1, <2>2, <2>4, <2>7, <2>8, <2>9, <2>10 DEF WorkerInv
<1>10. DOMAIN phase' = Workers
  BY <1>1
<1> QED BY <1>3, <1>5, <1>7, <1>8, <1>9, <1>10 DEF OutInv

LEMMA MergeStep == ASSUME OutInv, Merge PROVE OutInv'
<1> USE DEF jobVars, mainVars, writerVars, launchVars, uploadVars, diskVars
<1>1. /\ main = "merging" /\ main' \in {"failed", "published"} /\ index' \in {index, Merged}
      /\ UNCHANGED <<job, phase, infos, nextChunk, pending, counter, toUpload, existing, saved, remote, indexed>>
  BY DEF Merge
<1>2. DOMAIN phase = Workers /\ job.workers \in Nat \ {0} /\ 0 \in Workers
  BY <1>1, JobFacts DEF OutInv, ShapeInv, Workers
<1>3. /\ Known(existing)
      /\ \A w \in Workers : IsSeq(infos[w]) /\ \A c \in ToSet(infos[w]) : c.index \in Nat
  BY <1>2 DEF OutInv, AppendInv, WorkerInv, Listed, ToSet
<1>4. Known(Merged) /\ ToSet(existing) \subseteq ToSet(Merged)
  <2> DEFINE C == UNION {ToSet(infos[w]) : w \in Workers}
             of(i) == ByName(Workers, i)
             lists_ == [i \in 1 .. job.workers |-> IF of(i) \in indexed THEN infos[of(i)] ELSE << >>]
  <2>1. ASSUME NEW w \in Workers PROVE infos[w] \in Seq(C)
    <3>1. infos[w] \in Seq(ToSet(infos[w])) /\ ToSet(infos[w]) \subseteq C
      BY <1>3, SeqFacts
    <3> HIDE DEF C
    <3> QED BY <3>1, SeqMonotonic
  <2>2. indexed \subseteq Workers
    BY <1>2 DEF OutInv, ShapeInv
  <2>3. \A i \in 1 .. job.workers : lists_[i] \in Seq(C)
    <3> HIDE DEF C, of
    <3> QED BY <2>1, <2>2
  <2>4. lists_ \in Seq(Seq(C))
    <3>1. lists_ = [i \in 1 .. job.workers |-> lists_[i]]
      OBVIOUS
    <3> HIDE DEF lists_, C, of
    <3>2. lists_ \in [1 .. job.workers -> Seq(C)]
      BY <2>3, <3>1
    <3> QED BY <1>2, <3>2, FunctionIsSeq
  <2>5. FlattenSeq(lists_) \in Seq(C)
    <3> HIDE DEF lists_, C
    <3> QED BY <2>4, FlatSeq
  <2>6. Merged = existing \o FlattenSeq(lists_)
    BY DEF Merged
  <2>7. \A c \in C : c.index \in Nat
    BY <1>3
  <2> HIDE DEF lists_, C
  <2>8. IsSeq(FlattenSeq(lists_)) /\ ToSet(FlattenSeq(lists_)) \subseteq C
    <3>1. IsSeq(FlattenSeq(lists_))
      BY <2>5 DEF IsSeq
    <3>2. DOMAIN FlattenSeq(lists_) = 1 .. Len(FlattenSeq(lists_))
      BY <3>1, SeqFacts
    <3>3. \A i \in 1 .. Len(FlattenSeq(lists_)) : FlattenSeq(lists_)[i] \in C
      BY <2>5, ElementOfSeq
    <3> QED BY <3>1, <3>2, <3>3 DEF ToSet
  <2>9. IsSeq(Merged) /\ ToSet(Merged) = ToSet(existing) \union ToSet(FlattenSeq(lists_))
    BY <1>3, <2>6, <2>8, ConcatFacts DEF Known
  <2> QED BY <1>3, <2>7, <2>8, <2>9 DEF Known
<1>5. Merged # NoIndex
  <2>1. NoIndex[1].index = -1 /\ DOMAIN NoIndex = {1}
    BY DEF NoIndex
  <2>2. NoIndex[1] \in ToSet(NoIndex)
    BY <2>1 DEF ToSet
  <2> QED BY <1>4, <2>1, <2>2 DEF Known
<1>6. AppendInv'
  <2>1. job.mode = "append" => ToSet(job.old) \subseteq ToSet(existing)
    BY <1>2 DEF OutInv, AppendInv
  <2> QED BY <1>1, <1>4, <1>5, <2>1 DEF OutInv, AppendInv
<1>7. Workers' = Workers /\ Uploaders' = Uploaders /\ Reliable' = Reliable
  BY <1>1 DEF Workers, Uploaders, Reliable, Fault
<1>8. ShapeInv'
  BY <1>1, <1>7 DEF OutInv, ShapeInv
<1>9. \A w \in DOMAIN phase : WorkerInv(w)'
  BY <1>1, <1>7 DEF OutInv, WorkerInv
<1>10. \A w \in Workers : CheckpointInv(w)'
  BY <1>1, <1>7 DEF OutInv, CheckpointInv
<1> QED BY <1>1, <1>6, <1>7, <1>8, <1>9, <1>10 DEF OutInv

LEMMA CleanCheckpointsStep == ASSUME OutInv, CleanCheckpoints PROVE OutInv'
<1> USE DEF jobVars, mainVars, writerVars, launchVars, uploadVars, diskVars
<1>1. /\ main = "published" /\ main' = "finished" /\ saved' = [w \in Workers |-> << >>]
      /\ UNCHANGED <<job, phase, infos, nextChunk, pending, counter, toUpload, existing, index, remote, indexed>>
  BY DEF CleanCheckpoints
<1>2. Workers' = Workers /\ Uploaders' = Uploaders /\ Reliable' = Reliable /\ DOMAIN phase = Workers
  BY <1>1 DEF Workers, Uploaders, Reliable, Fault, OutInv, ShapeInv
<1>3. ShapeInv' /\ AppendInv'
  BY <1>1, <1>2 DEF OutInv, ShapeInv, AppendInv
<1>4. \A w \in Workers : saved'[w] = << >> /\ ToSet(saved'[w]) = {}
  BY <1>1, EmptyIsSeq
<1>5. \A w \in DOMAIN phase : WorkerInv(w)'
  BY <1>1, <1>2, <1>4 DEF OutInv, WorkerInv
<1>6. \A w \in Workers : CheckpointInv(w)'
  <2> TAKE w \in Workers
  <2>1. Listed(w, << >>, Start(existing, w))
    BY StartFacts, ListedEmpty DEF OutInv, AppendInv
  <2> QED BY <1>1, <1>2, <1>4, <2>1 DEF CheckpointInv
<1> QED BY <1>1, <1>2, <1>3, <1>5, <1>6 DEF OutInv

LEMMA CrashStep == ASSUME OutInv, Crash PROVE OutInv'
<1> USE DEF jobVars, outputVars
<1>1. /\ main' = "start" /\ phase' = << >> /\ infos' = << >> /\ nextChunk' = << >>
      /\ pending' = << >> /\ counter' = << >> /\ toUpload' = << >> /\ indexed' = {}
      /\ UNCHANGED <<job, existing, index, saved, remote>>
  BY DEF Crash
<1>2. Workers' = Workers /\ Reliable' = Reliable /\ DOMAIN << >> = {}
  BY <1>1 DEF Workers, Reliable, Fault
<1>3. ShapeInv' /\ AppendInv'
  BY <1>1, <1>2 DEF OutInv, ShapeInv, AppendInv
<1>4. \A w \in Workers : CheckpointInv(w)'
  BY <1>1, <1>2 DEF OutInv, CheckpointInv
<1> QED BY <1>1, <1>2, <1>3, <1>4 DEF OutInv

LEMMA CrashSavingStep == ASSUME OutInv, CrashSaving PROVE OutInv'
<1> USE DEF jobVars, mainVars, writerVars, uploadVars, diskVars
<1>1. /\ main = "start" /\ CleanOutput /\ main' = main
      /\ UNCHANGED <<job, phase, infos, nextChunk, pending, counter, toUpload, existing, indexed>>
  BY DEF CrashSaving
<1> QED BY <1>1, CleanedInv

LEMMA OutStep == ASSUME OutInv, ConfigInv, [Next]_vars PROVE OutInv'
<1> USE DEF jobVars, mainVars, queueVars, writerVars, uploadVars, diskVars, outputVars, launchVars
<1>1. CASE UNCHANGED vars \/ Stopped
  BY <1>1, OutIdle DEF vars, Stopped, outVars
<1>2. CASE Crash
  BY <1>2, CrashStep
<1>2a. CASE CrashSaving
  BY <1>2a, CrashSavingStep
<1>3. CASE MainStep
  <2>1. CASE Refuse \/ RefuseConfig \/ ExitOnError \/ AllWorkersEnd \/ \E w \in DOMAIN phase : SeeProgress(w)
    <3>1. UNCHANGED outVars
      BY <2>1 DEF Refuse, RefuseConfig, ExitOnError, AllWorkersEnd, SeeProgress, outVars, Up
    <3> QED BY <3>1, OutIdle
  <2>2. CASE RefuseLate \/ Launch \/ Merge \/ CleanCheckpoints
    BY <2>2, RefuseLateStep, LaunchStep, MergeStep, CleanCheckpointsStep
  <2> QED BY <1>3, <2>1, <2>2 DEF MainStep
<1>4. ASSUME NEW w \in DOMAIN phase, WorkerStep(w) \/ RemoveFiles(w) PROVE OutInv'
  <2>1. CASE Skip(w) \/ AddItem(w) \/ AddItemAndClose(w) \/ Transform(w) \/ Conclude(w)
    BY <2>1, SkipStep, AddItemStep, AddItemAndCloseStep, TransformStep, ConcludeStep
  <2>2. CASE Setup(w) \/ Fail(w) \/ PassEnd(w) \/ ConcludeFails(w) \/ Flushed(w) \/ Exit(w) \/ RemoveFiles(w)
    <3>1. UNCHANGED outVars
      BY <2>2 DEF Setup, Fail, PassEnd, ConcludeFails, Flushed, Exit, RemoveFiles, outVars
    <3> QED BY <3>1, OutIdle
  <2> QED BY <1>4, <2>1, <2>2 DEF WorkerStep
<1>5. ASSUME NEW w \in DOMAIN phase, NEW d \in Downloaders, DownloaderStep(w, d) PROVE OutInv'
  <2>1. UNCHANGED outVars
    BY <1>5 DEF DownloaderStep, Download, DownloadEnds, DownloadFails, outVars
  <2> QED BY <2>1, OutIdle
<1>6. ASSUME NEW w \in DOMAIN phase, NEW u \in Uploaders, UploaderStep(w, u) PROVE OutInv'
  <2>1. CASE Upload(w, u) \/ UploadFails(w, u) \/ UploadEnds(w, u)
    BY <2>1, UploadStep, DropStep
  <2>2. CASE CopyFails(w, u)
    <3>1. UNCHANGED outVars
      BY <2>2 DEF CopyFails, outVars
    <3> QED BY <3>1, OutIdle
  <2> QED BY <1>6, <2>1, <2>2 DEF UploaderStep
<1> QED BY <1>1, <1>2, <1>2a, <1>3, <1>4, <1>5, <1>6 DEF Next

\* A run saves a configuration before its first checkpoint, and removes both together.
LEMMA ConfigKept ==
    ASSUME ConfigInv, job' = job, config' = config,
           \/ saved' = saved /\ main' = main
           \/ saved' = saved /\ main' = "start"
              /\ main \in {"running", "joining", "merging", "published", "failed"}
           \/ saved' = saved /\ main = "start" /\ main' = "refused"
           \/ saved' = saved /\ main' \in {"joining", "merging", "published", "failed", "finished"}
              /\ main \in {"running", "joining", "merging"}
           \/ main' = main /\ main \notin {"start", "refused"}
    PROVE  ConfigInv'
<1>1. Workers' = Workers /\ (Reliable' <=> Reliable)
  BY DEF Workers, Reliable, Fault
<1> QED BY <1>1 DEF ConfigInv

LEMMA ConfigCleaned ==
    ASSUME OutInv, ConfigInv, main = "start", CleanOutput, job' = job, main' \in {"start", "refused"},
           config' \in {ConfigLeft, "other"}
    PROVE  ConfigInv'
<1>1. Workers' = Workers /\ (Reliable' <=> Reliable)
  BY DEF Workers, Reliable, Fault
<1>2. SUFFICES ASSUME Reliable, job.checkpoint, config' = "none", NEW w \in Workers
               PROVE  saved'[w] = << >>
  BY <1>1 DEF ConfigInv
<1>3. Cleans \/ config = "none"
  BY <1>2 DEF ConfigLeft
<1>4. saved'[w] \in {saved[w], << >>} /\ (Cleans => saved'[w] = << >>)
  BY CleanFacts DEF CleanOutput
<1> QED BY <1>2, <1>3, <1>4 DEF ConfigInv

LEMMA ConfigLaunch == ASSUME OutInv, ConfigInv, Launch PROVE ConfigInv'
<1> USE DEF jobVars
<1>1. main = "start" /\ CleanOutput /\ SaveConfig /\ main' = "running" /\ job' = job
  BY DEF Launch
<1>2. Reliable' <=> Reliable
  BY <1>1 DEF Reliable, Fault
<1>3. SUFFICES ASSUME Reliable, job.checkpoint PROVE config' # "none"
  BY <1>1, <1>2 DEF ConfigInv
<1>4. job.json \in {"same", "other", "raises"}
  BY JobAssumption DEF OutInv, ShapeInv
<1>5. CASE Anew
  BY <1>1, <1>3, <1>4, <1>5 DEF SaveConfig, Reliable
<1>6. CASE ~Anew
  <2>1. PICK w \in Workers : DoneTill(Loaded(w)) # 0
    BY <1>3, <1>6 DEF Anew
  <2>2. Loaded(w) # << >>
    BY <2>1, EmptyIsSeq, EmptyDone
  <2>3. config # "none" /\ saved'[w] # << >>
    BY <2>2 DEF Loaded
  <2>4. ~Cleans
    BY <1>1, <2>3 DEF CleanOutput
  <2> QED BY <1>1, <1>6, <2>3, <2>4 DEF SaveConfig, ConfigLeft
<1> QED BY <1>5, <1>6

LEMMA ConfigStep == ASSUME OutInv, ConfigInv, [Next]_vars PROVE ConfigInv'
<1> USE DEF jobVars, mainVars, outputVars
<1>1. CASE UNCHANGED vars \/ Stopped
  BY <1>1, ConfigKept DEF vars, Stopped
<1>2. CASE Crash
  BY <1>2, ConfigKept DEF Crash, Up
<1>2a. CASE CrashSaving
  BY <1>2a, ConfigCleaned DEF CrashSaving
<1>3. CASE MainStep
  <2>1. CASE Refuse \/ RefuseConfig
    BY <2>1, ConfigKept DEF Refuse, RefuseConfig
  <2>2. CASE RefuseLate
    BY <2>2, ConfigCleaned DEF RefuseLate
  <2>3. CASE Launch
    BY <2>3, ConfigLaunch
  <2>4. CASE ExitOnError \/ \E w \in DOMAIN phase : SeeProgress(w)
    BY <2>4, ConfigKept DEF ExitOnError, SeeProgress
  <2>5. CASE AllWorkersEnd
    BY <2>5, ConfigKept DEF AllWorkersEnd, Up
  <2>6. CASE Merge
    BY <2>6, ConfigKept DEF Merge
  <2>7. CASE CleanCheckpoints
    BY <2>7 DEF CleanCheckpoints, ConfigInv
  <2> QED BY <1>3, <2>1, <2>2, <2>3, <2>4, <2>5, <2>6, <2>7 DEF MainStep
<1>4. ASSUME NEW w \in DOMAIN phase, WorkerStep(w) \/ RemoveFiles(w) PROVE ConfigInv'
  <2>1. job' = job /\ config' = config /\ saved' = saved /\ main' = main
    BY <1>4 DEF WorkerStep, Setup, Skip, AddItem, AddItemAndClose, Transform, Fail, PassEnd, Conclude,
                ConcludeFails, Flushed, Exit, RemoveFiles
  <2> QED BY <2>1, ConfigKept
<1>5. ASSUME NEW w \in DOMAIN phase, NEW d \in Downloaders, DownloaderStep(w, d) PROVE ConfigInv'
  BY <1>5, ConfigKept DEF DownloaderStep, Download, DownloadEnds, DownloadFails
<1>6. ASSUME NEW w \in DOMAIN phase, NEW u \in Uploaders, UploaderStep(w, u) PROVE ConfigInv'
  <2>1. main \notin {"start", "refused"}
    BY <1>6 DEF OutInv, ShapeInv
  <2>2. job' = job /\ config' = config /\ main' = main
    BY <1>6 DEF UploaderStep, Upload, UploadFails, CopyFails, UploadEnds
  <2> QED BY <2>1, <2>2, ConfigKept
<1> QED BY <1>1, <1>2, <1>2a, <1>3, <1>4, <1>5, <1>6 DEF Next

LEMMA ConfigInit == Init => ConfigInv
BY DEF Init, ConfigInv

LEMMA OutInvariance == Spec => [](OutInv /\ ConfigInv)
BY OutInit, ConfigInit, OutStep, ConfigStep, PTL DEF Spec

\* With one uploader and no failing upload, what a checkpoint lists has been uploaded:
\* a crash at any time loses no chunk, and the next run may start behind them
\* (_try_upload, _upload_fn).
THEOREM CheckpointsAreBacked == Spec => []CheckpointBacked
<1>1. OutInv => CheckpointBacked
  BY DEF OutInv, CheckpointInv, CheckpointBacked, Reliable
<1> QED BY <1>1, OutInvariance, PTL

\* Appending never replaces a chunk that was there, in any order of the uploads and
\* over any number of crashes and restarts (state_dict in optimize).
THEOREM AppendKeepsAll == Spec => []ExistingKept
<1>1. OutInv => ExistingKept
  BY DEF OutInv, AppendInv, ExistingKept
<1> QED BY <1>1, OutInvariance, PTL

-----------------------------------------------------------------------------
(* The items on their way: in the queues of the downloaders and those of the workers. *)

\* Item i waits for its download, or is in the queue of a worker.
Waiting(i) == \E w \in DOMAIN phase : \E d \in Downloaders : \E p \in DOMAIN toDownload[w][d] :
                  toDownload[w][d][p] = i
Offered(i) == \E w \in DOMAIN phase : \E p \in DOMAIN ready[w] : ready[w][p] = i

\* What is put into the queues of the workers.
Tokens == Items \union {None, AllDone}

QueueShape ==
    /\ DOMAIN phase \in {{}, Workers}
    /\ DOMAIN toDownload = DOMAIN phase /\ DOMAIN ready = DOMAIN phase /\ DOMAIN toRemove = DOMAIN phase
    /\ \A w \in DOMAIN phase :
         /\ DOMAIN toDownload[w] = Downloaders
         /\ \A d \in Downloaders : toDownload[w][d] \in Seq(Items)
         /\ ready[w] \in Seq(Tokens) /\ IsSeq(toRemove[w])

\* Every item is at one place of these queues at most.
WaitOnce ==
    \A v, w \in DOMAIN phase : \A d, e \in Downloaders :
    \A p \in DOMAIN toDownload[v][d] : \A q \in DOMAIN toDownload[w][e] :
        toDownload[v][d][p] = toDownload[w][e][q] => v = w /\ d = e /\ p = q
OfferedOnce ==
    \A v, w \in DOMAIN phase : \A p \in DOMAIN ready[v] : \A q \in DOMAIN ready[w] :
        ready[v][p] = ready[w][q] /\ ready[v][p] > 0 => v = w /\ p = q
Queues ==
    /\ QueueShape /\ WaitOnce /\ OfferedOnce
    /\ \A i \in Items : ~(Waiting(i) /\ Offered(i))

\* Inputs are deleted only for an item that is in no queue any more.
RemovedDone ==
    \A w \in DOMAIN phase : \A p \in DOMAIN toRemove[w] :
        toRemove[w][p].kind = "inputs" =>
            \E i \in Items : toRemove[w][p].of = job.files[i] /\ ~Waiting(i) /\ ~Offered(i)

FilesApart == \A i, j \in Items : i # j => job.files[i] \cap job.files[j] = {}
ReadyHere == \A i \in Items : Offered(i) => job.files[i] \subseteq cached

\* A job whose items are downloaded, and split without weights.
Fetched == job.downloaders > 0 /\ job.weights = << >>

FetchInv == Fetched => Queues /\ RemovedDone /\ (FilesApart => ReadyHere)

\* The inductive invariant.  InputsStay alone is not inductive: an item's files are
\* deleted when it was handled, so that no other place may hold the item.
StayInv == OutInv /\ ConfigInv /\ lists \in ListsOf(job) /\ FetchInv

-----------------------------------------------------------------------------
(* The share of a downloader. *)

\* Entry j of downloader d is at no other downloader's and no other place.
LEMMA Spread ==
    ASSUME NEW n \in Nat \ {0}, NEW d \in 0 .. n - 1, NEW e \in 0 .. n - 1,
           NEW j \in Int, NEW k \in Int, j * n + d = k * n + e
    PROVE  j = k /\ d = e
<1>1. ASSUME NEW a \in Int, NEW b \in Int, NEW x \in 0 .. n - 1, NEW y \in 0 .. n - 1,
             a * n + x = b * n + y
      PROVE  ~(a < b)
  <2> SUFFICES ASSUME a < b PROVE FALSE
    OBVIOUS
  <2>1. (a + 1) * n <= b * n
    BY TimesMonotone
  <2>2. (a + 1) * n = a * n + n /\ a * n \in Int /\ b * n \in Int
    BY Times
  <2> QED BY <1>1, <2>1, <2>2
<1>2. j = k
  BY <1>1
<1>3. j * n \in Int
  BY Times
<1> QED BY <1>2, <1>3

LEMMA SpreadOut ==
    ASSUME NEW n \in Nat \ {0}, NEW d \in 0 .. n - 1, NEW e \in 0 .. n - 1,
           NEW j \in Int, NEW k \in Int, (j - 1) * n + d + 1 = (k - 1) * n + e + 1
    PROVE  d = e /\ j = k
<1> DEFINE a == j - 1
           b == k - 1
<1>1. a \in Int /\ b \in Int
  OBVIOUS
<1>2. a * n \in Int /\ b * n \in Int
  BY <1>1, Times
<1>3. a * n + d = b * n + e
  BY <1>2
<1> HIDE DEF a, b
<1>4. a = b /\ d = e
  BY <1>1, <1>3, Spread
<1> QED BY <1>4 DEF a, b

\* The entries of a downloader are entries of the list.
LEMMA InShare ==
    ASSUME NEW n \in Nat \ {0}, NEW len \in Nat, NEW d \in 0 .. n - 1,
           NEW k \in 1 .. (len + n - 1 - d) \div n
    PROVE  (k - 1) * n + d + 1 \in 1 .. len
<1> DEFINE a == len + n - 1 - d
           q == a \div n
<1>1. a \in Nat
  OBVIOUS
<1>2. q \in Nat /\ a % n \in 0 .. n - 1 /\ a = q * n + (a % n)
  BY <1>1, Division, Zenon
<1> HIDE DEF q
<1>3. k \in 1 .. q
  BY DEF q
<1>4. k * n <= q * n
  BY <1>2, <1>3, TimesMonotone
<1>5. k * n = (k - 1) * n + n /\ (k - 1) * n \in Nat /\ q * n \in Int
  <2>1. (k - 1) * n \in Nat
    BY <1>3
  <2> QED BY <1>2, <1>3, <2>1, Times
<1> QED BY <1>2, <1>4, <1>5

\* What is left of a list is a part of it.
LEMMA LeftIs ==
    ASSUME NEW S, NEW w, lists[w] \in Seq(S), NEW chunks, DoneTill(chunks) \in Nat, job.fastDev \in Nat
    PROVE  /\ LeftFor(w, chunks) \in Seq(S)
           /\ \A p \in 1 .. Len(LeftFor(w, chunks)) :
                 /\ DoneTill(chunks) + p \in DOMAIN lists[w]
                 /\ LeftFor(w, chunks)[p] = lists[w][DoneTill(chunks) + p]
<1> DEFINE done == DoneTill(chunks)
           list == lists[w]
           rest == SubSeq(list, done + 1, Len(list))
           left == LeftFor(w, chunks)
<1> HIDE DEF done, list
<1>0. done \in Nat /\ list \in Seq(S) /\ Len(list) \in Nat /\ DOMAIN list = 1 .. Len(list)
  BY DEF done, list
<1>1. /\ rest \in Seq(S)
      /\ Len(rest) \in Nat /\ \A p \in 1 .. Len(rest) : done + p \in DOMAIN list /\ rest[p] = list[done + p]
  BY <1>0
<1> HIDE DEF rest
<1>2. CASE job.fastDev = 0
  <2>1. left = rest
    BY <1>2 DEF LeftFor, FewItems, rest, done, list
  <2> QED BY <1>1, <2>1 DEF done, list
<1>3. CASE job.fastDev # 0
  <2> DEFINE m == Min({job.fastDev, Len(rest)})
  <2>1. m \in Nat /\ m <= Len(rest)
    <3>1. m \in {job.fastDev, Len(rest)} /\ \A y \in {job.fastDev, Len(rest)} : m <= y
      <4>1. \E x \in {job.fastDev, Len(rest)} : \A y \in {job.fastDev, Len(rest)} : x <= y
        BY <1>1
      <4> QED BY <4>1 DEF Min
    <3> QED BY <1>1, <3>1
  <2> HIDE DEF m
  <2>2. left = SubSeq(rest, 1, m)
    BY <1>3 DEF LeftFor, FewItems, rest, done, list, m
  <2>3. left \in Seq(S) /\ Len(left) <= Len(rest) /\ Len(left) \in Nat /\ \A p \in 1 .. Len(left) : left[p] = rest[p]
    BY <1>1, <2>1, <2>2
  <2> QED BY <1>1, <2>3 DEF done, list
<1> QED BY <1>2, <1>3

\* A range of items as a list.
LEMMA RangeIsSeq ==
    ASSUME NEW first \in Nat, NEW last \in Nat, first <= last, NEW S,
           \A p \in 1 .. last - first : first + p \in S
    PROVE  [p \in 1 .. last - first |-> first + p] \in Seq(S)
<1> DEFINE f == [p \in 1 .. last - first |-> first + p]
<1>1. last - first \in Nat
  OBVIOUS
<1>2. f \in [1 .. last - first -> S]
  OBVIOUS
<1> HIDE DEF f
<1>3. f \in Seq(S)
  BY <1>1, <1>2, FunctionIsSeq
<1> QED BY <1>3 DEF f

\* The lists of a job without weights: no item is at two places of them.
LEMMA ListsApart ==
    ASSUME job \in Jobs, lists \in ListsOf(job), job.weights = << >>, ~job.invalid, job.source # "queue"
    PROVE  /\ \A w \in Workers : lists[w] \in Seq(Items)
           /\ \A v, w \in Workers : \A p \in DOMAIN lists[v] : \A q \in DOMAIN lists[w] :
                 lists[v][p] = lists[w][q] => v = w /\ p = q
<1> DEFINE size == IF job.align THEN job.chunkSize ELSE 0
<1>1. lists = Sequentially(job.items, size, job.workers)
  BY DEF ListsOf
<1>2. job.items \in Nat /\ size \in Nat /\ job.workers \in Nat \ {0}
  BY JobAssumption
<1> HIDE DEF size
<1>3. ASSUME NEW w \in Workers PROVE lists[w] \in Seq(Items)
  <2> DEFINE first == FirstItem(job.items, size, job.workers, w)
             last == LastItem(job.items, size, job.workers, w)
  <2>1. w \in 0 .. job.workers - 1
    BY DEF Workers
  <2>2. first \in Nat /\ last \in Nat /\ first <= last
    BY <1>2, <2>1, RangeFacts
  <2>3. last <= job.items
    <3>1. CASE w = job.workers - 1
      BY <1>2, <3>1 DEF LastItem
    <3>2. CASE w # job.workers - 1
      <4>1. w + 1 \in 0 .. job.workers /\ job.workers \in 0 .. job.workers /\ w + 1 <= job.workers
        BY <1>2, <2>1
      <4>2. /\ FirstItem(job.items, size, job.workers, w + 1) <= FirstItem(job.items, size, job.workers, job.workers)
            /\ FirstItem(job.items, size, job.workers, job.workers) <= job.items
            /\ FirstItem(job.items, size, job.workers, job.workers) \in Nat
        BY <1>2, <4>1, FirstItemFacts
      <4>3. last = FirstItem(job.items, size, job.workers, w + 1)
        BY <3>2 DEF LastItem
      <4> QED BY <1>2, <2>2, <4>2, <4>3
    <3> QED BY <3>1, <3>2
  <2>4. lists[w] = [p \in 1 .. last - first |-> first + p]
    BY <1>1, <1>2, <2>1, ListIs
  <2> HIDE DEF first, last
  <2>5. \A p \in 1 .. last - first : first + p \in Items
    BY <1>2, <2>2, <2>3 DEF Items
  <2> QED BY <2>2, <2>4, <2>5, RangeIsSeq, Zenon
<1>4. ASSUME NEW v \in Workers, NEW w \in Workers, NEW p \in DOMAIN lists[v], NEW q \in DOMAIN lists[w],
             lists[v][p] = lists[w][q]
      PROVE  v = w /\ p = q
  <2>1. lists[v][p] \in 1 .. job.items
    <3>1. lists[v] \in Seq(Items)
      BY <1>3
    <3>2. lists[v][p] \in Items
      BY <3>1
    <3> QED BY <3>2 DEF Items
  <2>2. OneHolds(lists, job.workers, lists[v][p])
    BY <1>1, <1>2, <2>1, EveryItemOnce
  <2> QED BY <1>4, <2>2 DEF OneHolds, Workers
<1> QED BY <1>3, <1>4

-----------------------------------------------------------------------------
(* How the queues change. *)

\* What a step leaves of them.
QueuesLater ==
    /\ Queues'
    /\ \A i \in Items : (Waiting(i)' => Waiting(i)) /\ (Offered(i)' => Offered(i))

\* The files waiting to be removed are sequences.
RemoveShape == DOMAIN toRemove' = DOMAIN phase /\ \A w \in DOMAIN phase : IsSeq(toRemove'[w])

LEMMA QueuesSame ==
    ASSUME Queues, UNCHANGED <<job, toDownload>>, DOMAIN phase' = DOMAIN phase, RemoveShape,
           DOMAIN ready' = DOMAIN ready, \A w \in DOMAIN phase : ready'[w] = ready[w]
    PROVE  QueuesLater
<1>1. /\ job' = job /\ toDownload' = toDownload
      /\ DOMAIN ready' = DOMAIN ready /\ \A w \in DOMAIN phase : ready'[w] = ready[w]
      /\ Items' = Items /\ Downloaders' = Downloaders /\ Workers' = Workers /\ Tokens' = Tokens
  BY DEF Items, Downloaders, Workers, Tokens
<1>2. \A i : (Waiting(i)' <=> Waiting(i)) /\ (Offered(i)' <=> Offered(i))
  BY <1>1 DEF Waiting, Offered
<1>3. QueueShape'
  BY <1>1 DEF Queues, QueueShape, RemoveShape
<1>4. WaitOnce' /\ OfferedOnce'
  BY <1>1 DEF Queues, WaitOnce, OfferedOnce
<1> QED BY <1>1, <1>2, <1>3, <1>4 DEF Queues, QueuesLater

\* A token of the end is put into a queue.
LEMMA QueuesToken ==
    ASSUME Queues, UNCHANGED <<job, toDownload>>, DOMAIN phase' = DOMAIN phase, RemoveShape,
           NEW q \in DOMAIN phase, NEW x \in {None, AllDone},
           ready' = [ready EXCEPT ![q] = Append(@, x)]
    PROVE  QueuesLater
<1>1. /\ job' = job /\ toDownload' = toDownload
      /\ Items' = Items /\ Downloaders' = Downloaders /\ Workers' = Workers /\ Tokens' = Tokens
  BY DEF Items, Downloaders, Workers, Tokens
<1>2. /\ DOMAIN ready' = DOMAIN phase
      /\ ready'[q] = Append(ready[q], x) /\ \A w \in DOMAIN phase \ {q} : ready'[w] = ready[w]
      /\ \A w \in DOMAIN phase : ready[w] \in Seq(Tokens)
  BY DEF Queues, QueueShape
<1>3. x \in Tokens /\ ~(x > 0) /\ x \notin Items
  BY DEF Tokens, None, AllDone, Items
<1>4. /\ ready'[q] \in Seq(Tokens)
      /\ \A p \in DOMAIN ready'[q] : ready'[q][p] = x \/ (p \in DOMAIN ready[q] /\ ready'[q][p] = ready[q][p])
  BY <1>2, <1>3
<1>5. \A w \in DOMAIN phase : \A p \in DOMAIN ready'[w] :
          ready'[w][p] = x \/ (p \in DOMAIN ready[w] /\ ready'[w][p] = ready[w][p])
  BY <1>2, <1>4
<1>6. \A i \in Items : (Waiting(i)' <=> Waiting(i)) /\ (Offered(i)' => Offered(i))
  BY <1>1, <1>3, <1>5 DEF Waiting, Offered
<1>7. \A w \in DOMAIN phase : ready'[w] \in Seq(Tokens)
  BY <1>2, <1>4
<1>8. QueueShape'
  BY <1>1, <1>2, <1>7 DEF Queues, QueueShape, RemoveShape
<1>9. WaitOnce'
  BY <1>1 DEF Queues, WaitOnce
<1>10. OfferedOnce'
  BY <1>3, <1>5 DEF Queues, OfferedOnce
<1> QED BY <1>1, <1>6, <1>8, <1>9, <1>10 DEF Queues, QueuesLater

\* The first of a queue is taken; if it is an item, it is in no queue any more.
LEMMA QueuesTaken ==
    ASSUME Queues, UNCHANGED <<job, toDownload>>, DOMAIN phase' = DOMAIN phase, RemoveShape,
           NEW q \in DOMAIN phase, ready[q] # << >>, ready' = [ready EXCEPT ![q] = Tail(@)]
    PROVE  /\ QueuesLater
           /\ Head(ready[q]) > 0 => Head(ready[q]) \in Items
           /\ \A i \in Items : i = Head(ready[q]) => ~Waiting(i)' /\ ~Offered(i)'
<1> DEFINE h == Head(ready[q])
<1>1. /\ job' = job /\ toDownload' = toDownload
      /\ Items' = Items /\ Downloaders' = Downloaders /\ Workers' = Workers /\ Tokens' = Tokens
  BY DEF Items, Downloaders, Workers, Tokens
<1>2. /\ DOMAIN ready' = DOMAIN phase
      /\ ready'[q] = Tail(ready[q]) /\ \A w \in DOMAIN phase \ {q} : ready'[w] = ready[w]
      /\ \A w \in DOMAIN phase : ready[w] \in Seq(Tokens)
  BY DEF Queues, QueueShape
<1>3. /\ ready'[q] \in Seq(Tokens) /\ h \in Tokens /\ 1 \in DOMAIN ready[q] /\ h = ready[q][1]
      /\ \A p \in DOMAIN ready'[q] : /\ p \in Nat /\ p + 1 \in DOMAIN ready[q] /\ p + 1 # 1
                                     /\ ready'[q][p] = ready[q][p + 1]
  BY <1>2
<1> HIDE DEF h
<1>4. \A w \in DOMAIN phase : \A p \in DOMAIN ready'[w] : \E k \in DOMAIN ready[w] :
          /\ ready'[w][p] = ready[w][k] /\ (w = q => k = p + 1 /\ k # 1 /\ p \in Nat) /\ (w # q => k = p)
  BY <1>2, <1>3
<1>5. \A i \in Items : (Waiting(i)' <=> Waiting(i)) /\ (Offered(i)' => Offered(i))
  BY <1>1, <1>4 DEF Waiting, Offered
<1>6. \A w \in DOMAIN phase : ready'[w] \in Seq(Tokens)
  BY <1>2, <1>3
<1>7. QueueShape'
  BY <1>1, <1>2, <1>6 DEF Queues, QueueShape, RemoveShape
<1>8. WaitOnce'
  BY <1>1 DEF Queues, WaitOnce
<1>9. OfferedOnce'
  <2> SUFFICES ASSUME NEW v \in DOMAIN phase, NEW w \in DOMAIN phase,
                      NEW p \in DOMAIN ready'[v], NEW r \in DOMAIN ready'[w],
                      ready'[v][p] = ready'[w][r], ready'[v][p] > 0
               PROVE  v = w /\ p = r
    BY DEF OfferedOnce
  <2>1. PICK k \in DOMAIN ready[v] : /\ ready'[v][p] = ready[v][k]
                                     /\ (v = q => k = p + 1 /\ p \in Nat) /\ (v # q => k = p)
    BY <1>4
  <2>2. PICK l \in DOMAIN ready[w] : /\ ready'[w][r] = ready[w][l]
                                     /\ (w = q => l = r + 1 /\ r \in Nat) /\ (w # q => l = r)
    BY <1>4
  <2>3. v = w /\ k = l
    BY <2>1, <2>2 DEF Queues, OfferedOnce
  <2> QED BY <2>1, <2>2, <2>3
<1>10. QueuesLater
  BY <1>1, <1>5, <1>7, <1>8, <1>9 DEF Queues, QueuesLater
<1>11. h > 0 => h \in Items
  BY <1>3 DEF Tokens, None, AllDone
<1>12. ASSUME NEW i \in Items, i = h PROVE ~Waiting(i)' /\ ~Offered(i)'
  <2>1. Offered(i) /\ i > 0
    BY <1>3, <1>12 DEF Offered, Items
  <2>2. ~Waiting(i)'
    BY <1>5, <2>1 DEF Queues
  <2>3. ~Offered(i)'
    <3> SUFFICES ASSUME NEW w \in DOMAIN phase, NEW p \in DOMAIN ready'[w], ready'[w][p] = i
                 PROVE  FALSE
      BY DEF Offered
    <3>1. PICK k \in DOMAIN ready[w] : ready'[w][p] = ready[w][k] /\ (w = q => k # 1)
      BY <1>4
    <3> QED BY <1>3, <1>12, <2>1, <3>1 DEF Queues, OfferedOnce
  <2> QED BY <2>2, <2>3
<1> QED BY <1>10, <1>11, <1>12 DEF h

\* What is left of the invariant, once the queues are as they should be.
LEMMA FetchedOn ==
    ASSUME FetchInv, Fetched, UNCHANGED job, DOMAIN phase' = DOMAIN phase, QueuesLater,
           cached \subseteq cached',
           \A w \in DOMAIN phase : \A p \in DOMAIN toRemove'[w] :
               \/ toRemove'[w][p].kind # "inputs"
               \/ \E i \in Items : toRemove'[w][p].of = job.files[i] /\ ~Waiting(i)' /\ ~Offered(i)'
    PROVE  FetchInv'
<1>1. Items' = Items
  BY DEF Items
<1>2. RemovedDone'
  BY <1>1 DEF RemovedDone
<1>3. FilesApart' => ReadyHere'
  BY <1>1 DEF FilesApart, ReadyHere, QueuesLater, FetchInv
<1> QED BY <1>2, <1>3 DEF FetchInv, QueuesLater

\* A step that hands nothing to the remover.
LEMMA FetchedSame ==
    ASSUME FetchInv, Fetched, UNCHANGED <<job, toRemove>>, DOMAIN phase' = DOMAIN phase, QueuesLater,
           cached \subseteq cached'
    PROVE  FetchInv'
<1>1. RemovedDone
  BY DEF FetchInv
<1>2. \A w \in DOMAIN phase : \A p \in DOMAIN toRemove'[w] :
          \/ toRemove'[w][p].kind # "inputs"
          \/ \E i \in Items : toRemove'[w][p].of = job.files[i] /\ ~Waiting(i)' /\ ~Offered(i)'
  BY <1>1 DEF RemovedDone, QueuesLater
<1> QED BY <1>2, FetchedOn

\* A step that hands the message m to the remover of w.
LEMMA FetchedHanded ==
    ASSUME FetchInv, Fetched, UNCHANGED <<job, cached>>, DOMAIN phase' = DOMAIN phase, QueuesLater,
           NEW w \in DOMAIN phase, NEW m, toRemove' = [toRemove EXCEPT ![w] = Append(@, m)],
           \/ m.kind # "inputs"
           \/ \E i \in Items : m.of = job.files[i] /\ ~Waiting(i)' /\ ~Offered(i)'
    PROVE  FetchInv'
<1>1. RemovedDone /\ DOMAIN toRemove = DOMAIN phase /\ IsSeq(toRemove[w])
  BY DEF FetchInv, Queues, QueueShape
<1>2. \A v \in DOMAIN phase : toRemove'[v] = IF v = w THEN Append(toRemove[w], m) ELSE toRemove[v]
  BY <1>1
<1>3. \A p \in DOMAIN toRemove'[w] :
          toRemove'[w][p] = m \/ (p \in DOMAIN toRemove[w] /\ toRemove'[w][p] = toRemove[w][p])
  <2>1. /\ IsSeq(toRemove'[w]) /\ Len(toRemove'[w]) = Len(toRemove[w]) + 1 /\ Len(toRemove[w]) \in Nat
        /\ DOMAIN toRemove'[w] = 1 .. Len(toRemove'[w]) /\ DOMAIN toRemove[w] = 1 .. Len(toRemove[w])
        /\ \A p \in 1 .. Len(toRemove[w]) : toRemove'[w][p] = toRemove[w][p]
        /\ toRemove'[w][Len(toRemove[w]) + 1] = m
    BY <1>1, <1>2, SeqFacts, AppendFacts
  <2> QED BY <2>1
<1>4. \A v \in DOMAIN phase : \A p \in DOMAIN toRemove[v] :
          \/ toRemove[v][p].kind # "inputs"
          \/ \E i \in Items : toRemove[v][p].of = job.files[i] /\ ~Waiting(i)' /\ ~Offered(i)'
  BY <1>1 DEF RemovedDone, QueuesLater
<1>5. \A v \in DOMAIN phase : \A p \in DOMAIN toRemove'[v] :
          \/ toRemove'[v][p].kind # "inputs"
          \/ \E i \in Items : toRemove'[v][p].of = job.files[i] /\ ~Waiting(i)' /\ ~Offered(i)'
  BY <1>2, <1>3, <1>4
<1> QED BY <1>5, FetchedOn

LEMMA HandedShape ==
    ASSUME Queues, NEW w \in DOMAIN phase, NEW m, toRemove' = [toRemove EXCEPT ![w] = Append(@, m)]
    PROVE  RemoveShape
BY AppendFacts DEF Queues, QueueShape, RemoveShape

LEMMA SameShape ==
    ASSUME Queues, UNCHANGED toRemove
    PROVE  RemoveShape
BY DEF Queues, QueueShape, RemoveShape

-----------------------------------------------------------------------------
(* The steps. *)

LEMMA QueueOfWorker ==
    ASSUME Queues, ShapeInv, NEW w \in DOMAIN phase
    PROVE  QueueOf(w) \in DOMAIN phase /\ 0 \in DOMAIN phase
<1>1. job.workers \in Nat \ {0}
  BY JobFacts
<1>2. 0 \in Workers
  BY <1>1 DEF Workers
<1> QED BY <1>2 DEF Queues, QueueShape, QueueOf

\* The files are there before the item is passed on.
LEMMA DownloadFetches ==
    ASSUME FetchInv, Fetched, ShapeInv, NEW w \in DOMAIN phase, NEW d \in Downloaders, Download(w, d)
    PROVE  FetchInv'
<1> DEFINE q == QueueOf(w)
           h == Head(toDownload[w][d])
<1>1. /\ job' = job /\ phase' = phase /\ toRemove' = toRemove
      /\ Items' = Items /\ Downloaders' = Downloaders /\ Workers' = Workers /\ Tokens' = Tokens
      /\ toDownload[w][d] # << >>
      /\ cached' = cached \union job.files[h]
      /\ ready' = [ready EXCEPT ![q] = Append(@, h)]
      /\ toDownload' = [toDownload EXCEPT ![w][d] = Tail(@)]
  BY DEF Download, jobVars, uploadVars, Items, Downloaders, Workers, Tokens
<1>2. Queues /\ q \in DOMAIN phase
  BY QueueOfWorker DEF FetchInv
<1>3. /\ DOMAIN phase \in {{}, Workers}
      /\ DOMAIN toDownload = DOMAIN phase /\ DOMAIN ready = DOMAIN phase /\ DOMAIN toRemove = DOMAIN phase
      /\ \A v \in DOMAIN phase :
         /\ DOMAIN toDownload[v] = Downloaders
         /\ \A e \in Downloaders : toDownload[v][e] \in Seq(Items)
         /\ ready[v] \in Seq(Tokens) /\ IsSeq(toRemove[v])
  BY <1>2 DEF Queues, QueueShape
<1>4. /\ h \in Items /\ 1 \in DOMAIN toDownload[w][d] /\ toDownload[w][d][1] = h
      /\ Tail(toDownload[w][d]) \in Seq(Items)
      /\ \A p \in DOMAIN Tail(toDownload[w][d]) :
            p \in Nat /\ p + 1 \in DOMAIN toDownload[w][d] /\ p + 1 # 1
            /\ Tail(toDownload[w][d])[p] = toDownload[w][d][p + 1]
  BY <1>1, <1>3
<1> HIDE DEF q, h
<1>5. /\ DOMAIN toDownload' = DOMAIN phase
      /\ \A v \in DOMAIN phase : DOMAIN toDownload'[v] = Downloaders
      /\ \A v \in DOMAIN phase : \A e \in Downloaders :
            toDownload'[v][e] = IF v = w /\ e = d THEN Tail(toDownload[w][d]) ELSE toDownload[v][e]
  BY <1>1, <1>3
<1>6. /\ DOMAIN ready' = DOMAIN phase
      /\ \A v \in DOMAIN phase : ready'[v] = IF v = q THEN Append(ready[q], h) ELSE ready[v]
  BY <1>1, <1>3
<1>7. \A v \in DOMAIN phase : \A e \in Downloaders : \A p \in DOMAIN toDownload'[v][e] :
          \E k \in DOMAIN toDownload[v][e] :
             /\ toDownload'[v][e][p] = toDownload[v][e][k]
             /\ (v = w /\ e = d => k = p + 1 /\ k # 1 /\ p \in Nat) /\ (~(v = w /\ e = d) => k = p)
  <2> TAKE v \in DOMAIN phase
  <2> TAKE e \in Downloaders
  <2>1. CASE v = w /\ e = d
    <3>1. toDownload'[v][e] = Tail(toDownload[w][d])
      BY <1>5, <2>1
    <3> QED BY <1>4, <2>1, <3>1
  <2>2. CASE ~(v = w /\ e = d)
    <3>1. toDownload'[v][e] = toDownload[v][e]
      BY <1>5, <2>2
    <3> QED BY <2>2, <3>1
  <2> QED BY <2>1, <2>2
<1>8. h \in Tokens /\ h > 0 /\ Waiting(h)
  BY <1>4 DEF Tokens, Items, Waiting
<1>9. /\ Append(ready[q], h) \in Seq(Tokens)
      /\ \A p \in DOMAIN Append(ready[q], h) :
            \/ Append(ready[q], h)[p] = h /\ p = Len(ready[q]) + 1
            \/ p \in DOMAIN ready[q] /\ Append(ready[q], h)[p] = ready[q][p]
  BY <1>2, <1>3, <1>8
<1>10. \A v \in DOMAIN phase : \A p \in DOMAIN ready'[v] :
            \/ v = q /\ ready'[v][p] = h /\ p = Len(ready[q]) + 1
            \/ p \in DOMAIN ready[v] /\ ready'[v][p] = ready[v][p]
  BY <1>6, <1>9
<1>11. ~Offered(h)
  BY <1>2, <1>4, <1>8 DEF Queues
<1>12. ASSUME NEW i \in Items, Waiting(i)' PROVE Waiting(i) /\ i # h
  <2>1. PICK v \in DOMAIN phase, e \in Downloaders : \E p \in DOMAIN toDownload'[v][e] : toDownload'[v][e][p] = i
    BY <1>1, <1>12 DEF Waiting
  <2>2. PICK p \in DOMAIN toDownload'[v][e] : toDownload'[v][e][p] = i
    BY <2>1
  <2>3. PICK k \in DOMAIN toDownload[v][e] : toDownload[v][e][k] = i /\ (v = w /\ e = d => k # 1)
    BY <1>7, <2>2
  <2>4. i # h
    BY <1>2, <1>4, <2>3 DEF Queues, WaitOnce
  <2> QED BY <2>3, <2>4 DEF Waiting
<1>13. ASSUME NEW i \in Items, Offered(i)' PROVE Offered(i) \/ i = h
  BY <1>1, <1>10, <1>13 DEF Offered
<1>14. QueueShape'
  <2>1. \A v \in DOMAIN phase : ready'[v] \in Seq(Tokens)
    BY <1>3, <1>6, <1>9
  <2>2. \A v \in DOMAIN phase : \A e \in Downloaders : toDownload'[v][e] \in Seq(Items)
    BY <1>3, <1>4, <1>5
  <2> QED BY <1>1, <1>3, <1>5, <1>6, <2>1, <2>2 DEF QueueShape
<1>15. WaitOnce'
  <2>1. WaitOnce
    BY <1>2 DEF Queues
  <2>2. ASSUME NEW u \in DOMAIN phase, NEW v \in DOMAIN phase, NEW c \in Downloaders, NEW e \in Downloaders
        PROVE  \A p \in DOMAIN toDownload'[u][c] : \A r \in DOMAIN toDownload'[v][e] :
                   toDownload'[u][c][p] = toDownload'[v][e][r] => u = v /\ c = e /\ p = r
    <3>1. \A k \in DOMAIN toDownload[u][c] : \A l \in DOMAIN toDownload[v][e] :
              toDownload[u][c][k] = toDownload[v][e][l] => u = v /\ c = e /\ k = l
      BY <2>1 DEF WaitOnce
    <3>2. CASE u = w /\ c = d /\ v = w /\ e = d
      <4>1. toDownload'[u][c] = Tail(toDownload[w][d]) /\ toDownload'[v][e] = Tail(toDownload[w][d])
        BY <1>5, <3>2
      <4>2. \A k \in DOMAIN toDownload[u][c] : \A l \in DOMAIN toDownload[v][e] :
              toDownload[u][c][k] = toDownload[v][e][l] => u = v /\ c = e /\ k = l
        BY <3>1
      <4> QED BY <1>4, <3>2, <4>1, <4>2
    <3>3. CASE u = w /\ c = d /\ ~(v = w /\ e = d)
      <4>1. toDownload'[u][c] = Tail(toDownload[w][d]) /\ toDownload'[v][e] = toDownload[v][e]
        BY <1>5, <3>3
      <4>2. \A k \in DOMAIN toDownload[u][c] : \A l \in DOMAIN toDownload[v][e] :
              toDownload[u][c][k] = toDownload[v][e][l] => u = v /\ c = e /\ k = l
        BY <3>1
      <4> QED BY <1>4, <3>3, <4>1, <4>2
    <3>4. CASE ~(u = w /\ c = d) /\ v = w /\ e = d
      <4>1. toDownload'[u][c] = toDownload[u][c] /\ toDownload'[v][e] = Tail(toDownload[w][d])
        BY <1>5, <3>4
      <4>2. \A k \in DOMAIN toDownload[u][c] : \A l \in DOMAIN toDownload[v][e] :
              toDownload[u][c][k] = toDownload[v][e][l] => u = v /\ c = e /\ k = l
        BY <3>1
      <4> QED BY <1>4, <3>4, <4>1, <4>2
    <3>5. CASE ~(u = w /\ c = d) /\ ~(v = w /\ e = d)
      <4>1. toDownload'[u][c] = toDownload[u][c] /\ toDownload'[v][e] = toDownload[v][e]
        BY <1>5, <3>5
      <4> QED BY <3>1, <4>1
    <3> QED BY <3>2, <3>3, <3>4, <3>5
  <2> QED BY <1>1, <2>2 DEF WaitOnce
<1>16. OfferedOnce'
  <2> SUFFICES ASSUME NEW u \in DOMAIN phase, NEW v \in DOMAIN phase,
                      NEW p \in DOMAIN ready'[u], NEW r \in DOMAIN ready'[v],
                      ready'[u][p] = ready'[v][r], ready'[u][p] > 0
               PROVE  u = v /\ p = r
    BY <1>1 DEF OfferedOnce
  <2>1. CASE ready'[u][p] = h
    <3>1. \A x \in DOMAIN phase : \A k \in DOMAIN ready[x] : ready[x][k] # h
      BY <1>11 DEF Offered
    <3>2. u = q /\ p = Len(ready[q]) + 1
      BY <1>10, <2>1, <3>1
    <3>3. v = q /\ r = Len(ready[q]) + 1
      BY <1>10, <2>1, <3>1
    <3> QED BY <3>2, <3>3
  <2>2. CASE ready'[u][p] # h
    BY <1>2, <1>10, <2>2 DEF Queues, OfferedOnce
  <2> QED BY <2>1, <2>2
<1>17. Queues'
  <2>1. \A i \in Items : ~(Waiting(i)' /\ Offered(i)')
    BY <1>2, <1>12, <1>13 DEF Queues
  <2> QED BY <1>1, <1>14, <1>15, <1>16, <2>1 DEF Queues
<1>18. RemovedDone'
  <2>1. \A i \in Items : ~Waiting(i) /\ ~Offered(i) => ~Waiting(i)' /\ ~Offered(i)'
    BY <1>8, <1>12, <1>13
  <2> QED BY <1>1, <2>1 DEF RemovedDone, FetchInv
<1>19. FilesApart' => ReadyHere'
  BY <1>1, <1>13 DEF FilesApart, ReadyHere, FetchInv
<1> QED BY <1>17, <1>18, <1>19 DEF FetchInv

\* What the remover deletes belongs to no item that is in a queue.
LEMMA RemoveFetches ==
    ASSUME FetchInv, Fetched, NEW w \in DOMAIN phase, RemoveFiles(w)
    PROVE  FetchInv'
<1> DEFINE m == Head(toRemove[w])
<1>1. /\ job' = job /\ phase' = phase /\ toDownload' = toDownload /\ ready' = ready
      /\ Items' = Items /\ toRemove[w] # << >>
      /\ cached' = IF m.kind = "inputs" THEN cached \ m.of ELSE cached
      /\ toRemove' = [toRemove EXCEPT ![w] = Tail(@)]
  BY DEF RemoveFiles, jobVars, queueVars, Items
<1>2. /\ Queues /\ RemovedDone /\ DOMAIN toRemove = DOMAIN phase
      /\ \A v \in DOMAIN phase : IsSeq(toRemove[v])
  BY DEF FetchInv, Queues, QueueShape
<1>3. /\ IsSeq(Tail(toRemove[w])) /\ 1 \in DOMAIN toRemove[w] /\ m = toRemove[w][1]
      /\ \A p \in DOMAIN Tail(toRemove[w]) : p + 1 \in DOMAIN toRemove[w] /\ Tail(toRemove[w])[p] = toRemove[w][p + 1]
  <2>1. /\ IsSeq(toRemove[w]) /\ IsSeq(Tail(toRemove[w]))
        /\ Len(Tail(toRemove[w])) = Len(toRemove[w]) - 1 /\ Len(toRemove[w]) \in Nat \ {0}
        /\ \A p \in 1 .. Len(toRemove[w]) - 1 : Tail(toRemove[w])[p] = toRemove[w][p + 1]
        /\ m = toRemove[w][1]
    BY <1>1, <1>2, TailFacts
  <2>2. /\ DOMAIN toRemove[w] = 1 .. Len(toRemove[w])
        /\ DOMAIN Tail(toRemove[w]) = 1 .. Len(Tail(toRemove[w]))
    BY <2>1, SeqFacts
  <2> HIDE DEF m
  <2> QED BY <2>1, <2>2
<1> HIDE DEF m
<1>4. \A v \in DOMAIN phase : toRemove'[v] = IF v = w THEN Tail(toRemove[w]) ELSE toRemove[v]
  BY <1>1, <1>2
<1>5. RemoveShape
  BY <1>1, <1>2, <1>3, <1>4 DEF RemoveShape
<1>6. QueuesLater
  BY <1>1, <1>2, <1>5, QueuesSame
<1>7. \A v \in DOMAIN phase : \A p \in DOMAIN toRemove'[v] : \E k \in DOMAIN toRemove[v] :
          toRemove'[v][p] = toRemove[v][k]
  BY <1>3, <1>4
<1>8. RemovedDone'
  BY <1>1, <1>2, <1>6, <1>7 DEF RemovedDone, QueuesLater
<1>9. FilesApart' => ReadyHere'
  <2> SUFFICES ASSUME FilesApart, NEW j \in Items, Offered(j)' PROVE job.files[j] \subseteq cached'
    BY <1>1 DEF FilesApart, ReadyHere
  <2>1. Offered(j) /\ job.files[j] \subseteq cached
    BY <1>6 DEF QueuesLater, ReadyHere, FetchInv
  <2>2. CASE m.kind = "inputs"
    <3>1. PICK i \in Items : m.of = job.files[i] /\ ~Offered(i)
      BY <1>2, <1>3, <2>2 DEF RemovedDone
    <3>2. job.files[i] \cap job.files[j] = {}
      BY <2>1, <3>1 DEF FilesApart
    <3> QED BY <1>1, <2>1, <3>1, <3>2
  <2>3. CASE m.kind # "inputs"
    BY <1>1, <2>1, <2>3
  <2> QED BY <2>2, <2>3
<1> QED BY <1>6, <1>8, <1>9 DEF FetchInv, QueuesLater

\* The items are dealt out to the downloaders, and nothing else has happened yet.
LEMMA LaunchFetches ==
    ASSUME StayInv, Fetched, Launch
    PROVE  FetchInv'
<1> USE DEF jobVars, launchVars
<1> DEFINE n == job.downloaders
           left(w) == LeftFor(w, Loaded(w))
           size(w, d) == (Len(left(w)) + n - 1 - d) \div n
           at(d, k) == (k - 1) * n + d + 1
<1>1. /\ job' = job /\ lists' = lists /\ job \in Jobs /\ ~job.invalid
      /\ Items' = Items /\ Downloaders' = Downloaders /\ Workers' = Workers /\ Tokens' = Tokens
      /\ LeftFor(0, << >>)' = LeftFor(0, << >>)
  BY DEF StayInv, OutInv, ShapeInv, Launch, Items, Downloaders, Workers, Tokens, LeftFor, FewItems
<1>2. /\ n \in Nat \ {0} /\ job.fastDev \in Nat /\ job.source # "queue"
  BY <1>1, JobAssumption DEF Fetched
<1>3. /\ DOMAIN phase' = Workers /\ DOMAIN toDownload' = Workers /\ DOMAIN ready' = Workers
      /\ DOMAIN toRemove' = Workers
      /\ \A w \in Workers : ready'[w] = << >> /\ toRemove'[w] = << >> /\ DOMAIN toDownload'[w] = Downloaders
      /\ \A w \in Workers : \A d \in Downloaders :
            toDownload'[w][d] = [k \in 1 .. size(w, d) |-> left(w)[at(d, k)]]
  BY <1>2 DEF Launch, Fresh, NewWorkers
<1>4. ASSUME NEW w \in Workers
      PROVE  /\ left(w) \in Seq(Items) /\ DoneTill(Loaded(w)) \in Nat
             /\ \A p \in 1 .. Len(left(w)) : /\ DoneTill(Loaded(w)) + p \in DOMAIN lists[w]
                                             /\ left(w)[p] = lists[w][DoneTill(Loaded(w)) + p]
  <2>1. OutInv'
    BY LaunchStep DEF StayInv
  <2>2. Listed(w, Loaded(w), Start(existing', w))
    <3>1. Start(existing', w) \in Nat /\ Listed(w, saved'[w], Start(existing', w))
      BY <1>1, <2>1, StartFacts DEF OutInv, AppendInv, CheckpointInv
    <3>2. Loaded(w) \in {saved'[w], << >>}
      BY DEF Loaded
    <3> QED BY <3>1, <3>2, ListedEmpty
  <2>3. DoneTill(Loaded(w)) \in Nat
    BY <2>2, ListedDone
  <2>4. lists[w] \in Seq(Items)
    BY <1>1, <1>2, ListsApart DEF StayInv, Fetched
  <2> QED BY <1>2, <2>3, <2>4, LeftIs
<1>5. \A w \in Workers : left(w) \in Seq(Items) /\ Len(left(w)) \in Nat
  BY <1>4
<1>6. ASSUME NEW v \in Workers, NEW w \in Workers, NEW p \in 1 .. Len(left(v)), NEW q \in 1 .. Len(left(w)),
             left(v)[p] = left(w)[q]
      PROVE  v = w /\ p = q
  <2>1. /\ DoneTill(Loaded(v)) + p \in DOMAIN lists[v] /\ left(v)[p] = lists[v][DoneTill(Loaded(v)) + p]
        /\ DoneTill(Loaded(w)) + q \in DOMAIN lists[w] /\ left(w)[q] = lists[w][DoneTill(Loaded(w)) + q]
        /\ DoneTill(Loaded(v)) \in Nat /\ DoneTill(Loaded(w)) \in Nat
    BY <1>4
  <2>2. v = w /\ DoneTill(Loaded(v)) + p = DoneTill(Loaded(w)) + q
    <3>1. \A a \in DOMAIN lists[v] : \A b \in DOMAIN lists[w] : lists[v][a] = lists[w][b] => v = w /\ a = b
      BY <1>1, <1>2, ListsApart DEF StayInv, Fetched
    <3>2. lists[v][DoneTill(Loaded(v)) + p] = lists[w][DoneTill(Loaded(w)) + q]
      BY <1>6, <2>1, Zenon
    <3> QED BY <2>1, <3>1, <3>2, Zenon
  <2>3. p \in Int /\ q \in Int
    BY <1>5
  <2> QED BY <2>1, <2>2, <2>3
<1> HIDE DEF left
<1>7. ASSUME NEW w \in Workers, NEW d \in Downloaders
      PROVE  /\ size(w, d) \in Nat /\ d \in 0 .. n - 1
             /\ \A k \in 1 .. size(w, d) : at(d, k) \in 1 .. Len(left(w)) /\ k \in Int
  <2>1. d \in 0 .. n - 1 /\ Len(left(w)) \in Nat
    BY <1>5 DEF Downloaders
  <2>2. Len(left(w)) + n - 1 - d \in Nat
    BY <1>2, <2>1
  <2>3. size(w, d) \in Nat
    BY <1>2, <2>2, Division
  <2>4. \A k \in 1 .. size(w, d) : at(d, k) \in 1 .. Len(left(w))
    BY <1>2, <2>1, InShare
  <2> HIDE DEF size
  <2> QED BY <2>1, <2>3, <2>4
<1>8. ASSUME NEW d \in 0 .. n - 1, NEW e \in 0 .. n - 1, NEW j \in Int, NEW k \in Int, at(d, j) = at(e, k)
      PROVE  d = e /\ j = k
  <2>1. (j - 1) * n + d + 1 = (k - 1) * n + e + 1
    BY <1>8
  <2> HIDE DEF n
  <2> QED BY <1>2, <2>1, SpreadOut
<1> HIDE DEF size, at
<1>9. ASSUME NEW w \in Workers, NEW d \in Downloaders
      PROVE  toDownload'[w][d] \in Seq(Items)
  <2>1. size(w, d) \in Nat /\ \A k \in 1 .. size(w, d) : left(w)[at(d, k)] \in Items
    BY <1>5, <1>7
  <2> DEFINE f == toDownload'[w][d]
  <2>2. f = [k \in 1 .. size(w, d) |-> left(w)[at(d, k)]]
    BY <1>3
  <2> HIDE DEF f
  <2>3. f = [k \in 1 .. size(w, d) |-> f[k]] /\ \A k \in 1 .. size(w, d) : f[k] \in Items
    BY <2>1, <2>2
  <2>4. f \in [1 .. size(w, d) -> Items]
    BY <2>3
  <2>5. f \in Seq(Items)
    BY <2>1, <2>4, FunctionIsSeq
  <2> QED BY <2>5 DEF f
<1>10. QueueShape'
  <2>1. << >> \in Seq(Tokens)
    OBVIOUS
  <2> QED BY <1>1, <1>3, <1>9, <2>1, EmptyIsSeq DEF QueueShape
<1>11. WaitOnce'
  <2>1. ASSUME NEW v \in Workers, NEW w \in Workers, NEW d \in Downloaders, NEW e \in Downloaders
        PROVE  \A p \in DOMAIN toDownload'[v][d] : \A q \in DOMAIN toDownload'[w][e] :
                  toDownload'[v][d][p] = toDownload'[w][e][q] => v = w /\ d = e /\ p = q
    <3>1. /\ toDownload'[v][d] = [k \in 1 .. size(v, d) |-> left(v)[at(d, k)]]
          /\ toDownload'[w][e] = [k \in 1 .. size(w, e) |-> left(w)[at(e, k)]]
      BY <1>3
    <3>2. ASSUME NEW p \in 1 .. size(v, d), NEW q \in 1 .. size(w, e), left(v)[at(d, p)] = left(w)[at(e, q)]
          PROVE  v = w /\ d = e /\ p = q
      <4>1. /\ at(d, p) \in 1 .. Len(left(v)) /\ at(e, q) \in 1 .. Len(left(w))
            /\ p \in Int /\ q \in Int /\ d \in 0 .. n - 1 /\ e \in 0 .. n - 1
        BY <1>7
      <4>2. v = w /\ at(d, p) = at(e, q)
        BY <1>6, <3>2, <4>1
      <4> QED BY <1>8, <4>1, <4>2
    <3> QED BY <3>1, <3>2
  <2> QED BY <1>1, <1>3, <2>1 DEF WaitOnce
<1>12. \A w \in Workers : DOMAIN ready'[w] = {} /\ DOMAIN toRemove'[w] = {}
  BY <1>3
<1>13. OfferedOnce' /\ RemovedDone' /\ \A i : ~Offered(i)'
  BY <1>3, <1>12 DEF OfferedOnce, RemovedDone, Offered
<1> QED BY <1>10, <1>11, <1>13 DEF FetchInv, Queues, ReadyHere

\* A worker has handled the item that was the first of its queue.
LEMMA HandledFetches ==
    ASSUME FetchInv, Fetched, ShapeInv, NEW w \in DOMAIN phase, HasItem(w), Handled(w, Next1(w)),
           UNCHANGED <<job, phase, toDownload, cached>>
    PROVE  FetchInv'
<1> DEFINE q == QueueOf(w)
           m == [kind |-> "inputs", of |-> job.files[Next1(w)]]
<1>1. /\ Queues /\ q \in DOMAIN phase
      /\ ready[q] # << >> /\ Next1(w) = Head(ready[q]) /\ Next1(w) > 0
      /\ ready' = [ready EXCEPT ![q] = Tail(@)]
      /\ toRemove' = [toRemove EXCEPT ![w] = Append(@, m)]
  BY QueueOfWorker DEF FetchInv, HasItem, Next1, Handled, Fetched
<1> HIDE DEF q
<1>2. RemoveShape
  BY <1>1, HandedShape
<1>3. /\ QueuesLater /\ Next1(w) \in Items
      /\ \A i \in Items : i = Next1(w) => ~Waiting(i)' /\ ~Offered(i)'
  BY <1>1, <1>2, QueuesTaken
<1>4. \E i \in Items : m.of = job.files[i] /\ ~Waiting(i)' /\ ~Offered(i)'
  BY <1>3
<1> HIDE DEF m
<1> QED BY <1>1, <1>3, <1>4, FetchedHanded

LEMMA StayInit == Init => StayInv
<1> SUFFICES ASSUME Init PROVE StayInv
  OBVIOUS
<1>1. OutInv /\ ConfigInv
  BY OutInit, ConfigInit
<1>2. /\ DOMAIN phase = {} /\ DOMAIN toDownload = {} /\ DOMAIN ready = {} /\ DOMAIN toRemove = {}
      /\ lists \in ListsOf(job)
  BY DEF Init
<1>3. FetchInv
  BY <1>2 DEF FetchInv, Queues, QueueShape, WaitOnce, OfferedOnce, RemovedDone, ReadyHere, Waiting, Offered
<1> QED BY <1>1, <1>2, <1>3 DEF StayInv

LEMMA FetchStep == ASSUME StayInv, [Next]_vars PROVE FetchInv'
<1> USE DEF jobVars, mainVars, queueVars, writerVars, uploadVars, diskVars, outputVars, launchVars
<1>1. UNCHANGED <<job, lists>>
  BY ListsStay
<1> SUFFICES ASSUME Fetched PROVE FetchInv'
  BY <1>1 DEF FetchInv, Fetched
<1>2. FetchInv /\ ShapeInv /\ Queues
  BY DEF StayInv, OutInv, FetchInv
<1>3. ASSUME UNCHANGED <<phase, toDownload, ready, toRemove, cached>> PROVE FetchInv'
  <2>1. QueuesLater
    BY <1>1, <1>2, <1>3, SameShape, QueuesSame
  <2> QED BY <1>1, <1>2, <1>3, <2>1, FetchedSame
<1>4. ASSUME NEW w \in DOMAIN phase, DOMAIN phase' = DOMAIN phase,
             UNCHANGED <<toDownload, toRemove, cached>>,
             \/ ready' = [ready EXCEPT ![QueueOf(w)] = @]
             \/ ready[QueueOf(w)] # << >> /\ ready' = [ready EXCEPT ![QueueOf(w)] = Tail(@)]
             \/ \E x \in {None, AllDone} : ready' = [ready EXCEPT ![QueueOf(w)] = Append(@, x)]
             \/ ready' = [ready EXCEPT ![0] = Append(@, AllDone)]
      PROVE  FetchInv'
  <2>1. QueueOf(w) \in DOMAIN phase /\ 0 \in DOMAIN phase /\ RemoveShape
    BY <1>2, <1>4, QueueOfWorker, SameShape
  <2>2. CASE ready' = [ready EXCEPT ![QueueOf(w)] = @]
    <3>1. DOMAIN ready' = DOMAIN ready /\ \A v \in DOMAIN phase : ready'[v] = ready[v]
      BY <1>2, <2>1, <2>2 DEF Queues, QueueShape
    <3>2. QueuesLater
      BY <1>1, <1>2, <1>4, <2>1, <3>1, QueuesSame
    <3> QED BY <1>1, <1>2, <1>4, <3>2, FetchedSame
  <2>3. CASE ready[QueueOf(w)] # << >> /\ ready' = [ready EXCEPT ![QueueOf(w)] = Tail(@)]
    <3>1. QueuesLater
      BY <1>1, <1>2, <1>4, <2>1, <2>3, QueuesTaken
    <3> QED BY <1>1, <1>2, <1>4, <3>1, FetchedSame
  <2>4. CASE \E x \in {None, AllDone} : ready' = [ready EXCEPT ![QueueOf(w)] = Append(@, x)]
    <3>1. QueuesLater
      BY <1>1, <1>2, <1>4, <2>1, <2>4, QueuesToken
    <3> QED BY <1>1, <1>2, <1>4, <3>1, FetchedSame
  <2>5. CASE ready' = [ready EXCEPT ![0] = Append(@, AllDone)]
    <3>1. QueuesLater
      BY <1>1, <1>2, <1>4, <2>1, <2>5, QueuesToken
    <3> QED BY <1>1, <1>2, <1>4, <3>1, FetchedSame
  <2> QED BY <1>4, <2>2, <2>3, <2>4, <2>5
<1>5. ASSUME NEW w \in DOMAIN phase, DOMAIN phase' = DOMAIN phase, UNCHANGED <<toDownload, ready, cached>>,
             NEW m, m.kind # "inputs", toRemove' = [toRemove EXCEPT ![w] = Append(@, m)]
      PROVE  FetchInv'
  <2>1. QueuesLater
    BY <1>1, <1>2, <1>5, HandedShape, QueuesSame
  <2> QED BY <1>1, <1>2, <1>5, <2>1, FetchedHanded
<1>6. CASE UNCHANGED vars \/ Stopped
  BY <1>3, <1>6 DEF vars, Stopped
<1>7. CASE Crash
  <2>1. /\ DOMAIN phase' = {} /\ DOMAIN toDownload' = {} /\ DOMAIN ready' = {} /\ DOMAIN toRemove' = {}
    BY <1>7 DEF Crash
  <2> QED BY <2>1 DEF FetchInv, Queues, QueueShape, WaitOnce, OfferedOnce, RemovedDone, ReadyHere,
                      Waiting, Offered
<1>7a. CASE CrashSaving
  BY <1>3, <1>7a DEF CrashSaving
<1>8. CASE MainStep
  <2>1. CASE Refuse \/ RefuseLate \/ RefuseConfig \/ ExitOnError \/ AllWorkersEnd \/ Merge \/ CleanCheckpoints
    BY <1>3, <2>1 DEF Refuse, RefuseLate, RefuseConfig, ExitOnError, AllWorkersEnd, Merge, CleanCheckpoints
  <2>2. CASE Launch
    BY <2>2, LaunchFetches
  <2>3. ASSUME NEW w \in DOMAIN phase, SeeProgress(w) PROVE FetchInv'
    <3>1. /\ UNCHANGED <<phase, toDownload, toRemove, cached>>
          /\ \/ ready' = ready
             \/ ready' = [ready EXCEPT ![0] = IF job.ordered THEN @ ELSE Append(@, AllDone)]
      BY <2>3 DEF SeeProgress
    <3>2. CASE ready' = ready
      BY <1>3, <3>1, <3>2
    <3>3. CASE ready' = [ready EXCEPT ![0] = IF job.ordered THEN @ ELSE Append(@, AllDone)]
      <4>1. CASE job.ordered
        <5>1. 0 \in DOMAIN phase /\ DOMAIN ready = DOMAIN phase
          BY <1>2, QueueOfWorker DEF Queues, QueueShape
        <5>2. DOMAIN ready' = DOMAIN ready /\ \A v \in DOMAIN phase : ready'[v] = ready[v]
          BY <3>3, <4>1, <5>1
        <5>3. QueuesLater
          BY <1>1, <1>2, <3>1, <5>2, SameShape, QueuesSame
        <5> QED BY <1>1, <1>2, <3>1, <5>3, FetchedSame
      <4>2. CASE ~job.ordered
        BY <1>4, <3>1, <3>3, <4>2
      <4> QED BY <4>1, <4>2
    <3> QED BY <3>1, <3>2, <3>3
  <2> QED BY <1>8, <2>1, <2>2, <2>3 DEF MainStep
<1>9. ASSUME NEW w \in DOMAIN phase, WorkerStep(w) PROVE FetchInv'
  <2>0. DOMAIN phase' = DOMAIN phase
    BY <1>9 DEF WorkerStep, Setup, Skip, AddItem, AddItemAndClose, Transform, Fail, PassEnd, Conclude,
                ConcludeFails, Flushed, Exit
  <2>1. CASE Setup(w)
    <3>1. /\ UNCHANGED <<toDownload, toRemove, cached>>
          /\ ready' = [ready EXCEPT ![QueueOf(w)] = @]
      BY <2>1 DEF Setup, Fetched
    <3> QED BY <1>4, <2>0, <3>1
  <2>2. CASE Skip(w) \/ AddItem(w) \/ AddItemAndClose(w) \/ Transform(w)
    <3>1. /\ HasItem(w) /\ Handled(w, Next1(w))
          /\ UNCHANGED <<job, phase, toDownload, cached>>
      BY <2>2 DEF Skip, AddItem, AddItemAndClose, Transform
    <3> QED BY <1>2, <3>1, HandledFetches
  <2>3. CASE Fail(w) \/ PassEnd(w)
    <3>1. /\ UNCHANGED <<toDownload, toRemove, cached>>
          /\ ready[QueueOf(w)] # << >> /\ ready' = [ready EXCEPT ![QueueOf(w)] = Tail(@)]
      BY <2>3 DEF Fail, PassEnd, HasItem
    <3> QED BY <1>4, <2>0, <3>1
  <2>4. CASE Conclude(w)
    <3>1. /\ UNCHANGED <<toDownload, toRemove, cached>>
          /\ ready' = [ready EXCEPT ![QueueOf(w)] = IF @ # << >> /\ ~SeesAllDone(w) THEN Tail(@) ELSE @]
      BY <2>4 DEF Conclude
    <3>2. CASE ready[QueueOf(w)] # << >> /\ ~SeesAllDone(w)
      <4>1. ready' = [ready EXCEPT ![QueueOf(w)] = Tail(@)]
        BY <3>1, <3>2
      <4> QED BY <1>4, <2>0, <3>1, <3>2, <4>1
    <3>3. CASE ~(ready[QueueOf(w)] # << >> /\ ~SeesAllDone(w))
      <4>1. ready' = [ready EXCEPT ![QueueOf(w)] = @]
        BY <3>1, <3>3
      <4> QED BY <1>4, <2>0, <3>1, <4>1
    <3> QED BY <3>2, <3>3
  <2>5. CASE Flushed(w)
    <3> DEFINE m == [kind |-> "end", of |-> {}]
    <3>1. /\ UNCHANGED <<toDownload, ready, cached>> /\ m.kind # "inputs"
          /\ toRemove' = [toRemove EXCEPT ![w] = Append(@, m)]
      BY <2>5 DEF Flushed
    <3> HIDE DEF m
    <3> QED BY <1>5, <2>0, <3>1
  <2>6. CASE ConcludeFails(w) \/ Exit(w)
    <3>1. /\ UNCHANGED <<toDownload, ready, toRemove, cached>>
      BY <2>6 DEF ConcludeFails, Exit
    <3>2. QueuesLater
      BY <1>1, <1>2, <2>0, <3>1, SameShape, QueuesSame
    <3> QED BY <1>1, <1>2, <2>0, <3>1, <3>2, FetchedSame
  <2> QED BY <1>9, <2>1, <2>2, <2>3, <2>4, <2>5, <2>6 DEF WorkerStep
<1>10. ASSUME NEW w \in DOMAIN phase, RemoveFiles(w) PROVE FetchInv'
  BY <1>2, <1>10, RemoveFetches
<1>11. ASSUME NEW w \in DOMAIN phase, NEW d \in Downloaders, DownloaderStep(w, d) PROVE FetchInv'
  <2>1. CASE Download(w, d)
    BY <1>2, <2>1, DownloadFetches
  <2>2. CASE DownloadEnds(w, d)
    <3>1. /\ UNCHANGED <<phase, toDownload, toRemove, cached>>
          /\ ready' = [ready EXCEPT ![QueueOf(w)] = Append(@, None)]
      BY <2>2 DEF DownloadEnds
    <3> QED BY <1>4, <3>1
  <2>3. CASE DownloadFails(w, d)
    BY <1>3, <2>3 DEF DownloadFails
  <2> QED BY <1>11, <2>1, <2>2, <2>3 DEF DownloaderStep
<1>12. ASSUME NEW w \in DOMAIN phase, NEW u \in Uploaders, UploaderStep(w, u) PROVE FetchInv'
  <2>1. CASE Upload(w, u) \/ UploadFails(w, u)
    <3> DEFINE m == [kind |-> "chunks", of |-> Spent(Message(w, u))]
    <3>1. /\ UNCHANGED <<phase, toDownload, ready, cached>> /\ m.kind # "inputs"
          /\ toRemove' = [toRemove EXCEPT ![w] = Append(@, m)]
      BY <2>1 DEF Upload, UploadFails
    <3> HIDE DEF m
    <3> QED BY <1>5, <3>1
  <2>2. CASE CopyFails(w, u) \/ UploadEnds(w, u)
    BY <1>3, <2>2 DEF CopyFails, UploadEnds
  <2> QED BY <1>12, <2>1, <2>2 DEF UploaderStep
<1> QED BY <1>6, <1>7, <1>7a, <1>8, <1>9, <1>10, <1>11, <1>12 DEF Next

LEMMA StayInvariance == Spec => []StayInv
<1>1. StayInv /\ [Next]_vars => StayInv'
  <2> SUFFICES ASSUME StayInv, [Next]_vars PROVE StayInv'
    OBVIOUS
  <2>1. UNCHANGED <<job, lists>>
    BY ListsStay DEF jobVars
  <2>2. OutInv' /\ ConfigInv' /\ FetchInv'
    BY OutStep, ConfigStep, FetchStep DEF StayInv
  <2> QED BY <2>1, <2>2 DEF StayInv
<1> QED BY <1>1, StayInit, PTL DEF Spec

\* An item that a worker may take next has its inputs in the cache, if no two items
\* share a file: in every order of the downloaders, the workers and the removers, after
\* failures and restarts (_download_data_target, _remove_target).
THEOREM InputsAlwaysStay == Spec => [](job.weights = << >> => InputsStay)
<1>1. StayInv => (job.weights = << >> => InputsStay)
  <2> SUFFICES ASSUME StayInv, job.weights = << >>, job.downloaders > 0, FilesApart,
                      NEW w \in DOMAIN phase, NEW i \in ToSet(ready[w]), i > 0
               PROVE  job.files[i] \subseteq cached
    BY DEF InputsStay, FilesApart
  <2>1. Queues /\ ReadyHere
    BY DEF StayInv, FetchInv, Fetched
  <2>2. PICK p \in DOMAIN ready[w] : ready[w][p] = i
    BY DEF ToSet
  <2>3. ready[w] \in Seq(Tokens)
    BY <2>1 DEF Queues, QueueShape
  <2>4. i \in Tokens
    BY <2>2, <2>3
  <2>5. i \in Items
    BY <2>4 DEF Tokens, None, AllDone
  <2> QED BY <2>1, <2>2, <2>5 DEF ReadyHere, Offered
<1> QED BY <1>1, StayInvariance, PTL

-----------------------------------------------------------------------------
(* keep_data_ordered.  A worker takes the items of its list one after the other, *)
(* so its chunks hold them in their order.  In the following lo is the last item *)
(* before its list and hi the last of it, cs its chunks, s the samples that are  *)
(* not in a chunk yet, b the item it has handled last, r its queue, t what its   *)
(* downloaders still have to fetch; all says that it leaves out no item.         *)

Between(s, lo, hi) == \A p \in DOMAIN s : s[p] \in Int /\ lo < s[p] /\ s[p] <= hi
InOrder(s) == \A p, q \in DOMAIN s : p < q => s[p] < s[q]
Before(s, t) == \A p \in DOMAIN s : \A q \in DOMAIN t : s[p] < t[q]

AllBetween(cs, lo, hi) == \A k \in DOMAIN cs : Between(cs[k].items, lo, hi)
ChunksInOrder(cs) ==
    /\ \A k \in DOMAIN cs : InOrder(cs[k].items)
    /\ \A k, l \in DOMAIN cs : k < l => Before(cs[k].items, cs[l].items)

\* Chunks that hold items of the list in their order, and, if none is left out, no
\* item behind those they are counted for.
Sound(all, lo, hi, cs) ==
    /\ IsSeq(cs) /\ \A k \in DOMAIN cs : IsSeq(cs[k].items)
    /\ AllBetween(cs, lo, hi) /\ ChunksInOrder(cs)
    /\ all => AllBetween(cs, lo, lo + DoneTill(cs))

\* What the worker has written are items up to b, in their order.
Taken(all, lo, hi, cs, s, b) ==
    /\ b \in Nat /\ lo <= b
    /\ Sound(all, lo, hi, cs) /\ AllBetween(cs, lo, b)
    /\ IsSeq(s) /\ InOrder(s) /\ Between(s, lo, hi) /\ Between(s, lo, b)
    /\ \A k \in DOMAIN cs : Before(cs[k].items, s)
    /\ all => b = lo + DoneTill(cs) + Len(s)

\* The items after b come in their order, those in the queue before those that have
\* to be fetched, and no item comes after a token.
Coming(hi, r, t, b) ==
    /\ r \in Seq(Int)
    /\ \A p \in DOMAIN r : r[p] > 0 => r[p] = b + p /\ r[p] <= hi
    /\ \A p, q \in DOMAIN r : p < q /\ r[q] > 0 => r[p] > 0
    /\ \A d \in DOMAIN t :
         /\ IsSeq(t[d])
         /\ \A p \in DOMAIN t[d] : t[d][p] = b + Len(r) + p /\ t[d][p] <= hi
         /\ t[d] # << >> => \A p \in DOMAIN r : r[p] > 0

LEMMA SoundEmpty == ASSUME NEW all, NEW lo, NEW hi PROVE Sound(all, lo, hi, << >>)
<1>1. IsSeq(<< >>) /\ DOMAIN << >> = {}
  BY EmptyIsSeq
<1> QED BY <1>1 DEF Sound, AllBetween, ChunksInOrder

\* Samples are counted in natural numbers.
LEMMA SoundCount ==
    ASSUME NEW all, NEW lo, NEW hi, NEW cs, Sound(all, lo, hi, cs)
    PROVE  DoneTill(cs) \in Nat
BY SamplesFinite DEF Sound

\* A worker starts behind the chunks of its checkpoint.
LEMMA TakenFirst ==
    ASSUME NEW all, NEW lo \in Nat, NEW hi \in Nat, NEW cs, Sound(all, lo, hi, cs), all \/ cs = << >>
    PROVE  Taken(all, lo, hi, cs, << >>, lo + DoneTill(cs))
<1>1. DoneTill(cs) \in Nat
  BY SoundCount
<1>2. IsSeq(<< >>) /\ DOMAIN << >> = {} /\ Len(<< >>) = 0
  BY EmptyIsSeq
<1>3. AllBetween(cs, lo, lo + DoneTill(cs))
  BY <1>2 DEF Sound, AllBetween
<1>4. InOrder(<< >>) /\ Between(<< >>, lo, hi) /\ Between(<< >>, lo, lo + DoneTill(cs))
      /\ \A k \in DOMAIN cs : Before(cs[k].items, << >>)
  BY <1>2 DEF InOrder, Between, Before
<1> QED BY <1>1, <1>2, <1>3, <1>4 DEF Taken

\* An item is left out.
LEMMA TakenOver ==
    ASSUME NEW all, NEW lo \in Nat, NEW hi \in Nat, NEW cs, NEW s, NEW b,
           Taken(all, lo, hi, cs, s, b), ~all
    PROVE  Taken(all, lo, hi, cs, s, b + 1)
<1>1. AllBetween(cs, lo, b + 1)
  <2>1. \A k \in DOMAIN cs : Between(cs[k].items, lo, b) /\ b \in Nat
    BY DEF Taken, AllBetween
  <2>2. \A k \in DOMAIN cs : Between(cs[k].items, lo, b + 1)
    BY <2>1 DEF Between
  <2> QED BY <2>2 DEF AllBetween
<1>2. Between(s, lo, b + 1)
  BY DEF Taken, Between
<1>3. b + 1 \in Nat /\ lo <= b + 1
  BY DEF Taken
<1> QED BY <1>1, <1>2, <1>3 DEF Taken

\* A sample more.
LEMMA TakenMore ==
    ASSUME NEW all, NEW lo \in Nat, NEW hi \in Nat, NEW cs, NEW s, NEW b,
           Taken(all, lo, hi, cs, s, b), b + 1 <= hi
    PROVE  Taken(all, lo, hi, cs, Append(s, b + 1), b + 1)
<1> DEFINE more == Append(s, b + 1)
           n == Len(s)
<1>1. /\ b \in Nat /\ lo <= b /\ n \in Nat
      /\ IsSeq(more) /\ Len(more) = n + 1 /\ DOMAIN s = 1 .. n /\ DOMAIN more = 1 .. n + 1
      /\ \A p \in 1 .. n : more[p] = s[p]
      /\ more[n + 1] = b + 1
  BY SeqFacts, AppendFacts DEF Taken
<1>2. AllBetween(cs, lo, b + 1)
  <2>1. \A k \in DOMAIN cs : Between(cs[k].items, lo, b)
    BY DEF Taken, AllBetween
  <2>2. \A k \in DOMAIN cs : Between(cs[k].items, lo, b + 1)
    BY <1>1, <2>1 DEF Between
  <2> QED BY <2>2 DEF AllBetween
<1>3. \A p \in 1 .. n : s[p] \in Int /\ lo < s[p] /\ s[p] <= b /\ s[p] <= hi
  BY <1>1 DEF Taken, Between
<1> HIDE DEF more, n
<1>4. \A p \in 1 .. n + 1 : p \in 1 .. n \/ p = n + 1
  BY <1>1
<1>5. Between(more, lo, hi) /\ Between(more, lo, b + 1)
  BY <1>1, <1>3, <1>4 DEF Between
<1>6. InOrder(more)
  <2> SUFFICES ASSUME NEW p \in 1 .. n + 1, NEW q \in 1 .. n + 1, p < q PROVE more[p] < more[q]
    BY <1>1 DEF InOrder
  <2>1. p \in 1 .. n /\ (q \in 1 .. n \/ q = n + 1)
    BY <1>1
  <2>2. CASE q \in 1 .. n
    BY <1>1, <2>1, <2>2 DEF Taken, InOrder
  <2>3. CASE q = n + 1
    BY <1>1, <1>3, <2>1, <2>3
  <2> QED BY <2>1, <2>2, <2>3
<1>7. ASSUME NEW k \in DOMAIN cs PROVE Before(cs[k].items, more)
  <2>1. Between(cs[k].items, lo, b) /\ Before(cs[k].items, s)
    BY DEF Taken, AllBetween
  <2>2. ASSUME NEW p \in DOMAIN cs[k].items, NEW q \in 1 .. n + 1 PROVE cs[k].items[p] < more[q]
    <3>1. cs[k].items[p] \in Int /\ cs[k].items[p] <= b
      BY <2>1 DEF Between
    <3>2. CASE q \in 1 .. n
      BY <1>1, <2>1, <3>2 DEF Before
    <3>3. CASE q = n + 1
      BY <1>1, <3>1, <3>3
    <3> QED BY <1>4, <3>2, <3>3
  <2> QED BY <1>1, <2>2 DEF Before
<1>8. all => b + 1 = lo + DoneTill(cs) + Len(more)
  <2>1. DoneTill(cs) \in Nat
    BY SoundCount DEF Taken
  <2> QED BY <1>1, <2>1 DEF Taken, n
<1>9. b + 1 \in Nat /\ lo <= b + 1
  BY <1>1
<1> QED BY <1>1, <1>2, <1>5, <1>6, <1>7, <1>8, <1>9 DEF Taken, more

\* The samples are put in a chunk.
LEMMA TakenClosed ==
    ASSUME NEW all, NEW lo \in Nat, NEW hi \in Nat, NEW cs, NEW s, NEW b,
           Taken(all, lo, hi, cs, s, b), NEW c, c.items = s
    PROVE  Taken(all, lo, hi, Append(cs, c), << >>, b)
<1> DEFINE more == Append(cs, c)
           n == Len(cs)
<1>1. /\ b \in Nat /\ n \in Nat /\ IsSeq(cs) /\ IsSeq(c.items)
      /\ IsSeq(more) /\ Len(more) = n + 1 /\ DOMAIN cs = 1 .. n /\ DOMAIN more = 1 .. n + 1
      /\ \A k \in 1 .. n : more[k] = cs[k]
      /\ more[n + 1] = c
      /\ \A k \in 1 .. n : IsSeq(cs[k].items)
  BY SeqFacts, AppendFacts DEF Taken, Sound
<1>2. DoneTill(more) = DoneTill(cs) + Len(s) /\ DoneTill(cs) \in Nat /\ Len(s) \in Nat
  <2>1. DoneTill(more) = DoneTill(cs) + Len(c.items)
    BY <1>1, DoneExact
  <2> QED BY <1>1, <2>1, SoundCount, SeqFacts DEF Taken
<1>3. all => b = lo + DoneTill(more)
  BY <1>1, <1>2 DEF Taken
<1> HIDE DEF more, n
<1>4. \A k \in 1 .. n + 1 : k \in 1 .. n \/ k = n + 1
  BY <1>1
<1>5. \A k \in 1 .. n + 1 : IsSeq(more[k].items)
  BY <1>1, <1>4
<1>6. AllBetween(more, lo, hi) /\ AllBetween(more, lo, b)
  <2>1. \A k \in 1 .. n : Between(cs[k].items, lo, hi) /\ Between(cs[k].items, lo, b)
    BY <1>1 DEF Taken, Sound, AllBetween
  <2>2. Between(c.items, lo, hi) /\ Between(c.items, lo, b)
    BY DEF Taken
  <2> QED BY <1>1, <1>4, <2>1, <2>2 DEF AllBetween
<1>7. ChunksInOrder(more)
  <2>1. \A k \in 1 .. n : InOrder(cs[k].items)
    BY <1>1 DEF Taken, Sound, ChunksInOrder
  <2>2. InOrder(c.items)
    BY DEF Taken
  <2>3. ASSUME NEW k \in 1 .. n + 1, NEW l \in 1 .. n + 1, k < l
        PROVE  Before(more[k].items, more[l].items)
    <3>1. k \in 1 .. n /\ (l \in 1 .. n \/ l = n + 1)
      BY <1>1, <2>3
    <3>2. CASE l \in 1 .. n
      <4>1. Before(cs[k].items, cs[l].items)
        BY <1>1, <2>3, <3>1, <3>2 DEF Taken, Sound, ChunksInOrder
      <4> QED BY <1>1, <3>1, <3>2, <4>1
    <3>3. CASE l = n + 1
      <4>1. Before(cs[k].items, s)
        BY <1>1, <3>1 DEF Taken
      <4> QED BY <1>1, <3>1, <3>3, <4>1
    <3> QED BY <3>1, <3>2, <3>3
  <2> QED BY <1>1, <1>4, <2>1, <2>2, <2>3 DEF ChunksInOrder
<1>8. Sound(all, lo, hi, more)
  BY <1>1, <1>3, <1>5, <1>6, <1>7 DEF Sound
<1>9. IsSeq(<< >>) /\ DOMAIN << >> = {} /\ Len(<< >>) = 0
  BY EmptyIsSeq
<1>10. InOrder(<< >>) /\ Between(<< >>, lo, hi) /\ Between(<< >>, lo, b)
       /\ \A k \in DOMAIN more : Before(more[k].items, << >>)
  BY <1>9 DEF InOrder, Between, Before
<1>11. all => b = lo + DoneTill(more) + 0
  BY <1>1, <1>2, <1>3 DEF more
<1> QED BY <1>6, <1>8, <1>9, <1>10, <1>11 DEF Taken, more

\* The first of the queue is an item: it is the one after b.
LEMMA ComingItem ==
    ASSUME NEW hi, NEW r, NEW t, NEW b \in Nat, Coming(hi, r, t, b), r # << >>, Head(r) > 0
    PROVE  Head(r) = b + 1 /\ b + 1 <= hi /\ Coming(hi, Tail(r), t, b + 1)
<1> DEFINE q == Tail(r)
<1>1. /\ r \in Seq(Int) /\ q \in Seq(Int) /\ Len(r) \in Nat \ {0} /\ Len(q) = Len(r) - 1
      /\ DOMAIN r = 1 .. Len(r) /\ DOMAIN q = 1 .. Len(q)
      /\ 1 \in DOMAIN r /\ Head(r) = r[1]
      /\ \A p \in DOMAIN q : p \in Nat /\ p + 1 \in DOMAIN r /\ q[p] = r[p + 1]
  BY DEF Coming
<1>2. Head(r) = b + 1 /\ b + 1 <= hi
  BY <1>1 DEF Coming
<1> HIDE DEF q
<1>3. \A p \in DOMAIN q : q[p] > 0 => q[p] = b + 1 + p /\ q[p] <= hi
  <2> SUFFICES ASSUME NEW p \in DOMAIN q, q[p] > 0 PROVE q[p] = b + 1 + p /\ q[p] <= hi
    OBVIOUS
  <2>1. p \in Nat /\ p + 1 \in DOMAIN r /\ q[p] = r[p + 1] /\ r[p + 1] > 0
    BY <1>1
  <2>2. r[p + 1] = b + (p + 1) /\ r[p + 1] <= hi
    BY <2>1 DEF Coming
  <2> QED BY <2>1, <2>2
<1>4. \A p, l \in DOMAIN q : p < l /\ q[l] > 0 => q[p] > 0
  <2> SUFFICES ASSUME NEW p \in DOMAIN q, NEW l \in DOMAIN q, p < l, q[l] > 0 PROVE q[p] > 0
    OBVIOUS
  <2>1. p + 1 \in DOMAIN r /\ q[p] = r[p + 1] /\ p \in Nat
    BY <1>1
  <2>2. l + 1 \in DOMAIN r /\ q[l] = r[l + 1] /\ l \in Nat
    BY <1>1
  <2>3. p + 1 < l + 1 /\ r[l + 1] > 0
    BY <2>1, <2>2
  <2>4. r[p + 1] > 0
    BY <2>1, <2>2, <2>3 DEF Coming
  <2> QED BY <2>1, <2>4
<1>5. ASSUME NEW d \in DOMAIN t
      PROVE  /\ IsSeq(t[d])
             /\ \A p \in DOMAIN t[d] : t[d][p] = b + 1 + Len(q) + p /\ t[d][p] <= hi
             /\ t[d] # << >> => \A p \in DOMAIN q : q[p] > 0
  <2>1. /\ IsSeq(t[d])
        /\ \A p \in DOMAIN t[d] : t[d][p] = b + Len(r) + p /\ t[d][p] <= hi
        /\ t[d] # << >> => \A p \in DOMAIN r : r[p] > 0
    BY DEF Coming
  <2>2. b + 1 + Len(q) = b + Len(r)
    BY <1>1
  <2> QED BY <1>1, <2>1, <2>2
<1> QED BY <1>1, <1>2, <1>3, <1>4, <1>5 DEF Coming, q

\* It is a token: no item comes any more.
LEMMA ComingToken ==
    ASSUME NEW hi, NEW r, NEW t, NEW b \in Nat, Coming(hi, r, t, b), r # << >>, ~(Head(r) > 0)
    PROVE  Coming(hi, Tail(r), t, b)
<1> DEFINE q == Tail(r)
<1>1. /\ r \in Seq(Int) /\ q \in Seq(Int) /\ Len(r) \in Nat \ {0} /\ Len(q) = Len(r) - 1
      /\ DOMAIN r = 1 .. Len(r) /\ DOMAIN q = 1 .. Len(q)
      /\ 1 \in DOMAIN r /\ Head(r) = r[1]
      /\ \A p \in DOMAIN q : p \in Nat /\ 1 < p + 1 /\ p + 1 \in DOMAIN r /\ q[p] = r[p + 1]
  BY DEF Coming
<1> HIDE DEF q
<1>2. \A p \in DOMAIN q : ~(q[p] > 0)
  <2> SUFFICES ASSUME NEW p \in DOMAIN q, q[p] > 0 PROVE FALSE
    OBVIOUS
  <2>1. p + 1 \in DOMAIN r /\ 1 < p + 1 /\ r[p + 1] > 0
    BY <1>1
  <2>2. r[1] > 0
    BY <1>1, <2>1 DEF Coming
  <2> QED BY <1>1, <2>2
<1>3. ASSUME NEW d \in DOMAIN t PROVE IsSeq(t[d]) /\ t[d] = << >>
  BY <1>1 DEF Coming
<1>4. \A d \in DOMAIN t : DOMAIN t[d] = {}
  BY <1>3
<1> QED BY <1>1, <1>2, <1>3, <1>4 DEF Coming, q

\* The only downloader passes an item on, ...
LEMMA ComingFetched ==
    ASSUME NEW hi, NEW r, NEW t, NEW b \in Nat, Coming(hi, r, t, b),
           NEW d \in DOMAIN t, DOMAIN t = {d}, t[d] # << >>,
           NEW u, DOMAIN u = {d}, u[d] = Tail(t[d])
    PROVE  Coming(hi, Append(r, Head(t[d])), u, b)
<1> DEFINE h == Head(t[d])
           more == Append(r, h)
           rest == Tail(t[d])
           n == Len(r)
<1>1. /\ r \in Seq(Int) /\ n \in Nat /\ DOMAIN r = 1 .. n
      /\ IsSeq(t[d]) /\ \A p \in DOMAIN r : r[p] > 0
      /\ \A p \in DOMAIN t[d] : t[d][p] = b + n + p /\ t[d][p] <= hi
  BY DEF Coming
<1>2. /\ IsSeq(rest) /\ Len(rest) = Len(t[d]) - 1 /\ Len(t[d]) \in Nat \ {0}
      /\ \A i \in 1 .. Len(t[d]) - 1 : rest[i] = t[d][i + 1]
      /\ h = t[d][1] /\ DOMAIN t[d] = 1 .. Len(t[d]) /\ DOMAIN rest = 1 .. Len(rest)
  BY <1>1, TailFacts, SeqFacts
<1>3. h = b + n + 1 /\ h <= hi
  BY <1>1, <1>2
<1> HIDE DEF h
<1>4. /\ more \in Seq(Int) /\ Len(more) = n + 1 /\ DOMAIN more = 1 .. n + 1
      /\ \A p \in 1 .. n : more[p] = r[p]
      /\ more[n + 1] = h
  BY <1>1, <1>3
<1> HIDE DEF more, n, rest
<1>5. \A p \in 1 .. n + 1 : p \in 1 .. n \/ p = n + 1
  BY <1>1
<1>6. \A p \in DOMAIN more : more[p] > 0 /\ more[p] = b + p /\ more[p] <= hi
  <2> SUFFICES ASSUME NEW p \in 1 .. n + 1 PROVE more[p] > 0 /\ more[p] = b + p /\ more[p] <= hi
    BY <1>4
  <2>1. CASE p \in 1 .. n
    BY <1>1, <1>4, <2>1 DEF Coming
  <2>2. CASE p = n + 1
    BY <1>1, <1>3, <1>4, <2>2
  <2> QED BY <1>5, <2>1, <2>2
<1>7. \A p \in DOMAIN rest : rest[p] = b + Len(more) + p /\ rest[p] <= hi
  <2> SUFFICES ASSUME NEW p \in 1 .. Len(t[d]) - 1 PROVE rest[p] = b + n + 1 + p /\ rest[p] <= hi
    BY <1>1, <1>2, <1>4
  <2>1. p + 1 \in DOMAIN t[d] /\ rest[p] = t[d][p + 1]
    BY <1>2
  <2> QED BY <1>1, <2>1
<1> QED BY <1>2, <1>4, <1>6, <1>7 DEF Coming, more, h, rest

\* ... and then its token.
LEMMA ComingLast ==
    ASSUME NEW hi, NEW r, NEW t, NEW b \in Nat, Coming(hi, r, t, b),
           \A d \in DOMAIN t : t[d] = << >>, NEW x \in Int, ~(x > 0)
    PROVE  Coming(hi, Append(r, x), t, b)
<1> DEFINE more == Append(r, x)
           n == Len(r)
<1>1. /\ r \in Seq(Int) /\ n \in Nat /\ DOMAIN r = 1 .. n
      /\ more \in Seq(Int) /\ Len(more) = n + 1 /\ DOMAIN more = 1 .. n + 1
      /\ \A p \in 1 .. n : more[p] = r[p]
      /\ more[n + 1] = x
  BY DEF Coming
<1> HIDE DEF more, n
<1>2. \A p \in DOMAIN more : more[p] > 0 => p \in DOMAIN r /\ more[p] = r[p]
  <2>1. \A p \in 1 .. n + 1 : p \in 1 .. n \/ p = n + 1
    BY <1>1
  <2> QED BY <1>1, <2>1
<1>3. \A p \in DOMAIN more : more[p] > 0 => more[p] = b + p /\ more[p] <= hi
  BY <1>2 DEF Coming
<1>4. \A p, q \in DOMAIN more : p < q /\ more[q] > 0 => more[p] > 0
  <2> SUFFICES ASSUME NEW p \in DOMAIN more, NEW q \in DOMAIN more, p < q, more[q] > 0 PROVE more[p] > 0
    OBVIOUS
  <2>1. q \in DOMAIN r /\ p \in 1 .. n /\ r[q] > 0
    BY <1>1, <1>2
  <2>2. r[p] > 0
    BY <1>1, <2>1 DEF Coming
  <2> QED BY <1>1, <2>1, <2>2
<1>5. \A d \in DOMAIN t : IsSeq(t[d]) /\ DOMAIN t[d] = {}
  BY DEF Coming
<1> QED BY <1>1, <1>3, <1>4, <1>5 DEF Coming, more

\* A list that is in order, without downloaders or with one that has all of it.
LEMMA ComingAll ==
    ASSUME NEW hi, NEW b \in Nat, NEW list \in Seq(Int),
           \A p \in DOMAIN list : list[p] = b + p /\ list[p] <= hi, NEW t
    PROVE  /\ DOMAIN t = {} => Coming(hi, list, t, b)
           /\ (\A d \in DOMAIN t : t[d] = list) => Coming(hi, << >>, t, b)
<1>1. << >> \in Seq(Int) /\ DOMAIN << >> = {} /\ Len(<< >>) = 0 /\ IsSeq(list) /\ DOMAIN list = 1 .. Len(list)
  BY DEF IsSeq
<1>2. \A p \in DOMAIN list : list[p] > 0 /\ list[p] = b + Len(<< >>) + p
  BY <1>1
<1> QED BY <1>1, <1>2 DEF Coming

-----------------------------------------------------------------------------
(* The workers of a job that keeps its order. *)

\* Where the list of worker w begins and ends.
Size == IF job.align THEN job.chunkSize ELSE 0
Low(w) == FirstItem(job.items, Size, job.workers, w)
High(w) == LastItem(job.items, Size, job.workers, w)

SoundFor(w, cs) == Sound(job.skips = {}, Low(w), High(w), cs)

\* The messages for an uploader of worker w: the checkpoints among them are sound.
QueueSound(w, q) == IsSeq(q) /\ \A m \in ToSet(q) : m.kind = "checkpoint" => SoundFor(w, m.chunks)

\* Worker w is in phase ph with chunks cs, samples s, queue r, downloads t and
\* uploads up.  Its checkpoints are sound, those that wait as well, and until it
\* ends it goes on where it is.
LineAs(w, ph, cs, s, r, t, up) ==
    /\ SoundFor(w, cs)
    /\ \A u \in Uploaders : QueueSound(w, up[u])
    /\ DOMAIN t = Downloaders
    /\ ph \in {"setup", "loop"} =>
         \E b \in Nat :
            /\ Taken(job.skips = {}, Low(w), High(w), cs, s, b) /\ Coming(High(w), r, t, b)
            /\ ph = "setup" /\ job.downloaders = 0 => r = << >> /\ b = Low(w) + DoneTill(cs)
LineOf(w) == LineAs(w, phase[w], infos[w], pending[w], ready[w], toDownload[w], toUpload[w])

\* A job that keeps its order, and that resumes where the list goes on.
Orderly ==
    /\ job.recipe = "optimize" /\ ~job.invalid /\ job.ordered /\ job.source = "list"
    /\ job.downloaders < 2 /\ job.weights = << >> /\ job.workers <= 10
    /\ restarts > 0 /\ job.checkpoint => job.skips = {}

LineInv ==
    /\ \A w \in Workers : SoundFor(w, saved[w])
    /\ main = "start" /\ restarts = 0 => \A w \in Workers : saved[w] = << >>
    /\ DOMAIN ready = DOMAIN phase /\ DOMAIN toDownload = DOMAIN phase
    /\ \A w \in DOMAIN phase : LineOf(w)
    /\ main \in {"published", "finished"} => IsSeq(Content) /\ InOrder(Content)

\* The inductive invariant.
KeepInv == OutInv /\ ConfigInv /\ lists \in ListsOf(job) /\ restarts \in Nat /\ (Orderly => LineInv)

\* The lists are ranges, one behind the other.
LEMMA LineLists ==
    ASSUME job \in Jobs, lists \in ListsOf(job), Orderly
    PROVE  /\ \A w \in Workers : /\ Low(w) \in Nat /\ High(w) \in Nat /\ Low(w) <= High(w)
                                 /\ lists[w] = [p \in 1 .. High(w) - Low(w) |-> Low(w) + p]
           /\ \A v, w \in Workers : v < w => High(v) <= Low(w)
<1>1. /\ job.items \in Nat /\ Size \in Nat /\ job.workers \in Nat \ {0}
  BY JobAssumption DEF Size
<1>2. lists = Sequentially(job.items, Size, job.workers)
  BY DEF ListsOf, Orderly, Size
<1>3. ASSUME NEW w \in Workers
      PROVE  /\ Low(w) \in Nat /\ High(w) \in Nat /\ Low(w) <= High(w)
             /\ lists[w] = [p \in 1 .. High(w) - Low(w) |-> Low(w) + p]
  <2>1. w \in 0 .. job.workers - 1
    BY DEF Workers
  <2>2. Low(w) \in Nat /\ High(w) \in Nat /\ Low(w) <= High(w)
    BY <1>1, <2>1, RangeFacts DEF Low, High
  <2>3. Sequentially(job.items, Size, job.workers)[w] = [p \in 1 .. High(w) - Low(w) |-> Low(w) + p]
    BY <1>1, <2>1, ListIs DEF Low, High
  <2> QED BY <1>2, <2>2, <2>3
<1>4. ASSUME NEW v \in Workers, NEW w \in Workers, v < w PROVE High(v) <= Low(w)
  <2>1. v # job.workers - 1 /\ v + 1 \in 0 .. job.workers /\ w \in 0 .. job.workers /\ v + 1 <= w
    BY <1>1, <1>4 DEF Workers
  <2>2. High(v) = FirstItem(job.items, Size, job.workers, v + 1)
    BY <2>1 DEF High, LastItem
  <2> QED BY <1>1, <2>1, <2>2, FirstItemFacts DEF Low
<1> QED BY <1>3, <1>4

LEMMA LineQueue == ASSUME Orderly, NEW w PROVE QueueOf(w) = w
BY DEF Orderly, QueueOf, Shared

LEMMA LineDownloaders ==
    ASSUME job \in Jobs, Orderly
    PROVE  /\ job.downloaders \in {0, 1}
           /\ job.downloaders = 0 => Downloaders = {}
           /\ job.downloaders = 1 => Downloaders = {0}
<1>1. job.downloaders \in {0, 1}
  <2>1. job.downloaders \in Nat
    BY JobAssumption
  <2> QED BY <2>1 DEF Orderly
<1>2. 0 .. 0 - 1 = {} /\ 0 .. 1 - 1 = {0}
  OBVIOUS
<1>3. Downloaders = 0 .. job.downloaders - 1
  BY DEF Downloaders
<1>4. job.downloaders = 0 => Downloaders = {}
  BY <1>2, <1>3
<1>5. job.downloaders = 1 => Downloaders = {0}
  BY <1>2, <1>3
<1> QED BY <1>1, <1>4, <1>5

\* What is left of the list of a worker.
LEMMA LineLeft ==
    ASSUME job \in Jobs, lists \in ListsOf(job), Orderly, NEW w \in Workers, NEW cs, SoundFor(w, cs)
    PROVE  /\ LeftFor(w, cs) \in Seq(Int) /\ DoneTill(cs) \in Nat
           /\ \A p \in DOMAIN LeftFor(w, cs) :
                 LeftFor(w, cs)[p] = Low(w) + DoneTill(cs) + p /\ LeftFor(w, cs)[p] <= High(w)
<1> DEFINE n == High(w) - Low(w)
<1>1. /\ Low(w) \in Nat /\ High(w) \in Nat /\ n \in Nat
      /\ lists[w] = [p \in 1 .. n |-> Low(w) + p]
  BY LineLists
<1>2. DoneTill(cs) \in Nat /\ job.fastDev \in Nat
  BY SoundCount, JobAssumption DEF SoundFor
<1>3. lists[w] \in Seq(Int)
  <2>1. lists[w] \in [1 .. n -> Int]
    BY <1>1
  <2> HIDE DEF n
  <2> QED BY <1>1, <2>1, FunctionIsSeq
<1>4. /\ LeftFor(w, cs) \in Seq(Int)
      /\ \A p \in 1 .. Len(LeftFor(w, cs)) : /\ DoneTill(cs) + p \in DOMAIN lists[w]
                                             /\ LeftFor(w, cs)[p] = lists[w][DoneTill(cs) + p]
  BY <1>2, <1>3, LeftIs
<1> DEFINE left == LeftFor(w, cs)
<1> HIDE DEF left
<1>5. DOMAIN left = 1 .. Len(left)
  BY <1>4 DEF left
<1>6. ASSUME NEW p \in DOMAIN left
      PROVE  left[p] = Low(w) + DoneTill(cs) + p /\ left[p] <= High(w)
  <2>0. p \in 1 .. Len(left) /\ Len(left) \in Nat
    BY <1>4, <1>5 DEF left
  <2>1. DoneTill(cs) + p \in DOMAIN lists[w] /\ left[p] = lists[w][DoneTill(cs) + p] /\ p \in Nat
    BY <1>4, <2>0 DEF left
  <2>2. DoneTill(cs) + p \in 1 .. n /\ left[p] = Low(w) + (DoneTill(cs) + p)
    BY <1>1, <2>1
  <2> QED BY <1>1, <1>2, <2>1, <2>2
<1> QED BY <1>2, <1>4, <1>6 DEF left

LEMMA LineLater ==
    ASSUME NEW w, job' = job,
           LineAs(w, phase'[w], infos'[w], pending'[w], ready'[w], toDownload'[w], toUpload'[w])
    PROVE  LineOf(w)'
BY DEF LineOf, LineAs, QueueSound, SoundFor, Low, High, Size, Uploaders, Downloaders

LEMMA QueueSoundEmpty == ASSUME NEW w PROVE QueueSound(w, << >>)
BY EmptyIsSeq DEF QueueSound

LEMMA QueueSoundOne ==
    ASSUME NEW w, NEW m, m.kind = "checkpoint" => SoundFor(w, m.chunks)
    PROVE  QueueSound(w, <<m>>)
BY OneIsSeq DEF QueueSound

LEMMA QueueSoundMore ==
    ASSUME NEW w, NEW q, NEW ms, QueueSound(w, q), QueueSound(w, ms)
    PROVE  QueueSound(w, q \o ms)
BY ConcatFacts DEF QueueSound

LEMMA QueueSoundTail ==
    ASSUME NEW w, NEW q, QueueSound(w, q), q # << >>
    PROVE  QueueSound(w, Tail(q)) /\ Head(q) \in ToSet(q)
<1>1. /\ IsSeq(q) /\ IsSeq(Tail(q)) /\ Len(Tail(q)) = Len(q) - 1 /\ Len(q) \in Nat \ {0}
      /\ \A i \in 1 .. Len(q) - 1 : Tail(q)[i] = q[i + 1]
      /\ Head(q) = q[1]
  BY TailFacts DEF QueueSound
<1>2. DOMAIN q = 1 .. Len(q) /\ DOMAIN Tail(q) = 1 .. Len(Tail(q))
  BY <1>1, SeqFacts
<1>3. Head(q) \in ToSet(q)
  BY <1>1, <1>2 DEF ToSet
<1>4. ToSet(Tail(q)) \subseteq ToSet(q)
  <2> SUFFICES ASSUME NEW i \in DOMAIN Tail(q) PROVE Tail(q)[i] \in ToSet(q)
    BY DEF ToSet
  <2>1. i + 1 \in DOMAIN q /\ Tail(q)[i] = q[i + 1]
    BY <1>1, <1>2
  <2> QED BY <2>1 DEF ToSet
<1> QED BY <1>1, <1>3, <1>4 DEF QueueSound

\* What CheckpointMessages puts behind the queue.
LEMMA QueueSoundChecked ==
    ASSUME NEW w, NEW q, QueueSound(w, q), SoundFor(w, infos'[w])
    PROVE  QueueSound(w, q \o CheckpointMessages(w))
<1> DEFINE m == [kind |-> "checkpoint", chunks |-> infos'[w]]
<1>1. QueueSound(w, <<m>>) /\ QueueSound(w, << >>)
  <2>1. m.kind = "checkpoint" => SoundFor(w, m.chunks)
    OBVIOUS
  <2> HIDE DEF m
  <2> QED BY <2>1, QueueSoundOne, QueueSoundEmpty
<1>2. CheckpointMessages(w) \in {<< >>, <<m>>}
  BY CheckpointIs
<1> HIDE DEF m
<1>3. QueueSound(w, CheckpointMessages(w))
  BY <1>1, <1>2
<1> QED BY <1>3, QueueSoundMore

\* A worker that nothing happens to, or that ends.
LEMMA LineSame ==
    ASSUME NEW w, LineOf(w), job' = job, infos'[w] = infos[w], toDownload'[w] = toDownload[w],
           phase'[w] \in {"setup", "loop"} =>
               phase'[w] = phase[w] /\ pending'[w] = pending[w] /\ ready'[w] = ready[w],
           \A u \in Uploaders : toUpload'[w][u] = toUpload[w][u] \/ QueueSound(w, toUpload'[w][u])
    PROVE  LineOf(w)'
<1>1. LineAs(w, phase'[w], infos'[w], pending'[w], ready'[w], toDownload'[w], toUpload'[w])
  BY DEF LineOf, LineAs
<1> QED BY <1>1, LineLater

LEMMA LineOn ==
    ASSUME LineInv, UNCHANGED <<job, index, existing, restarts>>, DOMAIN phase' = DOMAIN phase,
           DOMAIN ready' = DOMAIN phase, DOMAIN toDownload' = DOMAIN phase,
           main' = "start" => main = "start" /\ saved' = saved,
           main' \in {"published", "finished"} => main \in {"published", "finished"},
           \A w \in Workers : SoundFor(w, saved'[w]),
           \A w \in DOMAIN phase : LineOf(w)'
    PROVE  LineInv'
<1>1. \A w \in Workers' : SoundFor(w, saved[w])'
  BY DEF Workers, SoundFor, Low, High, Size
<1>2. Content' = Content
  BY DEF Content, NewChunks
<1>3. main' \in {"published", "finished"} => IsSeq(Content') /\ InOrder(Content')
  BY <1>2 DEF LineInv
<1>4. main' = "start" /\ restarts' = 0 => \A w \in Workers' : saved'[w] = << >>
  BY DEF LineInv, Workers
<1> QED BY <1>1, <1>3, <1>4 DEF LineInv

\* A step of one worker and its own processes.
LEMMA LineWorker ==
    ASSUME LineInv, OutInv, UNCHANGED <<job, main, saved, index, existing, restarts>>, NEW w \in DOMAIN phase,
           DOMAIN phase' = DOMAIN phase, DOMAIN ready' = DOMAIN phase, DOMAIN toDownload' = DOMAIN phase,
           \A v \in DOMAIN phase \ {w} :
              /\ phase'[v] = phase[v] /\ infos'[v] = infos[v] /\ pending'[v] = pending[v]
              /\ ready'[v] = ready[v] /\ toDownload'[v] = toDownload[v] /\ toUpload'[v] = toUpload[v],
           LineOf(w)'
    PROVE  LineInv'
<1>1. ASSUME NEW v \in DOMAIN phase PROVE LineOf(v)'
  <2>1. CASE v = w
    BY <2>1
  <2>2. CASE v # w
    <3>1. LineOf(v)
      BY DEF LineInv
    <3> QED BY <2>2, <3>1, LineSame
  <2> QED BY <2>1, <2>2
<1>2. \A v \in Workers : SoundFor(v, saved'[v])
  BY DEF LineInv
<1> QED BY <1>1, <1>2, LineOn

\* The worker takes an item: it is the one after b.
LEMMA LineItem ==
    ASSUME LineInv, Orderly, NEW w \in DOMAIN phase, HasItem(w),
           ready' = [ready EXCEPT ![QueueOf(w)] = Tail(@)]
    PROVE  /\ DOMAIN ready' = DOMAIN phase /\ \A v \in DOMAIN phase \ {w} : ready'[v] = ready[v]
           /\ \E b \in Nat :
                 /\ Taken(job.skips = {}, Low(w), High(w), infos[w], pending[w], b)
                 /\ Next1(w) = b + 1 /\ b + 1 <= High(w)
                 /\ Coming(High(w), ready'[w], toDownload[w], b + 1)
<1>1. QueueOf(w) = w /\ DOMAIN ready = DOMAIN phase
  BY LineQueue DEF LineInv
<1>2. phase[w] = "loop" /\ ready[w] # << >> /\ Head(ready[w]) > 0 /\ Next1(w) = Head(ready[w])
  BY <1>1 DEF HasItem, Working, Next1
<1>3. ready'[w] = Tail(ready[w]) /\ DOMAIN ready' = DOMAIN phase /\ \A v \in DOMAIN phase \ {w} : ready'[v] = ready[v]
  BY <1>1
<1>4. PICK b \in Nat : /\ Taken(job.skips = {}, Low(w), High(w), infos[w], pending[w], b)
                       /\ Coming(High(w), ready[w], toDownload[w], b)
  BY <1>2 DEF LineInv, LineOf, LineAs
<1>5. Head(ready[w]) = b + 1 /\ b + 1 <= High(w) /\ Coming(High(w), Tail(ready[w]), toDownload[w], b + 1)
  BY <1>2, <1>4, ComingItem
<1> QED BY <1>2, <1>3, <1>4, <1>5

LEMMA LineShape ==
    ASSUME LineInv, OutInv, NEW w \in DOMAIN phase
    PROVE  /\ w \in Workers /\ DOMAIN infos = DOMAIN phase /\ DOMAIN pending = DOMAIN phase
           /\ DOMAIN toUpload = DOMAIN phase /\ DOMAIN ready = DOMAIN phase /\ DOMAIN toDownload = DOMAIN phase
           /\ toUpload[w] = [u \in Uploaders |-> toUpload[w][u]]
           /\ LineOf(w) /\ SoundFor(w, infos[w]) /\ DOMAIN toDownload[w] = Downloaders
           /\ \A u \in Uploaders : QueueSound(w, toUpload[w][u])
BY DEF LineInv, LineOf, LineAs, OutInv, ShapeInv

LEMMA SkipLine ==
    ASSUME KeepInv, Orderly, LineInv, NEW w \in DOMAIN phase, Skip(w)
    PROVE  LineInv'
<1> USE DEF jobVars, mainVars, writerVars, outputVars, launchVars, diskVars
<1>1. /\ UNCHANGED <<job, main, saved, index, existing, restarts, phase, infos, pending, toDownload, toUpload>>
      /\ HasItem(w) /\ Next1(w) \in job.skips /\ ready' = [ready EXCEPT ![QueueOf(w)] = Tail(@)]
  BY DEF Skip, Handled
<1>2. /\ LineOf(w) /\ Low(w) \in Nat /\ High(w) \in Nat /\ DOMAIN toDownload = DOMAIN phase
  BY LineShape, LineLists DEF KeepInv, OutInv, ShapeInv
<1>3. /\ DOMAIN ready' = DOMAIN phase /\ \A v \in DOMAIN phase \ {w} : ready'[v] = ready[v]
      /\ \E b \in Nat :
            /\ Taken(job.skips = {}, Low(w), High(w), infos[w], pending[w], b)
            /\ Next1(w) = b + 1 /\ b + 1 <= High(w)
            /\ Coming(High(w), ready'[w], toDownload[w], b + 1)
  BY <1>1, LineItem
<1>4. PICK b \in Nat : /\ Taken(job.skips = {}, Low(w), High(w), infos[w], pending[w], b)
                       /\ Coming(High(w), ready'[w], toDownload[w], b + 1)
  BY <1>3
<1>5. Taken(job.skips = {}, Low(w), High(w), infos[w], pending[w], b + 1)
  BY <1>1, <1>2, <1>4, TakenOver
<1>6. phase[w] = "loop" /\ b + 1 \in Nat
  BY <1>1 DEF HasItem, Working
<1>7. LineAs(w, phase'[w], infos'[w], pending'[w], ready'[w], toDownload'[w], toUpload'[w])
  BY <1>1, <1>2, <1>4, <1>5, <1>6 DEF LineOf, LineAs
<1>8. LineOf(w)'
  BY <1>1, <1>7, LineLater
<1> QED BY <1>1, <1>2, <1>3, <1>8, LineWorker DEF KeepInv

LEMMA AddItemLine ==
    ASSUME KeepInv, Orderly, LineInv, NEW w \in DOMAIN phase, AddItem(w)
    PROVE  LineInv'
<1> USE DEF jobVars, mainVars, writerVars, outputVars, launchVars, diskVars
<1>1. /\ UNCHANGED <<job, main, saved, index, existing, restarts, phase, infos, toDownload>>
      /\ HasItem(w) /\ ready' = [ready EXCEPT ![QueueOf(w)] = Tail(@)]
      /\ pending' = [pending EXCEPT ![w] = Append(@, Next1(w))]
      /\ toUpload' = [toUpload EXCEPT ![w][Turn(w)] = @ \o CheckpointMessages(w)]
  BY DEF AddItem, Handled
<1>2. /\ DOMAIN infos = DOMAIN phase /\ DOMAIN pending = DOMAIN phase
      /\ DOMAIN toUpload = DOMAIN phase /\ DOMAIN toDownload = DOMAIN phase
      /\ toUpload[w] = [u \in Uploaders |-> toUpload[w][u]]
      /\ SoundFor(w, infos[w]) /\ DOMAIN toDownload[w] = Downloaders
      /\ \A u \in Uploaders : QueueSound(w, toUpload[w][u])
      /\ Low(w) \in Nat /\ High(w) \in Nat
  BY LineShape, LineLists DEF KeepInv, OutInv, ShapeInv
<1>3. /\ DOMAIN ready' = DOMAIN phase /\ \A v \in DOMAIN phase \ {w} : ready'[v] = ready[v]
      /\ \E b \in Nat :
            /\ Taken(job.skips = {}, Low(w), High(w), infos[w], pending[w], b)
            /\ Next1(w) = b + 1 /\ b + 1 <= High(w)
            /\ Coming(High(w), ready'[w], toDownload[w], b + 1)
  BY <1>1, LineItem
<1>4. PICK b \in Nat : /\ Taken(job.skips = {}, Low(w), High(w), infos[w], pending[w], b)
                       /\ Next1(w) = b + 1 /\ b + 1 <= High(w)
                       /\ Coming(High(w), ready'[w], toDownload[w], b + 1)
  BY <1>3
<1>5. Taken(job.skips = {}, Low(w), High(w), infos[w], Append(pending[w], b + 1), b + 1)
  BY <1>2, <1>4, TakenMore
<1>6. /\ pending'[w] = Append(pending[w], b + 1)
      /\ \A v \in DOMAIN phase \ {w} : pending'[v] = pending[v] /\ toUpload'[v] = toUpload[v]
  BY <1>1, <1>2, <1>4
<1>7. ASSUME NEW u \in Uploaders PROVE QueueSound(w, toUpload'[w][u])
  <2>1. toUpload'[w][u] \in {toUpload[w][u], toUpload[w][u] \o CheckpointMessages(w)}
    BY <1>1, <1>2
  <2>2. QueueSound(w, toUpload[w][u] \o CheckpointMessages(w))
    BY <1>1, <1>2, QueueSoundChecked
  <2> QED BY <1>2, <2>1, <2>2
<1>8. phase[w] = "loop" /\ b + 1 \in Nat
  BY <1>1 DEF HasItem, Working
<1>9. LineAs(w, phase'[w], infos'[w], pending'[w], ready'[w], toDownload'[w], toUpload'[w])
  BY <1>1, <1>2, <1>4, <1>5, <1>6, <1>7, <1>8 DEF LineAs
<1>10. LineOf(w)'
  BY <1>1, <1>9, LineLater
<1> QED BY <1>1, <1>2, <1>3, <1>6, <1>10, LineWorker DEF KeepInv

LEMMA AddItemAndCloseLine ==
    ASSUME KeepInv, Orderly, LineInv, NEW w \in DOMAIN phase, AddItemAndClose(w)
    PROVE  LineInv'
<1> USE DEF jobVars, mainVars, writerVars, outputVars, launchVars
<1> DEFINE c == Chunk(w, nextChunk[w], pending[w])
<1>1. /\ UNCHANGED <<job, main, saved, index, existing, restarts, phase, toDownload>>
      /\ HasItem(w) /\ ready' = [ready EXCEPT ![QueueOf(w)] = Tail(@)]
      /\ pending' = [pending EXCEPT ![w] = <<Next1(w)>>]
      /\ infos' = [infos EXCEPT ![w] = Append(@, c)]
      /\ toUpload' = [toUpload EXCEPT ![w][Turn(w)] =
                         (@ \o <<ChunkMessage(c)>>) \o CheckpointMessages(w)]
  BY DEF AddItemAndClose, Handled, CloseChunk
<1>2. /\ DOMAIN infos = DOMAIN phase /\ DOMAIN pending = DOMAIN phase
      /\ DOMAIN toUpload = DOMAIN phase /\ DOMAIN toDownload = DOMAIN phase
      /\ toUpload[w] = [u \in Uploaders |-> toUpload[w][u]]
      /\ DOMAIN toDownload[w] = Downloaders
      /\ \A u \in Uploaders : QueueSound(w, toUpload[w][u])
      /\ Low(w) \in Nat /\ High(w) \in Nat
  BY LineShape, LineLists DEF KeepInv, OutInv, ShapeInv
<1>3. /\ DOMAIN ready' = DOMAIN phase /\ \A v \in DOMAIN phase \ {w} : ready'[v] = ready[v]
      /\ \E b \in Nat :
            /\ Taken(job.skips = {}, Low(w), High(w), infos[w], pending[w], b)
            /\ Next1(w) = b + 1 /\ b + 1 <= High(w)
            /\ Coming(High(w), ready'[w], toDownload[w], b + 1)
  BY <1>1, LineItem
<1>4. PICK b \in Nat : /\ Taken(job.skips = {}, Low(w), High(w), infos[w], pending[w], b)
                       /\ Next1(w) = b + 1 /\ b + 1 <= High(w)
                       /\ Coming(High(w), ready'[w], toDownload[w], b + 1)
  BY <1>3
<1>5. c.items = pending[w] /\ ChunkMessage(c).kind = "chunk"
  BY DEF Chunk, ChunkMessage
<1> HIDE DEF c
<1>6. Taken(job.skips = {}, Low(w), High(w), Append(infos[w], c), << >>, b)
  BY <1>2, <1>4, <1>5, TakenClosed
<1>7. Taken(job.skips = {}, Low(w), High(w), Append(infos[w], c), Append(<< >>, b + 1), b + 1)
  BY <1>2, <1>4, <1>6, TakenMore
<1>8. /\ pending'[w] = <<b + 1>> /\ infos'[w] = Append(infos[w], c)
      /\ \A v \in DOMAIN phase \ {w} : /\ pending'[v] = pending[v] /\ toUpload'[v] = toUpload[v]
                                       /\ infos'[v] = infos[v]
  <2>1. pending'[w] = <<b + 1>>
    BY <1>1, <1>2, <1>4
  <2>2. infos'[w] = Append(infos[w], c)
    BY <1>1, <1>2
  <2>3. \A v \in DOMAIN phase \ {w} : pending'[v] = pending[v] /\ infos'[v] = infos[v]
    BY <1>1, <1>2
  <2>4. \A v \in DOMAIN phase \ {w} : toUpload'[v] = toUpload[v]
    BY <1>1, <1>2
  <2> QED BY <2>1, <2>2, <2>3, <2>4
<1>9. Append(<< >>, b + 1) = <<b + 1>>
  OBVIOUS
<1>10. SoundFor(w, infos'[w])
  BY <1>6, <1>8 DEF Taken, SoundFor
<1>11. ASSUME NEW u \in Uploaders PROVE QueueSound(w, toUpload'[w][u])
  <2> DEFINE q == toUpload[w][u] \o <<ChunkMessage(c)>>
  <2>1. toUpload'[w][u] \in {toUpload[w][u], q \o CheckpointMessages(w)}
    BY <1>1, <1>2
  <2>2. QueueSound(w, <<ChunkMessage(c)>>)
    BY <1>5, QueueSoundOne
  <2>3. QueueSound(w, q)
    BY <1>2, <2>2, QueueSoundMore
  <2> HIDE DEF q
  <2>4. QueueSound(w, q \o CheckpointMessages(w))
    BY <1>10, <2>3, QueueSoundChecked
  <2> QED BY <1>2, <2>1, <2>4
<1>12. phase[w] = "loop" /\ b + 1 \in Nat
  BY <1>1 DEF HasItem, Working
<1>13. LineAs(w, phase'[w], infos'[w], pending'[w], ready'[w], toDownload'[w], toUpload'[w])
  <2>1. Taken(job.skips = {}, Low(w), High(w), infos'[w], pending'[w], b + 1)
    BY <1>7, <1>8, <1>9
  <2>2. /\ toDownload'[w] = toDownload[w] /\ phase'[w] = "loop"
        /\ Coming(High(w), ready'[w], toDownload'[w], b + 1)
    BY <1>1, <1>4, <1>12
  <2> QED BY <1>2, <1>10, <1>11, <1>12, <2>1, <2>2 DEF LineAs
<1>14. LineOf(w)'
  BY <1>1, <1>13, LineLater
<1> QED BY <1>1, <1>2, <1>3, <1>8, <1>14, LineWorker DEF KeepInv

LEMMA ConcludeLine ==
    ASSUME KeepInv, Orderly, LineInv, NEW w \in DOMAIN phase, Conclude(w)
    PROVE  LineInv'
<1> USE DEF jobVars, mainVars, writerVars, outputVars, launchVars
<1> DEFINE c == Chunk(w, nextChunk[w], pending[w])
           last == IF pending[w] = << >> THEN << >> ELSE <<ChunkMessage(c)>>
           written(u) == IF u = 0 THEN last ELSE << >>
           listed(u) == IF u = Turn(w) THEN CheckpointMessages(w) ELSE << >>
<1>1. /\ UNCHANGED <<job, main, saved, index, existing, restarts, toDownload>>
      /\ phase[w] = "loop" /\ phase' = [phase EXCEPT ![w] = "flush"]
      /\ pending' = [pending EXCEPT ![w] = << >>]
      /\ infos' = IF pending[w] = << >> THEN infos ELSE [infos EXCEPT ![w] = Append(@, c)]
      /\ toUpload' = [toUpload EXCEPT ![w] = [u \in Uploaders |->
                         ((@[u] \o written(u)) \o listed(u)) \o <<EndMessage>>]]
      /\ ready' = [ready EXCEPT ![QueueOf(w)] = IF @ # << >> /\ ~SeesAllDone(w) THEN Tail(@) ELSE @]
  BY DEF Conclude, CloseChunk, Working
<1>2. /\ DOMAIN infos = DOMAIN phase /\ DOMAIN pending = DOMAIN phase /\ DOMAIN ready = DOMAIN phase
      /\ DOMAIN toUpload = DOMAIN phase /\ DOMAIN toDownload = DOMAIN phase
      /\ DOMAIN toDownload[w] = Downloaders /\ LineOf(w) /\ SoundFor(w, infos[w])
      /\ \A u \in Uploaders : QueueSound(w, toUpload[w][u])
      /\ Low(w) \in Nat /\ High(w) \in Nat /\ QueueOf(w) = w
  BY LineShape, LineLists, LineQueue DEF KeepInv, OutInv, ShapeInv
<1>3. /\ DOMAIN phase' = DOMAIN phase /\ DOMAIN ready' = DOMAIN phase
      /\ \A v \in DOMAIN phase \ {w} :
            /\ phase'[v] = phase[v] /\ infos'[v] = infos[v] /\ pending'[v] = pending[v]
            /\ ready'[v] = ready[v] /\ toUpload'[v] = toUpload[v]
      /\ phase'[w] = "flush"
      /\ infos'[w] = IF pending[w] = << >> THEN infos[w] ELSE Append(infos[w], c)
  BY <1>1, <1>2
<1>4. \A u \in Uploaders : toUpload'[w][u] = ((toUpload[w][u] \o written(u)) \o listed(u)) \o <<EndMessage>>
  <2> HIDE DEF written, listed
  <2> QED BY <1>1, <1>2
<1>5. c.items = pending[w] /\ ChunkMessage(c).kind = "chunk" /\ EndMessage.kind = "end"
  BY DEF Chunk, ChunkMessage, EndMessage
<1> HIDE DEF c
<1>6. SoundFor(w, infos'[w])
  <2>1. CASE pending[w] = << >>
    BY <1>2, <1>3, <2>1
  <2>2. CASE pending[w] # << >>
    <3>1. PICK b \in Nat : Taken(job.skips = {}, Low(w), High(w), infos[w], pending[w], b)
      BY <1>1, <1>2 DEF LineOf, LineAs
    <3>2. Taken(job.skips = {}, Low(w), High(w), Append(infos[w], c), << >>, b)
      BY <1>2, <1>5, <3>1, TakenClosed
    <3> QED BY <1>3, <2>2, <3>2 DEF Taken, SoundFor
  <2> QED BY <2>1, <2>2
<1>7. ASSUME NEW u \in Uploaders PROVE QueueSound(w, toUpload'[w][u])
  <2> DEFINE q == toUpload[w][u] \o written(u)
  <2>1. QueueSound(w, written(u)) /\ QueueSound(w, <<EndMessage>>)
    BY <1>5, QueueSoundOne, QueueSoundEmpty
  <2>2. QueueSound(w, q)
    <3> HIDE DEF written
    <3> QED BY <1>2, <2>1, QueueSoundMore
  <2> HIDE DEF q
  <2>3. QueueSound(w, q \o << >>) /\ QueueSound(w, q \o CheckpointMessages(w))
    BY <1>6, <2>2, QueueSoundMore, QueueSoundChecked, QueueSoundEmpty
  <2>4. QueueSound(w, q \o listed(u))
    BY <2>3
  <2> HIDE DEF listed
  <2>5. QueueSound(w, (q \o listed(u)) \o <<EndMessage>>)
    BY <2>1, <2>4, QueueSoundMore
  <2> QED BY <1>4, <2>5 DEF q
<1>8. LineAs(w, phase'[w], infos'[w], pending'[w], ready'[w], toDownload'[w], toUpload'[w])
  BY <1>1, <1>2, <1>3, <1>6, <1>7 DEF LineAs
<1>9. LineOf(w)'
  BY <1>1, <1>8, LineLater
<1> QED BY <1>1, <1>2, <1>3, <1>9, LineWorker DEF KeepInv

LEMMA PassEndLine ==
    ASSUME KeepInv, Orderly, LineInv, NEW w \in DOMAIN phase, PassEnd(w)
    PROVE  LineInv'
<1> USE DEF jobVars, mainVars, writerVars, outputVars, launchVars, uploadVars
<1>1. /\ UNCHANGED <<job, main, saved, index, existing, restarts, phase, infos, pending, toDownload, toUpload>>
      /\ phase[w] = "loop" /\ ready[QueueOf(w)] # << >> /\ Next1(w) = None
      /\ ready' = [ready EXCEPT ![QueueOf(w)] = Tail(@)]
  BY DEF PassEnd, Working
<1>2. /\ DOMAIN ready = DOMAIN phase /\ DOMAIN toDownload = DOMAIN phase /\ LineOf(w) /\ QueueOf(w) = w
  BY LineShape, LineQueue DEF KeepInv
<1>3. /\ DOMAIN ready' = DOMAIN phase /\ \A v \in DOMAIN phase \ {w} : ready'[v] = ready[v]
      /\ ready'[w] = Tail(ready[w]) /\ ready[w] # << >> /\ ~(Head(ready[w]) > 0)
  BY <1>1, <1>2 DEF Next1, None
<1>4. PICK b \in Nat : /\ Taken(job.skips = {}, Low(w), High(w), infos[w], pending[w], b)
                       /\ Coming(High(w), ready[w], toDownload[w], b)
  BY <1>1, <1>2 DEF LineOf, LineAs
<1>5. Coming(High(w), Tail(ready[w]), toDownload[w], b)
  BY <1>3, <1>4, ComingToken
<1>6. LineAs(w, phase'[w], infos'[w], pending'[w], ready'[w], toDownload'[w], toUpload'[w])
  BY <1>1, <1>2, <1>3, <1>4, <1>5 DEF LineOf, LineAs
<1>7. LineOf(w)'
  BY <1>1, <1>6, LineLater
<1> QED BY <1>1, <1>2, <1>3, <1>7, LineWorker DEF KeepInv

\* Without downloaders the list goes into the queue.
LEMMA SetupLine ==
    ASSUME KeepInv, Orderly, LineInv, NEW w \in DOMAIN phase, Setup(w)
    PROVE  LineInv'
<1> USE DEF jobVars, mainVars, writerVars, outputVars, launchVars
<1>1. /\ UNCHANGED <<job, main, saved, index, existing, restarts, infos, pending, toDownload, toUpload>>
      /\ phase[w] = "setup" /\ phase' = [phase EXCEPT ![w] = "loop"]
      /\ ready' = [ready EXCEPT ![QueueOf(w)] =
                      IF job.downloaders > 0 \/ job.source = "queue" THEN @
                      ELSE @ \o LeftFor(w, infos[w])]
  BY DEF Setup
<1>2. /\ DOMAIN ready = DOMAIN phase /\ DOMAIN toDownload = DOMAIN phase /\ LineOf(w) /\ QueueOf(w) = w
      /\ w \in Workers /\ SoundFor(w, infos[w]) /\ DOMAIN toDownload[w] = Downloaders
      /\ Low(w) \in Nat /\ job \in Jobs /\ lists \in ListsOf(job)
  BY LineShape, LineQueue, LineLists DEF KeepInv, OutInv, ShapeInv
<1>3. /\ DOMAIN ready' = DOMAIN phase /\ DOMAIN phase' = DOMAIN phase
      /\ \A v \in DOMAIN phase \ {w} : ready'[v] = ready[v] /\ phase'[v] = phase[v]
      /\ ready'[w] = (IF job.downloaders > 0 THEN ready[w] ELSE ready[w] \o LeftFor(w, infos[w]))
      /\ phase'[w] = "loop"
  BY <1>1, <1>2 DEF Orderly
<1>4. PICK b \in Nat : /\ Taken(job.skips = {}, Low(w), High(w), infos[w], pending[w], b)
                       /\ Coming(High(w), ready[w], toDownload[w], b)
                       /\ job.downloaders = 0 => ready[w] = << >> /\ b = Low(w) + DoneTill(infos[w])
  BY <1>1, <1>2 DEF LineOf, LineAs
<1>5. Coming(High(w), ready'[w], toDownload[w], b)
  <2>1. CASE job.downloaders > 0
    BY <1>3, <1>4, <2>1
  <2>2. CASE ~(job.downloaders > 0)
    <3>1. job.downloaders = 0 /\ DOMAIN toDownload[w] = {}
      BY <1>2, <2>2, LineDownloaders
    <3> DEFINE left == LeftFor(w, infos[w])
    <3>2. left \in Seq(Int) /\ \A p \in DOMAIN left : left[p] = b + p /\ left[p] <= High(w)
      BY <1>2, <1>4, <3>1, LineLeft
    <3> HIDE DEF left
    <3>3. ready'[w] = left
      BY <1>3, <1>4, <2>2, <3>1, <3>2, ConcatEmpty DEF left, IsSeq
    <3> QED BY <3>1, <3>2, <3>3, ComingAll
  <2> QED BY <2>1, <2>2
<1>6. LineAs(w, phase'[w], infos'[w], pending'[w], ready'[w], toDownload'[w], toUpload'[w])
  BY <1>1, <1>2, <1>3, <1>4, <1>5 DEF LineOf, LineAs
<1>7. LineOf(w)'
  BY <1>1, <1>6, LineLater
<1> QED BY <1>1, <1>2, <1>3, <1>7, LineWorker DEF KeepInv

\* The downloader of a worker passes on an item or its token.
LEMMA DownloadLine ==
    ASSUME KeepInv, Orderly, LineInv, NEW w \in DOMAIN phase, NEW d \in Downloaders,
           Download(w, d) \/ DownloadEnds(w, d)
    PROVE  LineInv'
<1> USE DEF jobVars, mainVars, writerVars, outputVars, launchVars, uploadVars
<1> DEFINE x == IF toDownload[w][d] # << >> THEN Head(toDownload[w][d]) ELSE None
           rest == IF toDownload[w][d] # << >> THEN Tail(toDownload[w][d]) ELSE << >>
<1>1. /\ UNCHANGED <<job, main, saved, index, existing, restarts, phase, infos, pending, toUpload>>
      /\ ready' = [ready EXCEPT ![QueueOf(w)] = Append(@, x)]
      /\ \/ toDownload[w][d] # << >> /\ toDownload' = [toDownload EXCEPT ![w][d] = Tail(@)]
         \/ toDownload[w][d] = << >> /\ toDownload' = toDownload
  BY DEF Download, DownloadEnds
<1>2. /\ DOMAIN ready = DOMAIN phase /\ DOMAIN toDownload = DOMAIN phase /\ LineOf(w) /\ QueueOf(w) = w
      /\ DOMAIN toDownload[w] = Downloaders /\ Downloaders = {d} /\ job.downloaders # 0
  <2>1. job \in Jobs
    BY DEF KeepInv, OutInv, ShapeInv
  <2>2. Downloaders = {d} /\ job.downloaders # 0
    BY <2>1, LineDownloaders
  <2> QED BY <2>2, LineShape, LineQueue DEF KeepInv
<1> HIDE DEF x
<1>3. /\ DOMAIN ready' = DOMAIN phase /\ DOMAIN toDownload' = DOMAIN phase
      /\ \A v \in DOMAIN phase \ {w} : ready'[v] = ready[v] /\ toDownload'[v] = toDownload[v]
      /\ ready'[w] = Append(ready[w], x)
      /\ DOMAIN toDownload'[w] = {d}
      /\ toDownload[w][d] # << >> => toDownload'[w][d] = Tail(toDownload[w][d])
      /\ toDownload[w][d] = << >> => toDownload'[w] = toDownload[w]
  BY <1>1, <1>2
<1>4. ASSUME NEW b \in Nat, Coming(High(w), ready[w], toDownload[w], b)
      PROVE  Coming(High(w), ready'[w], toDownload'[w], b)
  <2>1. CASE toDownload[w][d] # << >>
    <3>1. x = Head(toDownload[w][d]) /\ toDownload'[w][d] = Tail(toDownload[w][d])
      BY <1>3, <2>1 DEF x
    <3> DEFINE hi == High(w)
               r == ready[w]
               t == toDownload[w]
               u == toDownload'[w]
    <3>2. /\ Coming(hi, r, t, b) /\ d \in DOMAIN t /\ DOMAIN t = {d} /\ t[d] # << >>
          /\ DOMAIN u = {d} /\ u[d] = Tail(t[d])
      BY <1>2, <1>3, <1>4, <2>1, <3>1
    <3>3. ready'[w] = Append(r, Head(t[d]))
      BY <1>3, <3>1
    <3> HIDE DEF hi, r, t, u
    <3>4. Coming(hi, Append(r, Head(t[d])), u, b)
      BY <1>4, <3>2, ComingFetched
    <3> QED BY <3>3, <3>4 DEF hi, u
  <2>2. CASE toDownload[w][d] = << >>
    <3>1. x \in Int /\ ~(x > 0) /\ \A e \in DOMAIN toDownload[w] : toDownload[w][e] = << >>
      BY <1>2, <2>2 DEF x, None
    <3>2. Coming(High(w), Append(ready[w], x), toDownload[w], b)
      BY <1>4, <3>1, ComingLast
    <3> QED BY <1>3, <2>2, <3>2
  <2> QED BY <2>1, <2>2
<1>5. LineAs(w, phase'[w], infos'[w], pending'[w], ready'[w], toDownload'[w], toUpload'[w])
  <2>1. LineAs(w, phase[w], infos[w], pending[w], ready[w], toDownload[w], toUpload[w])
    BY <1>2 DEF LineOf
  <2> QED BY <1>1, <1>2, <1>3, <1>4, <2>1 DEF LineAs
<1>6. LineOf(w)'
  BY <1>1, <1>5, LineLater
<1> QED BY <1>1, <1>2, <1>3, <1>6, LineWorker DEF KeepInv

\* Chunks in order, one worker behind the other: their samples are in order.
LEMMA FlatInOrder ==
    ASSUME NEW S, NEW parts \in Seq(Seq(S)),
           \A c \in S : c.items \in Seq(Int) /\ InOrder(c.items),
           \A i \in 1 .. Len(parts) : ChunksInOrder(parts[i]),
           \A i, j \in 1 .. Len(parts) : i < j =>
               \A c \in ToSet(parts[i]) : \A d \in ToSet(parts[j]) : Before(c.items, d.items),
           NEW flat, flat = FlattenSeq(parts)
    PROVE  /\ InOrder(FlattenSeq([k \in DOMAIN flat |-> flat[k].items]))
           /\ IsSeq(FlattenSeq([k \in DOMAIN flat |-> flat[k].items]))
<1> DEFINE R == {x \in S \X S : Before(x[1].items, x[2].items)}
           T == {x \in Int \X Int : x[1] < x[2]}
           items == [k \in DOMAIN flat |-> flat[k].items]
<1>1. \A i \in 1 .. Len(parts) : parts[i] \in Seq(S)
  OBVIOUS
<1>2. ASSUME NEW i \in 1 .. Len(parts)
      PROVE  /\ DOMAIN parts[i] = 1 .. Len(parts[i]) /\ \A k \in DOMAIN parts[i] : parts[i][k] \in S
             /\ \A c \in ToSet(parts[i]) : c \in S
  BY <1>1, ElementOfSeq DEF ToSet
<1>3. \A c, d \in S : Before(c.items, d.items) <=> <<c, d>> \in R
  OBVIOUS
<1> HIDE DEF R
<1>4. \A i \in 1 .. Len(parts) : Sorted(parts[i], R)
  BY <1>2, <1>3 DEF Sorted, ChunksInOrder
<1>5. \A i, j \in 1 .. Len(parts) : i < j =>
         \A c \in ToSet(parts[i]) : \A d \in ToSet(parts[j]) : <<c, d>> \in R
  BY <1>2, <1>3
<1>6. Sorted(flat, R) /\ flat \in Seq(S)
  BY <1>4, <1>5, FlatSorted, FlatSeq
<1>7. DOMAIN flat = 1 .. Len(flat) /\ Len(flat) \in Nat /\ \A k \in 1 .. Len(flat) : flat[k] \in S
  BY <1>6, ElementOfSeq
<1>8. items \in Seq(Seq(Int)) /\ Len(items) = Len(flat)
  <2> DEFINE n == Len(flat)
  <2>1. n \in Nat /\ DOMAIN flat = 1 .. n /\ \A k \in 1 .. n : flat[k].items \in Seq(Int)
    BY <1>7
  <2> HIDE DEF n
  <2>2. items \in [1 .. n -> Seq(Int)]
    BY <2>1
  <2>3. items \in Seq(Seq(Int))
    BY <2>1, <2>2, FunctionIsSeq
  <2>4. Len(items) = n
    <3> HIDE DEF items
    <3> QED BY <2>1, <2>2, <2>3
  <2> QED BY <2>3, <2>4 DEF n
<1>9. \A k \in 1 .. Len(items) : items[k] = flat[k].items /\ items[k] \in Seq(Int) /\ InOrder(items[k])
  BY <1>7, <1>8
<1>10. \A k, l \in 1 .. Len(items) : k < l => Before(items[k], items[l])
  <2> SUFFICES ASSUME NEW k \in 1 .. Len(items), NEW l \in 1 .. Len(items), k < l
               PROVE  Before(items[k], items[l])
    OBVIOUS
  <2>1. k \in DOMAIN flat /\ l \in DOMAIN flat /\ flat[k] \in S /\ flat[l] \in S
    BY <1>7, <1>8
  <2>2. <<flat[k], flat[l]>> \in R
    BY <1>6, <2>1 DEF Sorted
  <2>3. Before(flat[k].items, flat[l].items)
    BY <1>3, <2>1, <2>2
  <2> QED BY <2>1, <2>3
<1>11. \A x, y \in Int : x < y <=> <<x, y>> \in T
  OBVIOUS
<1> HIDE DEF items, T
<1>12. ASSUME NEW k \in 1 .. Len(items)
       PROVE  DOMAIN items[k] = 1 .. Len(items[k]) /\ \A p \in DOMAIN items[k] : items[k][p] \in Int
  BY <1>9
<1>13. \A k \in 1 .. Len(items) : Sorted(items[k], T)
  BY <1>9, <1>11, <1>12 DEF Sorted, InOrder
<1>14. ASSUME NEW k \in 1 .. Len(items), NEW l \in 1 .. Len(items), k < l,
              NEW x \in ToSet(items[k]), NEW y \in ToSet(items[l])
       PROVE  <<x, y>> \in T
  <2>1. PICK p \in DOMAIN items[k] : x = items[k][p]
    BY DEF ToSet
  <2>2. PICK q \in DOMAIN items[l] : y = items[l][q]
    BY DEF ToSet
  <2>3. x \in Int /\ y \in Int /\ Before(items[k], items[l])
    BY <1>10, <1>12, <1>14, <2>1, <2>2
  <2>4. x < y
    BY <2>1, <2>2, <2>3 DEF Before
  <2> QED BY <1>11, <2>3, <2>4
<1>15. Sorted(FlattenSeq(items), T) /\ FlattenSeq(items) \in Seq(Int)
  <2>1. Sorted(FlattenSeq(items), T)
    BY <1>8, <1>13, <1>14, FlatSorted
  <2> QED BY <1>8, <2>1, FlatSeq
<1> DEFINE all == FlattenSeq(items)
<1> HIDE DEF all
<1>16. Sorted(all, T) /\ \A p \in DOMAIN all : all[p] \in Int
  BY <1>15 DEF all
<1>17. InOrder(all) /\ IsSeq(all)
  <2>1. InOrder(all)
    BY <1>11, <1>16 DEF Sorted, InOrder
  <2> QED BY <1>15, <2>1 DEF IsSeq, all
<1> QED BY <1>17 DEF all, items

\* With one downloader its share is the list.
LEMMA ShareOfOne ==
    ASSUME NEW list \in Seq(Int)
    PROVE  [k \in 1 .. (Len(list) + 1 - 1 - 0) \div 1 |-> list[(k - 1) * 1 + 0 + 1]] = list
<1> DEFINE n == Len(list)
<1>1. n \in Nat /\ DOMAIN list = 1 .. n /\ list = [k \in 1 .. n |-> list[k]]
  OBVIOUS
<1> HIDE DEF n
<1>2. (n + 1 - 1 - 0) \div 1 = n
  BY <1>1
<1>3. \A k \in 1 .. n : (k - 1) * 1 + 0 + 1 = k
  BY <1>1
<1> QED BY <1>1, <1>2, <1>3 DEF n

\* The chunks of a checkpoint, when a run is started: they are sound, and if an item
\* may be left out none is read.
LEMMA LaunchSaved ==
    ASSUME KeepInv, Orderly, LineInv, main = "start", CleanOutput, job' = job, NEW w \in Workers
    PROVE  /\ SoundFor(w, saved'[w]) /\ SoundFor(w, Loaded(w))
           /\ job.skips = {} \/ Loaded(w) = << >>
<1>1. saved'[w] \in {saved[w], << >>}
  BY CleanFacts DEF KeepInv
<1>2. SoundFor(w, saved[w]) /\ SoundFor(w, << >>)
  BY SoundEmpty DEF LineInv, SoundFor
<1>3. ~job.checkpoint => saved'[w] = << >>
  BY DEF CleanOutput
<1>4. restarts = 0 => saved[w] = << >>
  BY DEF LineInv
<1>5. restarts > 0 /\ job.checkpoint => job.skips = {}
  BY DEF Orderly
<1>6. restarts = 0 \/ restarts > 0
  BY DEF KeepInv
<1>7. Loaded(w) \in {saved'[w], << >>}
  BY DEF Loaded
<1> QED BY <1>1, <1>2, <1>3, <1>4, <1>5, <1>6, <1>7

LEMMA LaunchLine ==
    ASSUME KeepInv, Orderly, LineInv, Launch
    PROVE  LineInv'
<1> USE DEF jobVars, launchVars
<1> DEFINE left(w) == LeftFor(w, Loaded(w))
<1>1. /\ main = "start" /\ CleanOutput /\ main' = "running" /\ job' = job /\ lists' = lists
      /\ restarts' = restarts
      /\ phase' = [w \in Workers |-> "setup"] /\ infos' = [w \in Workers |-> Loaded(w)]
      /\ pending' = [w \in Workers |-> << >>]
      /\ ready' = [w \in Workers |-> << >>]
      /\ toUpload' = [w \in Workers |-> [u \in Uploaders |-> << >>]]
      /\ toDownload' = [w \in Workers |-> [d \in Downloaders |->
             [k \in 1 .. (Len(left(w)) + job.downloaders - 1 - d) \div job.downloaders |->
                 left(w)[(k - 1) * job.downloaders + d + 1]]]]
  BY DEF Launch, Fresh, NewWorkers, NewWriters, Orderly
<1>2. job \in Jobs /\ lists \in ListsOf(job) /\ Workers' = Workers
  BY <1>1 DEF KeepInv, OutInv, ShapeInv, Workers
<1>3. ASSUME NEW w \in Workers
      PROVE  /\ SoundFor(w, saved'[w]) /\ SoundFor(w, Loaded(w))
             /\ job.skips = {} \/ Loaded(w) = << >>
  BY <1>1, LaunchSaved
<1>4. ASSUME NEW w \in Workers PROVE LineOf(w)'
  <2> DEFINE b == Low(w) + DoneTill(Loaded(w))
             list == left(w)
             t == toDownload'[w]
  <2>1. Low(w) \in Nat /\ High(w) \in Nat
    BY <1>2, LineLists
  <2>2. /\ list \in Seq(Int) /\ DoneTill(Loaded(w)) \in Nat
        /\ \A p \in DOMAIN list : list[p] = b + p /\ list[p] <= High(w)
    BY <1>2, <1>3, LineLeft
  <2>3. Taken(job.skips = {}, Low(w), High(w), Loaded(w), << >>, b)
    BY <1>3, <2>1, TakenFirst DEF SoundFor
  <2>4. DOMAIN t = Downloaders /\ \A d \in DOMAIN t : t[d] = list
    <3>1. DOMAIN t = Downloaders
      BY <1>1
    <3>2. CASE job.downloaders = 0
      BY <1>2, <3>1, <3>2, LineDownloaders
    <3>3. CASE job.downloaders = 1
      <4>1. Downloaders = {0}
        BY <1>2, <3>3, LineDownloaders
      <4>2. t[0] = [k \in 1 .. (Len(list) + 1 - 1 - 0) \div 1 |-> list[(k - 1) * 1 + 0 + 1]]
        BY <1>1, <3>3, <4>1
      <4> HIDE DEF list
      <4> QED BY <2>2, <3>1, <4>1, <4>2, ShareOfOne
    <3> QED BY <1>2, <3>2, <3>3, LineDownloaders
  <2>5. b \in Nat
    BY <2>1, <2>2
  <2> HIDE DEF b, list, t
  <2>6. Coming(High(w), << >>, t, b)
    BY <2>2, <2>4, <2>5, ComingAll
  <2>7. /\ phase'[w] = "setup" /\ infos'[w] = Loaded(w) /\ pending'[w] = << >> /\ ready'[w] = << >>
        /\ \A u \in Uploaders : toUpload'[w][u] = << >>
    BY <1>1
  <2>8. \A u \in Uploaders : QueueSound(w, toUpload'[w][u])
    BY <2>7, QueueSoundEmpty
  <2>9. b = Low(w) + DoneTill(infos'[w])
    BY <2>7 DEF b
  <2>10. LineAs(w, phase'[w], infos'[w], pending'[w], ready'[w], toDownload'[w], toUpload'[w])
    BY <1>3, <2>3, <2>4, <2>5, <2>6, <2>7, <2>8, <2>9 DEF LineAs, t
  <2> QED BY <1>1, <2>10, LineLater
<1>5. \A w \in Workers' : SoundFor(w, saved[w])'
  BY <1>1, <1>2, <1>3 DEF SoundFor, Low, High, Size
<1>6. DOMAIN phase' = Workers /\ DOMAIN ready' = Workers /\ DOMAIN toDownload' = Workers
  BY <1>1
<1> QED BY <1>1, <1>4, <1>5, <1>6 DEF LineInv

\* A step that only stops a worker, or that no worker notices.
LEMMA IdleLine ==
    ASSUME LineInv, UNCHANGED <<job, index, existing, restarts, infos, pending, toDownload, toUpload>>,
           DOMAIN phase' = DOMAIN phase, DOMAIN ready' = DOMAIN ready,
           \A w \in DOMAIN phase : phase'[w] \in {"setup", "loop"} =>
               phase'[w] = phase[w] /\ ready'[w] = ready[w],
           main' = "start" => main = "start" /\ saved' = saved,
           main' \in {"published", "finished"} => main \in {"published", "finished"},
           \A w \in Workers : SoundFor(w, saved'[w])
    PROVE  LineInv'
<1>1. DOMAIN ready' = DOMAIN phase /\ DOMAIN toDownload' = DOMAIN phase
  BY DEF LineInv
<1>2. ASSUME NEW w \in DOMAIN phase PROVE LineOf(w)'
  <2>1. LineOf(w)
    BY DEF LineInv
  <2> QED BY <2>1, LineSame
<1> QED BY <1>1, <1>2, LineOn

LEMMA WorkerStops ==
    ASSUME KeepInv, Orderly, LineInv, NEW w \in DOMAIN phase,
           Fail(w) \/ ConcludeFails(w) \/ Flushed(w) \/ Exit(w) \/ RemoveFiles(w)
    PROVE  LineInv'
<1> USE DEF jobVars, mainVars, queueVars, writerVars, outputVars, launchVars, uploadVars, diskVars
<1>1. /\ UNCHANGED <<job, main, saved, index, existing, restarts, infos, pending, toDownload, toUpload>>
      /\ \/ phase' = phase
         \/ \E x \in {"failed", "sweep", "done"} : phase' = [phase EXCEPT ![w] = x]
      /\ \/ ready' = ready
         \/ phase' = [phase EXCEPT ![w] = "failed"] /\ ready' = [ready EXCEPT ![QueueOf(w)] = Tail(@)]
  BY DEF Fail, ConcludeFails, Flushed, Exit, RemoveFiles
<1>2. DOMAIN ready = DOMAIN phase /\ QueueOf(w) = w
  BY LineQueue DEF LineInv
<1>3. DOMAIN phase' = DOMAIN phase /\ DOMAIN ready' = DOMAIN ready
  BY <1>1
<1>4. ASSUME NEW v \in DOMAIN phase, phase'[v] \in {"setup", "loop"}
      PROVE  phase'[v] = phase[v] /\ ready'[v] = ready[v]
  <2>1. CASE phase' = phase
    <3>1. ready' = ready \/ v # w
      BY <1>1, <1>4, <2>1
    <3> QED BY <1>1, <1>2, <2>1, <3>1
  <2>2. CASE phase' # phase
    <3>1. v # w
      BY <1>1, <1>4, <2>2
    <3> QED BY <1>1, <1>2, <3>1
  <2> QED BY <2>1, <2>2
<1>5. \A v \in Workers : SoundFor(v, saved'[v])
  BY <1>1 DEF LineInv
<1> QED BY <1>1, <1>3, <1>4, <1>5, IdleLine

\* The main process looks on.
LEMMA MainLooksOn ==
    ASSUME KeepInv, Orderly, LineInv,
           Refuse \/ RefuseConfig \/ ExitOnError \/ AllWorkersEnd \/ (\E w \in DOMAIN phase : SeeProgress(w))
    PROVE  LineInv'
<1> USE DEF jobVars, mainVars, queueVars, writerVars, outputVars, launchVars, uploadVars, diskVars
<1>1. /\ UNCHANGED <<job, saved, index, existing, restarts, phase, infos, pending, toDownload, toUpload>>
      /\ main' \notin {"start", "published", "finished"} \/ main' = main
      /\ ready' = ready \/ ready' = [ready EXCEPT ![0] = @]
  <2>1. CASE Refuse \/ RefuseConfig \/ ExitOnError \/ AllWorkersEnd
    BY <2>1 DEF Refuse, RefuseConfig, ExitOnError, AllWorkersEnd, Orderly
  <2>2. ASSUME NEW w \in DOMAIN phase, SeeProgress(w)
        PROVE  /\ UNCHANGED <<job, saved, index, existing, restarts, phase, infos, pending, toDownload, toUpload>>
               /\ main' \notin {"start", "published", "finished"} \/ main' = main
               /\ ready' = ready \/ ready' = [ready EXCEPT ![0] = @]
    BY <2>2 DEF SeeProgress, Orderly
  <2> QED BY <2>1, <2>2
<1>2. DOMAIN ready' = DOMAIN ready /\ \A v \in DOMAIN ready : ready'[v] = ready[v]
  BY <1>1
<1>3. \A v \in DOMAIN phase : ready'[v] = ready[v]
  BY <1>2 DEF LineInv
<1>4. \A v \in Workers : SoundFor(v, saved'[v])
  BY <1>1 DEF LineInv
<1> QED BY <1>1, <1>2, <1>3, <1>4, IdleLine

LEMMA CleanCheckpointsLine ==
    ASSUME KeepInv, Orderly, LineInv, CleanCheckpoints
    PROVE  LineInv'
<1> USE DEF jobVars, mainVars, queueVars, writerVars, outputVars, launchVars, uploadVars, diskVars
<1>1. /\ main = "published" /\ main' = "finished" /\ saved' = [w \in Workers |-> << >>]
      /\ UNCHANGED <<job, index, existing, restarts, phase, infos, pending, ready, toDownload, toUpload>>
  BY DEF CleanCheckpoints
<1>2. \A v \in Workers : SoundFor(v, saved'[v])
  BY <1>1, SoundEmpty DEF SoundFor
<1> QED BY <1>1, <1>2, IdleLine

\* An uploader serves a message, or gives up.
LEMMA ServeLine ==
    ASSUME KeepInv, Orderly, LineInv, NEW w \in DOMAIN phase, NEW u \in Uploaders, UploaderStep(w, u)
    PROVE  LineInv'
<1> USE DEF jobVars, mainVars, queueVars, writerVars, outputVars, launchVars, uploadVars, diskVars
<1> DEFINE q == toUpload[w][u]
           m == Head(q)
<1>1. /\ UNCHANGED <<job, main, index, existing, restarts, phase, infos, pending, ready, toDownload>>
      /\ q # << >>
      /\ toUpload' = toUpload \/ toUpload' = [toUpload EXCEPT ![w][u] = Tail(@)]
      /\ saved' = saved \/ (m.kind \notin {"chunk", "end"} /\ saved' = [saved EXCEPT ![w] = m.chunks])
  <2>1. CASE Upload(w, u)
    BY <2>1 DEF Upload, HasMessage, Message
  <2>2. CASE UploadFails(w, u) \/ CopyFails(w, u) \/ UploadEnds(w, u)
    BY <2>2 DEF UploadFails, CopyFails, UploadEnds, HasMessage
  <2> QED BY <2>1, <2>2 DEF UploaderStep
<1>2. /\ DOMAIN toUpload = DOMAIN phase /\ toUpload[w] = [x \in Uploaders |-> toUpload[w][x]]
      /\ w \in Workers /\ saved = [v \in Workers |-> saved[v]]
      /\ LineOf(w) /\ \A x \in Uploaders : QueueSound(w, toUpload[w][x])
      /\ DOMAIN phase # {} /\ main # "start"
  BY LineShape DEF KeepInv, OutInv, ShapeInv
<1>3. m.kind \in {"chunk", "checkpoint", "end"}
  <2>1. WorkerInv(w)
    BY WorkerFacts DEF KeepInv
  <2>2. Pipe(w, q, infos[w], Start(existing, w), job.recipe = "map", remote, Reliable)
    BY <2>1 DEF WorkerInv
  <2>3. MessageOK(w, m, infos[w], Start(existing, w), job.recipe = "map")
    BY <1>1, <2>2, QueueTail DEF Pipe, QueueOK
  <2> QED BY <2>3, MessageKinds
<1>4. QueueSound(w, q) /\ QueueSound(w, Tail(q)) /\ m \in ToSet(q)
  BY <1>1, <1>2, QueueSoundTail
<1>5. ASSUME NEW v \in Workers PROVE SoundFor(v, saved'[v])
  <2>1. SoundFor(v, saved[v])
    BY DEF LineInv
  <2>2. m.kind = "checkpoint" => SoundFor(w, m.chunks)
    BY <1>4 DEF QueueSound
  <2>3. saved'[v] = saved[v] \/ (v = w /\ saved'[v] = m.chunks /\ m.kind = "checkpoint")
    <3> HIDE DEF m
    <3> QED BY <1>1, <1>2, <1>3
  <2> QED BY <2>1, <2>2, <2>3
<1>6. /\ \A v \in DOMAIN phase \ {w} : toUpload'[v] = toUpload[v]
      /\ \A x \in Uploaders : x # u => toUpload'[w][x] = toUpload[w][x]
      /\ toUpload'[w][u] \in {toUpload[w][u], Tail(toUpload[w][u])}
  <2>1. CASE toUpload' = toUpload
    BY <2>1
  <2>2. CASE toUpload' = [toUpload EXCEPT ![w][u] = Tail(@)]
    <3>1. \A v \in DOMAIN phase \ {w} : toUpload'[v] = toUpload[v]
      BY <1>2, <2>2
    <3>2. toUpload'[w] = [toUpload[w] EXCEPT ![u] = Tail(@)]
      BY <1>2, <2>2
    <3>3. DOMAIN toUpload[w] = Uploaders
      BY <1>2
    <3>4. \A x \in Uploaders : toUpload'[w][x] = IF x = u THEN Tail(toUpload[w][x]) ELSE toUpload[w][x]
      BY <3>2, <3>3
    <3> QED BY <3>1, <3>4
  <2> QED BY <1>1, <2>1, <2>2
<1>7. ASSUME NEW v \in DOMAIN phase PROVE LineOf(v)'
  <2>1. LineOf(v)
    BY DEF LineInv
  <2>2. \A x \in Uploaders : toUpload'[v][x] = toUpload[v][x] \/ QueueSound(v, toUpload'[v][x])
    <3>1. CASE v = w
      BY <1>4, <1>6, <3>1
    <3>2. CASE v # w
      BY <1>6, <3>2
    <3> QED BY <3>1, <3>2
  <2> QED BY <1>1, <2>1, <2>2, LineSame
<1>8. DOMAIN ready' = DOMAIN phase /\ DOMAIN toDownload' = DOMAIN phase
  BY <1>1 DEF LineInv
<1> QED BY <1>1, <1>2, <1>5, <1>7, <1>8, LineOn

LEMMA CrashLine ==
    ASSUME KeepInv, Orderly, LineInv, Crash
    PROVE  LineInv'
<1> USE DEF jobVars, outputVars
<1>1. /\ main' = "start" /\ restarts' = restarts + 1 /\ phase' = << >> /\ ready' = << >> /\ toDownload' = << >>
      /\ job' = job /\ saved' = saved
  BY DEF Crash
<1>2. restarts' # 0
  BY <1>1 DEF KeepInv
<1>3. \A w \in Workers' : SoundFor(w, saved[w])'
  BY <1>1 DEF LineInv, Workers, SoundFor, Low, High, Size
<1>4. DOMAIN phase' = {} /\ DOMAIN ready' = {} /\ DOMAIN toDownload' = {}
  BY <1>1
<1> QED BY <1>1, <1>2, <1>3, <1>4 DEF LineInv

LEMMA CrashSavingLine ==
    ASSUME KeepInv, Orderly, LineInv, CrashSaving
    PROVE  LineInv'
<1> USE DEF jobVars, mainVars, queueVars, writerVars, uploadVars
<1>1. /\ main = "start" /\ main' = main /\ restarts' = restarts + 1 /\ CleanOutput
      /\ UNCHANGED <<job, existing, infos, pending, phase, ready, toDownload, toUpload>>
  BY DEF CrashSaving
<1>2. restarts' # 0
  BY <1>1 DEF KeepInv
<1>3. \A w \in Workers' : SoundFor(w, saved[w])'
  <2>1. \A w \in Workers : SoundFor(w, saved'[w])
    BY <1>1, LaunchSaved
  <2> QED BY <1>1, <2>1 DEF Workers, SoundFor, Low, High, Size
<1>4. DOMAIN phase = {} /\ DOMAIN ready = {} /\ DOMAIN toDownload = {}
  BY <1>1 DEF KeepInv, OutInv, ShapeInv, LineInv
<1> QED BY <1>1, <1>2, <1>3, <1>4 DEF LineInv

\* The index that is published: what the workers wrote, one after the other.
LEMMA MergeLine ==
    ASSUME KeepInv, Orderly, LineInv, Merge
    PROVE  LineInv'
<1> USE DEF jobVars, mainVars, queueVars, writerVars, outputVars, launchVars, uploadVars, diskVars
<1>1. /\ main = "merging" /\ UNCHANGED <<job, saved, existing, restarts, phase, infos, pending, ready, toDownload, toUpload>>
      /\ \/ main' = "failed" /\ index' = index
         \/ main' = "published" /\ index' = Merged
  BY DEF Merge
<1>2. \A v \in Workers : SoundFor(v, saved'[v])
  BY <1>1 DEF LineInv
<1>3. CASE main' = "failed" /\ index' = index
  BY <1>1, <1>2, <1>3, IdleLine
<1>4. CASE main' = "published" /\ index' = Merged
  <2> DEFINE n == job.workers
             C == UNION {ToSet(infos[w]) : w \in Workers}
             of(i) == ByName(Workers, i)
             parts == [i \in 1 .. n |-> IF of(i) \in indexed THEN infos[of(i)] ELSE << >>]
             flat == FlattenSeq(parts)
  <2>1. /\ n \in Nat /\ n <= 10 /\ Workers = 0 .. n - 1 /\ DOMAIN phase = Workers /\ job \in Jobs
        /\ IsSeq(existing)
    BY <1>1, JobFacts DEF KeepInv, OutInv, ShapeInv, AppendInv, Known, Orderly, Workers
  <2>2. \A i \in 1 .. n : of(i) = i - 1 /\ i - 1 \in Workers
    BY <2>1, NamesOfTen
  <2>3. ASSUME NEW w \in Workers PROVE SoundFor(w, infos[w])
    BY <2>1, LineShape DEF KeepInv
  <2>4. ASSUME NEW w \in Workers, NEW c \in ToSet(infos[w])
        PROVE  c.items \in Seq(Int) /\ InOrder(c.items) /\ Between(c.items, Low(w), High(w))
    <3>1. PICK k \in DOMAIN infos[w] : c = infos[w][k]
      BY DEF ToSet
    <3>2. IsSeq(c.items) /\ InOrder(c.items) /\ Between(c.items, Low(w), High(w))
      BY <2>3, <3>1 DEF SoundFor, Sound, AllBetween, ChunksInOrder
    <3> DEFINE s == c.items
    <3> HIDE DEF s
    <3>3. IsSeq(s) /\ \A p \in DOMAIN s : s[p] \in Int
      BY <3>2 DEF Between, s
    <3>4. s \in Seq(Int)
      <4>1. DOMAIN s = 1 .. Len(s) /\ Len(s) \in Nat /\ s \in Seq(ToSet(s))
        BY <3>3, SeqFacts
      <4>2. ToSet(s) \subseteq Int
        BY <3>3 DEF ToSet
      <4> QED BY <4>1, <4>2, SeqMonotonic
    <3> QED BY <3>2, <3>4 DEF s
  <2>5. \A c \in C : c.items \in Seq(Int) /\ InOrder(c.items)
    BY <2>4
  <2>6. ASSUME NEW w \in Workers PROVE infos[w] \in Seq(C) /\ ChunksInOrder(infos[w])
    <3>1. IsSeq(infos[w]) /\ ChunksInOrder(infos[w])
      BY <2>3 DEF SoundFor, Sound
    <3>2. infos[w] \in Seq(ToSet(infos[w])) /\ ToSet(infos[w]) \subseteq C
      BY <3>1, SeqFacts
    <3> HIDE DEF C
    <3> QED BY <3>1, <3>2, SeqMonotonic
  <2>7. parts = [i \in 1 .. n |-> parts[i]] /\ \A i \in 1 .. n : parts[i] \in {infos[i - 1], << >>}
    BY <2>2
  <2>8. ChunksInOrder(<< >>) /\ ToSet(<< >>) = {} /\ IsSeq(<< >>)
    BY EmptyIsSeq DEF ChunksInOrder
  <2> HIDE DEF C, parts, n
  <2>9. << >> \in Seq(C)
    OBVIOUS
  <2>10. \A i \in 1 .. n : parts[i] \in Seq(C) /\ ChunksInOrder(parts[i])
    BY <2>2, <2>6, <2>7, <2>8, <2>9
  <2>11. parts \in Seq(Seq(C)) /\ Len(parts) = n
    <3>1. parts \in [1 .. n -> Seq(C)]
      BY <2>7, <2>10
    <3>2. parts \in Seq(Seq(C))
      BY <2>1, <3>1, FunctionIsSeq
    <3> QED BY <2>1, <2>7, <3>2
  <2>12. ASSUME NEW i \in 1 .. n, NEW j \in 1 .. n, i < j, NEW c \in ToSet(parts[i]), NEW d \in ToSet(parts[j])
         PROVE  Before(c.items, d.items)
    <3>1. c \in ToSet(infos[i - 1]) /\ d \in ToSet(infos[j - 1])
      BY <2>7, <2>8, <2>12
    <3>2. /\ i - 1 \in Workers /\ j - 1 \in Workers /\ i - 1 < j - 1
      BY <2>1, <2>2, <2>12
    <3>3. /\ Between(c.items, Low(i - 1), High(i - 1)) /\ Between(d.items, Low(j - 1), High(j - 1))
      BY <2>4, <3>1, <3>2
    <3>4. High(i - 1) \in Nat /\ Low(j - 1) \in Nat /\ High(i - 1) <= Low(j - 1)
      BY <2>1, <3>2, LineLists DEF KeepInv
    <3> QED BY <3>3, <3>4 DEF Between, Before
  <2>13. /\ InOrder(FlattenSeq([k \in DOMAIN flat |-> flat[k].items]))
         /\ IsSeq(FlattenSeq([k \in DOMAIN flat |-> flat[k].items]))
    <3> DEFINE f == flat
    <3>1. f = FlattenSeq(parts)
      OBVIOUS
    <3> HIDE DEF f
    <3>2. /\ InOrder(FlattenSeq([k \in DOMAIN f |-> f[k].items]))
          /\ IsSeq(FlattenSeq([k \in DOMAIN f |-> f[k].items]))
      BY <2>5, <2>10, <2>11, <2>12, <3>1, FlatInOrder
    <3> QED BY <3>2 DEF f
  <2>14. IsSeq(flat)
    BY <2>11, FlatSeq DEF IsSeq
  <2>15. index' = existing \o flat /\ existing' = existing
    BY <1>1, <1>4 DEF Merged, parts, n
  <2> HIDE DEF flat
  <2>16. NewChunks' = flat
    <3>1. SubSeq(existing \o flat, Len(existing) + 1, Len(existing \o flat)) = flat
      BY <2>1, <2>14, RestIs
    <3> QED BY <2>15, <3>1 DEF NewChunks
  <2>17. (IsSeq(Content) /\ InOrder(Content))'
    BY <2>13, <2>16 DEF Content, InOrder, IsSeq
  <2>18. ASSUME NEW w \in DOMAIN phase PROVE LineOf(w)'
    <3>1. LineOf(w)
      BY DEF LineInv
    <3> QED BY <1>1, <3>1, LineSame
  <2>19. \A w \in Workers' : SoundFor(w, saved[w])'
    BY <1>1, <1>2 DEF Workers, SoundFor, Low, High, Size
  <2> QED BY <1>1, <1>4, <2>17, <2>18, <2>19 DEF LineInv
<1> QED BY <1>1, <1>3, <1>4

LEMMA KeepInit == Init => KeepInv
<1> SUFFICES ASSUME Init PROVE KeepInv
  OBVIOUS
<1>1. OutInv /\ ConfigInv
  BY OutInit, ConfigInit
<1>2. /\ main = "start" /\ restarts = 0 /\ lists \in ListsOf(job)
      /\ saved = [w \in Workers |-> << >>]
      /\ DOMAIN phase = {} /\ DOMAIN ready = {} /\ DOMAIN toDownload = {}
  BY DEF Init
<1>3. \A w \in Workers : SoundFor(w, saved[w]) /\ saved[w] = << >>
  BY <1>2, SoundEmpty DEF SoundFor
<1>4. LineInv
  BY <1>2, <1>3 DEF LineInv
<1> QED BY <1>1, <1>2, <1>4 DEF KeepInv

\* Only a crash counts on.
LEMMA RestartsCount ==
    ASSUME [Next]_vars
    PROVE  restarts' \in {restarts, restarts + 1}
<1> USE DEF jobVars, mainVars, queueVars, writerVars, uploadVars, diskVars, outputVars, launchVars
<1>1. CASE MainStep
  BY <1>1 DEF MainStep, Refuse, RefuseLate, RefuseConfig, Launch, ExitOnError, AllWorkersEnd, Merge, CleanCheckpoints,
              SeeProgress
<1>2. CASE Crash \/ CrashSaving
  BY <1>2 DEF Crash, CrashSaving
<1>3. CASE Stopped \/ UNCHANGED vars
  BY <1>3 DEF Stopped, vars
<1>4. ASSUME NEW w \in DOMAIN phase, WorkerStep(w) \/ RemoveFiles(w)
      PROVE  restarts' = restarts
  BY <1>4 DEF WorkerStep, Setup, Skip, AddItem, AddItemAndClose, Transform, Fail, PassEnd, Conclude,
              ConcludeFails, Flushed, Exit, RemoveFiles
<1>5. ASSUME NEW w \in DOMAIN phase, NEW d \in Downloaders, DownloaderStep(w, d)
      PROVE  restarts' = restarts
  BY <1>5 DEF DownloaderStep, Download, DownloadEnds, DownloadFails
<1>6. ASSUME NEW w \in DOMAIN phase, NEW u \in Uploaders, UploaderStep(w, u)
      PROVE  restarts' = restarts
  BY <1>6 DEF UploaderStep, Upload, UploadFails, CopyFails, UploadEnds
<1> QED BY <1>1, <1>2, <1>3, <1>4, <1>5, <1>6 DEF Next

LEMMA LineStep == ASSUME KeepInv, Orderly, LineInv, [Next]_vars PROVE LineInv'
<1> USE DEF jobVars, mainVars, queueVars, writerVars, uploadVars, diskVars, outputVars, launchVars
<1>1. \A w \in Workers : SoundFor(w, saved[w])
  BY DEF LineInv
<1>2. CASE UNCHANGED vars \/ Stopped
  <2>1. UNCHANGED <<job, main, saved, index, existing, restarts, phase, infos, pending, ready, toDownload, toUpload>>
    BY <1>2 DEF vars, Stopped
  <2> QED BY <1>1, <2>1, IdleLine
<1>3. CASE MainStep
  <2>1. ~RefuseLate
    BY DEF RefuseLate, Orderly
  <2>2. \/ Launch \/ Merge \/ CleanCheckpoints
        \/ Refuse \/ RefuseConfig \/ ExitOnError \/ AllWorkersEnd \/ (\E w \in DOMAIN phase : SeeProgress(w))
    BY <1>3, <2>1 DEF MainStep
  <2> QED BY <2>2, LaunchLine, MergeLine, CleanCheckpointsLine, MainLooksOn
<1>4. ASSUME NEW w \in DOMAIN phase, WorkerStep(w) PROVE LineInv'
  <2>1. ~Transform(w)
    BY DEF Transform, Orderly
  <2>2. \/ Setup(w) \/ Skip(w) \/ AddItem(w) \/ AddItemAndClose(w) \/ PassEnd(w) \/ Conclude(w)
        \/ Fail(w) \/ ConcludeFails(w) \/ Flushed(w) \/ Exit(w)
    BY <1>4, <2>1 DEF WorkerStep
  <2>3. CASE Setup(w) \/ Skip(w) \/ AddItem(w) \/ AddItemAndClose(w) \/ PassEnd(w) \/ Conclude(w)
    BY <2>3, SetupLine, SkipLine, AddItemLine, AddItemAndCloseLine, PassEndLine, ConcludeLine
  <2>4. CASE Fail(w) \/ ConcludeFails(w) \/ Flushed(w) \/ Exit(w)
    BY <2>4, WorkerStops
  <2> QED BY <2>2, <2>3, <2>4
<1>5. ASSUME NEW w \in DOMAIN phase, RemoveFiles(w) PROVE LineInv'
  BY <1>5, WorkerStops
<1>6. ASSUME NEW w \in DOMAIN phase, NEW d \in Downloaders, DownloaderStep(w, d) PROVE LineInv'
  <2>1. CASE Download(w, d) \/ DownloadEnds(w, d)
    BY <2>1, DownloadLine
  <2>2. CASE DownloadFails(w, d)
    <3>1. UNCHANGED <<job, main, saved, index, existing, restarts, phase, infos, pending, ready, toDownload, toUpload>>
      BY <2>2 DEF DownloadFails
    <3> QED BY <1>1, <3>1, IdleLine
  <2> QED BY <1>6, <2>1, <2>2 DEF DownloaderStep
<1>7. ASSUME NEW w \in DOMAIN phase, NEW u \in Uploaders, UploaderStep(w, u) PROVE LineInv'
  BY <1>7, ServeLine
<1>8. CASE Crash
  BY <1>8, CrashLine
<1>9. CASE CrashSaving
  BY <1>9, CrashSavingLine
<1> QED BY <1>2, <1>3, <1>4, <1>5, <1>6, <1>7, <1>8, <1>9 DEF Next

LEMMA KeepInvariance == Spec => []KeepInv
<1>1. KeepInv /\ [Next]_vars => KeepInv'
  <2> SUFFICES ASSUME KeepInv, [Next]_vars PROVE KeepInv'
    OBVIOUS
  <2>1. UNCHANGED <<job, lists>>
    BY ListsStay DEF jobVars
  <2>2. restarts \in Nat /\ restarts' \in {restarts, restarts + 1}
    BY RestartsCount DEF KeepInv
  <2>3. Orderly' => Orderly
    BY <2>1, <2>2 DEF Orderly
  <2>4. Orderly' => LineInv'
    BY <2>3, LineStep DEF KeepInv
  <2>5. OutInv' /\ ConfigInv'
    BY OutStep, ConfigStep DEF KeepInv
  <2> QED BY <2>1, <2>2, <2>4, <2>5 DEF KeepInv
<1> QED BY <1>1, KeepInit, PTL DEF Spec

\* With keep_data_ordered the dataset holds the samples in the order of the inputs: after
\* crashes, restarts from a checkpoint and failed uploads, for every job that has a list,
\* one downloader per worker at most and up to ten workers (BaseWorker._loop, _done).
THEOREM OrderIsKept == Spec => []KeepsOrder
<1>1. KeepInv => KeepsOrder
  <2> SUFFICES ASSUME KeepInv, main = "finished", ~Lossy, job.recipe = "optimize", job.ordered,
                      job.source = "list", job.downloaders < 2, job.weights = << >>, job.workers <= 10,
                      NEW p \in 1 .. Len(Content) - 1
               PROVE  Content[p] < Content[p + 1]
    BY DEF KeepsOrder
  <2>1. ~job.invalid
    <3>1. ShapeInv /\ job.workers \in Nat \ {0}
      BY JobFacts DEF KeepInv, OutInv
    <3>2. 0 \in Workers
      BY <3>1 DEF Workers
    <3> QED BY <3>1, <3>2 DEF ShapeInv
  <2>2. restarts > 0 /\ job.checkpoint => job.skips = {}
    BY DEF Lossy
  <2>3. InOrder(Content) /\ IsSeq(Content)
    BY <2>1, <2>2 DEF Orderly, KeepInv, LineInv
  <2>4. Len(Content) \in Nat /\ DOMAIN Content = 1 .. Len(Content)
    BY <2>3, SeqFacts
  <2>5. p \in DOMAIN Content /\ p + 1 \in DOMAIN Content /\ p < p + 1
    BY <2>4
  <2> QED BY <2>3, <2>5 DEF InOrder
<1> QED BY <1>1, KeepInvariance, PTL

-----------------------------------------------------------------------------
(* The checkpoints of a worker, from the one that is saved to the list of its chunks. *)

\* List longer begins with the chunks of list short.
Extends(longer, short) ==
    DOMAIN short \subseteq DOMAIN longer /\ \A k \in DOMAIN short : longer[k] = short[k]

\* From the checkpoint cs that is saved, over those that wait in queue q, to the list of
\* chunks every list extends the one before.
Rising(cs, q, list) ==
    /\ IsSeq(q) /\ Extends(list, cs)
    /\ \A p \in DOMAIN q : q[p].kind = "checkpoint" =>
          /\ job.checkpoint
          /\ Extends(q[p].chunks, cs) /\ Extends(list, q[p].chunks)
          /\ \A r \in DOMAIN q : p < r /\ q[r].kind = "checkpoint" => Extends(q[r].chunks, q[p].chunks)

\* The inductive invariant: CheckpointsGrow alone says nothing of what waits to be saved.
GrowInv ==
    Reliable =>
        /\ ~job.checkpoint => \A w \in Workers : saved[w] = << >>
        /\ \A w \in DOMAIN phase : \A u \in Uploaders : Rising(saved[w], toUpload[w][u], infos[w])

LEMMA ExtendsIsPrefix ==
    ASSUME NEW short, NEW longer, IsSeq(short), IsSeq(longer), Extends(longer, short)
    PROVE  IsPrefix(short, longer)
<1> DEFINE n == Len(short)
           m == Len(longer)
<1>1. /\ n \in Nat /\ m \in Nat /\ DOMAIN short = 1 .. n /\ DOMAIN longer = 1 .. m
      /\ short \in Seq(ToSet(short)) /\ longer \in Seq(ToSet(longer))
  BY SeqFacts
<1>2. n <= m
  <2>1. CASE n = 0
    BY <1>1, <2>1
  <2>2. CASE n # 0
    <3>1. n \in 1 .. n /\ 1 .. n \subseteq 1 .. m
      BY <1>1, <2>2 DEF Extends
    <3>2. n \in 1 .. m
      BY <3>1
    <3> QED BY <1>1, <3>2
  <2> QED BY <2>1, <2>2
<1>3. \A k \in 1 .. n : longer[k] = short[k]
  BY <1>1 DEF Extends
<1>4. SubSeq(short, 1, n) = [k \in 1 .. n |-> short[k]]
  BY <1>1
<1>5. SubSeq(longer, 1, n) = [k \in 1 .. n |-> longer[k]]
  BY <1>1, <1>2
<1>6. SubSeq(short, 1, n) = SubSeq(longer, 1, n)
  BY <1>3, <1>4, <1>5
<1> QED BY <1>2, <1>6 DEF IsPrefix

LEMMA ExtendsAppend ==
    ASSUME NEW list, IsSeq(list), NEW c
    PROVE  Extends(Append(list, c), list)
<1>1. /\ DOMAIN list = 1 .. Len(list) /\ Len(list) \in Nat
      /\ DOMAIN Append(list, c) = 1 .. Len(list) + 1
      /\ \A k \in 1 .. Len(list) : Append(list, c)[k] = list[k]
  BY SeqFacts, AppendFacts
<1> QED BY <1>1 DEF Extends

\* The list grows, and a message is put behind the queue.
LEMMA RisingMore ==
    ASSUME NEW cs, NEW q, NEW list, Rising(cs, q, list), NEW more, Extends(more, list)
    PROVE  Rising(cs, q, more)
BY DEF Rising, Extends

LEMMA RisingAppend ==
    ASSUME NEW cs, NEW q, NEW list, Rising(cs, q, list), NEW m,
           m.kind = "checkpoint" => job.checkpoint /\ m.chunks = list
    PROVE  Rising(cs, Append(q, m), list)
<1> DEFINE all == Append(q, m)
           n == Len(q)
<1>1. /\ IsSeq(q) /\ IsSeq(all) /\ n \in Nat /\ DOMAIN q = 1 .. n /\ DOMAIN all = 1 .. n + 1
      /\ \A p \in 1 .. n : all[p] = q[p]
      /\ all[n + 1] = m
  BY SeqFacts, AppendFacts DEF Rising
<1> HIDE DEF all, n
<1>2. \A p \in DOMAIN all : (p \in DOMAIN q /\ all[p] = q[p]) \/ (p = n + 1 /\ all[p] = m)
  BY <1>1
<1>3. Extends(list, cs) /\ Extends(list, list)
  BY DEF Rising, Extends
<1>4. ASSUME NEW p \in DOMAIN all, all[p].kind = "checkpoint"
      PROVE  job.checkpoint /\ Extends(all[p].chunks, cs) /\ Extends(list, all[p].chunks)
  BY <1>2, <1>3, <1>4 DEF Rising
<1>5. ASSUME NEW p \in DOMAIN all, all[p].kind = "checkpoint",
             NEW r \in DOMAIN all, p < r, all[r].kind = "checkpoint"
      PROVE  Extends(all[r].chunks, all[p].chunks)
  <2>1. p \in DOMAIN q /\ all[p] = q[p]
    BY <1>1, <1>2, <1>5
  <2>2. CASE r \in DOMAIN q /\ all[r] = q[r]
    BY <1>5, <2>1, <2>2 DEF Rising
  <2>3. CASE all[r] = m
    BY <1>5, <2>1, <2>3 DEF Rising
  <2> QED BY <1>2, <2>2, <2>3
<1> QED BY <1>1, <1>3, <1>4, <1>5 DEF Rising, all

LEMMA RisingCheckpoints ==
    ASSUME NEW cs, NEW q, NEW list, Rising(cs, q, list), NEW ms,
           \/ ms = << >>
           \/ job.checkpoint /\ ms = << [kind |-> "checkpoint", chunks |-> list] >>
    PROVE  Rising(cs, q \o ms, list)
<1>1. q \o << >> = q /\ \A x : q \o <<x>> = Append(q, x)
  BY ConcatOne DEF Rising
<1> DEFINE m == [kind |-> "checkpoint", chunks |-> list]
<1>2. m.chunks = list
  OBVIOUS
<1> HIDE DEF m
<1>3. job.checkpoint => Rising(cs, Append(q, m), list)
  BY <1>2, RisingAppend
<1> QED BY <1>1, <1>3 DEF m

\* The first message is served.
LEMMA RisingTail ==
    ASSUME NEW cs, NEW q, NEW list, Rising(cs, q, list), q # << >>
    PROVE  /\ Head(q).kind = "checkpoint" =>
                 /\ job.checkpoint /\ Extends(Head(q).chunks, cs)
                 /\ Rising(Head(q).chunks, Tail(q), list)
           /\ Rising(cs, Tail(q), list)
<1> DEFINE rest == Tail(q)
           n == Len(q)
           m == Head(q)
<1>1. /\ IsSeq(q) /\ IsSeq(rest) /\ n \in Nat \ {0} /\ DOMAIN q = 1 .. n /\ DOMAIN rest = 1 .. n - 1
      /\ \A p \in 1 .. n - 1 : rest[p] = q[p + 1]
      /\ m = q[1]
  BY SeqFacts, TailFacts DEF Rising
<1> HIDE DEF rest, n, m
<1>2. \A p \in DOMAIN rest : p + 1 \in DOMAIN q /\ rest[p] = q[p + 1] /\ 1 < p + 1
  BY <1>1
<1>3. 1 \in DOMAIN q
  BY <1>1
<1>4. \A p, r \in DOMAIN rest : p < r => p + 1 < r + 1
  BY <1>1
<1>5. ASSUME NEW p \in DOMAIN rest, rest[p].kind = "checkpoint"
      PROVE  /\ job.checkpoint /\ Extends(rest[p].chunks, cs) /\ Extends(list, rest[p].chunks)
             /\ m.kind = "checkpoint" => Extends(rest[p].chunks, m.chunks)
             /\ \A r \in DOMAIN rest : p < r /\ rest[r].kind = "checkpoint"
                                          => Extends(rest[r].chunks, rest[p].chunks)
  <2>1. p + 1 \in DOMAIN q /\ rest[p] = q[p + 1] /\ 1 < p + 1
    BY <1>2
  <2>2. job.checkpoint /\ Extends(rest[p].chunks, cs) /\ Extends(list, rest[p].chunks)
    BY <1>5, <2>1 DEF Rising
  <2>3. m.kind = "checkpoint" => Extends(rest[p].chunks, m.chunks)
    BY <1>1, <1>3, <1>5, <2>1 DEF Rising
  <2>4. ASSUME NEW r \in DOMAIN rest, p < r, rest[r].kind = "checkpoint"
        PROVE  Extends(rest[r].chunks, rest[p].chunks)
    <3>1. r + 1 \in DOMAIN q /\ rest[r] = q[r + 1] /\ p + 1 < r + 1
      BY <1>2, <1>4, <2>4
    <3> QED BY <1>5, <2>1, <2>4, <3>1 DEF Rising
  <2> QED BY <2>2, <2>3, <2>4
<1>6. Rising(cs, rest, list)
  BY <1>1, <1>5 DEF Rising
<1>7. m.kind = "checkpoint" => job.checkpoint /\ Extends(m.chunks, cs) /\ Extends(list, m.chunks)
  BY <1>1, <1>3 DEF Rising
<1>8. m.kind = "checkpoint" => Rising(m.chunks, rest, list)
  BY <1>1, <1>5, <1>7 DEF Rising
<1> QED BY <1>6, <1>7, <1>8 DEF rest, m

\* The writer closes a chunk.
LEMMA RisingClosed ==
    ASSUME NEW cs, NEW q, NEW list, Rising(cs, q, list), IsSeq(list), NEW c
    PROVE  Rising(cs, q \o <<ChunkMessage(c)>>, Append(list, c))
<1>1. Rising(cs, q, Append(list, c))
  BY RisingMore, ExtendsAppend
<1>2. q \o <<ChunkMessage(c)>> = Append(q, ChunkMessage(c)) /\ ChunkMessage(c).kind # "checkpoint"
  BY ConcatOne DEF Rising, ChunkMessage
<1> QED BY <1>1, <1>2, RisingAppend

\* What is known of worker w if the uploads come in order.
LEMMA RisingOf ==
    ASSUME OutInv, GrowInv, Reliable, NEW w \in DOMAIN phase
    PROVE  /\ Uploaders = {0} /\ Turn(w) = 0 /\ toUpload[w] = [u \in Uploaders |-> toUpload[w][u]]
           /\ Rising(saved[w], toUpload[w][0], infos[w]) /\ IsSeq(infos[w]) /\ IsSeq(toUpload[w][0])
<1>1. /\ Uploaders = {0} /\ counter[w] % job.uploaders = 0 /\ WorkerInv(w)
      /\ toUpload[w] = [u \in Uploaders |-> toUpload[w][u]]
  BY WorkerFacts
<1>2. Rising(saved[w], toUpload[w][0], infos[w])
  BY <1>1 DEF GrowInv
<1> QED BY <1>1, <1>2 DEF Turn, Rising, WorkerInv, Listed

\* A step that only worker w takes part in.
LEMMA GrowsAt ==
    ASSUME OutInv, GrowInv, NEW w \in DOMAIN phase, job' = job, DOMAIN phase' = DOMAIN phase,
           \A v \in DOMAIN phase \ {w} : infos'[v] = infos[v] /\ toUpload'[v] = toUpload[v] /\ saved'[v] = saved[v],
           Reliable /\ ~job.checkpoint => saved' = saved,
           Reliable => Rising(saved'[w], toUpload'[w][0], infos'[w])
    PROVE  GrowInv'
<1>1. Workers' = Workers /\ Uploaders' = Uploaders /\ (Reliable' <=> Reliable)
  BY DEF Workers, Uploaders, Reliable, Fault
<1>2. SUFFICES ASSUME Reliable PROVE GrowInv'
  BY <1>1 DEF GrowInv
<1>3. ~job.checkpoint => \A v \in Workers : saved'[v] = << >>
  BY <1>2 DEF GrowInv
<1>4. Uploaders = {0}
  BY <1>2, RisingOf
<1>5. ASSUME NEW v \in DOMAIN phase PROVE Rising(saved'[v], toUpload'[v][0], infos'[v])
  <2>1. CASE v = w
    BY <1>2, <2>1
  <2>2. CASE v # w
    BY <1>2, <2>2, RisingOf
  <2> QED BY <2>1, <2>2
<1> QED BY <1>1, <1>3, <1>4, <1>5 DEF GrowInv, Rising

LEMMA GrowIdle ==
    ASSUME GrowInv, UNCHANGED <<job, infos, toUpload, saved>>, DOMAIN phase' = DOMAIN phase
    PROVE  GrowInv'
<1>1. Workers' = Workers /\ Uploaders' = Uploaders /\ (Reliable' <=> Reliable)
  BY DEF Workers, Uploaders, Reliable, Fault
<1> QED BY <1>1 DEF GrowInv, Rising

\* The list of worker w grows, and so does the queue of its uploader.
LEMMA GrowAddItem == ASSUME OutInv, GrowInv, NEW w \in DOMAIN phase, AddItem(w) PROVE GrowInv'
<1> USE DEF jobVars, mainVars, writerVars, outputVars, launchVars, diskVars
<1>1. /\ UNCHANGED <<job, saved, phase, infos>>
      /\ toUpload' = [toUpload EXCEPT ![w][Turn(w)] = @ \o CheckpointMessages(w)]
  BY DEF AddItem
<1>2. \A v \in DOMAIN phase \ {w} : toUpload'[v] = toUpload[v]
  BY <1>1 DEF OutInv, ShapeInv
<1>3. ASSUME Reliable PROVE Rising(saved'[w], toUpload'[w][0], infos'[w])
  <2>1. /\ Uploaders = {0} /\ Turn(w) = 0 /\ toUpload[w] = [u \in Uploaders |-> toUpload[w][u]]
        /\ Rising(saved[w], toUpload[w][0], infos[w])
    BY <1>3, RisingOf
  <2>2. toUpload'[w][0] = toUpload[w][0] \o CheckpointMessages(w)
    BY <1>1, <2>1 DEF OutInv, ShapeInv
  <2>3. \/ CheckpointMessages(w) = << >>
        \/ job.checkpoint /\ CheckpointMessages(w) = << [kind |-> "checkpoint", chunks |-> infos[w]] >>
    BY <1>1 DEF CheckpointMessages
  <2>4. Rising(saved[w], toUpload[w][0] \o CheckpointMessages(w), infos[w])
    BY <2>1, <2>3, RisingCheckpoints
  <2> QED BY <1>1, <2>2, <2>4
<1> QED BY <1>1, <1>2, <1>3, GrowsAt

LEMMA GrowAddItemAndClose ==
    ASSUME OutInv, GrowInv, NEW w \in DOMAIN phase, AddItemAndClose(w)
    PROVE  GrowInv'
<1> USE DEF jobVars, mainVars, writerVars, outputVars, launchVars, diskVars
<1> DEFINE c == Chunk(w, nextChunk[w], pending[w])
<1>1. /\ UNCHANGED <<job, saved, phase>>
      /\ infos' = [infos EXCEPT ![w] = Append(@, c)]
      /\ toUpload' = [toUpload EXCEPT ![w][Turn(w)] =
                          (@ \o <<ChunkMessage(c)>>) \o CheckpointMessages(w)]
  BY DEF AddItemAndClose, CloseChunk
<1>2. \A v \in DOMAIN phase \ {w} : toUpload'[v] = toUpload[v] /\ infos'[v] = infos[v]
  BY <1>1 DEF OutInv, ShapeInv
<1> HIDE DEF c
<1>3. ASSUME Reliable PROVE Rising(saved'[w], toUpload'[w][0], infos'[w])
  <2>1. /\ Uploaders = {0} /\ Turn(w) = 0 /\ toUpload[w] = [u \in Uploaders |-> toUpload[w][u]]
        /\ Rising(saved[w], toUpload[w][0], infos[w]) /\ IsSeq(infos[w]) /\ IsSeq(toUpload[w][0])
    BY <1>3, RisingOf
  <2>2. /\ toUpload'[w][0] = (toUpload[w][0] \o <<ChunkMessage(c)>>) \o CheckpointMessages(w)
        /\ infos'[w] = Append(infos[w], c)
    BY <1>1, <2>1 DEF OutInv, ShapeInv
  <2>3. Rising(saved[w], toUpload[w][0] \o <<ChunkMessage(c)>>, infos'[w])
    BY <2>1, <2>2, RisingClosed
  <2>4. \/ CheckpointMessages(w) = << >>
        \/ job.checkpoint /\ CheckpointMessages(w) = << [kind |-> "checkpoint", chunks |-> infos'[w]] >>
    BY DEF CheckpointMessages
  <2>5. Rising(saved[w], (toUpload[w][0] \o <<ChunkMessage(c)>>) \o CheckpointMessages(w), infos'[w])
    BY <2>3, <2>4, RisingCheckpoints
  <2> QED BY <1>1, <2>2, <2>5
<1> QED BY <1>1, <1>2, <1>3, GrowsAt

LEMMA GrowTransform == ASSUME OutInv, GrowInv, NEW w \in DOMAIN phase, Transform(w) PROVE GrowInv'
<1> USE DEF jobVars, mainVars, writerVars, outputVars, launchVars, diskVars
<1> DEFINE m == ChunkMessage(Chunk(w, Next1(w), <<Next1(w)>>))
<1>1. /\ UNCHANGED <<job, saved, phase, infos>>
      /\ toUpload' = [toUpload EXCEPT ![w][Turn(w)] = Append(@, m)]
  BY DEF Transform
<1>2. \A v \in DOMAIN phase \ {w} : toUpload'[v] = toUpload[v]
  BY <1>1 DEF OutInv, ShapeInv
<1>3. m.kind # "checkpoint"
  BY DEF ChunkMessage
<1> HIDE DEF m
<1>4. ASSUME Reliable PROVE Rising(saved'[w], toUpload'[w][0], infos'[w])
  <2>1. /\ Uploaders = {0} /\ Turn(w) = 0 /\ toUpload[w] = [u \in Uploaders |-> toUpload[w][u]]
        /\ Rising(saved[w], toUpload[w][0], infos[w])
    BY <1>4, RisingOf
  <2>2. toUpload'[w][0] = Append(toUpload[w][0], m)
    BY <1>1, <2>1 DEF OutInv, ShapeInv
  <2>3. Rising(saved[w], Append(toUpload[w][0], m), infos[w])
    BY <1>3, <2>1, RisingAppend
  <2> QED BY <1>1, <2>2, <2>3
<1> QED BY <1>1, <1>2, <1>4, GrowsAt

LEMMA GrowConclude == ASSUME OutInv, GrowInv, NEW w \in DOMAIN phase, Conclude(w) PROVE GrowInv'
<1> USE DEF jobVars, mainVars, writerVars, outputVars, launchVars
<1> DEFINE c == Chunk(w, nextChunk[w], pending[w])
           last == IF pending[w] = << >> THEN << >> ELSE <<ChunkMessage(c)>>
           written(u) == IF u = 0 THEN last ELSE << >>
           listed(u) == IF u = Turn(w) THEN CheckpointMessages(w) ELSE << >>
<1>1. /\ UNCHANGED <<job, saved>> /\ phase' = [phase EXCEPT ![w] = "flush"]
      /\ infos' = IF pending[w] = << >> THEN infos ELSE [infos EXCEPT ![w] = Append(@, c)]
      /\ toUpload' = [toUpload EXCEPT ![w] = [u \in Uploaders |->
                         ((@[u] \o written(u)) \o listed(u)) \o <<EndMessage>>]]
  BY DEF Conclude, CloseChunk
<1>2. /\ DOMAIN phase' = DOMAIN phase
      /\ \A v \in DOMAIN phase \ {w} : toUpload'[v] = toUpload[v] /\ infos'[v] = infos[v]
  <2> HIDE DEF c, last, written, listed
  <2> QED BY <1>1 DEF OutInv, ShapeInv
<1>3. ASSUME Reliable PROVE Rising(saved'[w], toUpload'[w][0], infos'[w])
  <2> DEFINE q == toUpload[w][0]
             list == infos'[w]
  <2>1. /\ Uploaders = {0} /\ Turn(w) = 0
        /\ Rising(saved[w], q, infos[w]) /\ IsSeq(infos[w]) /\ IsSeq(q)
    BY <1>3, RisingOf
  <2>2. toUpload'[w][0] = ((q \o last) \o CheckpointMessages(w)) \o <<EndMessage>>
    <3>1. toUpload'[w] = [u \in Uploaders |-> ((toUpload[w][u] \o written(u)) \o listed(u)) \o <<EndMessage>>]
      <4> HIDE DEF written, listed
      <4> QED BY <1>1 DEF OutInv, ShapeInv
    <3>2. written(0) = last /\ listed(0) = CheckpointMessages(w) /\ 0 \in Uploaders
      BY <2>1
    <3> HIDE DEF written, listed, last
    <3> QED BY <3>1, <3>2
  <2>3. Rising(saved[w], q \o last, list)
    <3>1. CASE pending[w] = << >>
      BY <1>1, <2>1, <3>1, ConcatOne
    <3>2. CASE pending[w] # << >>
      <4>1. list = Append(infos[w], c) /\ last = <<ChunkMessage(c)>>
        BY <1>1, <3>2 DEF OutInv, ShapeInv
      <4> HIDE DEF list, c, q, last
      <4> QED BY <2>1, <4>1, RisingClosed
    <3> QED BY <3>1, <3>2
  <2>4. \/ CheckpointMessages(w) = << >>
        \/ job.checkpoint /\ CheckpointMessages(w) = << [kind |-> "checkpoint", chunks |-> list] >>
    BY DEF CheckpointMessages
  <2> HIDE DEF q, list, last
  <2>5. Rising(saved[w], (q \o last) \o CheckpointMessages(w), list)
    BY <2>3, <2>4, RisingCheckpoints
  <2> DEFINE all == (q \o last) \o CheckpointMessages(w)
  <2>6. all \o <<EndMessage>> = Append(all, EndMessage) /\ EndMessage.kind # "checkpoint"
    BY <2>5, ConcatOne DEF Rising, EndMessage
  <2> HIDE DEF all
  <2>7. Rising(saved[w], all \o <<EndMessage>>, list)
    <3>1. Rising(saved[w], all, list)
      BY <2>5 DEF all
    <3> QED BY <2>6, <3>1, RisingAppend
  <2> QED BY <1>1, <2>2, <2>7 DEF all, list
<1> HIDE DEF c, last, written, listed
<1> QED BY <1>1, <1>2, <1>3, GrowsAt

\* The uploader serves the first message.
LEMMA GrowServe ==
    ASSUME OutInv, GrowInv, NEW w \in DOMAIN phase, NEW u \in Uploaders,
           Upload(w, u) \/ UploadFails(w, u) \/ UploadEnds(w, u)
    PROVE  /\ GrowInv'
           /\ Reliable => \A v \in Workers : Extends(saved'[v], saved[v])
<1> USE DEF jobVars, mainVars, writerVars, outputVars, launchVars, diskVars
<1> DEFINE q == toUpload[w][u]
           m == Head(q)
<1>1. /\ UNCHANGED <<job, phase, infos>> /\ q # << >>
      /\ toUpload' = [toUpload EXCEPT ![w][u] = Tail(@)]
      /\ saved' = saved \/ (m.kind \notin {"chunk", "end"} /\ saved' = [saved EXCEPT ![w] = m.chunks])
  BY DEF Upload, UploadFails, UploadEnds, HasMessage, Message
<1>2. /\ w \in Workers /\ saved = [v \in Workers |-> saved[v]]
      /\ \A v \in DOMAIN phase \ {w} : toUpload'[v] = toUpload[v]
      /\ \A v \in Workers \ {w} : saved'[v] = saved[v]
      /\ saved' = saved \/ (m.kind \notin {"chunk", "end"} /\ saved'[w] = m.chunks)
  BY <1>1, WorkerFacts DEF OutInv, ShapeInv
<1>3. m.kind \in {"chunk", "checkpoint", "end"}
  <2>1. Pipe(w, q, infos[w], Start(existing, w), job.recipe = "map", remote, Reliable)
    BY WorkerFacts DEF WorkerInv
  <2>2. MessageOK(w, m, infos[w], Start(existing, w), job.recipe = "map")
    BY <1>1, <2>1, QueueTail DEF Pipe, QueueOK
  <2> QED BY <2>2, MessageKinds
<1>4. ASSUME Reliable
      PROVE  /\ Rising(saved'[w], toUpload'[w][0], infos'[w]) /\ Extends(saved'[w], saved[w])
             /\ ~job.checkpoint => saved' = saved
  <2>1. /\ u = 0 /\ toUpload[w] = [x \in Uploaders |-> toUpload[w][x]] /\ Rising(saved[w], q, infos[w])
    BY <1>4, RisingOf
  <2>2. toUpload'[w][0] = Tail(q)
    BY <1>1, <2>1 DEF OutInv, ShapeInv
  <2>3. /\ m.kind = "checkpoint" =>
             job.checkpoint /\ Extends(m.chunks, saved[w]) /\ Rising(m.chunks, Tail(q), infos[w])
        /\ Rising(saved[w], Tail(q), infos[w])
    BY <1>1, <2>1, RisingTail
  <2>4. Extends(saved[w], saved[w])
    BY DEF Extends
  <2> HIDE DEF m, q
  <2> QED BY <1>1, <1>2, <1>3, <2>2, <2>3, <2>4
<1>5. \A v \in Workers \ {w} : Extends(saved'[v], saved[v])
  BY <1>2 DEF Extends
<1>6. DOMAIN phase \subseteq Workers
  BY DEF OutInv, ShapeInv
<1>7. GrowInv'
  <2> HIDE DEF m, q
  <2> QED BY <1>1, <1>2, <1>4, <1>6, GrowsAt
<1> QED BY <1>4, <1>5, <1>7

\* The directory is cleaned: no checkpoint is lost unless the job overwrites.
LEMMA GrowCleaned ==
    ASSUME OutInv, GrowInv, main = "start", CleanOutput, job' = job, Reliable
    PROVE  /\ ~job.checkpoint => \A w \in Workers : saved'[w] = << >>
           /\ job.mode # "overwrite" => \A w \in Workers : Extends(saved'[w], saved[w])
<1>1. /\ \A w \in Workers : saved'[w] \in {saved[w], << >>}
      /\ saved' = [w \in Workers |-> << >>] \/ (job.checkpoint /\ ~Cleans /\ saved' = saved)
  BY CleanFacts DEF CleanOutput
<1>2. ~job.checkpoint => \A w \in Workers : saved[w] = << >> /\ saved'[w] = << >>
  BY <1>1 DEF GrowInv
<1>3. job.mode # "overwrite" /\ job.checkpoint => saved' = saved
  BY DEF CleanOutput, Cleans
<1> QED BY <1>2, <1>3 DEF Extends

\* A run starts with the chunks of the checkpoints, and with empty queues.
LEMMA GrowLaunch == ASSUME OutInv, ConfigInv, GrowInv, Launch PROVE GrowInv'
<1> USE DEF jobVars
<1>1. /\ main = "start" /\ CleanOutput /\ job' = job
      /\ phase' = [w \in Workers |-> "setup"]
      /\ toUpload' = [w \in Workers |-> [u \in Uploaders |-> << >>]]
      /\ infos' = [w \in Workers |-> Loaded(w)]
  BY DEF Launch, Fresh, NewWorkers, NewWriters
<1>2. Workers' = Workers /\ Uploaders' = Uploaders /\ (Reliable' <=> Reliable)
  BY <1>1 DEF Workers, Uploaders, Reliable, Fault
<1>3. SUFFICES ASSUME Reliable PROVE GrowInv'
  BY <1>2 DEF GrowInv
<1>4. ~job.checkpoint => \A w \in Workers : saved'[w] = << >>
  BY <1>1, <1>3, GrowCleaned
<1>5. ASSUME NEW w \in Workers, NEW u \in Uploaders
      PROVE  Rising(saved'[w], toUpload'[w][u], infos'[w])
  <2>1. toUpload'[w][u] = << >> /\ infos'[w] = saved'[w]
    BY <1>1, <1>3, LoadedIs
  <2>2. IsSeq(<< >>) /\ DOMAIN << >> = {} /\ Extends(saved'[w], saved'[w])
    BY EmptyIsSeq DEF Extends
  <2> QED BY <2>1, <2>2 DEF Rising
<1>6. DOMAIN phase' = Workers
  BY <1>1
<1> QED BY <1>1, <1>2, <1>4, <1>5, <1>6 DEF GrowInv, Rising

\* The checkpoints are removed once the index is published.
LEMMA GrowPublished ==
    ASSUME OutInv, GrowInv, CleanCheckpoints
    PROVE  GrowInv' /\ main = "published"
<1> USE DEF jobVars, mainVars, writerVars, uploadVars
<1>1. /\ main = "published" /\ saved' = [w \in Workers |-> << >>]
      /\ UNCHANGED <<job, phase, infos, toUpload>>
  BY DEF CleanCheckpoints
<1>2. Workers' = Workers /\ Uploaders' = Uploaders /\ (Reliable' <=> Reliable)
  BY <1>1 DEF Workers, Uploaders, Reliable, Fault
<1>3. \A w \in Workers : saved'[w] = << >>
  BY <1>1
<1>4. \A list : Extends(list, << >>)
  BY DEF Extends
<1>5. ASSUME NEW w \in DOMAIN phase, NEW u \in Uploaders, Rising(saved[w], toUpload[w][u], infos[w])
      PROVE  Rising(<< >>, toUpload[w][u], infos[w])
  BY <1>4, <1>5 DEF Rising
<1>6. DOMAIN phase \subseteq Workers
  BY DEF OutInv, ShapeInv
<1>7. Reliable => \A w \in DOMAIN phase : \A u \in Uploaders : Rising(<< >>, toUpload[w][u], infos[w])
  BY <1>5 DEF GrowInv
<1> QED BY <1>1, <1>2, <1>3, <1>6, <1>7 DEF GrowInv, Rising

\* A step preserves GrowInv and takes no chunk out of a checkpoint.
LEMMA GrowStep ==
    ASSUME OutInv, ConfigInv, GrowInv, [Next]_vars
    PROVE  /\ GrowInv'
           /\ Reliable /\ job.mode # "overwrite" /\ main # "published" =>
                 \A w \in Workers : Extends(saved'[w], saved[w])
<1> USE DEF jobVars, mainVars, queueVars, writerVars, uploadVars, diskVars, outputVars, launchVars
<1>1. \A w : Extends(saved[w], saved[w])
  BY DEF Extends
<1>2. CASE UNCHANGED vars \/ Stopped
  <2>1. UNCHANGED <<job, infos, toUpload, saved, phase>>
    BY <1>2 DEF vars, Stopped
  <2> QED BY <1>1, <2>1, GrowIdle
<1>3. CASE Crash
  <2>1. job' = job /\ saved' = saved /\ phase' = << >>
    BY <1>3 DEF Crash
  <2>2. Workers' = Workers /\ (Reliable' <=> Reliable) /\ DOMAIN phase' = {}
    BY <2>1 DEF Workers, Reliable, Fault
  <2> QED BY <1>1, <2>1, <2>2 DEF GrowInv
<1>4. CASE CrashSaving \/ RefuseLate
  <2>1. main = "start" /\ CleanOutput /\ job' = job /\ phase' = phase
    BY <1>4 DEF CrashSaving, RefuseLate
  <2>2. Workers' = Workers /\ (Reliable' <=> Reliable) /\ DOMAIN phase' = {}
    BY <2>1 DEF Workers, Reliable, Fault, OutInv, ShapeInv
  <2> QED BY <2>1, <2>2, GrowCleaned DEF GrowInv
<1>5. CASE MainStep /\ ~RefuseLate
  <2>1. CASE Refuse \/ RefuseConfig \/ ExitOnError \/ AllWorkersEnd \/ Merge
             \/ \E w \in DOMAIN phase : SeeProgress(w)
    <3>1. UNCHANGED <<job, infos, toUpload, saved, phase>>
      BY <2>1 DEF Refuse, RefuseConfig, ExitOnError, AllWorkersEnd, Merge, SeeProgress
    <3> QED BY <1>1, <3>1, GrowIdle
  <2>2. CASE Launch
    <3>1. main = "start" /\ CleanOutput /\ job' = job
      BY <2>2 DEF Launch
    <3> QED BY <2>2, <3>1, GrowLaunch, GrowCleaned
  <2>3. CASE CleanCheckpoints
    BY <2>3, GrowPublished
  <2> QED BY <1>5, <2>1, <2>2, <2>3 DEF MainStep
<1>6. ASSUME NEW w \in DOMAIN phase, WorkerStep(w) \/ RemoveFiles(w)
      PROVE  GrowInv' /\ saved' = saved
  <2>1. CASE AddItem(w) \/ AddItemAndClose(w) \/ Transform(w) \/ Conclude(w)
    <3>1. saved' = saved
      BY <2>1 DEF AddItem, AddItemAndClose, Transform, Conclude
    <3> QED BY <2>1, <3>1, GrowAddItem, GrowAddItemAndClose, GrowTransform, GrowConclude
  <2>2. CASE Setup(w) \/ Skip(w) \/ Fail(w) \/ PassEnd(w) \/ ConcludeFails(w) \/ Flushed(w) \/ Exit(w)
             \/ RemoveFiles(w)
    <3>1. UNCHANGED <<job, infos, toUpload, saved>> /\ DOMAIN phase' = DOMAIN phase
      BY <2>2 DEF Setup, Skip, Handled, Fail, PassEnd, ConcludeFails, Flushed, Exit, RemoveFiles
    <3> QED BY <3>1, GrowIdle
  <2> QED BY <1>6, <2>1, <2>2 DEF WorkerStep
<1>7. ASSUME NEW w \in DOMAIN phase, NEW d \in Downloaders, DownloaderStep(w, d)
      PROVE  GrowInv' /\ saved' = saved
  <2>1. UNCHANGED <<job, infos, toUpload, saved, phase>>
    BY <1>7 DEF DownloaderStep, Download, DownloadEnds, DownloadFails
  <2> QED BY <2>1, GrowIdle
<1>8. ASSUME NEW w \in DOMAIN phase, NEW u \in Uploaders, UploaderStep(w, u)
      PROVE  GrowInv' /\ (Reliable => \A v \in Workers : Extends(saved'[v], saved[v]))
  <2>1. CASE Upload(w, u) \/ UploadFails(w, u) \/ UploadEnds(w, u)
    BY <2>1, GrowServe
  <2>2. CASE CopyFails(w, u)
    <3>1. UNCHANGED <<job, infos, toUpload, saved, phase>>
      BY <2>2 DEF CopyFails
    <3> QED BY <1>1, <3>1, GrowIdle
  <2> QED BY <1>8, <2>1, <2>2 DEF UploaderStep
<1> QED BY <1>1, <1>2, <1>3, <1>4, <1>5, <1>6, <1>7, <1>8 DEF Next

\* What a checkpoint lists is listed by every later one until the index is published, for
\* every job with one uploader, over kills, restarts and refusals: no run takes back what
\* an earlier one has done (_load_checkpoint_config, _create_cache, _try_upload).
THEOREM CheckpointsOnlyGrow == Spec => CheckpointsGrow
<1> DEFINE I == OutInv /\ ConfigInv /\ GrowInv
           A == Reliable /\ job.mode # "overwrite" /\ main # "published"
                   => \A w \in Workers : IsPrefix(saved[w], saved'[w])
<1>1. Init => I
  <2>1. Init => GrowInv
    BY DEF Init, GrowInv
  <2> QED BY <2>1, OutInit, ConfigInit
<1>2. I /\ [Next]_vars => I'
  BY OutStep, ConfigStep, GrowStep
<1>3. I /\ I' /\ [Next]_vars => [A]_vars
  <2> SUFFICES ASSUME I, I', [Next]_vars, Reliable, job.mode # "overwrite", main # "published",
                      NEW w \in Workers
               PROVE  IsPrefix(saved[w], saved'[w])
    OBVIOUS
  <2>1. Extends(saved'[w], saved[w])
    BY GrowStep
  <2>2. Workers' = Workers
    BY ListsStay DEF jobVars, Workers
  <2>3. IsSeq(saved[w]) /\ IsSeq(saved'[w])
    BY <2>2 DEF OutInv, CheckpointInv, Listed
  <2> QED BY <2>1, <2>3, ExtendsIsPrefix
<1>4. Spec => [][A]_vars
  <2> HIDE DEF I, A
  <2> QED BY <1>1, <1>2, <1>3, PTL DEF Spec
<1> QED BY <1>4 DEF CheckpointsGrow
=============================================================================
