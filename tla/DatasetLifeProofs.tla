------------------------- MODULE DatasetLifeProofs -------------------------
(***************************************************************************)
(* Theorems about CacheFilling, for every job: what rank 0 publishes is the  *)
(* whole dataset in its order, no chunk of it too full, and in the second    *)
(* epoch every chunk of it is read once.  They hold as long as the dataset    *)
(* lives: neither those that open it nor those that read it change it.  What  *)
(* DatasetFolderProofs and MappedItemsProofs show of opening and of reading a *)
(* dataset holds for one that was written by a CacheDataLoader before.       *)
(*                                                                         *)
(* The chunks a writer has written are a run of its range from the first item *)
(* on, as long as its batches fit.  If one does not, an item may be written   *)
(* before a lower one that waits; then what is left at the end has a gap, and *)
(* done() fails.  So a writer with an index file has written its whole range  *)
(* in order, and the ranges follow one another.                              *)
(***************************************************************************)
EXTENDS DatasetLife, SequenceProofs

-----------------------------------------------------------------------------
(* Numbers and runs of numbers. *)

LEMMA Division ==
    ASSUME NEW a \in Nat, NEW b \in Nat \ {0}
    PROVE  a \div b \in Nat /\ a % b \in 0 .. b - 1 /\ a = b * (a \div b) + (a % b)
  OBVIOUS

LEMMA Product == ASSUME NEW a \in Nat, NEW b \in Nat PROVE a * b \in Nat
  OBVIOUS

LEMMA TimesMonotone ==
    ASSUME NEW a \in Nat, NEW b \in Nat, NEW c \in Nat, a <= b
    PROVE  c * a <= c * b /\ c * a \in Nat /\ c * b \in Nat
<1>1. c * b = c * a + c * (b - a)
  BY Product
<1>2. c * (b - a) \in Nat /\ c * a \in Nat /\ c * b \in Nat
  BY Product
<1> QED BY <1>1, <1>2

LEMMA DivisionMonotone ==
    ASSUME NEW a \in Nat, NEW c \in Nat, NEW b \in Nat \ {0}, a <= c
    PROVE  a \div b <= c \div b
<1> DEFINE p == a \div b
           q == c \div b
<1>1. p \in Nat /\ q \in Nat /\ b * p <= a /\ c < b * q + b
  <2>1. a \div b \in Nat /\ a % b \in 0 .. b - 1 /\ a = b * (a \div b) + (a % b)
    BY Division
  <2>2. c \div b \in Nat /\ c % b \in 0 .. b - 1 /\ c = b * (c \div b) + (c % b)
    BY Division
  <2>3. b * (a \div b) \in Nat /\ b * (c \div b) \in Nat
    BY <2>1, <2>2, Product
  <2> QED BY <2>1, <2>2, <2>3
<1> HIDE DEF p, q
<1>2. ASSUME q + 1 <= p PROVE FALSE
  <2>1. b * (q + 1) <= b * p /\ b * (q + 1) \in Nat /\ b * p \in Nat
    BY <1>1, <1>2, TimesMonotone
  <2>2. b * (q + 1) = b * q + b /\ b * q \in Nat
    BY <1>1, Product
  <2> QED BY <1>1, <2>1, <2>2
<1>3. p <= q
  BY <1>1, <1>2
<1> QED BY <1>3 DEF p, q

\* Numbers with the same quotient are less than the divisor apart.
LEMMA SameQuotient ==
    ASSUME NEW a \in Nat, NEW c \in Nat, NEW b \in Nat \ {0}, a \div b = c \div b
    PROVE  c < a + b
<1>1. a \div b \in Nat /\ a % b \in 0 .. b - 1 /\ a = b * (a \div b) + (a % b)
  BY Division
<1>2. c \div b \in Nat /\ c % b \in 0 .. b - 1 /\ c = b * (c \div b) + (c % b)
  BY Division
<1>3. b * (a \div b) \in Nat
  BY <1>1, Product
<1> QED BY <1>1, <1>2, <1>3

\* A set of natural numbers has its least one as Min.
LEMMA MinFacts ==
    ASSUME NEW S \in SUBSET Nat, S # {}
    PROVE  Min(S) \in S /\ \A x \in S : Min(S) <= x
<1>1. \E m \in S : \A n \in S : m <= n
  BY SmallestIn
<1> QED BY <1>1 DEF Min

\* The numbers from a up to b, without b.
Run(a, b) == [p \in 1 .. b - a |-> a + p - 1]

LEMMA RunFacts ==
    ASSUME NEW a \in Nat, NEW b \in Nat, a <= b
    PROVE  /\ Run(a, b) \in Seq(Nat) /\ Len(Run(a, b)) = b - a /\ ToSet(Run(a, b)) = a .. b - 1
           /\ a < b => Run(a, b)[1] = a /\ Run(a, b)[Len(Run(a, b))] = b - 1
<1>1. b - a \in Nat /\ \A p \in 1 .. b - a : a + p - 1 \in Nat
  OBVIOUS
<1>2. Run(a, b) \in [1 .. b - a -> Nat]
  BY <1>1 DEF Run
<1>3. Run(a, b) \in Seq(Nat) /\ Len(Run(a, b)) = b - a
  <2>1. Run(a, b) \in Seq(Nat)
    BY <1>1, <1>2, FunctionIsSeq
  <2>2. DOMAIN Run(a, b) = 1 .. b - a
    BY DEF Run
  <2>3. Len(Run(a, b)) \in Nat /\ 1 .. Len(Run(a, b)) = 1 .. b - a
    BY <2>1, <2>2
  <2> QED BY <1>1, <2>1, <2>3, SameEnd
<1>4. \A p \in 1 .. b - a : Run(a, b)[p] = a + p - 1
  BY DEF Run
<1>5. DOMAIN Run(a, b) = 1 .. b - a
  BY DEF Run
<1>6. ToSet(Run(a, b)) = a .. b - 1
  <2>1. ASSUME NEW x \in a .. b - 1 PROVE x \in ToSet(Run(a, b))
    <3>1. PICK p \in 1 .. b - a : a + p - 1 = x
      <4>1. x - a + 1 \in 1 .. b - a /\ a + (x - a + 1) - 1 = x
        OBVIOUS
      <4> QED BY <4>1
    <3>2. Run(a, b)[p] = x
      BY <1>4, <3>1
    <3> QED BY <1>5, <3>2 DEF ToSet
  <2>2. ASSUME NEW x \in ToSet(Run(a, b)) PROVE x \in a .. b - 1
    <3>1. PICK p \in 1 .. b - a : x = Run(a, b)[p]
      BY <1>5 DEF ToSet
    <3> QED BY <1>4, <3>1
  <2> QED BY <2>1, <2>2
<1>7. a < b => Run(a, b)[1] = a /\ Run(a, b)[Len(Run(a, b))] = b - 1
  <2> SUFFICES ASSUME a < b PROVE Run(a, b)[1] = a /\ Run(a, b)[b - a] = b - 1
    BY <1>3
  <2>1. 1 \in 1 .. b - a /\ b - a \in 1 .. b - a
    OBVIOUS
  <2> QED BY <1>4, <2>1
<1> QED BY <1>3, <1>6, <1>7

LEMMA RunConcat ==
    ASSUME NEW a \in Nat, NEW b \in Nat, NEW c \in Nat, a <= b, b <= c
    PROVE  Run(a, b) \o Run(b, c) = Run(a, c)
<1> DEFINE s == Run(a, b)
           t == Run(b, c)
           u == Run(a, c)
<1>1. s \in Seq(Nat) /\ t \in Seq(Nat) /\ u \in Seq(Nat) /\ Len(s) = b - a /\ Len(t) = c - b /\ Len(u) = c - a
  <2>1. a <= c
    OBVIOUS
  <2> QED BY <2>1, RunFacts
<1>2. /\ \A p \in 1 .. b - a : s[p] = a + p - 1
      /\ \A p \in 1 .. c - b : t[p] = b + p - 1
      /\ \A p \in 1 .. c - a : u[p] = a + p - 1
  BY DEF Run
<1> HIDE DEF s, t, u
<1>3. s \o t \in Seq(Nat) /\ Len(s \o t) = Len(u)
  BY <1>1
<1>4. ASSUME NEW p \in 1 .. Len(u) PROVE (s \o t)[p] = u[p]
  <2>1. CASE p <= b - a
    BY <1>1, <1>2, <2>1
  <2>2. CASE p > b - a
    <3> DEFINE q == p - (b - a)
    <3>1. q \in 1 .. c - b /\ p = Len(s) + q /\ p \in 1 .. c - a
      BY <1>1, <2>2
    <3> HIDE DEF q
    <3>2. IsSeq(s) /\ IsSeq(t)
      BY <1>1 DEF IsSeq
    <3>3. \A x \in 1 .. Len(t) : (s \o t)[Len(s) + x] = t[x]
      BY <3>2, ConcatFacts
    <3>4. (s \o t)[p] = t[q]
      BY <1>1, <3>1, <3>3
    <3>5. t[q] = a + p - 1
      BY <1>1, <1>2, <3>1
    <3> QED BY <1>2, <3>1, <3>4, <3>5
  <2>3. p <= b - a \/ p > b - a
    <3>1. p \in Nat
      BY <1>1
    <3> QED BY <3>1
  <2> QED BY <2>1, <2>2, <2>3, Zenon
<1>5. s \o t = u
  <2>1. \A p \in 1 .. Len(s \o t) : (s \o t)[p] = u[p]
    BY <1>3, <1>4
  <2> QED BY <1>1, <1>3, <2>1, SeqEqual
<1> QED BY <1>5 DEF s, t, u

-----------------------------------------------------------------------------
(* What a writer counts, and where it ends a chunk. *)

LEMMA JobFacts ==
    ASSUME job \in Jobs
    PROVE  /\ job.items \in Nat /\ job.ranks \in Nat \ {0} /\ job.workers \in Nat \ {0}
           /\ job.batch \in Nat \ {0} /\ job.limit \in Nat \ {0}
           /\ \A i \in 0 .. job.items - 1 : job.size[i] \in Nat \ {0} /\ (~job.bytes => job.size[i] = 1)
  BY JobAssumption

LEMMA FilledType ==
    ASSUME job \in Jobs, NEW a \in Nat, NEW b \in Int, b < job.items
    PROVE  Filled(a, b, 0) \in Nat /\ Filled(a, b, 0) = SumFunctionOnSet(job.size, a .. b)
<1>1. IsFiniteSet(a .. b)
  BY FS_Interval
<1>2. \A i \in a .. b : job.size[i] \in Nat
  BY JobFacts
<1>3. SumFunctionOnSet(job.size, a .. b) \in Nat
  BY <1>1, <1>2, SumType
<1> QED BY <1>3 DEF Filled

\* Counting on from where a count ended.
LEMMA FilledOn ==
    ASSUME job \in Jobs, NEW a \in Nat, NEW b \in Nat, NEW c \in Int, a <= b, b - 1 <= c, c < job.items
    PROVE  /\ Filled(b, c, Filled(a, b - 1, 0)) = Filled(a, c, 0)
           /\ Filled(a, b - 1, 0) <= Filled(a, c, 0)
           /\ Filled(a, b - 1, 0) \in Nat /\ Filled(a, c, 0) \in Nat
<1>1. IsFiniteSet(a .. b - 1) /\ IsFiniteSet(b .. c)
  BY FS_Interval
<1>2. \A i \in (a .. b - 1) \union (b .. c) : job.size[i] \in Nat
  BY JobFacts
<1>3. (a .. b - 1) \union (b .. c) = a .. c /\ (a .. b - 1) \intersect (b .. c) = {}
  OBVIOUS
<1>4. SumFunctionOnSet(job.size, a .. c)
        = SumFunctionOnSet(job.size, a .. b - 1) + SumFunctionOnSet(job.size, b .. c)
  BY <1>1, <1>2, <1>3, SumUnion
<1>5. SumFunctionOnSet(job.size, a .. b - 1) \in Nat /\ SumFunctionOnSet(job.size, b .. c) \in Nat
  BY <1>1, <1>2, SumType
<1> QED BY <1>4, <1>5 DEF Filled

\* The end of what is there from "from" on.
EndOf(have, from) == Min({i \in from .. job.items : i \notin have})

LEMMA EndFacts ==
    ASSUME job \in Jobs, NEW have \in SUBSET (0 .. job.items - 1), NEW from \in have
    PROVE  LET e == EndOf(have, from) IN
           e \in from + 1 .. job.items /\ e \notin have /\ from .. e - 1 \subseteq have
<1> DEFINE S == {i \in from .. job.items : i \notin have}
           e == EndOf(have, from)
<1>1. job.items \in Nat /\ from \in 0 .. job.items - 1
  BY JobFacts
<1>2. S \in SUBSET Nat /\ job.items \in S
  BY <1>1
<1>3. e \in S /\ \A x \in S : e <= x
  <2> HIDE DEF S
  <2>1. Min(S) \in S /\ \A x \in S : Min(S) <= x
    BY <1>2, MinFacts
  <2> QED BY <2>1 DEF S, EndOf
<1> HIDE DEF e
<1>4. e \in from .. job.items /\ e # from /\ e \notin have
  BY <1>3
<1>5. ASSUME NEW x \in from .. e - 1 PROVE x \in have
  BY <1>1, <1>3, <1>4
<1> QED BY <1>1, <1>4, <1>5 DEF e

\* What _should_write finds: all items from the first on are counted and fit, and none
\* is written, or
Counted(have, first, s) ==
    /\ s.chunk = {} /\ s.low = first /\ s.high \in first + 1 .. job.items
    /\ s.high \notin have /\ first .. s.high - 1 \subseteq have
    /\ s.count = Filled(first, s.high - 1, 0) /\ s.count <= job.limit

\* The chunk ends at to.
Ended(have, first, from, s, to) ==
    /\ from <= to + 1
    /\ s.chunk = first .. to /\ s.low = None /\ s.high = None /\ to >= first /\ first .. to \subseteq have
    /\ to = first \/ Filled(first, to, 0) <= job.limit
    /\ \/ to = first /\ Filled(first, to, 0) > job.limit
       \/ to + 1 \in have /\ Filled(first, to + 1, 0) > job.limit

LEMMA ScanFacts ==
    ASSUME job \in Jobs, NEW have \in SUBSET (0 .. job.items - 1),
           NEW first \in have, NEW from \in have, first <= from, first .. from \subseteq have,
           Filled(first, from - 1, 0) <= job.limit, NEW sum, sum = Filled(first, from - 1, 0),
           NEW s, s = Scan(have, first, from, sum)
    PROVE  Counted(have, first, s) \/ \E to \in Nat : Ended(have, first, from, s, to)
<1> DEFINE e == EndOf(have, from)
           over == {i \in from .. e - 1 : Filled(from, i, sum) > job.limit}
<1>1. e \in from + 1 .. job.items /\ e \notin have /\ from .. e - 1 \subseteq have
  BY EndFacts
<1> HIDE DEF e
<1>2. first \in Nat /\ from \in Nat /\ job.items \in Nat /\ from < job.items
  BY JobFacts
<1>3. \A i \in from .. e - 1 : Filled(from, i, sum) = Filled(first, i, 0) /\ Filled(first, i, 0) \in Nat
  BY <1>1, <1>2, FilledOn
<1>4. first .. e - 1 \subseteq have
  BY <1>1, <1>2
<1>5. CASE over = {}
  <2>1. s = [chunk |-> {}, low |-> first, high |-> e, count |-> Filled(from, e - 1, sum)]
    BY <1>5 DEF Scan, EndOf, e
  <2>2. e - 1 \in from .. e - 1
    BY <1>1, <1>2
  <2>3. Filled(from, e - 1, sum) = Filled(first, e - 1, 0) /\ ~(Filled(from, e - 1, sum) > job.limit)
    BY <1>3, <1>5, <2>2
  <2>4. Filled(first, e - 1, 0) \in Nat /\ job.limit \in Nat
    BY <1>3, <2>2, JobFacts
  <2>5. s.count = Filled(first, e - 1, 0) /\ s.count <= job.limit
    BY <2>1, <2>3, <2>4
  <2>6. s.chunk = {} /\ s.low = first /\ s.high = e
    BY <2>1
  <2>7. e \in first + 1 .. job.items
    BY <1>1, <1>2
  <2> QED BY <1>1, <1>4, <2>5, <2>6, <2>7 DEF Counted
<1>6. CASE over # {}
  <2> DEFINE o == Min(over)
  <2>1. over \in SUBSET Nat
    BY <1>1, <1>2
  <2>2. o \in over /\ \A x \in over : o <= x
    <3> HIDE DEF over
    <3> QED BY <1>6, <2>1, MinFacts
  <2>3. s = [chunk |-> IF o = first THEN {first} ELSE first .. o - 1,
             low |-> None, high |-> None, count |-> 0]
    BY <1>6 DEF Scan, EndOf, e
  <2>4. /\ o \in from .. e - 1 /\ Filled(first, o, 0) > job.limit
        /\ \A x \in from .. e - 1 : x < o => Filled(first, x, 0) <= job.limit
    <3>1. \A x \in from .. e - 1 : Filled(first, x, 0) > job.limit <=> x \in over
      BY <1>3
    <3>2. job.limit \in Nat
      BY JobFacts
    <3> HIDE DEF over, o
    <3> QED BY <1>2, <1>1, <1>3, <2>2, <3>1, <3>2 DEF over
  <2> HIDE DEF o, over
  <2>5. CASE o = first
    <3>1. s.chunk = first .. first /\ s.low = None /\ s.high = None
      BY <1>2, <2>3, <2>5
    <3>2. Ended(have, first, from, s, first)
      BY <1>2, <2>4, <2>5, <3>1 DEF Ended
    <3> QED BY <1>2, <3>2
  <2>6. CASE o # first
    <3>1. o > first /\ o - 1 >= first /\ o - 1 \in Nat /\ o \in have /\ (o - 1) + 1 = o
      BY <1>1, <1>2, <2>4, <2>6
    <3>2. s.chunk = first .. o - 1 /\ s.low = None /\ s.high = None
      BY <2>3, <2>6
    <3>3. Filled(first, o - 1, 0) <= job.limit
      <4>1. CASE o = from
        BY <4>1
      <4>2. CASE o # from
        BY <1>1, <1>2, <2>4, <4>2
      <4> QED BY <4>1, <4>2
    <3>4. first .. o - 1 \subseteq have
      BY <1>2, <1>4, <2>4, <1>1
    <3>5. Ended(have, first, from, s, o - 1)
      BY <2>4, <3>1, <3>2, <3>3, <3>4 DEF Ended
    <3> QED BY <3>1, <3>5
  <2> QED BY <2>5, <2>6
<1> QED BY <1>5, <1>6

-----------------------------------------------------------------------------
(* The ranges of the workers. *)

LEMMA QuotientAtLeast ==
    ASSUME NEW x \in Nat, NEW a \in Nat, NEW b \in Nat \ {0}, b * x <= a
    PROVE  x <= a \div b
<1> DEFINE q == a \div b
<1>1. q \in Nat /\ a < b * q + b /\ b * q \in Nat
  <2>1. q \in Nat /\ a % b \in 0 .. b - 1 /\ a = b * q + (a % b)
    BY Division
  <2> HIDE DEF q
  <2>2. b * q \in Nat
    BY <2>1, Product
  <2> QED BY <2>1, <2>2
<1> HIDE DEF q
<1>2. ASSUME q + 1 <= x PROVE FALSE
  <2>1. b * (q + 1) <= b * x /\ b * (q + 1) \in Nat /\ b * x \in Nat
    BY <1>1, <1>2, TimesMonotone
  <2>2. b * (q + 1) = b * q + b
    BY <1>1, Product
  <2> QED BY <1>1, <2>1, <2>2
<1> QED BY <1>1, <1>2 DEF q

\* The quotient and the remainder are the only ones.
LEMMA QuotientIs ==
    ASSUME NEW a \in Nat, NEW b \in Nat \ {0}, NEW q \in Nat, NEW m \in 0 .. b - 1, a = b * q + m
    PROVE  a \div b = q /\ a % b = m
<1> DEFINE p == a \div b
<1>1. p \in Nat /\ a % b \in 0 .. b - 1 /\ a = b * p + (a % b)
  BY Division
<1> HIDE DEF p
<1>2. b * p \in Nat /\ b * q \in Nat
  BY <1>1, Product
<1>3. ASSUME p + 1 <= q PROVE FALSE
  <2>1. b * (p + 1) <= b * q /\ b * (p + 1) = b * p + b
    BY <1>1, <1>3, TimesMonotone, Product
  <2> QED BY <1>1, <1>2, <2>1
<1>4. ASSUME q + 1 <= p PROVE FALSE
  <2>1. b * (q + 1) <= b * p /\ b * (q + 1) = b * q + b
    BY <1>1, <1>4, TimesMonotone, Product
  <2> QED BY <1>1, <1>2, <2>1
<1>5. p = q
  BY <1>1, <1>3, <1>4
<1> QED BY <1>1, <1>2, <1>5 DEF p

\* A worker k of rank r, and the worker after it.
LEMMA RankFacts ==
    ASSUME job \in Jobs, NEW w \in Writers
    PROVE  /\ RankOf(w) \in Ranks /\ w % job.workers \in 0 .. job.workers - 1
           /\ w = job.workers * RankOf(w) + (w % job.workers)
           /\ w % job.workers < job.workers - 1 =>
                 RankOf(w + 1) = RankOf(w) /\ (w + 1) % job.workers = (w % job.workers) + 1
           /\ w % job.workers = job.workers - 1 =>
                 RankOf(w + 1) = RankOf(w) + 1 /\ (w + 1) % job.workers = 0
<1> DEFINE K == job.workers
           r == w \div K
           k == w % K
<1>1. K \in Nat \ {0} /\ job.ranks \in Nat \ {0}
  BY JobFacts
<1>2. w \in Nat /\ w < job.ranks * K /\ job.ranks * K \in Nat
  BY <1>1, Product DEF Writers
<1>3. r \in Nat /\ k \in 0 .. K - 1 /\ w = K * r + k
  BY <1>1, <1>2, Division
<1> HIDE DEF r, k, K
<1>4. r < job.ranks
  <2>1. SUFFICES ASSUME job.ranks <= r PROVE FALSE
    BY <1>1, <1>3
  <2>2. K * job.ranks <= K * r /\ K * r \in Nat
    BY <1>1, <1>3, <2>1, TimesMonotone
  <2>3. K * job.ranks = job.ranks * K
    BY <1>1
  <2> QED BY <1>1, <1>2, <1>3, <2>2, <2>3
<1>5. k < K - 1 => (w + 1) \div K = r /\ (w + 1) % K = k + 1
  <2> SUFFICES ASSUME k < K - 1 PROVE (w + 1) \div K = r /\ (w + 1) % K = k + 1
    OBVIOUS
  <2>1. k + 1 \in 0 .. K - 1 /\ w + 1 = K * r + (k + 1) /\ w + 1 \in Nat
    <3>1. K * r \in Nat
      BY <1>1, <1>3, Product
    <3> QED BY <1>1, <1>2, <1>3, <3>1
  <2> QED BY <1>1, <1>3, <2>1, QuotientIs
<1>6. k = K - 1 => (w + 1) \div K = r + 1 /\ (w + 1) % K = 0
  <2> SUFFICES ASSUME k = K - 1 PROVE (w + 1) \div K = r + 1 /\ (w + 1) % K = 0
    OBVIOUS
  <2>1. w + 1 = K * (r + 1) + 0 /\ w + 1 \in Nat
    <3>1. K * r \in Nat /\ K * (r + 1) = K * r + K
      BY <1>1, <1>3, Product
    <3> QED BY <1>1, <1>2, <1>3, <3>1
  <2>2. r + 1 \in Nat /\ 0 \in 0 .. K - 1
    BY <1>1, <1>3
  <2> QED BY <1>1, <2>1, <2>2, QuotientIs
<1>7. r = RankOf(w) /\ k = w % job.workers /\ RankOf(w + 1) = (w + 1) \div K /\ K = job.workers
  BY DEF r, k, K, RankOf
<1>8. r \in Ranks
  BY <1>1, <1>3, <1>4 DEF Ranks
<1> QED BY <1>3, <1>5, <1>6, <1>7, <1>8

-----------------------------------------------------------------------------
LEMMA LastWriter ==
    ASSUME job \in Jobs, NEW w \in Writers
    PROVE  w + 1 \notin Writers <=> RankOf(w) = job.ranks - 1 /\ w % job.workers = job.workers - 1
<1> DEFINE K == job.workers
           R == job.ranks
           r == RankOf(w)
           k == w % job.workers
<1>1. K \in Nat \ {0} /\ R \in Nat \ {0}
  BY JobFacts
<1>2. r \in 0 .. R - 1 /\ k \in 0 .. K - 1 /\ w = K * r + k
  BY RankFacts DEF Ranks
<1>3. w \in Nat /\ (w + 1 \in Writers <=> w + 1 < R * K) /\ w < R * K /\ R * K \in Nat
  BY <1>1, Product DEF Writers
<1> HIDE DEF r, k, K, R
<1>4. R * K = K * (R - 1) + K /\ K * (R - 1) \in Nat
  <2>1. R - 1 \in Nat /\ K * (R - 1) \in Nat
    BY <1>1, Product
  <2> QED BY <1>1, <2>1
<1>5. CASE r = R - 1
  <2>1. w = K * (R - 1) + k
    BY <1>2, <1>5
  <2>2. w + 1 < R * K <=> k # K - 1
    BY <1>1, <1>2, <1>4, <2>1
  <2>3. w + 1 \notin Writers <=> k = K - 1
    BY <1>3, <2>2
  <2> QED BY <1>5, <2>3 DEF r, k, K, R
<1>6. CASE r + 1 <= R - 1
  <2>1. K * (r + 1) <= K * (R - 1) /\ K * (r + 1) = K * r + K /\ K * r \in Nat
    <3>1. r + 1 \in Nat /\ R - 1 \in Nat
      BY <1>1, <1>2
    <3> QED BY <1>1, <1>2, <1>6, <3>1, TimesMonotone, Product
  <2>2. w + 1 < R * K
    BY <1>1, <1>2, <1>4, <2>1
  <2> QED BY <1>1, <1>2, <1>3, <1>6, <2>2 DEF r, k, K, R
<1>7. r = R - 1 \/ r + 1 <= R - 1
  BY <1>1, <1>2
<1> QED BY <1>5, <1>6, <1>7 DEF r, k, K, R

LEMMA ShareFacts ==
    ASSUME job \in Jobs, NEW w \in Writers
    PROVE  /\ Start(w) \in Nat /\ End(w) \in Nat /\ Start(w) <= End(w) /\ End(w) <= job.items
           /\ w = 0 => Start(w) = 0
           /\ IF w + 1 \in Writers THEN End(w) = Start(w + 1) ELSE End(w) = job.items
<1> DEFINE K == job.workers
           R == job.ranks
           N == job.items
           r == RankOf(w)
           k == w % job.workers
           p == N \div R
           q == N \div (R * K)
<1>1. K \in Nat \ {0} /\ R \in Nat \ {0} /\ N \in Nat
  BY JobFacts
<1>2. r \in 0 .. R - 1 /\ k \in 0 .. K - 1
  BY RankFacts DEF Ranks
<1>3. R * K \in Nat \ {0}
  <2>1. K - 1 \in Nat /\ R * K = R * (K - 1) + R /\ R * (K - 1) \in Nat
    BY <1>1, Product
  <2> QED BY <1>1, <2>1
<1>4. p \in Nat /\ q \in Nat /\ R * p <= N /\ (R * K) * q <= N /\ R * p \in Nat
  <2>1. p \in Nat /\ N % R \in 0 .. R - 1 /\ N = R * p + (N % R)
    BY <1>1, Division
  <2>2. q \in Nat /\ N % (R * K) \in 0 .. (R * K) - 1 /\ N = (R * K) * q + (N % (R * K))
    BY <1>1, <1>3, Division
  <2> HIDE DEF p, q, R, K, N
  <2>3. R * p \in Nat /\ (R * K) * q \in Nat
    BY <1>1, <1>3, <2>1, <2>2, Product
  <2> QED BY <1>1, <1>3, <2>1, <2>2, <2>3
<1>5. Start(w) = r * p + k * q
  BY DEF Start
<1>6. End(w) = IF k < K - 1 THEN r * p + (k + 1) * q ELSE IF r = R - 1 THEN N ELSE r * p + p
  BY DEF End
<1>7. w + 1 \in Writers => Start(w + 1) = RankOf(w + 1) * p + ((w + 1) % K) * q
  BY DEF Start
<1>8. /\ k < K - 1 => RankOf(w + 1) = r /\ (w + 1) % K = k + 1
      /\ k = K - 1 => RankOf(w + 1) = r + 1 /\ (w + 1) % K = 0
  BY RankFacts
<1>9. w + 1 \notin Writers <=> r = R - 1 /\ k = K - 1
  BY LastWriter
<1>10. w = 0 => r = 0 /\ k = 0
  BY <1>1, QuotientIs DEF RankOf
<1>11. p = N \div R
  OBVIOUS
<1> HIDE DEF p, q, R, K, N, r, k
<1>12. K * q <= p /\ K * q \in Nat
  <2>1. K * q \in Nat /\ (R * K) * q = R * (K * q)
    BY <1>1, <1>4, Product
  <2> QED BY <1>1, <1>4, <1>11, <2>1, QuotientAtLeast
<1>13. k * q \in Nat /\ (k + 1) * q = k * q + q /\ (k + 1) * q <= K * q
  <2>1. q * k \in Nat /\ q * (k + 1) <= q * K /\ k + 1 \in Nat
    BY <1>1, <1>2, <1>4, TimesMonotone, Product
  <2>2. k * q = q * k /\ (k + 1) * q = q * (k + 1) /\ q * (k + 1) = q * k + q /\ K * q = q * K
    BY <1>1, <1>2, <1>4, <2>1
  <2> QED BY <1>1, <1>4, <2>1, <2>2
<1>14. r * p \in Nat /\ (r + 1) * p = r * p + p /\ (r + 1) * p <= R * p
  <2>1. p * r \in Nat /\ p * (r + 1) <= p * R /\ r + 1 \in Nat
    BY <1>1, <1>2, <1>4, TimesMonotone, Product
  <2>2. r * p = p * r /\ (r + 1) * p = p * (r + 1) /\ p * (r + 1) = p * r + p /\ R * p = p * R
    BY <1>1, <1>2, <1>4, <2>1
  <2> QED BY <1>1, <1>4, <2>1, <2>2
<1>15. r = R - 1 => (r + 1) * p = R * p
  BY <1>1, <1>2
<1>16. 0 * p = 0 /\ 0 * q = 0
  BY <1>4
<1>17. Start(w) \in Nat /\ (w = 0 => Start(w) = 0)
  BY <1>5, <1>10, <1>13, <1>14, <1>16
<1>18. CASE k < K - 1
  <2>1. End(w) = Start(w) + q /\ End(w) <= r * p + p
    BY <1>4, <1>5, <1>6, <1>12, <1>13, <1>14, <1>18
  <2>2. End(w) \in Nat /\ End(w) <= N /\ Start(w) <= End(w)
    BY <1>1, <1>4, <1>14, <1>17, <2>1
  <2>3. w + 1 \in Writers /\ Start(w + 1) = r * p + (k + 1) * q
    BY <1>7, <1>8, <1>9, <1>18, <1>1, <1>2
  <2>4. End(w) = Start(w + 1)
    BY <1>6, <1>18, <2>3
  <2> QED BY <1>17, <2>2, <2>3, <2>4 DEF N
<1>19. CASE k = K - 1 /\ r = R - 1
  <2>1. End(w) = N /\ w + 1 \notin Writers
    BY <1>1, <1>2, <1>6, <1>9, <1>19
  <2>2. Start(w) <= r * p + p
    BY <1>4, <1>5, <1>12, <1>13, <1>14
  <2>3. Start(w) <= N
    BY <1>1, <1>4, <1>14, <1>17, <2>2
  <2> QED BY <1>1, <1>17, <2>1, <2>3 DEF N
<1>20. CASE k = K - 1 /\ r # R - 1
  <2>1. End(w) = r * p + p /\ w + 1 \in Writers /\ Start(w + 1) = (r + 1) * p + 0 * q
    BY <1>1, <1>2, <1>6, <1>7, <1>8, <1>9, <1>20
  <2>2. End(w) = Start(w + 1)
    BY <1>4, <1>14, <1>16, <2>1
  <2>3. Start(w) <= r * p + p
    BY <1>4, <1>5, <1>12, <1>13, <1>14
  <2>4. End(w) \in Nat /\ End(w) <= N /\ Start(w) <= End(w)
    BY <1>1, <1>4, <1>14, <1>17, <2>1, <2>3
  <2> QED BY <1>17, <2>1, <2>2, <2>4 DEF N
<1>21. k < K - 1 \/ k = K - 1
  BY <1>1, <1>2
<1> QED BY <1>18, <1>19, <1>20, <1>21

-----------------------------------------------------------------------------
(* Adding an item. *)

\* What a writer that has the items of have has counted.
ScanOk(have, lo, hi, n) ==
    IF lo = None THEN hi = None
    ELSE
        /\ lo \in Nat /\ hi \in Nat /\ lo < hi /\ lo .. hi - 1 \subseteq have /\ hi \notin have
        /\ \A x \in have : lo <= x
        /\ n = Filled(lo, hi - 1, 0) /\ n <= job.limit

\* The chunk from the least item m up to another is written: it is one too large for a
\* chunk, or the next one does not fit.
Closed(have, m, to, s) ==
    /\ s.chunk = m .. to /\ s.low = None /\ s.high = None /\ m <= to /\ m .. to \subseteq have
    /\ to = m \/ Filled(m, to, 0) <= job.limit
    /\ \/ to = m /\ Filled(m, to, 0) > job.limit
       \/ to + 1 \in have /\ Filled(m, to + 1, 0) > job.limit

LEMMA NothingCounts ==
    ASSUME job \in Jobs, NEW a \in 0 .. job.items - 1
    PROVE  Filled(a, a - 1, 0) = 0 /\ a .. a = {a}
<1>1. job.items \in Nat
  BY JobFacts
<1>2. a \in Nat /\ a .. a - 1 = {} /\ a - 1 < job.items /\ a - 1 \in Int /\ a .. a = {a}
  BY <1>1
<1>3. Filled(a, a - 1, 0) = SumFunctionOnSet(job.size, {})
  BY <1>2, FilledType
<1> QED BY <1>2, <1>3, SumEmpty

\* Either nothing is written, or a chunk from the first item on.
Outcome(have, i, lo, s) ==
    \E m \in have :
      /\ \A x \in have : m <= x
      /\ \/ s.chunk = {} /\ s.low # None /\ ScanOk(have, s.low, s.high, s.count)
         \/ \E to \in Nat : Closed(have, m, to, s) /\ (lo = None \/ m = i \/ i <= to + 1)

\* What add_item of item i makes of what it has and what it has counted.
Found(have, first, i, lo, hi, n) ==
    CASE lo = None \/ i < lo -> Scan(have, first, first, 0)
      [] i = hi -> Scan(have, lo, hi, n)
      [] OTHER -> [chunk |-> {}, low |-> lo, high |-> hi, count |-> n]

LEMMA AddedFacts ==
    ASSUME job \in Jobs, NEW have \in SUBSET (0 .. job.items - 1), NEW i \in have,
           NEW old, have = old \union {i}, i \notin old,
           NEW lo \in Int, NEW hi, NEW n, ScanOk(old, lo, hi, n), NEW first,
           first = IF lo = None THEN Min(have) ELSE i,
           NEW s,
           s = Found(have, first, i, lo, hi, n)
    PROVE  Outcome(have, i, lo, s)
<1>0. job.items \in Nat /\ job.limit \in Nat /\ have \in SUBSET Nat /\ i \in Nat
  BY JobFacts
<1>1. ASSUME NEW m \in have, \A x \in have : m <= x, Counted(have, m, s)
      PROVE  s.chunk = {} /\ s.low # None /\ ScanOk(have, s.low, s.high, s.count)
  <2>1. /\ s.chunk = {} /\ s.low = m /\ s.high \in m + 1 .. job.items
        /\ s.high \notin have /\ m .. s.high - 1 \subseteq have
        /\ s.count = Filled(m, s.high - 1, 0) /\ s.count <= job.limit
    BY <1>1 DEF Counted
  <2>2. m \in Nat /\ m # None
    BY <1>0 DEF None
  <2>3. s.high \in Nat /\ m < s.high
    BY <1>0, <2>1, <2>2
  <2> QED BY <1>1, <2>1, <2>2, <2>3 DEF ScanOk
<1>2. ASSUME NEW m \in have, NEW from \in have, NEW to \in Nat, Ended(have, m, from, s, to)
      PROVE  Closed(have, m, to, s) /\ from <= to + 1
  BY <1>2 DEF Ended, Closed
<1>3. CASE lo = None \/ i < lo
  <2>1. first \in have /\ \A x \in have : first <= x
    <3>1. CASE lo = None
      BY <1>0, <3>1, MinFacts
    <3>2. CASE lo # None
      <4>1. i < lo /\ first = i /\ lo \in Nat /\ \A x \in old : lo <= x
        BY <1>3, <3>2 DEF ScanOk
      <4>2. ASSUME NEW x \in have PROVE first <= x
        <5>1. x \in Nat /\ i \in Nat /\ (x = i \/ x \in old)
          BY <1>0
        <5>2. x = i \/ lo <= x
          BY <4>1, <5>1
        <5> QED BY <4>1, <5>1, <5>2
      <4> QED BY <4>1, <4>2
    <3> QED BY <3>1, <3>2
  <2>2. s = Scan(have, first, first, 0)
    <3>1. i # hi
      BY <1>0, <1>3 DEF ScanOk, None
    <3> QED BY <1>3, <3>1 DEF Found
  <2>3. Filled(first, first - 1, 0) = 0 /\ first .. first \subseteq have
    <3>1. first \in 0 .. job.items - 1 /\ first \in Nat
      BY <1>0, <2>1
    <3> QED BY <2>1, <3>1, NothingCounts
  <2>4. Counted(have, first, s) \/ \E to \in Nat : Ended(have, first, first, s, to)
    <3> DEFINE z == 0
    <3>1. z = Filled(first, first - 1, 0) /\ Filled(first, first - 1, 0) <= job.limit
      BY <1>0, <2>3
    <3>2. s = Scan(have, first, first, z)
      BY <2>2
    <3> HIDE DEF z
    <3> QED BY <1>0, <2>1, <2>3, <3>1, <3>2, ScanFacts
  <2>5. lo = None \/ first = i
    OBVIOUS
  <2> QED BY <1>1, <1>2, <2>1, <2>4, <2>5 DEF Outcome
<1>4. CASE ~(lo = None \/ i < lo) /\ i = hi
  <2>1. /\ lo \in Nat /\ hi \in have /\ lo < hi /\ lo .. hi \subseteq have /\ \A x \in have : lo <= x
        /\ n = Filled(lo, hi - 1, 0) /\ n <= job.limit /\ lo \in have
    BY <1>0, <1>4 DEF ScanOk
  <2>2. s = Scan(have, lo, hi, n)
    BY <1>4 DEF Found
  <2>3. Counted(have, lo, s) \/ \E to \in Nat : Ended(have, lo, hi, s, to)
    BY <2>1, <2>2, ScanFacts
  <2>4. CASE Counted(have, lo, s)
    <3>1. s.chunk = {} /\ s.low # None /\ ScanOk(have, s.low, s.high, s.count)
      BY <1>1, <2>1, <2>4
    <3> QED BY <2>1, <3>1 DEF Outcome
  <2>5. ASSUME NEW to \in Nat, Ended(have, lo, hi, s, to) PROVE Outcome(have, i, lo, s)
    <3>1. Closed(have, lo, to, s) /\ hi <= to + 1
      BY <1>2, <2>1, <2>5
    <3> QED BY <1>4, <2>1, <3>1 DEF Outcome
  <2> QED BY <2>3, <2>4, <2>5
<1>5. CASE ~(lo = None \/ i < lo) /\ i # hi
  <2>1. s = [chunk |-> {}, low |-> lo, high |-> hi, count |-> n]
    BY <1>5 DEF Found
  <2>2. /\ lo \in Nat /\ hi \in Nat /\ lo < hi /\ lo .. hi - 1 \subseteq have /\ hi \notin have
        /\ \A x \in have : lo <= x
        /\ n = Filled(lo, hi - 1, 0) /\ n <= job.limit
    BY <1>0, <1>5 DEF ScanOk
  <2>3. lo \in have
    BY <2>2
  <2>4. s.chunk = {} /\ s.low = lo /\ s.high = hi /\ s.count = n /\ lo # None
    BY <2>1, <2>2 DEF None
  <2>5. ScanOk(have, s.low, s.high, s.count)
    BY <2>2, <2>4 DEF ScanOk
  <2> QED BY <2>2, <2>3, <2>4, <2>5 DEF Outcome
<1> QED BY <1>3, <1>4, <1>5

-----------------------------------------------------------------------------
(* What holds of a writer that adds items. *)

\* The indexes in its chunks.
WrittenIn(cs) == UNION {ToSet(c) : c \in ToSet(cs)}

\* An item of the range is left, held or written.
PartsOk(w, L, I, cs) ==
    /\ L \union I \union WrittenIn(cs) = Share(w)
    /\ L \intersect I = {} /\ L \intersect WrittenIn(cs) = {} /\ I \intersect WrittenIn(cs) = {}

\* Its chunks hold the first of its range, in their order.
PlacedTo(w, cs, n) ==
    /\ n \in Nat /\ Start(w) <= n
    /\ FlattenSeq(cs) = Run(Start(w), n) /\ WrittenIn(cs) = Start(w) .. n - 1

\* Some item was written before a lower one, and a higher one waits: done will fail.
Overtaken(L, I, cs) ==
    \E a \in L \union I, b \in WrittenIn(cs), c \in I : a < b /\ b < c

\* What the items of a batch have in common, if they come in any order.
No(w, i) == IF job.async THEN BatchOf(w, i) ELSE i

\* Where the items of the range come to lie.
OrderOk(w, L, I, lo, cs) ==
    /\ EachFits => Overtaken(L, I, cs) \/ \E n : PlacedTo(w, cs, n)
    /\ InOrder => /\ \E n : PlacedTo(w, cs, n)
                  /\ lo = None => \A i, j \in I : No(w, i) = No(w, j)
    /\ \A i \in L, j \in I \union WrittenIn(cs) : No(w, j) <= No(w, i)

\* A chunk is not too full.
FitsIn(c) ==
    \E a, b \in Nat : /\ a <= b /\ b < job.items /\ c = Run(a, b + 1)
                      /\ InOrder \/ ~job.bytes => a = b \/ Filled(a, b, 0) <= job.limit

\* The invariant of a writer that adds items: L is left, I is held, cs is written.
WriterOk(w, L, I, lo, hi, n, cs) ==
    /\ cs \in Seq(Seq(Nat)) /\ PartsOk(w, L, I, cs) /\ ScanOk(I, lo, hi, n)
    /\ OrderOk(w, L, I, lo, cs) /\ \A c \in ToSet(cs) : FitsIn(c)

LEMMA OneMore ==
    ASSUME NEW cs \in Seq(Seq(Nat)), NEW m \in Nat, NEW to \in Nat, m <= to
    PROVE  LET t == Append(cs, Run(m, to + 1)) IN
           /\ t \in Seq(Seq(Nat)) /\ ToSet(t) = ToSet(cs) \union {Run(m, to + 1)}
           /\ WrittenIn(t) = WrittenIn(cs) \union (m .. to)
           /\ FlattenSeq(t) = FlattenSeq(cs) \o Run(m, to + 1)
<1> DEFINE c == Run(m, to + 1)
           t == Append(cs, c)
<1>1. c \in Seq(Nat) /\ ToSet(c) = m .. to
  <2> DEFINE e == to + 1
  <2>1. m <= e /\ e \in Nat /\ e - 1 = to /\ c = Run(m, e)
    OBVIOUS
  <2> HIDE DEF c, e
  <2>2. Run(m, e) \in Seq(Nat) /\ ToSet(Run(m, e)) = m .. e - 1
    BY <2>1, RunFacts
  <2> QED BY <2>1, <2>2
<1> HIDE DEF c
<1>2. IsSeq(cs)
  BY DEF IsSeq
<1>3. ToSet(t) = ToSet(cs) \union {c} /\ t \in Seq(Seq(Nat))
  BY <1>1, <1>2, AppendFacts
<1>4. FlattenSeq(t) = FlattenSeq(cs) \o c
  BY <1>1, FlatAppend
<1> HIDE DEF t
<1>5. WrittenIn(t) = WrittenIn(cs) \union ToSet(c)
  BY <1>3 DEF WrittenIn
<1> QED BY <1>1, <1>3, <1>4, <1>5 DEF t, c

LEMMA PlacedOn ==
    ASSUME job \in Jobs, NEW w \in Writers, NEW cs \in Seq(Seq(Nat)), NEW m \in Nat, NEW to \in Nat, m <= to,
           PlacedTo(w, cs, m)
    PROVE  PlacedTo(w, Append(cs, Run(m, to + 1)), to + 1)
<1> DEFINE t == Append(cs, Run(m, to + 1))
<1>1. WrittenIn(t) = WrittenIn(cs) \union (m .. to) /\ FlattenSeq(t) = FlattenSeq(cs) \o Run(m, to + 1)
  BY OneMore
<1> HIDE DEF t
<1>2. Start(w) \in Nat /\ Start(w) <= m
  BY ShareFacts DEF PlacedTo
<1>3. FlattenSeq(t) = Run(Start(w), to + 1)
  <2> DEFINE e == to + 1
             a == Start(w)
  <2>1. FlattenSeq(cs) = Run(a, m) /\ m <= e /\ e \in Nat
    BY DEF PlacedTo
  <2>2. FlattenSeq(t) = FlattenSeq(cs) \o Run(m, e) /\ a \in Nat /\ a <= m
    BY <1>1, <1>2
  <2> HIDE DEF e, a
  <2>3. Run(a, m) \o Run(m, e) = Run(a, e)
    BY <2>1, <2>2, RunConcat
  <2>4. FlattenSeq(t) = Run(a, e)
    BY <2>1, <2>2, <2>3
  <2> QED BY <2>4 DEF e, a
<1>4. WrittenIn(t) = Start(w) .. (to + 1) - 1
  <2>1. WrittenIn(cs) = Start(w) .. m - 1
    BY DEF PlacedTo
  <2> QED BY <1>1, <1>2, <2>1
<1> QED BY <1>2, <1>3, <1>4 DEF PlacedTo, t

LEMMA BatchFacts ==
    ASSUME job \in Jobs, NEW w \in Writers, NEW a \in Share(w), NEW b \in Share(w), a <= b
    PROVE  /\ No(w, a) \in Nat /\ No(w, b) \in Nat /\ No(w, a) <= No(w, b)
           /\ ~job.async => No(w, a) = a /\ No(w, b) = b
           /\ InOrder /\ job.async /\ No(w, a) = No(w, b) => Filled(a, b, 0) <= job.limit
<1>1. /\ Start(w) \in Nat /\ End(w) \in Nat /\ End(w) <= job.items /\ job.items \in Nat
      /\ job.batch \in Nat \ {0} /\ job.limit \in Nat
  BY ShareFacts, JobFacts
<1>2. /\ a \in Nat /\ b \in Nat /\ b < End(w)
      /\ a - Start(w) \in Nat /\ b - Start(w) \in Nat /\ a - Start(w) <= b - Start(w)
  BY <1>1 DEF Share
<1>3. /\ BatchOf(w, a) \in Nat /\ BatchOf(w, b) \in Nat /\ BatchOf(w, a) <= BatchOf(w, b)
  BY <1>1, <1>2, Division, DivisionMonotone DEF BatchOf
<1>4. ASSUME InOrder, job.async, BatchOf(w, a) = BatchOf(w, b) PROVE Filled(a, b, 0) <= job.limit
  <2> DEFINE e == Min({a + job.batch, End(w)})
  <2>1. e \in {a + job.batch, End(w)} /\ \A x \in {a + job.batch, End(w)} : e <= x
    BY <1>1, <1>2, MinFacts
  <2>2. Filled(a, e - 1, 0) <= job.limit
    BY <1>4 DEF InOrder
  <2> HIDE DEF e
  <2>3. b - Start(w) < (a - Start(w)) + job.batch
    BY <1>1, <1>2, <1>4, SameQuotient DEF BatchOf
  <2>4. e \in Nat /\ b + 1 <= e /\ e - 1 < job.items
    BY <1>1, <1>2, <2>1, <2>3
  <2>5. Filled(a, (b + 1) - 1, 0) <= Filled(a, e - 1, 0) /\ Filled(a, (b + 1) - 1, 0) \in Nat
        /\ Filled(a, e - 1, 0) \in Nat
    <3>1. b + 1 \in Nat /\ a <= b + 1 /\ (b + 1) - 1 <= e - 1 /\ e - 1 \in Int
      BY <1>2, <2>4
    <3> QED BY <1>2, <2>4, <3>1, FilledOn
  <2>6. (b + 1) - 1 = b
    BY <1>2
  <2> QED BY <1>1, <2>2, <2>5, <2>6
<1> QED BY <1>2, <1>3, <1>4 DEF No

LEMMA DueFacts ==
    ASSUME job \in Jobs, NEW w \in Writers, left[w] \in SUBSET Share(w), left[w] # {}, NEW i \in Due(w)
    PROVE  i \in left[w] /\ \A x \in left[w] : No(w, i) <= No(w, x)
<1> DEFINE m == Min(left[w])
<1>1. Share(w) \in SUBSET Nat
  BY ShareFacts DEF Share
<1>2. m \in left[w] /\ \A x \in left[w] : m <= x
  BY <1>1, MinFacts
<1>3. i \in left[w] /\ IF job.async THEN BatchOf(w, i) = BatchOf(w, m) ELSE i = m
  BY <1>2 DEF Due
<1> HIDE DEF m
<1>4. \A x \in left[w] : No(w, m) <= No(w, x)
  BY <1>2, BatchFacts
<1>5. No(w, i) = No(w, m)
  BY <1>3 DEF No
<1> QED BY <1>3, <1>4, <1>5

LEMMA OrderedIs ==
    ASSUME NEW m \in Nat, NEW to \in Nat, m <= to
    PROVE  Ordered(m .. to) = Run(m, to + 1) /\ Cardinality(m .. to) = to + 1 - m /\ Min(m .. to) = m
<1>1. Cardinality(m .. to) = to - m + 1
  BY FS_Interval
<1>2. Min(m .. to) = m
  <2>1. m .. to \in SUBSET Nat /\ m \in m .. to
    OBVIOUS
  <2>2. Min(m .. to) \in m .. to /\ \A x \in m .. to : Min(m .. to) <= x
    BY <2>1, MinFacts
  <2> QED BY <2>1, <2>2
<1>3. Cardinality(m .. to) = to + 1 - m
  BY <1>1
<1> QED BY <1>2, <1>3 DEF Ordered, Run

LEMMA AloneCounts ==
    ASSUME job \in Jobs, NEW a \in 0 .. job.items - 1
    PROVE  Filled(a, a, 0) = job.size[a] /\ job.size[a] \in Nat
<1>1. job.size[a] \in Nat /\ a .. a = {a} /\ job.items \in Nat /\ a \in Nat /\ a < job.items
  BY JobFacts, NothingCounts
<1>2. IsFiniteSet({a}) /\ {a} \ {a} = {}
  BY FS_Singleton
<1>3. SumFunctionOnSet(job.size, {a}) = job.size[a] + SumFunctionOnSet(job.size, {a} \ {a})
  BY <1>1, <1>2, SumTakeOut
<1>4. SumFunctionOnSet(job.size, {}) = 0
  BY SumEmpty
<1>5. Filled(a, a, 0) = SumFunctionOnSet(job.size, a .. a)
  <2>1. a \in Nat /\ a \in Int /\ a < job.items
    BY <1>1
  <2> QED BY <2>1, FilledType
<1> QED BY <1>1, <1>2, <1>3, <1>4, <1>5

LEMMA LessCounts ==
    ASSUME job \in Jobs, NEW a \in Nat, NEW b \in Nat, NEW c \in Nat, a <= b, b <= c, c < job.items
    PROVE  Filled(b, c, 0) <= Filled(a, c, 0) /\ Filled(b, c, 0) \in Nat /\ Filled(a, c, 0) \in Nat
<1>1. /\ Filled(b, c, Filled(a, b - 1, 0)) = Filled(a, c, 0)
      /\ Filled(a, b - 1, 0) \in Nat /\ Filled(a, c, 0) \in Nat
  <2>1. b - 1 <= c /\ c \in Int
    OBVIOUS
  <2> QED BY <2>1, FilledOn
<1>2. Filled(b, c, 0) \in Nat /\ Filled(b, c, 0) = SumFunctionOnSet(job.size, b .. c)
  BY FilledType
<1> QED BY <1>1, <1>2 DEF Filled

\* Writing what a scan has found, when the first of it is the next to be written.
LEMMA ClosedKeeps ==
    ASSUME job \in Jobs, NEW w \in Writers, NEW L, NEW old, NEW lo, NEW hi, NEW n, NEW cs,
           WriterOk(w, L, old, lo, hi, n, cs),
           NEW i \in L, \A x \in L : No(w, i) <= No(w, x),
           NEW have, have = old \union {i},
           NEW m \in have, \A x \in have : m <= x, NEW to \in Nat, NEW s, Closed(have, m, to, s),
           lo = None \/ m = i \/ i <= to + 1
    PROVE  OrderOk(w, L \ {i}, have \ (m .. to), None, Append(cs, Run(m, to + 1)))
<1> DEFINE W == WrittenIn(cs)
           left2 == L \ {i}
           rest2 == have \ (m .. to)
           cs2 == Append(cs, Run(m, to + 1))
           W2 == WrittenIn(cs2)
<1>1. /\ Share(w) = L \union old \union W /\ L \intersect old = {} /\ L \intersect W = {} /\ old \intersect W = {}
      /\ cs \in Seq(Seq(Nat)) /\ OrderOk(w, L, old, lo, cs)
  BY DEF WriterOk, PartsOk
<1>2. /\ m <= to /\ m .. to \subseteq have /\ job.limit \in Nat
      /\ \/ to = m /\ Filled(m, to, 0) > job.limit
         \/ to + 1 \in have /\ Filled(m, to + 1, 0) > job.limit
  BY JobFacts DEF Closed
<1>3. /\ Start(w) \in Nat /\ End(w) \in Nat /\ End(w) <= job.items /\ Share(w) = Start(w) .. End(w) - 1
      /\ job.items \in Nat
  BY ShareFacts, JobFacts DEF Share
<1>4. have \subseteq Share(w) /\ m \in Nat /\ have \intersect W = {} /\ have \intersect left2 = {}
      /\ left2 \subseteq Share(w)
  BY <1>1, <1>3
<1>5. W2 = W \union (m .. to)
  <2>1. cs \in Seq(Seq(Nat)) /\ m \in Nat /\ m <= to
    BY <1>1, <1>2, <1>4
  <2> QED BY <2>1, OneMore, ZenonT(150)
<1>6. \A x \in left2, j \in have \union W : No(w, j) <= No(w, x)
  <2>1. \A x \in L, j \in old \union W : No(w, j) <= No(w, x)
    BY <1>1 DEF OrderOk
  <2> QED BY <2>1
<1>7. \A x \in left2, j \in rest2 \union W2 : No(w, j) <= No(w, x)
  BY <1>2, <1>5, <1>6
<1>8. ASSUME NEW k, PlacedTo(w, cs, k) PROVE k \in Nat /\ (k = m \/ (k < m /\ k \in left2))
  <2>1. k \in Nat /\ Start(w) <= k /\ W = Start(w) .. k - 1
    BY <1>8 DEF PlacedTo
  <2>2. m \notin W /\ m \in Share(w)
    BY <1>4
  <2>3. k <= m
    BY <1>3, <2>1, <2>2
  <2>4. k < m => k \in Share(w) /\ k \notin W /\ k \notin have
    BY <1>3, <1>4, <2>1, <2>2
  <2>5. k < m => k \in left2
    BY <1>1, <2>4
  <2>6. m \in Nat /\ k \in Nat
    BY <1>4, <2>1
  <2> HIDE DEF left2
  <2> QED BY <2>3, <2>5, <2>6
<1>9. PlacedTo(w, cs, m) => PlacedTo(w, cs2, to + 1)
  BY <1>1, <1>2, <1>4, PlacedOn
<1> HIDE DEF W, W2, left2, rest2, cs2
<1>10. to + 1 \in have => to + 1 \in rest2
  BY DEF rest2
<1>11. ASSUME EachFits, job.async PROVE Overtaken(left2, rest2, cs2) \/ \E k : PlacedTo(w, cs2, k)
  <2>1. to + 1 \in have
    <3>1. m \in 0 .. job.items - 1
      BY <1>3, <1>4
    <3>2. job.size[m] <= job.limit /\ job.size[m] \in Nat
      BY <1>11, <3>1, JobFacts DEF EachFits
    <3>3. Filled(m, m, 0) = job.size[m]
      BY <3>1, AloneCounts
    <3> QED BY <1>2, <3>2, <3>3
  <2>2. CASE Overtaken(L, old, cs)
    <3>1. PICK a \in L \union old, b \in W, c \in old : a < b /\ b < c
      BY <2>2 DEF Overtaken, W
    <3>2. a \in Nat /\ b \in Nat /\ c \in Nat /\ b \notin have /\ b \in W2 /\ c \in have
      BY <1>1, <1>3, <1>4, <1>5, <3>1
    <3>3. CASE a \in m .. to
      <4>1. a <= to /\ m <= a /\ b \notin m .. to
        BY <1>2, <3>2, <3>3
      <4>2. b > to /\ b # to + 1
        BY <1>4, <2>1, <3>1, <3>2, <4>1
      <4>3. to + 1 < b /\ to + 1 \in rest2 /\ c \in rest2
        <5>1. c \notin m .. to
          BY <3>1, <3>2, <4>2
        <5> QED BY <1>10, <2>1, <3>2, <4>2, <5>1 DEF rest2
      <4> QED BY <3>1, <3>2, <4>3 DEF Overtaken, W2
    <3>4. CASE a \notin m .. to
      <4>1. a \in left2 \union rest2
        BY <3>1, <3>4 DEF left2, rest2
      <4>2. CASE c \in rest2
        BY <3>1, <3>2, <4>1, <4>2 DEF Overtaken, W2
      <4>3. CASE c \notin rest2
        <5>1. c <= to
          BY <3>2, <4>3 DEF rest2
        <5>2. b < to + 1 /\ to + 1 \in rest2
          BY <1>10, <2>1, <3>1, <3>2, <5>1
        <5> QED BY <3>1, <3>2, <4>1, <5>2 DEF Overtaken, W2
      <4> QED BY <4>2, <4>3
    <3> QED BY <3>3, <3>4
  <2>3. CASE \E k : PlacedTo(w, cs, k)
    <3>1. PICK k : PlacedTo(w, cs, k)
      BY <2>3
    <3>2. k \in Nat /\ (k = m \/ (k < m /\ k \in left2))
      BY <1>8, <3>1
    <3>3. CASE k = m
      BY <1>9, <3>1, <3>3
    <3>4. CASE k < m /\ k \in left2
      <4>1. m \in W2 /\ m < to + 1 /\ to + 1 \in rest2
        BY <1>2, <1>4, <1>5, <1>10, <2>1
      <4> QED BY <3>4, <4>1 DEF Overtaken, W2
    <3> QED BY <3>2, <3>3, <3>4
  <2> QED BY <1>1, <1>11, <2>2, <2>3 DEF OrderOk
\* What of a batch that fits is beyond the limit?
<1>12. PICK z \in have : m <= z /\ Filled(m, z, 0) > job.limit /\ (z = m \/ z = to + 1)
  <2>1. CASE to = m /\ Filled(m, to, 0) > job.limit
    BY <1>4, <2>1
  <2>2. CASE to + 1 \in have /\ Filled(m, to + 1, 0) > job.limit
    BY <1>2, <1>4, <2>2
  <2> QED BY <1>2, <2>1, <2>2
<1>13. ASSUME InOrder, job.async, NEW k \in Share(w), k <= m PROVE No(w, k) # No(w, z)
  <2>1. SUFFICES ASSUME No(w, k) = No(w, z) PROVE FALSE
    OBVIOUS
  <2>2. z \in Share(w) /\ k \in Nat /\ z \in Nat /\ k <= z /\ z < job.items
    BY <1>3, <1>4, <1>12, <1>13
  <2>3. Filled(k, z, 0) <= job.limit
    BY <1>13, <2>1, <2>2, BatchFacts
  <2>4. Filled(m, z, 0) <= Filled(k, z, 0) /\ Filled(m, z, 0) \in Nat /\ Filled(k, z, 0) \in Nat
    BY <1>4, <1>12, <1>13, <2>2, LessCounts
  <2> QED BY <1>2, <1>12, <2>3, <2>4
<1>14. ASSUME InOrder PROVE \E k : PlacedTo(w, cs2, k)
  <2>1. PICK k : PlacedTo(w, cs, k)
    BY <1>1, <1>14 DEF OrderOk
  <2>2. k \in Nat /\ (k = m \/ (k < m /\ k \in left2))
    BY <1>8, <2>1
  <2>3. ASSUME k < m, k \in left2 PROVE FALSE
    <3>1. k \in Share(w) /\ z \in Share(w) /\ m \in Share(w) /\ z \in Nat /\ k <= z /\ k <= m
      BY <1>3, <1>4, <1>12, <2>2, <2>3
    <3>2. No(w, z) <= No(w, k) /\ No(w, m) <= No(w, k)
      BY <1>6, <1>4, <2>3
    <3>3. CASE job.async
      <4>1. No(w, k) <= No(w, z) /\ No(w, k) \in Nat /\ No(w, z) \in Nat
        BY <3>1, BatchFacts
      <4>2. No(w, k) = No(w, z)
        BY <3>2, <4>1
      <4> QED BY <1>13, <1>14, <3>1, <3>3, <4>2
    <3>4. CASE ~job.async
      <4>1. No(w, k) = k /\ No(w, m) = m
        BY <3>1, <3>4, BatchFacts
      <4> QED BY <1>4, <2>2, <2>3, <3>2, <4>1
    <3> QED BY <3>3, <3>4
  <2>4. k = m
    BY <2>2, <2>3
  <2> QED BY <1>9, <2>1, <2>4
<1>15. ASSUME InOrder, NEW y \in rest2 PROVE No(w, y) = No(w, i)
  <2>1. /\ y \in have /\ y \in Share(w) /\ i \in Share(w) /\ y \in Nat /\ i \in Nat /\ y >= to + 1
        /\ m \in Share(w) /\ z \in Share(w)
    <3>1. y \in have /\ m <= y /\ y \notin m .. to /\ i \in have
      BY DEF rest2
    <3>2. y \in Nat /\ i \in Nat
      BY <1>3, <1>4, <3>1
    <3> QED BY <1>4, <1>12, <3>1, <3>2
  <2>2. No(w, y) <= No(w, i)
    <3>1. CASE y = i
      <4>1. No(w, y) \in Nat
        BY <2>1, BatchFacts
      <4> QED BY <3>1, <4>1
    <3>2. CASE y # i
      <4>1. y \in old
        BY <2>1, <3>2
      <4> QED BY <1>1, <4>1 DEF OrderOk
    <3> QED BY <3>1, <3>2
  <2>3. CASE i <= y
    <3>1. No(w, i) <= No(w, y) /\ No(w, i) \in Nat /\ No(w, y) \in Nat
      BY <2>1, <2>3, BatchFacts
    <3> QED BY <2>2, <3>1
  <2>4. ASSUME ~(i <= y) PROVE FALSE
    <3>1. lo = None /\ m # i /\ y # i
      BY <2>1, <2>4, <1>4
    <3>2. m \in old /\ y \in old
      BY <2>1, <3>1
    <3>3. No(w, m) = No(w, y)
      BY <1>1, <1>15, <3>1, <3>2 DEF OrderOk
    <3>4. m <= z /\ z <= y /\ m <= y /\ m # y /\ z \in Nat
      BY <1>2, <1>3, <1>4, <1>12, <2>1
    <3>5. CASE job.async
      <4>1. No(w, m) <= No(w, z) /\ No(w, z) <= No(w, y) /\ No(w, m) \in Nat /\ No(w, z) \in Nat
        BY <2>1, <3>4, BatchFacts
      <4>2. No(w, m) = No(w, z)
        BY <3>3, <4>1
      <4> QED BY <1>4, <1>13, <1>15, <2>1, <3>5, <4>2
    <3>6. CASE ~job.async
      <4>1. No(w, m) = m /\ No(w, y) = y
        BY <2>1, <3>4, <3>6, BatchFacts
      <4> QED BY <3>3, <3>4, <4>1
    <3> QED BY <3>5, <3>6
  <2> QED BY <2>3, <2>4
<1>16. ASSUME EachFits PROVE Overtaken(left2, rest2, cs2) \/ \E k : PlacedTo(w, cs2, k)
  <2>1. ~job.async => InOrder
    BY DEF InOrder
  <2> QED BY <1>11, <1>14, <1>16, <2>1
<1>17. OrderOk(w, left2, rest2, None, cs2)
  BY <1>7, <1>14, <1>15, <1>16 DEF OrderOk, W, W2
<1> QED BY <1>17 DEF left2, rest2, cs2

\* What add_item finds, of the items it had.
Adds(old, i, lo, hi, n) ==
    Found(old \union {i}, IF lo = None THEN Min(old \union {i}) ELSE i, i, lo, hi, n)

\* The chunks with one more, if there is one.
Grown(cs, chunk) == IF chunk = {} THEN cs ELSE Append(cs, Ordered(chunk))

\* An item of the batch that comes first of those left.
Earliest(w, i, L) == \A x \in L : No(w, i) <= No(w, x)

LEMMA AddKeeps ==
    ASSUME job \in Jobs, NEW w \in Writers, NEW L, NEW old, NEW lo \in Int, NEW hi, NEW n, NEW cs,
           WriterOk(w, L, old, lo, hi, n, cs),
           NEW i \in L, Earliest(w, i, L), NEW s, s = Adds(old, i, lo, hi, n)
    PROVE  /\ WriterOk(w, L \ {i}, (old \union {i}) \ s.chunk, s.low, s.high, s.count, Grown(cs, s.chunk))
           /\ s.low \in Int
<1> DEFINE have == old \union {i}
           first == IF lo = None THEN Min(have) ELSE i
           cs2 == Grown(cs, s.chunk)
<1>a. cs2 = IF s.chunk = {} THEN cs ELSE Append(cs, Ordered(s.chunk))
  BY DEF Grown
<1>b. s = Found(have, first, i, lo, hi, n) /\ first = IF lo = None THEN Min(have) ELSE i
  BY DEF Adds
<1>c. have = old \union {i}
  OBVIOUS
<1>d. \A x \in L : No(w, i) <= No(w, x)
  BY DEF Earliest
<1> HIDE DEF have, first, cs2
<1>1. /\ cs \in Seq(Seq(Nat)) /\ PartsOk(w, L, old, cs) /\ ScanOk(old, lo, hi, n)
      /\ OrderOk(w, L, old, lo, cs) /\ \A c \in ToSet(cs) : FitsIn(c)
  BY DEF WriterOk
<1>2. /\ L \union old \union WrittenIn(cs) = Share(w) /\ i \notin old /\ i \notin WrittenIn(cs)
      /\ L \intersect old = {} /\ L \intersect WrittenIn(cs) = {} /\ old \intersect WrittenIn(cs) = {}
  BY <1>1 DEF PartsOk
<1>3. Share(w) \subseteq 0 .. job.items - 1 /\ job.items \in Nat
  BY ShareFacts, JobFacts DEF Share
<1>4. have \in SUBSET (0 .. job.items - 1) /\ i \in have
  BY <1>2, <1>3, <1>c
<1>5. PICK m \in have :
        /\ \A x \in have : m <= x
        /\ \/ s.chunk = {} /\ s.low # None /\ ScanOk(have, s.low, s.high, s.count)
           \/ \E to \in Nat : Closed(have, m, to, s) /\ (lo = None \/ m = i \/ i <= to + 1)
  <2>1. ScanOk(old, lo, hi, n) /\ i \notin old
    BY <1>1, <1>2
  <2>2. Outcome(have, i, lo, s)
    BY <1>4, <1>b, <1>c, <2>1, AddedFacts
  <2> QED BY <2>2 DEF Outcome
<1>6. ASSUME s.chunk = {}, s.low # None, ScanOk(have, s.low, s.high, s.count)
      PROVE  WriterOk(w, L \ {i}, have \ s.chunk, s.low, s.high, s.count, cs2) /\ s.low \in Int
  <2>1. cs2 = cs /\ have \ s.chunk = have
    BY <1>6, <1>a
  <2>2. PartsOk(w, L \ {i}, have, cs)
    BY <1>2, <1>c DEF PartsOk
  <2>3. OrderOk(w, L \ {i}, have, s.low, cs)
    <3>1. Overtaken(L, old, cs) => Overtaken(L \ {i}, have, cs)
      BY <1>c DEF Overtaken
    <3>2. \A x \in L \ {i}, j \in have \union WrittenIn(cs) : No(w, j) <= No(w, x)
      <4>1. \A x \in L, j \in old \union WrittenIn(cs) : No(w, j) <= No(w, x)
        BY <1>1 DEF OrderOk
      <4> QED BY <1>c, <1>d, <4>1
    <3> QED BY <1>1, <1>6, <3>1, <3>2 DEF OrderOk
  <2>4. s.low \in Int
    BY <1>6 DEF ScanOk
  <2> QED BY <1>1, <1>6, <2>1, <2>2, <2>3, <2>4 DEF WriterOk
<1>7. ASSUME NEW to \in Nat, Closed(have, m, to, s), lo = None \/ m = i \/ i <= to + 1
      PROVE  WriterOk(w, L \ {i}, have \ s.chunk, s.low, s.high, s.count, cs2) /\ s.low \in Int
  <2> DEFINE t == Append(cs, Run(m, to + 1))
  <2>1. /\ s.chunk = m .. to /\ s.low = None /\ s.high = None /\ m <= to /\ m .. to \subseteq have
        /\ to = m \/ Filled(m, to, 0) <= job.limit
    BY <1>7 DEF Closed
  <2>2. m \in Nat /\ to \in m .. to /\ to < job.items
    <3>1. m \in Nat
      BY <1>3, <1>4
    <3>2. to \in m .. to
      BY <2>1, <3>1
    <3>3. to \in 0 .. job.items - 1
      BY <1>4, <2>1, <3>2
    <3> QED BY <1>3, <3>1, <3>2, <3>3
  <2>3. cs2 = t
    <3>1. Ordered(m .. to) = Run(m, to + 1)
      BY <2>1, <2>2, OrderedIs
    <3> QED BY <1>a, <2>1, <2>2, <3>1
  <2>4. /\ t \in Seq(Seq(Nat)) /\ ToSet(t) = ToSet(cs) \union {Run(m, to + 1)}
        /\ WrittenIn(t) = WrittenIn(cs) \union (m .. to)
    BY <1>1, <2>1, <2>2, OneMore
  <2>5. OrderOk(w, L \ {i}, have \ (m .. to), None, t)
    BY <1>5, <1>7, <1>c, <1>d, ClosedKeeps
  <2> HIDE DEF t
  <2>6. PartsOk(w, L \ {i}, have \ (m .. to), t)
    BY <1>2, <1>c, <2>1, <2>4 DEF PartsOk
  <2>7. FitsIn(Run(m, to + 1))
    BY <2>1, <2>2 DEF FitsIn
  <2>8. ScanOk(have \ (m .. to), None, None, s.count) /\ None \in Int
    BY DEF ScanOk, None
  <2>9. \A c \in ToSet(t) : FitsIn(c)
    BY <1>1, <2>4, <2>7
  <2>10. WriterOk(w, L \ {i}, have \ (m .. to), None, None, s.count, t)
    BY <2>4, <2>5, <2>6, <2>8, <2>9 DEF WriterOk
  <2> QED BY <2>1, <2>3, <2>8, <2>10
<1> QED BY <1>5, <1>6, <1>7 DEF have, cs2

LEMMA OnesCount ==
    ASSUME NEW f, NEW S, IsFiniteSet(S), \A x \in S : f[x] = 1
    PROVE  SumFunctionOnSet(f, S) = Cardinality(S)
<1> DEFINE P == {s \in SUBSET S : SumFunctionOnSet(f, s) = Cardinality(s)}
<1>1. {} \in P
  BY SumEmpty, FS_EmptySet
<1>2. ASSUME NEW s \in SUBSET S, s # {}, \A t \in SUBSET s : t # s => t \in P PROVE s \in P
  <2>1. PICK y \in s : TRUE
    BY <1>2
  <2>2. IsFiniteSet(s) /\ \A x \in s : f[x] = 1 /\ f[x] \in Nat
    BY FS_Subset
  <2>3. SumFunctionOnSet(f, s) = f[y] + SumFunctionOnSet(f, s \ {y})
    <3>1. IsFiniteSet(s) /\ \A x \in s : f[x] \in Nat
      BY <2>2
    <3> HIDE DEF P
    <3> QED BY <2>1, <3>1, SumTakeOut
  <2>4. s \ {y} \in P
    <3>1. s \ {y} \in SUBSET s /\ s \ {y} # s
      BY <2>1
    <3> HIDE DEF P
    <3> QED BY <1>2, <3>1
  <2>5. Cardinality(s \ {y}) = Cardinality(s) - 1 /\ Cardinality(s) \in Nat
    BY <2>1, <2>2, OneLess
  <2> QED BY <2>2, <2>3, <2>4, <2>5
<1>3. S \in P
  <2> HIDE DEF P
  <2>1. P \in SUBSET (SUBSET S)
    BY DEF P
  <2> QED BY <1>1, <1>2, <2>1, FiniteInduct
<1> QED BY <1>3

\* What a writer leaves when it is done: its whole range, in order.
LEMMA DoneKeeps ==
    ASSUME job \in Jobs, NEW w \in Writers, NEW rest2, NEW lo \in Int, NEW hi, NEW n, NEW cs,
           WriterOk(w, {}, rest2, lo, hi, n, cs), rest2 # {} => Sound(rest2),
           NEW cs2, cs2 = IF rest2 = {} THEN cs ELSE Append(cs, Ordered(rest2))
    PROVE  /\ cs2 \in Seq(Seq(Nat)) /\ \A c \in ToSet(cs2) : FitsIn(c)
           /\ EachFits => FlattenSeq(cs2) = Run(Start(w), End(w))
<1>1. /\ cs \in Seq(Seq(Nat)) /\ PartsOk(w, {}, rest2, cs) /\ ScanOk(rest2, lo, hi, n)
      /\ OrderOk(w, {}, rest2, lo, cs) /\ \A c \in ToSet(cs) : FitsIn(c)
  BY DEF WriterOk
<1>2. rest2 \union WrittenIn(cs) = Share(w) /\ rest2 \intersect WrittenIn(cs) = {}
  BY <1>1 DEF PartsOk
<1>3. /\ Start(w) \in Nat /\ End(w) \in Nat /\ Start(w) <= End(w) /\ End(w) <= job.items
      /\ Share(w) = Start(w) .. End(w) - 1 /\ job.items \in Nat /\ job.limit \in Nat
  BY ShareFacts, JobFacts DEF Share
<1>4. CASE rest2 = {}
  <2>1. cs2 = cs
    BY <1>4
  <2>2. ASSUME EachFits PROVE FlattenSeq(cs) = Run(Start(w), End(w))
    <3>1. ~Overtaken({}, rest2, cs)
      BY <1>4 DEF Overtaken
    <3>2. PICK k : PlacedTo(w, cs, k)
      BY <1>1, <2>2, <3>1 DEF OrderOk
    <3>3. k \in Nat /\ Start(w) <= k /\ FlattenSeq(cs) = Run(Start(w), k) /\ Start(w) .. k - 1 = Start(w) .. End(w) - 1
      BY <1>2, <1>3, <1>4, <3>2 DEF PlacedTo
    <3>4. ASSUME k < End(w) PROVE FALSE
      <4>1. k \in Start(w) .. End(w) - 1 /\ k \notin Start(w) .. k - 1
        BY <1>3, <3>3, <3>4
      <4> QED BY <3>3, <4>1
    <3>5. ASSUME End(w) < k PROVE FALSE
      <4>1. End(w) \in Start(w) .. k - 1 /\ End(w) \notin Start(w) .. End(w) - 1
        BY <1>3, <3>3, <3>5
      <4> QED BY <3>3, <4>1
    <3>6. k = End(w)
      BY <1>3, <3>3, <3>4, <3>5
    <3> QED BY <3>3, <3>6
  <2> QED BY <1>1, <2>1, <2>2
<1>5. CASE rest2 # {}
  <2> DEFINE m == Min(rest2)
             z == Max(rest2)
             t == Append(cs, Run(m, z + 1))
  <2>1. rest2 \in SUBSET Nat /\ IsFiniteSet(rest2)
    <3>1. Share(w) \in SUBSET Nat /\ Start(w) \in Int /\ End(w) - 1 \in Int
      BY <1>3
    <3>2. IsFiniteSet(Start(w) .. End(w) - 1)
      BY <3>1, FS_Interval
    <3>3. rest2 \subseteq Share(w)
      BY <1>2
    <3>4. IsFiniteSet(rest2)
      BY <1>3, <3>2, <3>3, FS_Subset
    <3> QED BY <3>1, <3>3, <3>4
  <2>2. m \in rest2 /\ z \in rest2 /\ \A x \in rest2 : m <= x /\ x <= z
    <3>1. m \in rest2 /\ \A x \in rest2 : m <= x
      BY <1>5, <2>1, MinFacts
    <3>2. z \in rest2 /\ \A x \in rest2 : z >= x
      BY <1>5, <2>1, MaxFacts
    <3> QED BY <2>1, <3>1, <3>2
  <2>3. rest2 = m .. z /\ (job.bytes \/ Cardinality(rest2) <= job.limit)
    BY <1>5 DEF Sound
  <2> HIDE DEF m, z, t
  <2>4. m \in Nat /\ z \in Nat /\ m <= z /\ m \in Share(w) /\ z \in Share(w) /\ z < job.items
    <3>1. m \in Share(w) /\ z \in Share(w)
      BY <1>2, <2>2
    <3>2. m \in Nat /\ z \in Nat /\ z < job.items
      BY <1>3, <3>1
    <3> QED BY <2>2, <3>1, <3>2
  <2>5. cs2 = t
    <3>1. Ordered(m .. z) = Run(m, z + 1)
      BY <2>4, OrderedIs
    <3> QED BY <1>5, <2>3, <3>1 DEF t
  <2>6. t \in Seq(Seq(Nat)) /\ ToSet(t) = ToSet(cs) \union {Run(m, z + 1)}
    BY <1>1, <2>4, OneMore DEF t
  <2>7. ASSUME InOrder \/ ~job.bytes PROVE m = z \/ Filled(m, z, 0) <= job.limit
    <3>1. CASE ~job.bytes
      <4>1. IsFiniteSet(m .. z) /\ \A x \in m .. z : job.size[x] = 1
        <5>1. IsFiniteSet(m .. z)
          BY <2>4, FS_Interval
        <5>2. m .. z \subseteq 0 .. job.items - 1
          BY <1>3, <2>4
        <5>3. \A x \in 0 .. job.items - 1 : job.size[x] = 1
          BY <3>1, JobFacts
        <5> QED BY <5>1, <5>2, <5>3
      <4>2. SumFunctionOnSet(job.size, m .. z) = Cardinality(m .. z)
        BY <4>1, OnesCount
      <4>3. Filled(m, z, 0) = SumFunctionOnSet(job.size, m .. z)
        BY <2>4, FilledType
      <4> QED BY <2>3, <3>1, <4>2, <4>3
    <3>2. CASE InOrder /\ lo # None
      <4>1. /\ lo \in Nat /\ hi \in Nat /\ lo < hi /\ lo .. hi - 1 \subseteq rest2 /\ hi \notin rest2
            /\ \A x \in rest2 : lo <= x
            /\ n = Filled(lo, hi - 1, 0) /\ n <= job.limit
        BY <1>1, <3>2 DEF ScanOk
      <4>2. lo \in lo .. hi - 1 /\ hi - 1 \in lo .. hi - 1
        BY <4>1
      <4>3. lo \in rest2 /\ hi - 1 \in rest2
        BY <4>1, <4>2
      <4>4. lo = m
        BY <2>2, <2>4, <4>1, <4>3
      <4>5. hi - 1 = z
        BY <2>2, <2>3, <2>4, <4>1, <4>3, <4>4
      <4> QED BY <4>1, <4>4, <4>5
    <3>3. CASE InOrder /\ lo = None
      <4>1. No(w, m) = No(w, z)
        BY <1>1, <2>2, <3>3 DEF OrderOk
      <4>2. CASE job.async
        BY <2>4, <3>3, <4>1, <4>2, BatchFacts
      <4>3. CASE ~job.async
        BY <2>4, <4>1, <4>3, BatchFacts
      <4> QED BY <4>2, <4>3
    <3> QED BY <2>7, <3>1, <3>2, <3>3
  <2>8. FitsIn(Run(m, z + 1))
    BY <2>4, <2>7 DEF FitsIn
  <2>9. ASSUME EachFits PROVE FlattenSeq(t) = Run(Start(w), End(w))
    <3>1. ~Overtaken({}, rest2, cs)
      <4> SUFFICES ASSUME NEW a \in {} \union rest2, NEW b \in WrittenIn(cs), NEW c \in rest2, a < b, b < c
                   PROVE FALSE
        BY DEF Overtaken
      <4>1. m <= a /\ c <= z /\ a \in Nat /\ b \in Nat /\ c \in Nat
        BY <1>2, <1>3, <2>1, <2>2
      <4>2. b \in m .. z
        BY <2>4, <4>1
      <4> QED BY <1>2, <2>3, <4>2
    <3>2. PICK k : PlacedTo(w, cs, k)
      BY <1>1, <2>9, <3>1 DEF OrderOk
    <3>3. k \in Nat /\ Start(w) <= k /\ WrittenIn(cs) = Start(w) .. k - 1
      BY <3>2 DEF PlacedTo
    <3>4. m \notin Start(w) .. k - 1 /\ Start(w) <= m /\ m < End(w) /\ z < End(w)
      BY <1>2, <1>3, <2>2, <2>4, <3>3
    <3>5. k <= m
      BY <1>3, <2>4, <3>3, <3>4
    <3>6. k \in Share(w) /\ k \notin Start(w) .. k - 1
      BY <1>3, <2>4, <3>3, <3>4, <3>5
    <3>7. k = m
      <4>1. k \in rest2
        BY <1>2, <3>3, <3>6
      <4> QED BY <2>2, <2>4, <3>3, <3>5, <4>1
    <3>8. End(w) - 1 = z
      <4>1. End(w) - 1 \in Share(w) /\ End(w) - 1 \notin Start(w) .. k - 1
        BY <1>3, <2>4, <3>3, <3>4, <3>5
      <4>2. End(w) - 1 \in rest2
        BY <1>2, <3>3, <4>1
      <4>3. End(w) - 1 <= z
        BY <2>2, <4>2
      <4> QED BY <1>3, <2>4, <3>4, <4>3
    <3>9. PlacedTo(w, t, z + 1)
      BY <1>1, <2>4, <3>2, <3>7, PlacedOn DEF t
    <3>10. z + 1 = End(w)
      BY <1>3, <2>4, <3>8
    <3> QED BY <3>9, <3>10 DEF PlacedTo
  <2> QED BY <1>1, <2>5, <2>6, <2>8, <2>9
<1> QED BY <1>4, <1>5

-----------------------------------------------------------------------------
(* The merged index. *)

LEMMA WritersFacts ==
    ASSUME job \in Jobs
    PROVE  /\ Cardinality(Writers) \in Nat \ {0} /\ Writers = 0 .. Cardinality(Writers) - 1
           /\ IsFiniteSet(Writers)
<1> DEFINE k == job.ranks * job.workers
<1>1. k \in Nat \ {0}
  <2>1. job.workers \in Nat \ {0} /\ job.ranks \in Nat \ {0}
    BY JobFacts
  <2>2. job.ranks * (job.workers - 1) \in Nat /\ k = job.ranks * (job.workers - 1) + job.ranks
    <3>1. job.workers - 1 \in Nat
      BY <2>1
    <3> QED BY <2>1, <3>1, Product
  <2> HIDE DEF k
  <2> QED BY <2>1, <2>2
<1>2. Writers = 0 .. k - 1
  BY DEF Writers
<1> HIDE DEF k
<1>3. Cardinality(0 .. k - 1) = k /\ IsFiniteSet(0 .. k - 1)
  <2>1. 0 \in Int /\ k - 1 \in Int
    BY <1>1
  <2>2. Cardinality(0 .. k - 1) = IF 0 > k - 1 THEN 0 ELSE (k - 1) - 0 + 1
    BY <2>1, FS_Interval
  <2>3. IsFiniteSet(0 .. k - 1)
    BY <2>1, FS_Interval
  <2> QED BY <1>1, <2>2, <2>3
<1> QED BY <1>1, <1>2, <1>3

\* The order of the names is that of ten writers at most.
LEMMA NameOrder ==
    ASSUME job \in Jobs, Cardinality(Writers) <= 10
    PROVE  /\ Cardinality(Writers) \in Nat /\ Writers = 0 .. Cardinality(Writers) - 1
           /\ \A i \in 1 .. Cardinality(Writers) : ByName(Writers, i) = i - 1
BY WritersFacts, NamesOfTen

\* What Merged flattens.
Parts == [i \in 1 .. Cardinality(Writers) |-> IF ByName(Writers, i) \in files THEN chunks[ByName(Writers, i)] ELSE << >>]

LEMMA MergedFrom ==
    ASSUME job \in Jobs, \A w \in Writers : IsSeq(chunks[w]), files \subseteq Writers
    PROVE  IsSeq(Merged) /\ \A c \in ToSet(Merged) : \E w \in Writers : c \in ToSet(chunks[w])
<1> DEFINE S == UNION {ToSet(chunks[w]) : w \in Writers}
           n == Cardinality(Writers)
<1>1. n \in Nat
  BY WritersFacts
<1>2. ASSUME NEW i \in 1 .. n PROVE Parts[i] \in Seq(S)
  <2>1. Parts[i] = IF ByName(Writers, i) \in files THEN chunks[ByName(Writers, i)] ELSE << >>
    BY DEF Parts
  <2>2. CASE ByName(Writers, i) \in files
    <3> DEFINE w == ByName(Writers, i)
    <3> HIDE DEF w
    <3>1. w \in Writers
      BY <2>2 DEF w
    <3>2. IsSeq(chunks[w])
      BY <3>1
    <3>3. chunks[w] \in Seq(ToSet(chunks[w])) /\ ToSet(chunks[w]) \subseteq S
      BY <3>1, <3>2, SeqFacts
    <3>4. chunks[w] \in Seq(S)
      <4> HIDE DEF S
      <4> QED BY <3>3
    <3> QED BY <2>1, <2>2, <3>4 DEF w
  <2>3. CASE ByName(Writers, i) \notin files
    BY <2>1, <2>3
  <2> QED BY <2>2, <2>3
<1> HIDE DEF S
<1>3. Parts \in Seq(Seq(S))
  <2>1. Parts \in [1 .. n -> Seq(S)]
    BY <1>2 DEF Parts
  <2> QED BY <1>1, <2>1, FunctionIsSeq
<1>4. Merged \in Seq(S)
  BY <1>3, FlatSeq DEF Merged, Parts
<1>5. ToSet(Merged) \subseteq S
  BY <1>4 DEF ToSet
<1> QED BY <1>4, <1>5 DEF S, IsSeq

LEMMA WholeMerged ==
    ASSUME job \in Jobs, chunks \in [Writers -> Seq(Seq(Nat))], files = Writers,
           Cardinality(Writers) <= 10,
           \A w \in Writers : FlattenSeq(chunks[w]) = Run(Start(w), End(w))
    PROVE  FlattenSeq(Merged) = Run(0, job.items)
<1> DEFINE n == Cardinality(Writers)
           Reach(i) == IF i = 0 THEN 0 ELSE End(i - 1)
<1>1. n \in Nat \ {0} /\ Writers = 0 .. n - 1
  BY WritersFacts
<1>2. \A i \in 1 .. n : Parts[i] = chunks[i - 1]
  BY <1>1, NameOrder DEF Parts
<1>3. Parts \in Seq(Seq(Seq(Nat))) /\ Len(Parts) = n
  <2>1. Parts \in [1 .. n -> Seq(Seq(Nat))]
    <3>1. \A i \in 1 .. n : i - 1 \in Writers
      BY <1>1
    <3>2. \A i \in 1 .. n : Parts[i] \in Seq(Seq(Nat))
      BY <1>2, <3>1
    <3> QED BY <3>2 DEF Parts
  <2>2. Parts \in Seq(Seq(Seq(Nat)))
    BY <1>1, <2>1, FunctionIsSeq
  <2>3. DOMAIN Parts = 1 .. n
    BY DEF Parts
  <2>4. Len(Parts) \in Nat /\ 1 .. Len(Parts) = 1 .. n
    BY <2>2, <2>3
  <2> HIDE DEF n
  <2> QED BY <1>1, <2>2, <2>4, SameEnd
<1>4. PICK f : FlatBy(f, Parts)
  <2>1. IsSeq(Parts) /\ \A i \in 1 .. Len(Parts) : IsSeq(Parts[i])
    <3>1. \A i \in 1 .. Len(Parts) : Parts[i] \in Seq(Seq(Nat))
      BY <1>3
    <3> QED BY <1>3, <3>1 DEF IsSeq
  <2> QED BY <2>1, FlatSteps
<1>5. \A i \in 0 .. n : f[i] \in Seq(Seq(Nat))
  BY <1>3, <1>4, FlatIsSeq
<1>6. Merged = f[n] /\ f[0] = << >>
  BY <1>3, <1>4 DEF FlatBy, Merged, Parts
<1>7. \A i \in 0 .. n - 1 : f[i + 1] = f[i] \o chunks[i]
  <2> SUFFICES ASSUME NEW i \in 0 .. n - 1 PROVE f[i + 1] = f[i] \o chunks[i]
    OBVIOUS
  <2>1. i + 1 \in 1 .. n /\ (i + 1) - 1 = i
    BY <1>1
  <2>2. f[i + 1] = f[(i + 1) - 1] \o Parts[i + 1]
    BY <1>3, <1>4, <2>1 DEF FlatBy
  <2> QED BY <1>2, <2>1, <2>2
<1>8. ASSUME NEW w \in Writers
      PROVE  /\ Reach(w) = Start(w) /\ Reach(w + 1) = End(w) /\ w \in Nat
             /\ Start(w) \in Nat /\ End(w) \in Nat /\ Start(w) <= End(w)
  <2>1. w \in Nat /\ (w + 1) - 1 = w /\ w + 1 # 0
    BY <1>1
  <2>2. Start(w) \in Nat /\ End(w) \in Nat /\ Start(w) <= End(w)
    BY ShareFacts
  <2>3. CASE w = 0
    BY <2>1, <2>2, <2>3, ShareFacts
  <2>4. CASE w # 0
    <3>1. w - 1 \in Writers /\ (w - 1) + 1 = w
      BY <1>1, <2>4
    <3>2. End(w - 1) = Start(w)
      BY <3>1, ShareFacts
    <3> QED BY <2>1, <2>2, <2>4, <3>2
  <2> QED BY <2>3, <2>4
<1> DEFINE T == {i \in Nat : i <= n => FlattenSeq(f[i]) = Run(0, Reach(i))}
<1>9. 0 \in T
  <2>1. Run(0, 0) = << >>
    BY DEF Run
  <2> QED BY <1>6, <2>1, FlatEmpty
<1>10. ASSUME NEW i \in T PROVE i + 1 \in T
  <2>1. i \in Nat /\ (i <= n => FlattenSeq(f[i]) = Run(0, Reach(i)))
    OBVIOUS
  <2> HIDE DEF T
  <2>2. ASSUME i + 1 <= n PROVE FlattenSeq(f[i + 1]) = Run(0, Reach(i + 1))
    <3>1. i \in Writers /\ i \in 0 .. n - 1 /\ i \in 0 .. n
      BY <1>1, <2>1, <2>2
    <3>2. f[i + 1] = f[i] \o chunks[i]
      BY <1>7, <3>1
    <3>3. f[i] \in Seq(Seq(Nat)) /\ chunks[i] \in Seq(Seq(Nat))
      BY <1>5, <3>1
    <3>4. FlattenSeq(f[i + 1]) = FlattenSeq(f[i]) \o FlattenSeq(chunks[i])
      BY <3>2, <3>3, FlatConcat
    <3>5. FlattenSeq(f[i]) = Run(0, Start(i)) /\ FlattenSeq(chunks[i]) = Run(Start(i), End(i))
      BY <1>1, <1>8, <2>1, <2>2, <3>1
    <3>6. Run(0, Start(i)) \o Run(Start(i), End(i)) = Run(0, End(i))
      <4>1. Start(i) \in Nat /\ End(i) \in Nat /\ 0 <= Start(i) /\ Start(i) <= End(i)
        BY <1>8, <3>1
      <4> QED BY <4>1, RunConcat
    <3> HIDE DEF Reach
    <3> QED BY <1>8, <3>1, <3>4, <3>5, <3>6
  <2> HIDE DEF Reach
  <2> QED BY <2>1, <2>2 DEF T
<1>11. T = Nat
  <2> HIDE DEF T
  <2>1. T \subseteq Nat
    BY DEF T
  <2> QED BY <1>9, <1>10, <2>1, Induct
<1>12. FlattenSeq(f[n]) = Run(0, Reach(n))
  <2> HIDE DEF Reach
  <2> QED BY <1>1, <1>11
<1>13. Reach(n) = job.items
  <2>1. n - 1 \in Writers /\ (n - 1) + 1 = n /\ n \notin Writers /\ n # 0
    BY <1>1
  <2>2. End(n - 1) = job.items
    BY <2>1, ShareFacts
  <2> QED BY <2>1, <2>2
<1> QED BY <1>6, <1>12, <1>13

-----------------------------------------------------------------------------
(* The invariant. *)

\* What the variables of the writers hold.
FillTyped ==
    /\ left \in [Writers -> SUBSET Nat] /\ items \in [Writers -> SUBSET Nat]
    /\ low \in [Writers -> Int] /\ DOMAIN high = Writers /\ DOMAIN count = Writers
    /\ chunks \in [Writers -> Seq(Seq(Nat))] /\ DOMAIN worker = Writers
    /\ files \in SUBSET Writers

\* A writer with an index file has written its whole range.
WriterInv(w) ==
    /\ worker[w] = "adding" =>
          WriterOk(w, left[w], items[w], low[w], high[w], count[w], chunks[w]) /\ w \notin files
    /\ \A c \in ToSet(chunks[w]) : FitsIn(c)
    /\ w \in files /\ EachFits => FlattenSeq(chunks[w]) = Run(Start(w), End(w))

\* The index is whole.
IndexInv ==
    /\ IsSeq(index) /\ \A c \in ToSet(index) : FitsIn(c)
    /\ EachFits /\ Cardinality(Writers) <= 10 => FlattenSeq(index) = Run(0, job.items)

\* As long as no rank has left its loop early.
FillInv ==
    /\ job \in Jobs
    /\ quit = {} => FillTyped /\ \A w \in Writers : WriterInv(w)
    /\ quit = {} /\ published # "no" => IndexInv
    /\ DOMAIN main = Ranks /\ (main[0] = "writing" => published # "no")

LEMMA SameJob ==
    ASSUME UNCHANGED job
    PROVE  /\ Writers' = Writers /\ Ranks' = Ranks
           /\ EachFits' = EachFits /\ InOrder' = InOrder
           /\ \A w : Start(w)' = Start(w) /\ End(w)' = End(w) /\ Share(w)' = Share(w)
           /\ \A w, i : No(w, i)' = No(w, i)
           /\ \A a, b, n : Filled(a, b, n)' = Filled(a, b, n)
           /\ \A c : FitsIn(c)' = FitsIn(c)
<1>1. Writers' = Writers /\ Ranks' = Ranks /\ \A w : RankOf(w)' = RankOf(w)
  BY DEF Writers, Ranks, RankOf
<1>2. \A w : Start(w)' = Start(w) /\ End(w)' = End(w) /\ Share(w)' = Share(w)
  BY DEF Start, End, Share, RankOf
<1>3. \A w, i : No(w, i)' = No(w, i)
  BY <1>2 DEF No, BatchOf
<1>4. \A a, b, n : Filled(a, b, n)' = Filled(a, b, n)
  BY DEF Filled
<1>5. EachFits' = EachFits
  BY DEF EachFits
<1>6. InOrder' = InOrder
  BY <1>1, <1>2, <1>4 DEF InOrder
<1>7. \A c : FitsIn(c)' = FitsIn(c)
  BY <1>4, <1>6 DEF FitsIn
<1> QED BY <1>1, <1>2, <1>3, <1>4, <1>5, <1>6, <1>7

LEMMA SameWriter ==
    ASSUME UNCHANGED job, NEW w, NEW L, NEW I, NEW lo, NEW hi, NEW n, NEW cs
    PROVE  WriterOk(w, L, I, lo, hi, n, cs)' = WriterOk(w, L, I, lo, hi, n, cs)
<1>1. PartsOk(w, L, I, cs)' = PartsOk(w, L, I, cs)
  BY SameJob DEF PartsOk
<1>2. ScanOk(I, lo, hi, n)' = ScanOk(I, lo, hi, n)
  BY SameJob DEF ScanOk
<1>3. OrderOk(w, L, I, lo, cs)' = OrderOk(w, L, I, lo, cs)
  <2>1. \A k : PlacedTo(w, cs, k)' = PlacedTo(w, cs, k)
    BY SameJob DEF PlacedTo
  <2> QED BY <2>1, SameJob DEF OrderOk
<1>4. (\A c \in ToSet(cs) : FitsIn(c))' = (\A c \in ToSet(cs) : FitsIn(c))
  BY SameJob
<1> QED BY <1>1, <1>2, <1>3, <1>4 DEF WriterOk

LEMMA OtherWriter ==
    ASSUME UNCHANGED job, NEW v \in Writers, WriterInv(v),
           left'[v] = left[v], items'[v] = items[v], low'[v] = low[v], high'[v] = high[v],
           count'[v] = count[v], chunks'[v] = chunks[v],
           worker'[v] = "adding" => worker[v] = "adding", v \in files' => v \in files
    PROVE  WriterInv(v)'
<1>1. /\ worker[v] = "adding" =>
          WriterOk(v, left[v], items[v], low[v], high[v], count[v], chunks[v]) /\ v \notin files
      /\ \A c \in ToSet(chunks[v]) : FitsIn(c)
      /\ v \in files /\ EachFits => FlattenSeq(chunks[v]) = Run(Start(v), End(v))
  BY DEF WriterInv
<1>2. WriterOk(v, left[v], items[v], low[v], high[v], count[v], chunks[v])'
        = WriterOk(v, left'[v], items'[v], low'[v], high'[v], count'[v], chunks'[v])
  BY SameWriter
<1>3. (\A c \in ToSet(chunks'[v]) : FitsIn(c)') = (\A c \in ToSet(chunks[v]) : FitsIn(c))
  BY SameJob
<1>4. Run(Start(v)', End(v)') = Run(Start(v), End(v)) /\ EachFits' = EachFits
  BY SameJob
<1> QED BY <1>1, <1>2, <1>3, <1>4 DEF WriterInv

LEMMA FillInit == Init => FillInv
<1> SUFFICES ASSUME Init PROVE FillInv
  OBVIOUS
<1>1. /\ job \in Jobs /\ quit = {} /\ files = {} /\ published = "no"
      /\ left = [w \in Writers |-> Share(w)] /\ items = [w \in Writers |-> {}]
      /\ low = [w \in Writers |-> None] /\ high = [w \in Writers |-> None]
      /\ count = [w \in Writers |-> 0] /\ chunks = [w \in Writers |-> << >>]
      /\ worker = [w \in Writers |-> IF NoBatches(RankOf(w)) THEN "failed" ELSE "adding"]
  BY DEF Init
<1>2. \A w \in Writers : Share(w) \in SUBSET Nat
  BY <1>1, ShareFacts DEF Share
<1>3. FillTyped
  <2>1. None \in Int /\ << >> \in Seq(Seq(Nat))
    BY DEF None
  <2> QED BY <1>1, <1>2, <2>1 DEF FillTyped
<1>4. ASSUME NEW w \in Writers PROVE WriterInv(w)
  <2>1. << >> \in Seq(Seq(Nat)) /\ ToSet(<< >>) = {} /\ WrittenIn(<< >>) = {}
    BY EmptyIsSeq DEF WrittenIn
  <2>2. PartsOk(w, Share(w), {}, << >>)
    BY <2>1 DEF PartsOk
  <2>3. PlacedTo(w, << >>, Start(w))
    <3>1. Start(w) \in Nat
      BY <1>1, ShareFacts
    <3>2. Run(Start(w), Start(w)) = << >>
      BY <3>1 DEF Run
    <3>3. Start(w) .. Start(w) - 1 = {} /\ Start(w) <= Start(w)
      BY <3>1
    <3> QED BY <2>1, <3>1, <3>2, <3>3, FlatEmpty DEF PlacedTo
  <2>4. OrderOk(w, Share(w), {}, None, << >>)
    BY <2>1, <2>3 DEF OrderOk
  <2>5. ScanOk({}, None, None, 0)
    BY DEF ScanOk
  <2>6. WriterOk(w, Share(w), {}, None, None, 0, << >>)
    BY <2>1, <2>2, <2>4, <2>5 DEF WriterOk
  <2> QED BY <1>1, <2>1, <2>6 DEF WriterInv
<1>5. main = [r \in Ranks |-> IF NoBatches(r) THEN "failed" ELSE "iterating"] /\ 0 \in Ranks
  BY <1>1, JobFacts DEF Init, Ranks
<1>6. DOMAIN main = Ranks /\ main[0] # "writing"
  BY <1>5
<1> QED BY <1>1, <1>3, <1>4, <1>6 DEF FillInv

\* Nothing of the invariant but the writers of one step changes.
LEMMA FillAdd == ASSUME FillInv, NEW w \in Writers, Add(w) PROVE FillInv'
<1>1. /\ job' = job /\ quit' = quit /\ published' = published /\ index' = index /\ worker' = worker /\ files' = files
      /\ worker[w] = "adding" /\ left[w] # {}
  BY DEF Add
<1>2. job \in Jobs /\ job' \in Jobs /\ Writers' = Writers
  BY <1>1, SameJob DEF FillInv
<1>3. ASSUME quit = {} PROVE FillTyped' /\ \A v \in Writers : WriterInv(v)'
  <2>1. FillTyped /\ \A v \in Writers : WriterInv(v)
    BY <1>3 DEF FillInv
  <2>2. PICK i \in Due(w) : left' = [left EXCEPT ![w] = @ \ {i}] /\ AddItem(w, i)
    BY DEF Add
  <2> DEFINE have == items[w] \union {i}
             s == Adds(items[w], i, low[w], high[w], count[w])
             cs2 == Grown(chunks[w], s.chunk)
  <2>3. /\ items' = [items EXCEPT ![w] = have \ s.chunk]
        /\ low' = [low EXCEPT ![w] = s.low] /\ high' = [high EXCEPT ![w] = s.high]
        /\ count' = [count EXCEPT ![w] = s.count] /\ chunks' = [chunks EXCEPT ![w] = cs2]
    BY <2>2 DEF AddItem, Adds, Found, Grown
  <2>4. WriterOk(w, left[w], items[w], low[w], high[w], count[w], chunks[w]) /\ w \notin files
    BY <1>1, <2>1 DEF WriterInv
  <2>5. low[w] \in Int
    BY <2>1 DEF FillTyped
  <2>6. i \in left[w] /\ \A x \in left[w] : No(w, i) <= No(w, x)
    <3>1. left[w] \in SUBSET Share(w)
      BY <2>4 DEF WriterOk, PartsOk
    <3> QED BY <1>1, <1>2, <3>1, DueFacts
  <2>7. WriterOk(w, left[w] \ {i}, have \ s.chunk, s.low, s.high, s.count, cs2) /\ s.low \in Int
    <3>1. Earliest(w, i, left[w])
      BY <2>6 DEF Earliest
    <3>2. WriterOk(w, left[w], items[w], low[w], high[w], count[w], chunks[w]) /\ job \in Jobs
      BY <1>2, <2>4
    <3> HIDE DEF s
    <3>3. /\ WriterOk(w, left[w] \ {i}, (items[w] \union {i}) \ s.chunk, s.low, s.high, s.count,
                       Grown(chunks[w], s.chunk))
          /\ s.low \in Int
      BY <2>5, <2>6, <3>1, <3>2, AddKeeps DEF s
    <3> QED BY <3>3
  <2>8. have \in SUBSET Nat
    <3>1. items[w] \in SUBSET Nat /\ left[w] \in SUBSET Nat
      BY <2>1 DEF FillTyped
    <3> QED BY <2>6, <3>1
  <2> HIDE DEF have, s, cs2
  <2>9. /\ left'[w] = left[w] \ {i} /\ items'[w] = have \ s.chunk /\ low'[w] = s.low
        /\ high'[w] = s.high /\ count'[w] = s.count /\ chunks'[w] = cs2
    BY <2>1, <2>2, <2>3 DEF FillTyped
  <2>10. \A v \in Writers \ {w} :
           /\ left'[v] = left[v] /\ items'[v] = items[v] /\ low'[v] = low[v]
           /\ high'[v] = high[v] /\ count'[v] = count[v] /\ chunks'[v] = chunks[v]
    BY <2>1, <2>2, <2>3 DEF FillTyped
  <2>11. cs2 \in Seq(Seq(Nat)) /\ \A c \in ToSet(cs2) : FitsIn(c)
    BY <2>7 DEF WriterOk
  <2>12. FillTyped'
    <3>1. left' \in [Writers -> SUBSET Nat] /\ items' \in [Writers -> SUBSET Nat]
      BY <2>1, <2>2, <2>3, <2>8 DEF FillTyped
    <3>2. low' \in [Writers -> Int] /\ DOMAIN high' = Writers /\ DOMAIN count' = Writers
      BY <2>1, <2>3, <2>7 DEF FillTyped
    <3>3. chunks' \in [Writers -> Seq(Seq(Nat))]
      BY <2>1, <2>3, <2>11 DEF FillTyped
    <3>4. DOMAIN worker' = Writers /\ files' \in SUBSET Writers
      BY <1>1, <2>1 DEF FillTyped
    <3> QED BY <1>2, <3>1, <3>2, <3>3, <3>4 DEF FillTyped
  <2>13. WriterInv(w)'
    <3>1. WriterOk(w, left[w], items[w], low[w], high[w], count[w], chunks[w])'
            = WriterOk(w, left'[w], items'[w], low'[w], high'[w], count'[w], chunks'[w])
      BY <1>1, SameWriter
    <3>2. WriterOk(w, left[w], items[w], low[w], high[w], count[w], chunks[w])'
      BY <2>7, <2>9, <3>1
    <3>3. \A c \in ToSet(chunks'[w]) : FitsIn(c)'
      BY <1>1, <2>9, <2>11, SameJob
    <3> QED BY <1>1, <2>4, <3>2, <3>3 DEF WriterInv
  <2>14. ASSUME NEW v \in Writers \ {w} PROVE WriterInv(v)'
    BY <1>1, <2>1, <2>10, OtherWriter
  <2> QED BY <2>12, <2>13, <2>14
<1>4. ASSUME IndexInv PROVE IndexInv'
  BY <1>1, <1>4, SameJob DEF IndexInv
<1>5. DOMAIN main' = Ranks' /\ (main'[0] = "writing" => published' # "no")
  BY <1>1, SameJob DEF FillInv, Add
<1> QED BY <1>1, <1>2, <1>3, <1>4, <1>5 DEF FillInv

LEMMA FillDone == ASSUME FillInv, NEW w \in Writers, Done(w) PROVE FillInv'
<1>1. /\ job' = job /\ quit' = quit /\ published' = published /\ index' = index /\ left' = left
      /\ low' = low /\ high' = high /\ count' = count /\ main' = main
      /\ worker[w] = "adding" /\ Received(RankOf(w)) /\ (items[w] # {} => Sound(items[w]))
      /\ items' = [items EXCEPT ![w] = {}]
      /\ chunks' = [chunks EXCEPT ![w] = IF items[w] = {} THEN @ ELSE Append(@, Ordered(items[w]))]
  BY DEF Done
<1>2. job \in Jobs /\ job' \in Jobs /\ Writers' = Writers
  BY <1>1, SameJob DEF FillInv
<1>3. ASSUME quit = {} PROVE FillTyped' /\ \A v \in Writers : WriterInv(v)'
  <2> DEFINE cs2 == IF items[w] = {} THEN chunks[w] ELSE Append(chunks[w], Ordered(items[w]))
  <2>1. FillTyped /\ \A v \in Writers : WriterInv(v)
    BY <1>3 DEF FillInv
  <2>2. WriterOk(w, left[w], items[w], low[w], high[w], count[w], chunks[w])
    BY <1>1, <2>1 DEF WriterInv
  <2>3. left[w] = {}
    BY <1>1, <1>3 DEF Received
  <2>4. cs2 \in Seq(Seq(Nat)) /\ (\A c \in ToSet(cs2) : FitsIn(c))
        /\ (EachFits => FlattenSeq(cs2) = Run(Start(w), End(w)))
    <3>1. low[w] \in Int
      BY <2>1 DEF FillTyped
    <3>2. WriterOk(w, {}, items[w], low[w], high[w], count[w], chunks[w])
      BY <2>2, <2>3
    <3>3. cs2 = IF items[w] = {} THEN chunks[w] ELSE Append(chunks[w], Ordered(items[w]))
      OBVIOUS
    <3> HIDE DEF cs2
    <3> QED BY <1>1, <1>2, <3>1, <3>2, <3>3, DoneKeeps, ZenonT(150)
  <2>5. /\ DOMAIN worker' = Writers /\ worker'[w] \in {"ended", "indexing"} /\ files' \in SUBSET Writers
        /\ \A v \in Writers \ {w} : worker'[v] = worker[v] /\ (v \in files' <=> v \in files)
    <3>1. /\ DOMAIN worker = Writers /\ files \in SUBSET Writers
      BY <2>1 DEF FillTyped
    <3>2. CASE chunks'[w] = << >>
      <4>1. worker' = [worker EXCEPT ![w] = "ended"] /\ files' = files
        BY <3>2 DEF Done
      <4> QED BY <3>1, <4>1
    <3>3. CASE chunks'[w] # << >>
      <4>1. worker' = [worker EXCEPT ![w] = "indexing"] /\ files' = files \union {w}
        BY <3>3 DEF Done
      <4> QED BY <3>1, <4>1
    <3> QED BY <3>2, <3>3
  <2>6. chunks' = [chunks EXCEPT ![w] = cs2]
    BY <1>1
  <2> HIDE DEF cs2
  <2>7. FillTyped'
    <3>1. left' \in [Writers -> SUBSET Nat] /\ items' \in [Writers -> SUBSET Nat]
      BY <1>1, <2>1 DEF FillTyped
    <3>2. chunks' \in [Writers -> Seq(Seq(Nat))]
      BY <2>1, <2>4, <2>6 DEF FillTyped
    <3> QED BY <1>1, <1>2, <2>1, <2>5, <3>1, <3>2 DEF FillTyped
  <2>8. WriterInv(w)'
    <3>1. chunks'[w] = cs2
      BY <2>1, <2>6 DEF FillTyped
    <3>2. \A c \in ToSet(chunks'[w]) : FitsIn(c)'
      BY <1>1, <2>4, <3>1, SameJob
    <3>3. worker'[w] # "adding"
      BY <2>5
    <3>4. EachFits' => FlattenSeq(chunks'[w]) = Run(Start(w)', End(w)')
      BY <1>1, <2>4, <3>1, SameJob
    <3> QED BY <3>2, <3>3, <3>4 DEF WriterInv
  <2>9. ASSUME NEW v \in Writers \ {w} PROVE WriterInv(v)'
    <3>1. items'[v] = items[v] /\ chunks'[v] = chunks[v]
      BY <1>1, <2>1 DEF FillTyped
    <3>2. /\ left'[v] = left[v] /\ low'[v] = low[v] /\ high'[v] = high[v] /\ count'[v] = count[v]
          /\ worker'[v] = worker[v] /\ (v \in files' <=> v \in files) /\ job' = job
      BY <1>1, <2>5
    <3> QED BY <2>1, <3>1, <3>2, OtherWriter
  <2> QED BY <2>7, <2>8, <2>9
<1>4. ASSUME IndexInv PROVE IndexInv'
  BY <1>1, <1>4, SameJob DEF IndexInv
<1>5. DOMAIN main' = Ranks' /\ (main'[0] = "writing" => published' # "no")
  BY <1>1, SameJob DEF FillInv
<1> QED BY <1>1, <1>2, <1>3, <1>4, <1>5 DEF FillInv

\* A step that adds and writes nothing.
LEMMA FillQuiet ==
    ASSUME FillInv, UNCHANGED <<job, left, writer, files, quit, index>>, DOMAIN worker' = DOMAIN worker,
           \A v \in Writers : worker'[v] = "adding" => worker[v] = "adding",
           published # "no" <=> published' # "no",
           DOMAIN main' = DOMAIN main, main'[0] = "writing" => main[0] = "writing"
    PROVE  FillInv'
<1>1. /\ job' = job /\ quit' = quit /\ index' = index /\ left' = left /\ files' = files
      /\ low' = low /\ high' = high /\ count' = count /\ items' = items /\ chunks' = chunks
  BY DEF writer
<1>2. job \in Jobs /\ job' \in Jobs /\ Writers' = Writers
  BY <1>1, SameJob DEF FillInv
<1>3. ASSUME quit = {} PROVE FillTyped' /\ \A v \in Writers : WriterInv(v)'
  <2>1. FillTyped /\ \A v \in Writers : WriterInv(v)
    BY <1>3 DEF FillInv
  <2>2. FillTyped'
    BY <1>1, <1>2, <2>1 DEF FillTyped
  <2>3. ASSUME NEW v \in Writers PROVE WriterInv(v)'
    BY <1>1, <2>1, OtherWriter
  <2> QED BY <2>2, <2>3
<1>4. ASSUME IndexInv PROVE IndexInv'
  BY <1>1, <1>4, SameJob DEF IndexInv
<1>5. DOMAIN main' = Ranks' /\ (main'[0] = "writing" => published' # "no")
  BY <1>1, SameJob DEF FillInv
<1> QED BY <1>1, <1>2, <1>3, <1>4, <1>5 DEF FillInv

LEMMA FillMerge == ASSUME FillInv, Merge PROVE FillInv'
<1>1. /\ job' = job /\ quit' = quit /\ left' = left /\ worker' = worker
      /\ low' = low /\ high' = high /\ count' = count /\ items' = items /\ chunks' = chunks
      /\ AllThere /\ main[0] = "merging"
  BY DEF Merge, writer
<1>2. job \in Jobs /\ DOMAIN main = Ranks /\ 0 \in Ranks /\ Writers' = Writers
  BY <1>1, SameJob, JobFacts DEF FillInv, Ranks
<1>3. CASE \E w \in files : worker[w] # "ended"
  <2>1. main' = [main EXCEPT ![0] = "failed"] /\ files' = files /\ index' = index /\ published' = published
    BY <1>3 DEF Merge, To
  <2>2. DOMAIN main' = DOMAIN main /\ main'[0] = "failed"
    BY <1>2, <2>1
  <2>3. UNCHANGED <<job, left, writer, files, quit, index>>
    BY <1>1, <2>1 DEF writer
  <2> QED BY <1>1, <2>1, <2>2, <2>3, FillQuiet
<1>4. CASE ~\E w \in files : worker[w] # "ended"
  <2>1. main' = [main EXCEPT ![0] = "writing"] /\ files' = {} /\ index' = Merged /\ published' = "half"
    BY <1>4 DEF Merge, To
  <2>2. DOMAIN main' = Ranks' /\ published' # "no"
    BY <1>1, <1>2, <2>1, SameJob
  <2>3. ASSUME quit = {} PROVE FillTyped' /\ (\A w \in Writers : WriterInv(w)') /\ IndexInv'
    <3>1. FillTyped /\ \A w \in Writers : WriterInv(w)
      BY <2>3 DEF FillInv
    <3>2. FillTyped'
      BY <1>1, <1>2, <2>1, <3>1 DEF FillTyped
    <3>3. ASSUME NEW w \in Writers PROVE WriterInv(w)'
      BY <1>1, <2>1, <3>1, OtherWriter
    <3>4. files = Writers
      <4>1. IsFiniteSet(Writers) /\ files \in SUBSET Writers /\ Cardinality(files) = Cardinality(Writers)
        BY <1>1, <1>2, <3>1, WritersFacts DEF FillTyped, AllThere
      <4> QED BY <4>1, FS_Subset
    <3>5. chunks \in [Writers -> Seq(Seq(Nat))]
      BY <3>1 DEF FillTyped
    <3>6. IsSeq(Merged) /\ \A c \in ToSet(Merged) : FitsIn(c)
      <4>1. \A w \in Writers : \A c \in ToSet(chunks[w]) : FitsIn(c)
        BY <3>1 DEF WriterInv
      <4>2. \A w \in Writers : IsSeq(chunks[w])
        BY <3>5 DEF IsSeq
      <4> QED BY <1>2, <3>4, <4>1, <4>2, MergedFrom
    <3>7. ASSUME EachFits, Cardinality(Writers) <= 10 PROVE FlattenSeq(Merged) = Run(0, job.items)
      <4>1. \A w \in Writers : FlattenSeq(chunks[w]) = Run(Start(w), End(w))
        BY <3>1, <3>4, <3>7 DEF WriterInv
      <4> QED BY <1>2, <3>4, <3>5, <3>7, <4>1, WholeMerged
    <3>8. IndexInv'
      <4>1. EachFits' = EachFits /\ \A c : FitsIn(c)' = FitsIn(c)
        BY <1>1, SameJob
      <4> QED BY <1>1, <1>2, <2>1, <3>6, <3>7, <4>1 DEF IndexInv
    <3> QED BY <3>2, <3>3, <3>8
  <2> QED BY <1>1, <1>2, <2>2, <2>3 DEF FillInv
<1> QED BY <1>3, <1>4

LEMMA FillStep == FillInv /\ [Next]_vars => FillInv'
<1> SUFFICES ASSUME FillInv, [Next]_vars PROVE FillInv'
  OBVIOUS
<1>0. DOMAIN main = Ranks
  BY DEF FillInv
<1>1. CASE Merge
  BY <1>1, FillMerge
<1>2. CASE Publish
  <2>1. /\ UNCHANGED <<job, left, writer, files, quit, index>> /\ worker' = worker
        /\ main' = [main EXCEPT ![0] = "ready"] /\ main[0] = "writing" /\ published' = "yes"
    BY <1>2 DEF Publish, To
  <2>2. DOMAIN main' = DOMAIN main /\ (main'[0] = "writing" => main[0] = "writing")
    BY <2>1
  <2>3. published # "no" /\ published' # "no"
    BY <2>1 DEF FillInv
  <2> QED BY <2>1, <2>2, <2>3, FillQuiet
<1>3. ASSUME NEW w \in Writers, WorkerStep(w) \/ Kill(w) PROVE FillInv'
  <2>1. CASE Add(w)
    BY <2>1, FillAdd
  <2>2. CASE AddRefused(w)
    <3>1. job' = job /\ quit' # {} /\ main' = main /\ published' = published
      BY <2>2 DEF AddRefused
    <3>2. Ranks' = Ranks
      BY <3>1, SameJob
    <3> QED BY <3>1, <3>2 DEF FillInv
  <2>3. CASE Done(w)
    BY <2>3, FillDone
  <2>4. ASSUME UNCHANGED <<job, left, writer, files, main, quit, index, published>>,
               NEW state \in {"failed", "ended", "killed"}, worker' = [worker EXCEPT ![w] = state]
        PROVE  FillInv'
    <3>1. DOMAIN worker' = DOMAIN worker /\ \A v \in Writers : worker'[v] = "adding" => worker[v] = "adding"
      BY <2>4
    <3>2. main' = main /\ published' = published /\ UNCHANGED <<job, left, writer, files, quit, index>>
      BY <2>4
    <3> QED BY <3>1, <3>2, FillQuiet
  <2>5. CASE DoneFails(w)
    <3>1. /\ UNCHANGED <<job, left, writer, files, main, quit, index, published>>
          /\ worker' = [worker EXCEPT ![w] = "failed"]
      BY <2>5 DEF DoneFails
    <3> QED BY <2>4, <3>1
  <2>6. CASE WriteIndex(w)
    <3>1. /\ UNCHANGED <<job, left, writer, files, main, quit, index, published>>
          /\ worker' = [worker EXCEPT ![w] = "ended"]
      BY <2>6 DEF WriteIndex
    <3> QED BY <2>4, <3>1
  <2>7. CASE Kill(w)
    <3>1. /\ UNCHANGED <<job, left, writer, files, main, quit, index, published>>
          /\ worker' = [worker EXCEPT ![w] = "killed"]
      BY <2>7 DEF Kill
    <3> QED BY <2>4, <3>1
  <2> QED BY <1>3, <2>1, <2>2, <2>3, <2>5, <2>6, <2>7 DEF WorkerStep
<1>4. ASSUME NEW r \in Ranks, MainStep(r) \/ Deal(r) \/ Leave(r) PROVE FillInv'
  <2>1. ASSUME UNCHANGED <<job, left, writer, worker, files, quit, index, published>>,
               NEW state, state # "writing", To(r, state)
        PROVE  FillInv'
    <3>1. main' = [main EXCEPT ![r] = state]
      BY <2>1 DEF To
    <3>2. DOMAIN main' = DOMAIN main /\ (main'[0] = "writing" => main[0] = "writing")
      BY <1>0, <2>1, <3>1
    <3>3. worker' = worker /\ published' = published /\ UNCHANGED <<job, left, writer, files, quit, index>>
      BY <2>1
    <3> QED BY <3>2, <3>3, FillQuiet
  <2>2. CASE Shutdown(r)
    <3>1. UNCHANGED <<job, left, writer, worker, files, quit, index, published>> /\ To(r, "merging")
      BY <2>2 DEF Shutdown
    <3> QED BY <2>1, <3>1
  <2>3. CASE SeeIndex(r)
    <3>1. UNCHANGED <<job, left, writer, worker, files, quit, index, published>> /\ To(r, "ready")
      BY <2>3 DEF SeeIndex
    <3> QED BY <2>1, <3>1
  <2>4. CASE ReadIndex(r)
    <3> DEFINE state == IF published = "yes" THEN "reading" ELSE "failed"
    <3>1. UNCHANGED <<job, left, writer, worker, files, quit, index, published>> /\ To(r, state)
      BY <2>4 DEF ReadIndex
    <3>2. state # "writing"
      OBVIOUS
    <3> HIDE DEF state
    <3> QED BY <2>1, <3>1, <3>2
  <2>5. CASE Deal(r)
    <3> DEFINE state == IF Len(index) > r THEN "dealt" ELSE "failed"
    <3>1. UNCHANGED <<job, left, writer, worker, files, quit, index, published>> /\ To(r, state)
      BY <2>5 DEF Deal
    <3>2. state # "writing"
      OBVIOUS
    <3> HIDE DEF state
    <3> QED BY <2>1, <3>1, <3>2
  <2>6. CASE Leave(r)
    <3>1. job' = job /\ quit' # {} /\ main' = main /\ published' = published
      BY <2>6 DEF Leave
    <3>2. Ranks' = Ranks
      BY <3>1, SameJob
    <3> QED BY <3>1, <3>2 DEF FillInv
  <2> QED BY <1>4, <2>2, <2>3, <2>4, <2>5, <2>6 DEF MainStep
<1>5. CASE UNCHANGED vars
  <2>1. /\ UNCHANGED <<job, left, writer, files, quit, index>> /\ worker' = worker
        /\ published' = published /\ main' = main
    BY <1>5 DEF vars
  <2> QED BY <2>1, FillQuiet
<1> QED BY <1>1, <1>2, <1>3, <1>4, <1>5 DEF Next

LEMMA FillNow == FillInv => IndexWhole
<1> SUFFICES ASSUME FillInv, published # "no", quit = {}
             PROVE  /\ EachFits /\ Cardinality(Writers) <= 10 =>
                          FlattenSeq(index) = [p \in 1 .. job.items |-> p - 1]
                    /\ \A c \in ToSet(index) :
                         /\ c # << >>
                         /\ (InOrder \/ ~job.bytes) => Len(c) = 1 \/ Filled(c[1], c[Len(c)], 0) <= job.limit
  BY DEF IndexWhole
<1>1. IndexInv /\ job \in Jobs
  BY DEF FillInv
<1>2. Run(0, job.items) = [p \in 1 .. job.items |-> p - 1]
  <2>1. job.items \in Nat
    BY <1>1, JobFacts
  <2>2. \A p \in 1 .. job.items - 0 : 0 + p - 1 = p - 1
    BY <2>1
  <2>3. 1 .. job.items - 0 = 1 .. job.items
    BY <2>1
  <2> QED BY <2>2, <2>3 DEF Run
<1>3. ASSUME NEW c \in ToSet(index)
      PROVE  /\ c # << >>
             /\ (InOrder \/ ~job.bytes) => Len(c) = 1 \/ Filled(c[1], c[Len(c)], 0) <= job.limit
  <2>1. PICK a \in Nat, b \in Nat :
          /\ a <= b /\ b < job.items /\ c = Run(a, b + 1)
          /\ InOrder \/ ~job.bytes => a = b \/ Filled(a, b, 0) <= job.limit
    BY <1>1 DEF IndexInv, FitsIn
  <2>2. c \in Seq(Nat) /\ Len(c) = b + 1 - a /\ c[1] = a /\ c[Len(c)] = b
    <3>1. b + 1 \in Nat /\ a <= b + 1 /\ a < b + 1 /\ (b + 1) - 1 = b
      BY <2>1
    <3> DEFINE e == b + 1
    <3>2. e \in Nat /\ a <= e /\ a < e /\ e - 1 = b /\ c = Run(a, e)
      BY <2>1, <3>1
    <3> HIDE DEF e
    <3>3. c \in Seq(Nat) /\ Len(c) = e - a /\ c[1] = a /\ c[Len(c)] = e - 1
      BY <3>2, RunFacts
    <3> QED BY <3>2, <3>3 DEF e
  <2>3. c # << >> /\ (a = b => Len(c) = 1)
    <3>1. Len(c) >= 1
      BY <2>1, <2>2
    <3>2. c # << >>
      BY <2>2, <3>1
    <3>3. a = b => b + 1 - a = 1
      BY <2>1
    <3> QED BY <2>2, <3>2, <3>3
  <2> QED BY <2>1, <2>2, <2>3
<1> QED BY <1>1, <1>2, <1>3 DEF IndexInv

\* The merged index lists the items of the dataset in their order, unless a chunk is too
\* small for an item of a batch that comes in any order or there are more than ten
\* writers; and no chunk is too full (BinaryWriter and its merge).
THEOREM FillingWhole == Spec => []IndexWhole
<1>1. Init => FillInv
  BY FillInit
<1>2. FillInv /\ [Next]_vars => FillInv'
  BY FillStep
<1>3. FillInv => IndexWhole
  BY FillNow
<1> QED BY <1>1, <1>2, <1>3, PTL DEF Spec

-----------------------------------------------------------------------------
(* The second epoch. *)

\* An order of the chunks, the same for all that have drawn one, if they are seeded.
DealInv ==
    /\ job \in Jobs /\ DOMAIN main = Ranks /\ DOMAIN deal = Ranks
    /\ DOMAIN chunks = Writers /\ (\A w \in Writers : IsSeq(chunks[w])) /\ files \in SUBSET Writers
    /\ IsSeq(index)
    /\ main[0] \in {"iterating", "merging"} => published = "no"
    /\ \A r \in Ranks : main[r] \in {"reading", "dealt"} => published = "yes"
    /\ \A r \in Ranks : main[r] = "dealt" => deal[r] \in SetToSeqs(Chunks) /\ Len(index) > r
    /\ job.seeded => \A q, r \in Ranks : deal[q] # << >> /\ deal[r] # << >> => deal[q] = deal[r]

\* An order has every chunk at one place.
LEMMA OrderFacts ==
    ASSUME NEW n \in Nat, NEW d \in SetToSeqs(1 .. n)
    PROVE  /\ DOMAIN d = 1 .. n
           /\ \A c \in 1 .. n : \E p \in 1 .. n : d[p] = c /\ \A q \in 1 .. n : d[q] = c => q = p
<1>1. Cardinality(1 .. n) = n /\ IsFiniteSet(1 .. n)
  <2>1. Cardinality(1 .. n) = IF 1 > n THEN 0 ELSE n - 1 + 1
    BY FS_Interval
  <2>2. IsFiniteSet(1 .. n)
    BY FS_Interval
  <2> QED BY <2>1, <2>2
<1>2. d \in [1 .. n -> 1 .. n] /\ \A i, j \in 1 .. n : i # j => d[i] # d[j]
  BY <1>1 DEF SetToSeqs
<1>3. d \in Injection(1 .. n, 1 .. n)
  BY <1>2 DEF Injection, IsInjective
<1>4. d \in Surjection(1 .. n, 1 .. n)
  BY <1>1, <1>3, FS_Injection
<1> QED BY <1>2, <1>4 DEF Surjection

LEMMA ReadOnce ==
    ASSUME DealInv PROVE ChunksReadOnce
<1> SUFFICES ASSUME \A r \in Ranks : main[r] = "dealt", job.ranks = 1 \/ job.seeded,
                    NEW c \in Chunks
             PROVE  Cardinality({p \in Ranks \X (0 .. job.workers - 1) : c \in Dealt(p[1], p[2])}) = 1
  BY DEF ChunksReadOnce
<1> DEFINE R == job.ranks
           K == job.workers
           n == Len(index)
           d == deal[0]
<1>1. R \in Nat \ {0} /\ K \in Nat \ {0} /\ n \in Nat /\ Ranks = 0 .. R - 1 /\ Chunks = 1 .. n /\ 0 \in Ranks
  BY JobFacts, SeqFacts DEF DealInv, Ranks, Chunks
<1>2. d \in SetToSeqs(1 .. n) /\ d = deal[0] /\ n = Len(index)
  BY <1>1 DEF DealInv
<1>3. ASSUME NEW r \in Ranks PROVE deal[r] = d
  <2>1. CASE R = 1
    BY <1>1, <2>1
  <2>2. CASE job.seeded
    <3>1. deal[r] \in SetToSeqs(1 .. n) /\ n > r /\ r \in Nat
      BY <1>1 DEF DealInv
    <3>2. ASSUME NEW f \in SetToSeqs(1 .. n) PROVE f # << >>
      <4> HIDE DEF d, n
      <4>1. DOMAIN f = 1 .. n
        BY <1>1, OrderFacts
      <4>2. 1 \in 1 .. n
        BY <1>1, <3>1
      <4>3. DOMAIN << >> = {}
        OBVIOUS
      <4> QED BY <4>1, <4>2, <4>3
    <3>3. d # << >> /\ deal[r] # << >>
      BY <1>2, <3>1, <3>2
    <3> QED BY <1>1, <2>2, <3>3 DEF DealInv
  <2> QED BY <2>1, <2>2
<1> HIDE DEF d, n
<1>4. PICK p \in 1 .. n : d[p] = c /\ \A q \in 1 .. n : d[q] = c => q = p
  <2>1. c \in 1 .. n
    BY <1>1
  <2>2. n \in Nat /\ d \in SetToSeqs(1 .. n)
    BY <1>1, <1>2
  <2>3. \A m \in Nat : \A e \in SetToSeqs(1 .. m) : \A x \in 1 .. m :
           \E y \in 1 .. m : e[y] = x /\ \A q \in 1 .. m : e[q] = x => q = y
    BY OrderFacts
  <2> QED BY <2>1, <2>2, <2>3
<1> DEFINE r0 == (p - 1) % R
           k0 == ((p - 1) \div R) % K
<1>5. r0 \in 0 .. R - 1 /\ k0 \in 0 .. K - 1
  <2>1. p - 1 \in Nat
    OBVIOUS
  <2>2. (p - 1) \div R \in Nat /\ (p - 1) % R \in 0 .. R - 1
    BY <1>1, <2>1, Division
  <2>3. ((p - 1) \div R) % K \in 0 .. K - 1
    BY <1>1, <2>2, Division
  <2> QED BY <2>2, <2>3
<1>6. ASSUME NEW r \in Ranks, NEW k \in 0 .. K - 1
      PROVE  c \in Dealt(r, k) <=> r = r0 /\ k = k0
  <2>1. Dealt(r, k) = {d[q] : q \in {q \in 1 .. n : (q - 1) % R = r /\ ((q - 1) \div R) % K = k}}
    BY <1>1, <1>3 DEF Dealt
  <2> HIDE DEF R, K
  <2> QED BY <1>4, <2>1
<1> HIDE DEF r0, k0, R, K
<1>7. {p2 \in Ranks \X (0 .. K - 1) : c \in Dealt(p2[1], p2[2])} = {<<r0, k0>>}
  BY <1>1, <1>5, <1>6
<1>8. Cardinality({<<r0, k0>>}) = 1
  BY FS_Singleton
<1> QED BY <1>7, <1>8 DEF K

LEMMA DealInit == Init => DealInv
<1> SUFFICES ASSUME Init PROVE DealInv
  OBVIOUS
<1>1. /\ job \in Jobs /\ files = {} /\ published = "no" /\ index = << >>
      /\ chunks = [w \in Writers |-> << >>] /\ deal = [r \in Ranks |-> << >>]
      /\ main = [r \in Ranks |-> IF NoBatches(r) THEN "failed" ELSE "iterating"]
  BY DEF Init
<1>2. IsSeq(index) /\ \A w \in Writers : IsSeq(chunks[w])
  BY <1>1, EmptyIsSeq
<1>3. \A r \in Ranks : main[r] \in {"failed", "iterating"} /\ deal[r] = << >>
  BY <1>1
<1>4. DOMAIN main = Ranks /\ DOMAIN deal = Ranks /\ DOMAIN chunks = Writers
  BY <1>1
<1> QED BY <1>1, <1>2, <1>3, <1>4 DEF DealInv

\* A step of a writer leaves what the ranks have in their hands.
LEMMA DealWriters ==
    ASSUME DealInv, UNCHANGED <<job, main, deal, index, published>>,
           DOMAIN chunks' = DOMAIN chunks, \A w \in Writers : IsSeq(chunks'[w]),
           files' \in SUBSET Writers
    PROVE  DealInv'
<1>1. Writers' = Writers /\ Ranks' = Ranks /\ Chunks' = Chunks
  BY SameJob DEF Chunks
<1> QED BY <1>1 DEF DealInv

LEMMA DealAdd == ASSUME DealInv, NEW w \in Writers, Add(w) PROVE DealInv'
<1>1. UNCHANGED <<job, main, deal, index, published, files>>
  BY DEF Add
<1>2. PICK i : AddItem(w, i)
  BY DEF Add
<1> DEFINE s == Adds(items[w], i, low[w], high[w], count[w])
<1>3. chunks' = [chunks EXCEPT ![w] = Grown(chunks[w], s.chunk)]
  BY <1>2 DEF AddItem, Adds, Found, Grown
<1> HIDE DEF s
<1>4. DOMAIN chunks' = DOMAIN chunks
  BY <1>3
<1>5. DOMAIN chunks = Writers /\ (\A v \in Writers : IsSeq(chunks[v])) /\ files \in SUBSET Writers
  BY DEF DealInv
<1>6. IsSeq(Append(chunks[w], Ordered(s.chunk)))
  BY <1>5, AppendFacts
<1>7. ASSUME NEW v \in Writers PROVE IsSeq(chunks'[v])
  <2>1. chunks'[v] \in {chunks[v], Append(chunks[w], Ordered(s.chunk))}
    BY <1>3, <1>5 DEF Grown
  <2> QED BY <1>5, <1>6, <2>1
<1> QED BY <1>1, <1>4, <1>5, <1>7, DealWriters

LEMMA DealDone == ASSUME DealInv, NEW w \in Writers, Done(w) PROVE DealInv'
<1>1. UNCHANGED <<job, main, deal, index, published>>
  BY DEF Done
<1>2. chunks' = [chunks EXCEPT ![w] = IF items[w] = {} THEN @ ELSE Append(@, Ordered(items[w]))]
  BY DEF Done
<1>3. files' \in {files, files \union {w}}
  BY DEF Done
<1>4. DOMAIN chunks' = DOMAIN chunks
  BY <1>2
<1>5. DOMAIN chunks = Writers /\ (\A v \in Writers : IsSeq(chunks[v])) /\ files \in SUBSET Writers
  BY DEF DealInv
<1>6. IsSeq(Append(chunks[w], Ordered(items[w])))
  BY <1>5, AppendFacts
<1>7. ASSUME NEW v \in Writers PROVE IsSeq(chunks'[v])
  <2>1. chunks'[v] \in {chunks[v], Append(chunks[w], Ordered(items[w]))}
    BY <1>2, <1>5
  <2> QED BY <1>5, <1>6, <2>1
<1>8. files' \in SUBSET Writers
  BY <1>3, <1>5
<1> QED BY <1>1, <1>4, <1>7, <1>8, DealWriters

\* A step of a rank that neither draws an order nor touches the index.
LEMMA DealMain ==
    ASSUME DealInv, UNCHANGED <<job, writer, files, deal, index>>,
           NEW r \in Ranks, NEW state, main' = [main EXCEPT ![r] = state],
           \/ state \in {"writing", "ready", "failed"} /\ published' = published
           \/ state = "merging" /\ main[r] = "iterating" /\ published' = published
           \/ state = "reading" /\ published = "yes" /\ published' = published
           \/ state = "ready" /\ published' = "yes" /\ r = 0
    PROVE  DealInv'
<1>1. Writers' = Writers /\ Ranks' = Ranks /\ Chunks' = Chunks /\ chunks' = chunks
  BY SameJob DEF Chunks, writer
<1>2. DOMAIN main = Ranks /\ DOMAIN main' = Ranks /\ \A q \in Ranks : main'[q] = IF q = r THEN state ELSE main[q]
  BY DEF DealInv
<1>3. 0 \in Ranks
  BY JobFacts DEF DealInv, Ranks
<1>4. main'[0] \in {"iterating", "merging"} => published' = "no"
  BY <1>2, <1>3 DEF DealInv
<1>5. \A q \in Ranks : main'[q] \in {"reading", "dealt"} => published' = "yes"
  BY <1>2 DEF DealInv
<1>6. \A q \in Ranks : main'[q] = "dealt" => main[q] = "dealt"
  BY <1>2
<1>7. /\ job' \in Jobs /\ DOMAIN deal' = Ranks /\ DOMAIN chunks' = Writers /\ files' \in SUBSET Writers
      /\ \A w \in Writers : IsSeq(chunks'[w])
  BY <1>1 DEF DealInv
<1>8. IsSeq(index')
  BY DEF DealInv
<1>9. /\ \A q \in Ranks : main'[q] = "dealt" => deal'[q] \in SetToSeqs(Chunks') /\ Len(index') > q
      /\ job'.seeded => \A p, q \in Ranks : deal'[p] # << >> /\ deal'[q] # << >> => deal'[p] = deal'[q]
  BY <1>1, <1>6 DEF DealInv
<1> QED BY <1>1, <1>2, <1>4, <1>5, <1>7, <1>8, <1>9 DEF DealInv

LEMMA DealMerge == ASSUME DealInv, Merge PROVE DealInv'
<1>1. main[0] = "merging" /\ UNCHANGED <<job, left, writer, worker, quit, deal>>
  BY DEF Merge
<1>2. 0 \in Ranks /\ DOMAIN main = Ranks
  BY JobFacts DEF DealInv, Ranks
<1>3. CASE \E w \in files : worker[w] # "ended"
  <2>1. main' = [main EXCEPT ![0] = "failed"] /\ UNCHANGED <<files, index, published>>
    BY <1>3 DEF Merge, To
  <2> QED BY <1>1, <1>2, <2>1, DealMain
<1>4. CASE ~(\E w \in files : worker[w] # "ended")
  <2>1. main' = [main EXCEPT ![0] = "writing"] /\ files' = {} /\ index' = Merged /\ published' = "half"
    BY <1>4 DEF Merge, To
  <2>2. Writers' = Writers /\ Ranks' = Ranks /\ chunks' = chunks
    BY <1>1, SameJob DEF writer
  <2>3. published = "no"
    BY <1>1 DEF DealInv
  <2>4. \A q \in Ranks : main'[q] \notin {"reading", "dealt"} /\ main'[0] = "writing"
    BY <1>2, <2>1, <2>3 DEF DealInv
  <2>5. IsSeq(index')
    BY <2>1, MergedFrom DEF DealInv
  <2>6. DOMAIN main' = Ranks
    BY <1>2, <2>1
  <2>7. /\ job' \in Jobs /\ DOMAIN deal' = Ranks /\ DOMAIN chunks' = Writers /\ files' \in SUBSET Writers
        /\ \A w \in Writers : IsSeq(chunks'[w])
        /\ job'.seeded => \A p, q \in Ranks : deal'[p] # << >> /\ deal'[q] # << >> => deal'[p] = deal'[q]
    BY <1>1, <2>1, <2>2 DEF DealInv
  <2>8. main'[0] \notin {"iterating", "merging"}
    BY <1>2, <2>4
  <2>9. \A q \in Ranks : main'[q] \notin {"reading", "dealt"}
    BY <2>4
  <2> QED BY <2>2, <2>5, <2>6, <2>7, <2>8, <2>9 DEF DealInv
<1> QED BY <1>3, <1>4

LEMMA DealDeal == ASSUME DealInv, NEW r \in Ranks, Deal(r) PROVE DealInv'
<1>1. UNCHANGED <<job, left, writer, worker, files, quit, index, published>> /\ main[r] = "reading"
  BY DEF Deal
<1>2. PICK order \in SetToSeqs(Chunks) :
        /\ job.seeded => \A q \in Ranks : deal[q] \in {<< >>, order}
        /\ deal' = [deal EXCEPT ![r] = order]
  BY DEF Deal
<1>3. main' = [main EXCEPT ![r] = IF Len(index) > r THEN "dealt" ELSE "failed"]
  BY DEF Deal, To
<1>4. Writers' = Writers /\ Ranks' = Ranks /\ Chunks' = Chunks /\ chunks' = chunks
  BY <1>1, SameJob DEF Chunks, writer
<1>5. DOMAIN main = Ranks /\ DOMAIN deal = Ranks
  BY DEF DealInv
<1>6. /\ DOMAIN main' = Ranks /\ DOMAIN deal' = Ranks
      /\ \A q \in Ranks : q # r => main'[q] = main[q] /\ deal'[q] = deal[q]
      /\ main'[r] = IF Len(index) > r THEN "dealt" ELSE "failed"
      /\ deal'[r] = order
  BY <1>2, <1>3, <1>5
<1>7. published = "yes" /\ published' = "yes"
  BY <1>1 DEF DealInv
<1>8. main'[0] \notin {"iterating", "merging"}
  <2>1. main[0] \notin {"iterating", "merging"}
    BY <1>7 DEF DealInv
  <2>2. 0 \in Ranks
    BY JobFacts DEF DealInv, Ranks
  <2> QED BY <1>6, <2>1, <2>2
<1>9. ASSUME NEW q \in Ranks, main'[q] = "dealt"
      PROVE  deal'[q] \in SetToSeqs(Chunks) /\ Len(index) > q
  <2>1. CASE q = r
    BY <1>2, <1>6, <1>9, <2>1
  <2>2. CASE q # r
    BY <1>6, <1>9, <2>2 DEF DealInv
  <2> QED BY <2>1, <2>2
<1>10. ASSUME job.seeded, NEW p \in Ranks, NEW q \in Ranks, deal'[p] # << >>, deal'[q] # << >>
       PROVE  deal'[p] = deal'[q]
  <2>1. \A o \in Ranks : deal'[o] \in {<< >>, order}
    BY <1>2, <1>6, <1>10
  <2> QED BY <1>10, <2>1
<1>11. /\ job' \in Jobs /\ DOMAIN chunks' = Writers /\ files' \in SUBSET Writers /\ IsSeq(index')
       /\ \A w \in Writers : IsSeq(chunks'[w])
  BY <1>1, <1>4 DEF DealInv
<1>12. \A q \in Ranks : main'[q] = "dealt" => deal'[q] \in SetToSeqs(Chunks') /\ Len(index') > q
  BY <1>1, <1>4, <1>9
<1>13. job'.seeded => \A p, q \in Ranks : deal'[p] # << >> /\ deal'[q] # << >> => deal'[p] = deal'[q]
  BY <1>1, <1>10
<1> QED BY <1>4, <1>6, <1>7, <1>8, <1>11, <1>12, <1>13 DEF DealInv

LEMMA DealStep == DealInv /\ [Next]_vars => DealInv'
<1> SUFFICES ASSUME DealInv, [Next]_vars PROVE DealInv'
  OBVIOUS
<1>0. /\ job \in Jobs /\ DOMAIN chunks = Writers /\ (\A w \in Writers : IsSeq(chunks[w]))
      /\ files \in SUBSET Writers /\ 0 \in Ranks
  BY JobFacts DEF DealInv, Ranks
<1>q. ASSUME UNCHANGED <<job, main, deal, index, published, files, writer>> PROVE DealInv'
  <2>1. chunks' = chunks /\ files' = files
    BY <1>q DEF writer
  <2> QED BY <1>0, <1>q, <2>1, DealWriters
<1>1. CASE Merge
  BY <1>1, DealMerge
<1>2. CASE Publish
  <2>1. UNCHANGED <<job, writer, files, deal, index>> /\ published' = "yes" /\ main' = [main EXCEPT ![0] = "ready"]
    BY <1>2 DEF Publish, To
  <2> QED BY <1>0, <2>1, DealMain
<1>3. ASSUME NEW w \in Writers, WorkerStep(w) \/ Kill(w) PROVE DealInv'
  <2>1. CASE Add(w)
    BY <2>1, DealAdd
  <2>2. CASE Done(w)
    BY <2>2, DealDone
  <2>3. CASE AddRefused(w) \/ DoneFails(w) \/ WriteIndex(w) \/ Kill(w)
    <3>1. UNCHANGED <<job, main, deal, index, published, files, writer>>
      BY <2>3 DEF AddRefused, DoneFails, WriteIndex, Kill
    <3> QED BY <3>1, <1>q
  <2> QED BY <1>3, <2>1, <2>2, <2>3 DEF WorkerStep
<1>4. ASSUME NEW r \in Ranks, MainStep(r) \/ Deal(r) \/ Leave(r) PROVE DealInv'
  <2>1. CASE Shutdown(r)
    <3>1. /\ UNCHANGED <<job, writer, files, deal, index, published>> /\ main[r] = "iterating"
          /\ main' = [main EXCEPT ![r] = "merging"]
      BY <2>1 DEF Shutdown, To
    <3> QED BY <3>1, DealMain
  <2>2. CASE SeeIndex(r)
    <3>1. UNCHANGED <<job, writer, files, deal, index, published>> /\ main' = [main EXCEPT ![r] = "ready"]
      BY <2>2 DEF SeeIndex, To
    <3> QED BY <3>1, DealMain
  <2>3. CASE ReadIndex(r)
    <3>1. /\ UNCHANGED <<job, writer, files, deal, index, published>>
          /\ main' = [main EXCEPT ![r] = IF published = "yes" THEN "reading" ELSE "failed"]
      BY <2>3 DEF ReadIndex, To
    <3>2. CASE published = "yes"
      <4>1. main' = [main EXCEPT ![r] = "reading"]
        BY <3>1, <3>2
      <4> QED BY <3>1, <3>2, <4>1, DealMain
    <3>3. CASE published # "yes"
      <4>1. main' = [main EXCEPT ![r] = "failed"]
        BY <3>1, <3>3
      <4> QED BY <3>1, <4>1, DealMain
    <3> QED BY <3>2, <3>3
  <2>4. CASE Deal(r)
    BY <2>4, DealDeal
  <2>5. CASE Leave(r)
    <3>1. UNCHANGED <<job, main, deal, index, published, files, writer>>
      BY <2>5 DEF Leave
    <3> QED BY <3>1, <1>q
  <2> QED BY <1>4, <2>1, <2>2, <2>3, <2>4, <2>5 DEF MainStep
<1>5. CASE UNCHANGED vars
  BY <1>5, <1>q DEF vars
<1> QED BY <1>1, <1>2, <1>3, <1>4, <1>5 DEF Next

\* In the second epoch the ranks that drew the same order read every chunk once
\* (CacheBatchSampler).
THEOREM FillingReadOnce == Spec => []ChunksReadOnce
<1>1. Init => DealInv
  BY DealInit
<1>2. DealInv /\ [Next]_vars => DealInv'
  BY DealStep
<1>3. DealInv => ChunksReadOnce
  BY ReadOnce
<1> QED BY <1>1, <1>2, <1>3, PTL DEF Spec

-----------------------------------------------------------------------------
(* The dataset is opened and read. *)

Proofs == INSTANCE DatasetFolderProofs

\* Folder and Proofs are two instances of one module, with the same definitions.
LEMMA SameInit == Folder!OpeningInit => Proofs!OpeningInit
  BY DEF Folder!OpeningInit, Proofs!OpeningInit, Folder!Procs, Proofs!Procs, Folder!Datasets,
         Proofs!Datasets, Folder!Names, Proofs!Names, Folder!Hash, Proofs!Hash, Folder!Missing,
         Proofs!Missing, Folder!MaxVersions, Proofs!MaxVersions, Folder!FolderOf,
         Proofs!FolderOf

LEMMA SameNext == Folder!OpeningNext => Proofs!OpeningNext
  BY DEF Folder!OpeningNext, Proofs!OpeningNext, Folder!OpeningStep, Proofs!OpeningStep,
         Folder!Withdraw, Proofs!Withdraw, Folder!Publish, Proofs!Publish, Folder!Overtake,
         Proofs!Overtake, Folder!Begin, Proofs!Begin, Folder!StartIndexing,
         Proofs!StartIndexing, Folder!IndexParquet, Proofs!IndexParquet, Folder!EndIndexing,
         Proofs!EndIndexing, Folder!PlaceIndex, Proofs!PlaceIndex, Folder!Placed, Proofs!Placed,
         Folder!Stamp, Proofs!Stamp, Folder!Look, Proofs!Look, Folder!List, Proofs!List,
         Folder!Clear, Proofs!Clear, Folder!Rmdir, Proofs!Rmdir, Folder!Make, Proofs!Make,
         Folder!Mkdir, Proofs!Mkdir, Folder!Fetch, Proofs!Fetch, Folder!Copy, Proofs!Copy,
         Folder!Load, Proofs!Load, Folder!Touch, Proofs!Touch, Folder!Configure,
         Proofs!Configure, Folder!Procs, Proofs!Procs, Folder!Datasets, Proofs!Datasets,
         Folder!Names, Proofs!Names, Folder!Hash, Proofs!Hash, Folder!Busy, Proofs!Busy,
         Folder!First, Proofs!First, Folder!RightLoader, Proofs!RightLoader, Folder!Goto,
         Proofs!Goto, Folder!Fail, Proofs!Fail, Folder!Existing, Proofs!Existing,
         Folder!Barrier, Proofs!Barrier, Folder!Fetches, Proofs!Fetches, Folder!AfterFolder,
         Proofs!AfterFolder, Folder!AfterFetch, Proofs!AfterFetch, Folder!Held, Proofs!Held,
         Folder!Found, Proofs!Found, Folder!ChunksKnown, Proofs!ChunksKnown, Folder!Missing,
         Proofs!Missing, Folder!MaxVersions, Proofs!MaxVersions, Folder!folder, Proofs!folder,
         Folder!process, Proofs!process

LEMMA SameAssumption == Folder!OpenJobAssumption => Proofs!OpenJobAssumption
  BY DEF Folder!OpenJobAssumption, Proofs!OpenJobAssumption, Folder!MaxVersions, Proofs!MaxVersions

\* Neither those that write the dataset nor those that read its chunks touch the folders.
LEMMA FolderSteps ==
    ASSUME [LifeNext]_lifeVars
    PROVE  Folder!OpeningNext \/ UNCHANGED Proofs!openingVars
<1>1. LifeNext => Folder!OpeningNext \/ UNCHANGED folderVars
  BY DEF LifeNext
<1>2. UNCHANGED lifeVars => UNCHANGED folderVars
  BY DEF lifeVars
<1>3. UNCHANGED folderVars => UNCHANGED Proofs!openingVars
  BY DEF folderVars, Proofs!openingVars, Proofs!folder, Proofs!process
<1> QED BY <1>1, <1>2, <1>3

\* A process that opens a dataset reads the version that is there, unless it is written
\* meanwhile: every step is one of DatasetFolder or none to it.
THEOREM LifeNeverStale == LifeSpec => []NeverStale
<1>1. LifeInit => Proofs!IInv
  BY LifeAssumption, SameAssumption, SameInit, Proofs!InitInv DEF LifeInit
<1>2. Proofs!IInv /\ [LifeNext]_lifeVars => Proofs!IInv'
  BY FolderSteps, SameNext, Proofs!StepInv
<1>3. Proofs!IInv => NeverStale
  <2>1. Proofs!IInv => Proofs!NeverStale
    BY LifeAssumption, SameAssumption, Proofs!NowInv
  <2>2. Proofs!NeverStale => Folder!NeverStale
    BY DEF Proofs!NeverStale, Folder!NeverStale, Proofs!Procs, Folder!Procs
  <2> QED BY <2>1, <2>2 DEF NeverStale
<1> QED BY <1>1, <1>2, <1>3, PTL DEF LifeSpec

\* A process that opens the dataset and meets no other is not disturbed, by the writers
\* and the readers of its chunks either.
THEOREM LifeUndisturbed == LifeSpec => []Undisturbed
<1> DEFINE Inv == Proofs!IInv /\ Proofs!CalmInv
<1>0. Proofs!OpenJobAssumption
  BY LifeAssumption, SameAssumption
<1>1. LifeInit => Inv
  BY <1>0, SameInit, Proofs!InitInv, Proofs!CalmInit DEF LifeInit
<1>2. Inv /\ [LifeNext]_lifeVars => Inv'
  BY <1>0, FolderSteps, SameNext, Proofs!StepInv, Proofs!CalmStep
<1>3. Inv => Undisturbed
  <2>1. Inv => Proofs!Undisturbed
    BY Proofs!CalmEnough
  <2>2. Proofs!Undisturbed => Folder!Undisturbed
    BY DEF Proofs!Undisturbed, Folder!Undisturbed, Proofs!RightLoader, Folder!RightLoader,
           Proofs!Procs, Folder!Procs, Proofs!Met, Folder!Met, Proofs!Settled, Folder!Settled,
           Proofs!OneDataset, Folder!OneDataset, Proofs!Datasets, Folder!Datasets,
           Proofs!Found, Folder!Found, Proofs!Missing, Folder!Missing
  <2> QED BY <2>1, <2>2 DEF Undisturbed
<1> QED BY <1>1, <1>2, <1>3, PTL DEF LifeSpec

\* What a CacheDataLoader leaves is the whole dataset in its order, and is not changed by
\* those that open and read it.
THEOREM LifeIndexWhole == LifeSpec => []IndexWhole
<1>1. LifeInit => FillInv
  BY FillInit DEF LifeInit
<1>2. FillInv /\ [LifeNext]_lifeVars => FillInv'
  BY FillStep DEF LifeNext, lifeVars
<1>3. FillInv => IndexWhole
  BY FillNow
<1> QED BY <1>1, <1>2, <1>3, PTL DEF LifeSpec

\* In its second epoch every chunk is read by one worker of one rank.
THEOREM LifeChunksReadOnce == LifeSpec => []ChunksReadOnce
<1>1. LifeInit => DealInv
  BY DealInit DEF LifeInit
<1>2. DealInv /\ [LifeNext]_lifeVars => DealInv'
  BY DealStep DEF LifeNext, lifeVars
<1>3. DealInv => ChunksReadOnce
  BY ReadOnce
<1> QED BY <1>1, <1>2, <1>3, PTL DEF LifeSpec

-----------------------------------------------------------------------------
(* A worker that reads the dataset. *)

Reads == INSTANCE MappedItemsProofs

LEMMA SameReadingInit == Worker!ReadingInit => Reads!ReadingInit
  BY DEF Worker!ReadingInit, Reads!ReadingInit, Worker!Indexes, Reads!Indexes, Worker!Threads,
         Reads!Threads, Worker!None, Reads!None, Worker!SetUpFails, Reads!SetUpFails,
         Worker!Tokens, Reads!Tokens, Worker!NoGroups, Reads!NoGroups, Worker!Max, Reads!Max

LEMMA SameReadingNext == Worker!ReadingNext => Reads!ReadingNext
<1> USE DEF Worker!None, Reads!None, Worker!End, Reads!End, Worker!Indexes, Reads!Indexes,
           Worker!Tokens, Reads!Tokens, Worker!Threads, Reads!Threads, Worker!Goto, Reads!Goto,
           Worker!tables, Reads!tables, Worker!reader, Reads!reader, Worker!thread, Reads!thread,
           Worker!LastOfEpoch, Reads!LastOfEpoch
<1>1. ASSUME NEW t, Worker!Count(t) PROVE Reads!Count(t)
  BY <1>1 DEF Worker!Count, Reads!Count, Worker!ChunkAt, Reads!ChunkAt, Worker!After, Reads!After
<1>2. ASSUME NEW t, Worker!Map(t) PROVE Reads!Map(t)
  <2>1. ASSUME NEW c PROVE Worker!Unused(c) = Reads!Unused(c)
    BY DEF Worker!Unused, Reads!Unused, Worker!Min, Reads!Min, Worker!Cardinality, Reads!Cardinality
  <2>2. Worker!ChunkAt(t) = Reads!ChunkAt(t)
    BY DEF Worker!ChunkAt, Reads!ChunkAt
  <2> QED BY <1>2, <2>1, <2>2 DEF Worker!Map, Reads!Map
<1>3. ASSUME NEW t, Worker!View(t) PROVE Reads!View(t)
  BY <1>3 DEF Worker!View, Reads!View, Worker!ChunkAt, Reads!ChunkAt, Worker!After, Reads!After
<1>4. Worker!NextItem => Reads!NextItem
  BY DEF Worker!NextItem, Reads!NextItem, Worker!MaxEpochs, Reads!MaxEpochs, Worker!Items,
         Reads!Items
<1>5. Worker!Find => Reads!Find
  BY DEF Worker!Find, Reads!Find
<1>6. Worker!ForceDownload => Reads!ForceDownload
  BY DEF Worker!ForceDownload, Reads!ForceDownload
<1>7. Worker!TakeBlock => Reads!TakeBlock
  BY DEF Worker!TakeBlock, Reads!TakeBlock, Worker!Min, Reads!Min
<1>8. Worker!TakeRow => Reads!TakeRow
  BY DEF Worker!TakeRow, Reads!TakeRow, Worker!ReadRow, Reads!ReadRow, Worker!Min, Reads!Min,
         Worker!GroupOf, Reads!GroupOf
<1>9. Worker!Release => Reads!Release
  BY DEF Worker!Release, Reads!Release
<1>10. Worker!Close => Reads!Close
  BY DEF Worker!Close, Reads!Close, Worker!Left, Reads!Left, Worker!DropRows, Reads!DropRows,
         Worker!NoGroups, Reads!NoGroups, Worker!Max, Reads!Max
<1>11. Worker!CloseBuffer => Reads!CloseBuffer
  BY DEF Worker!CloseBuffer, Reads!CloseBuffer, Worker!DropBuffer, Reads!DropBuffer, Worker!Left,
         Reads!Left
<1>12. Worker!CloseMapping => Reads!CloseMapping
  BY DEF Worker!CloseMapping, Reads!CloseMapping, Worker!Unmap, Reads!Unmap, Worker!Left,
         Reads!Left
<1>13. Worker!Enter => Reads!Enter
  BY DEF Worker!Enter, Reads!Enter
<1>14. Worker!EndEpoch => Reads!EndEpoch
  BY DEF Worker!EndEpoch, Reads!EndEpoch
<1>15. Worker!Join => Reads!Join
  BY DEF Worker!Join, Reads!Join, Worker!Stuck, Reads!Stuck, Worker!MaxPreDownload,
         Reads!MaxPreDownload
<1>16. Worker!Give => Reads!Give
  BY DEF Worker!Give, Reads!Give
<1>17. Worker!Collate => Reads!Collate
  BY DEF Worker!Collate, Reads!Collate
<1>18. Worker!Download => Reads!Download
  BY DEF Worker!Download, Reads!Download, Worker!MaxPreDownload, Reads!MaxPreDownload,
         Worker!Fetched, Reads!Fetched, Worker!Preloads, Reads!Preloads
<1>19. Worker!ScanParquet => Reads!ScanParquet
  BY DEF Worker!ScanParquet, Reads!ScanParquet
<1>20. Worker!Downloaded => Reads!Downloaded
  BY DEF Worker!Downloaded, Reads!Downloaded
<1>21. Worker!ReceiveEnd => Reads!ReceiveEnd
  BY DEF Worker!ReceiveEnd, Reads!ReceiveEnd, Worker!MaxPreDownload, Reads!MaxPreDownload
<1>22. Worker!Skip => Reads!Skip
  BY DEF Worker!Skip, Reads!Skip, Worker!MaxPreDownload, Reads!MaxPreDownload
<1>23. Worker!Evict => Reads!Evict
  BY DEF Worker!Evict, Reads!Evict
<1>24. Worker!Keep => Reads!Keep
  BY DEF Worker!Keep, Reads!Keep
<1>25. Worker!DeleteBuffer => Reads!DeleteBuffer
  BY DEF Worker!DeleteBuffer, Reads!DeleteBuffer, Worker!DropBuffer, Reads!DropBuffer
<1>26. Worker!Delete => Reads!Delete
  BY DEF Worker!Delete, Reads!Delete, Worker!Drop, Reads!Drop, Worker!Unmap, Reads!Unmap,
         Worker!DropRows, Reads!DropRows, Worker!NoGroups, Reads!NoGroups, Worker!Max, Reads!Max
<1>27. Worker!Cleaned => Reads!Cleaned
  BY DEF Worker!Cleaned, Reads!Cleaned
<1>28. Worker!Refetch => Reads!Refetch
  BY DEF Worker!Refetch, Reads!Refetch, Worker!Drop, Reads!Drop, Worker!Unmap, Reads!Unmap,
         Worker!DropRows, Reads!DropRows, Worker!NoGroups, Reads!NoGroups, Worker!Max, Reads!Max
<1>29. Worker!Refetched => Reads!Refetched
  BY DEF Worker!Refetched, Reads!Refetched, Worker!Fetched, Reads!Fetched, Worker!Preloads,
         Reads!Preloads
<1> QED BY <1>1, <1>2, <1>3, <1>4, <1>5, <1>6, <1>7, <1>8, <1>9, <1>10, <1>11, <1>12, <1>13,
         <1>14, <1>15, <1>16, <1>17, <1>18, <1>19, <1>20, <1>21, <1>22, <1>23, <1>24, <1>25,
         <1>26, <1>27, <1>28, <1>29 DEF Worker!ReadingNext, Reads!ReadingNext, Worker!ReaderStep,
         Reads!ReaderStep, Worker!ThreadStep, Reads!ThreadStep

LEMMA SameReadAssumption == Worker!ReadJobAssumption => Reads!ReadJobAssumption
  BY DEF Worker!ReadJobAssumption, Reads!ReadJobAssumption

LEMMA ReadingSteps ==
    ASSUME [LifeNext]_lifeVars
    PROVE  Worker!ReadingNext \/ UNCHANGED Reads!readingVars
<1>1. LifeNext => Worker!ReadingNext \/ UNCHANGED readVars
  BY DEF LifeNext
<1>2. UNCHANGED lifeVars => UNCHANGED readVars
  BY DEF lifeVars
<1>3. UNCHANGED readVars => UNCHANGED Reads!readingVars
  BY DEF readVars, Reads!readingVars, Reads!tables, Reads!reader, Reads!thread
<1> QED BY <1>1, <1>2, <1>3

\* The chunk a worker is reading stays mapped under the prepare thread that loads and
\* deletes chunks, as long as the loads are counted, and a low-memory loader keeps no rows
\* of a chunk it has left: for every way the chunks may be read.
THEOREM LifeInHandUsable == LifeSpec => []InHandUsable
<1>1. LifeInit => Reads!MappedInv
  BY LifeAssumption, SameReadAssumption, SameReadingInit, Reads!MappedInit DEF LifeInit
<1>2. Reads!MappedInv /\ [LifeNext]_lifeVars => Reads!MappedInv'
  BY LifeAssumption, SameReadAssumption, ReadingSteps, SameReadingNext, Reads!MappedStep, Reads!MappedStays
<1>3. Reads!MappedInv => InHandUsable
  <2>1. Reads!MappedInv => Reads!InHandUsable
    BY Reads!MappedUsable
  <2>2. Reads!InHandUsable => Worker!InHandUsable
    BY DEF Reads!InHandUsable, Worker!InHandUsable, Reads!Tokens, Worker!Tokens, Reads!Counted,
           Worker!Counted, Reads!Leaving, Worker!Leaving, Reads!Indexes, Worker!Indexes,
           Reads!NoGroups, Worker!NoGroups, Reads!Max, Worker!Max
  <2> QED BY <2>1, <2>2 DEF InHandUsable
<1> QED BY <1>1, <1>2, <1>3, PTL DEF LifeSpec
=============================================================================
