------------------------- MODULE MixedLoaderProofs -------------------------
(***************************************************************************)
(* Theorems about MixedLoader, for every job: the batches of a combined     *)
(* dataset that are to have samples of one dataset each.                    *)
(***************************************************************************)
EXTENDS MixedLoader, SequenceProofs, TLAPS

-----------------------------------------------------------------------------
(* The invariant, of a job j and the state of its loader and workers.         *)

\* per_stream: the batches of a combined dataset have one dataset each.
PerStream(j) == j.kind = "combined" /\ ~j.stratified

\* Part, of a job.
PartOf(j, d, w, b) ==
    Share([nodes |-> 1, ranksPerNode |-> j.ranks, workers |-> j.workers, batch |-> b,
           dropLast |-> j.ranks > 1], j.items[d], w)

\* Sample s is the last one its worker has of its dataset, if that is dealt out in
\* batches of the sizes z.
LastOne(j, s, z) == s.index = PartOf(j, s.dataset, s.worker, z[s.dataset])
SpentIn(j, b, z) == \E p \in DOMAIN b : LastOne(j, b[p], z)

\* Worker w has used up a dataset in the batches that were given.
SpentBy(j, w, given) ==
    \E a \in DOMAIN given : given[a].worker = w /\ SpentIn(j, given[a].samples, given[a].size)

\* A dataset has another batch size than the loader.
Odd(j, z) == \E d \in DOMAIN z : z[d] # j.batch

OneKind(b) == \A p, q \in DOMAIN b : b[p].dataset = b[q].dataset

\* One dataset is left.
Alone(j, k) == j.all /\ Cardinality(k.left) = 1

\* A worker counts how often it has asked the current dataset.  That is how many
\* samples are in the batch b it collects, all of that dataset; when there is none yet, it
\* has just begun, or finished a batch, or the current dataset has no sample.
Begun(j, k, b) ==
    /\ ~Alone(j, k)
    /\ b = << >> => \/ k.current = None \/ k.inBatch = j.batch
                    \/ k.current \notin DOMAIN k.size
                    \/ k.at[k.current] >= k.share[k.current]
    /\ b # << >> => /\ k.current \in DOMAIN k.size /\ k.inBatch = Len(b)
                    /\ \A p \in DOMAIN b : b[p].dataset = k.current
                    /\ b[Len(b)].index = k.at[k.current]

Aligned(j, k, b, w, given) ==
    \/ Odd(j, k.size) \/ SpentBy(j, w, given) \/ SpentIn(j, b, k.size)
    \/ Alone(j, k) /\ \A p \in DOMAIN b : b[p].dataset = Max(k.left)
    \/ k.over /\ OneKind(b)
    \/ Begun(j, k, b)

Fields == {"share", "size", "at", "epoch", "samples", "cycles", "left", "drawn", "current",
           "inBatch", "count", "broken", "over"}

\* A worker w goes on in each dataset from where it is, up to its share, and counts for
\* datasets it knows.
WorkerInv(j, all, k, w) ==
    /\ DOMAIN k = Fields
    /\ DOMAIN k.size = all /\ DOMAIN k.at = all
    /\ DOMAIN k.samples \subseteq all
    /\ \A d \in all : /\ k.size[d] \in Nat \ {0}
                      /\ k.share[d] = PartOf(j, d, w, k.size[d])
                      /\ k.at[d] \in Int /\ k.at[d] <= k.share[d]
    /\ \A d \in DOMAIN k.samples : k.samples[d] \in Nat
    /\ k.inBatch \in Nat

\* What is counted are samples of datasets of all.
Counts(f, all) ==
    /\ IsFiniteSet(DOMAIN f)
    /\ \A w \in DOMAIN f : DOMAIN f[w] \subseteq all /\ \A d \in DOMAIN f[w] : f[w][d] \in Nat

StateNumbers(f) == \A d \in DOMAIN f : f[d] = NoState \/ f[d].yielded \in Nat

OneStream(j, given, b) ==
    \/ OneKind(given[b].samples)
    \/ Odd(j, given[b].size)
    \/ \E a \in 1 .. b : given[a].worker = given[b].worker
                         /\ SpentIn(j, given[a].samples, given[a].size)

GivenInv(j, given) == IsSeq(given) /\ \A b \in DOMAIN given : OneStream(j, given, b)

SavedInv ==
    saved # NoState =>
        /\ Counts(saved.tally.samples, DOMAIN job.items)
        /\ StateNumbers(saved.dataset)
        /\ saved.latest \in Nat
        /\ GivenInv(job, saved.got)

MainInv ==
    /\ job \in Jobs
    /\ latest \in Nat /\ ticker \in Nat
    /\ Datasets \subseteq DOMAIN job.items
    /\ DOMAIN size = Datasets /\ \A d \in Datasets : size[d] \in Nat \ {0}
    /\ Counts(tally.samples, Datasets) /\ Counts(held.samples, Datasets)
    /\ StateNumbers(dsState)

\* The batch worker w collects.
InHand(w) == IF w = turn THEN batch ELSE << >>

LoopInv ==
    phase = "looping" =>
        /\ DOMAIN worker = Workers /\ turn \in Workers
        /\ \A w \in Workers : /\ WorkerInv(job, Datasets, worker[w], w)
                              /\ Aligned(job, worker[w], InHand(w), w, got)
        /\ \A p \in DOMAIN batch : batch[p].worker = turn

BatchInv == IsSeq(batch) /\ (phase # "looping" => batch = << >>)

StreamInv == MainInv /\ BatchInv /\ LoopInv /\ GivenInv(job, got) /\ SavedInv

-----------------------------------------------------------------------------
(* Shares and choices. *)

LEMMA JobFacts ==
    ASSUME NEW j \in Jobs
    PROVE  /\ j.batch \in Nat \ {0} /\ j.workers \in Nat \ {0} /\ j.ranks \in Nat \ {0}
           /\ DOMAIN j.items = 1 .. Len(j.items) /\ Len(j.items) \in Nat
           /\ \A d \in DOMAIN j.items : j.items[d] \in Nat
           /\ j.limits \in [DOMAIN j.items -> Nat \ {0}]
           /\ j.known \in 1 .. Len(j.items)
BY JobAssumption

LEMMA Division ==
    ASSUME NEW a \in Nat, NEW b \in Nat \ {0}
    PROVE  a \div b \in Nat /\ a % b \in Nat /\ b * (a \div b) <= a
BY SMT

LEMMA Product == ASSUME NEW a \in Nat, NEW b \in Nat PROVE a * b \in Nat
BY SMT

LEMMA Monotone ==
    ASSUME NEW a \in Nat, NEW b \in Nat, NEW c \in Nat, b <= c PROVE a * b <= a * c
BY SMT

LEMMA Associative ==
    ASSUME NEW a \in Nat, NEW b \in Nat, NEW c \in Nat PROVE (a * b) * c = a * (b * c)
BY SMT

\* A share is a number of samples: whole batches for every rank never need more
\* samples than there are.
LEMMA PartType ==
    ASSUME NEW j \in Jobs, NEW d \in DOMAIN j.items, NEW w, NEW b \in Nat \ {0}
    PROVE  PartOf(j, d, w, b) \in Nat
<1> DEFINE l == [nodes |-> 1, ranksPerNode |-> j.ranks, workers |-> j.workers, batch |-> b,
                 dropLast |-> j.ranks > 1]
           n == j.items[d]
           world == WorldSize(l)
           q == n \div b
           perRank == q \div world
           extra == perRank % j.workers
           left == n - b * world * perRank
<1>1. j.batch \in Nat \ {0} /\ j.workers \in Nat \ {0} /\ j.ranks \in Nat \ {0} /\ n \in Nat
  BY JobFacts
<1>2. /\ l.nodes = 1 /\ l.ranksPerNode = j.ranks /\ l.workers = j.workers /\ l.batch = b
  OBVIOUS
<1>3. world \in Nat \ {0}
  BY <1>1, <1>2 DEF WorldSize
<1>4. PartOf(j, d, w, b) = Share(l, n, w)
  BY DEF PartOf
<1> HIDE DEF world, n
<1>5. q \in Nat /\ b * q <= n
  BY <1>1, Division
<1> HIDE DEF q
<1>6. perRank \in Nat /\ world * perRank <= q
  BY <1>3, <1>5, Division
<1>7. left \in Nat
  <2> HIDE DEF perRank
  <2>1. world * perRank \in Nat /\ b * q \in Nat /\ b * (world * perRank) \in Nat
    BY <1>3, <1>5, <1>6, Product
  <2>2. b * (world * perRank) <= b * q
    BY <1>5, <1>6, <2>1, Monotone
  <2>3. (b * world) * perRank = b * (world * perRank)
    BY <1>3, <1>6, Associative
  <2> QED BY <1>1, <1>5, <2>1, <2>2, <2>3
<1>8. perRank \div j.workers \in Nat
  BY <1>1, <1>6, Division
<1> DEFINE full == perRank \div j.workers + (IF w % j.workers < extra THEN 1 ELSE 0)
           rest == IF ~l.dropLast /\ RankOf(l, w) = world - 1 /\ w % j.workers = extra THEN left ELSE 0
<1>9. full \in Nat /\ rest \in Nat
  BY <1>7, <1>8
<1>10. Share(l, n, w) = b * full + rest
  BY <1>2 DEF Share, world, q
<1> HIDE DEF full, rest
<1>11. b * full \in Nat
  BY <1>9, Product
<1> QED BY <1>4, <1>9, <1>10, <1>11

LEMMA PartIs == ASSUME NEW d, NEW w, NEW b PROVE Part(d, w, b) = PartOf(job, d, w, b)
BY DEF Part, PartOf, NumWorkers

\* What a worker chooses, when its batches are to have one dataset each.
Chose(j, k, c) ==
    /\ DOMAIN c = Fields /\ c.inBatch \in Nat
    /\ c.share = k.share /\ c.size = k.size /\ c.at = k.at /\ c.samples = k.samples
    /\ c.left = k.left /\ c.over = k.over
    /\ Alone(j, k) => c.current = Max(k.left)
    /\ ~Alone(j, k) =>
          \/ c.inBatch = 1 /\ (k.current = None \/ ~(k.inBatch < k.size[k.current]))
          \/ /\ k.current # None /\ k.inBatch < k.size[k.current]
             /\ c.current = k.current /\ c.inBatch = k.inBatch + 1

LEMMA ChoiceChose ==
    ASSUME ~job.stratified, NEW k, DOMAIN k = Fields, k.inBatch \in Nat
    PROVE  Chose(job, k, Choice(k))
<1>1. CASE Alone(job, k)
  <2>1. Choice(k) = [k EXCEPT !.current = Max(k.left)]
    BY <1>1 DEF Choice, Alone
  <2> QED BY <1>1, <2>1 DEF Chose, Fields
<1>2. CASE ~Alone(job, k) /\ k.current = None
  <2>1. Choice(k) = [k EXCEPT !.current = Pick(k.left, k.drawn + 1), !.drawn = @ + 1, !.inBatch = 1]
    BY <1>2 DEF Choice, Alone
  <2> QED BY <1>2, <2>1 DEF Chose, Fields
<1>3. CASE ~Alone(job, k) /\ k.current # None /\ k.inBatch < k.size[k.current]
  <2>1. Choice(k) = [k EXCEPT !.inBatch = @ + 1]
    BY <1>3 DEF Choice, Alone
  <2> QED BY <1>3, <2>1 DEF Chose, Fields
<1>4. CASE ~Alone(job, k) /\ k.current # None /\ ~(k.inBatch < k.size[k.current])
  <2>1. \E a, b : Choice(k) = [k EXCEPT !.current = a, !.drawn = b, !.inBatch = 1]
    BY <1>4 DEF Choice, Alone
  <2>2. PICK a, b : Choice(k) = [k EXCEPT !.current = a, !.drawn = b, !.inBatch = 1]
    BY <2>1
  <2> QED BY <1>4, <2>2 DEF Chose, Fields
<1> QED BY <1>1, <1>2, <1>3, <1>4

-----------------------------------------------------------------------------
(* What a step does to a worker and its batch. *)

\* A worker that starts.
LEMMA BegunAnew ==
    ASSUME NEW j, NEW k, NEW w, NEW given, k.current = None
    PROVE  Aligned(j, k, << >>, w, given)
<1>1. Alone(j, k) \/ Begun(j, k, << >>)
  BY DEF Begun
<1>2. \A p \in DOMAIN << >> : << >>[p].dataset = Max(k.left)
  OBVIOUS
<1> QED BY <1>1, <1>2 DEF Aligned

\* The batches that were given stay spent when one more is.
LEMMA StillAligned ==
    ASSUME NEW j, NEW k, NEW b, NEW w, NEW given, NEW more,
           Aligned(j, k, b, w, given),
           \A a \in DOMAIN given : a \in DOMAIN more /\ more[a] = given[a]
    PROVE  Aligned(j, k, b, w, more)
<1>1. SpentBy(j, w, given) => SpentBy(j, w, more)
  BY DEF SpentBy
<1> QED BY <1>1 DEF Aligned

\* A sample of dataset d is counted.
Counted(c, d, n) ==
    /\ DOMAIN n = Fields /\ n.share = c.share /\ n.size = c.size /\ n.left = c.left
    /\ n.over = c.over /\ n.current = c.current /\ n.inBatch = c.inBatch
    /\ n.at = [c.at EXCEPT ![d] = @ + 1]
    /\ n.samples = [c.samples EXCEPT ![d] = @ + 1]

LEMMA CountedUp ==
    ASSUME NEW c, NEW d, NEW n, DOMAIN c = Fields,
           n = [c EXCEPT !.at[d] = @ + 1, !.samples[d] = @ + 1]
    PROVE  Counted(c, d, n)
<1> DEFINE at == [c.at EXCEPT ![d] = @ + 1]
           m == [c EXCEPT !.at = at]
           samples == [m.samples EXCEPT ![d] = c.samples[d] + 1]
<1>1. n = [m EXCEPT !.samples = samples]
  BY Zenon
<1> HIDE DEF at
<1>2. /\ DOMAIN m = Fields /\ m.share = c.share /\ m.size = c.size /\ m.left = c.left
      /\ m.over = c.over /\ m.current = c.current /\ m.inBatch = c.inBatch
      /\ m.at = at /\ m.samples = c.samples
  BY DEF Fields
<1> HIDE DEF m
<1>3. samples = [c.samples EXCEPT ![d] = @ + 1]
  BY <1>2
<1> HIDE DEF samples
<1>4. /\ DOMAIN n = Fields /\ n.share = m.share /\ n.size = m.size /\ n.left = m.left
      /\ n.over = m.over /\ n.current = m.current /\ n.inBatch = m.inBatch
      /\ n.at = m.at /\ n.samples = samples
  BY <1>1, <1>2 DEF Fields
<1> QED BY <1>2, <1>3, <1>4 DEF at, Counted

\* A sample is taken.
LEMMA Taken ==
    ASSUME NEW j \in Jobs, NEW all, all \subseteq DOMAIN j.items, NEW k, NEW c, NEW b, NEW w \in Int,
           NEW given, NEW s, NEW n,
           WorkerInv(j, all, k, w), Aligned(j, k, b, w, given), Chose(j, k, c),
           ~k.over, IsSeq(b), Len(b) < j.batch,
           c.current \in DOMAIN c.samples, c.at[c.current] < k.share[c.current],
           s.dataset = c.current, s.index = c.at[c.current] + 1,
           Counted(c, c.current, n)
    PROVE  WorkerInv(j, all, n, w) /\ Aligned(j, n, Append(b, s), w, given)
<1> DEFINE d == c.current
           b2 == Append(b, s)
<1>1. /\ DOMAIN n = Fields /\ n.share = k.share /\ n.size = k.size /\ n.left = k.left
      /\ n.over = k.over /\ n.current = d /\ n.inBatch = c.inBatch
      /\ n.at = [k.at EXCEPT ![d] = @ + 1]
      /\ n.samples = [k.samples EXCEPT ![d] = @ + 1]
  BY DEF Chose, Counted
<1>2. d \in all /\ DOMAIN k.size = all /\ DOMAIN k.at = all
  BY DEF WorkerInv, Chose
<1>j. None \notin all /\ j.batch \in Nat \ {0}
  BY JobFacts DEF None
<1>p. \A e \in all : k.share[e] \in Int
  BY PartType DEF WorkerInv
<1>3. WorkerInv(j, all, n, w)
  <2>1. /\ DOMAIN n.size = all /\ DOMAIN n.at = all /\ DOMAIN n.samples = DOMAIN k.samples
        /\ DOMAIN k.samples \subseteq all /\ n.inBatch \in Nat
    BY <1>1, <1>2 DEF WorkerInv, Chose
  <2>2. ASSUME NEW e \in all
        PROVE  /\ n.size[e] \in Nat \ {0} /\ n.share[e] = PartOf(j, e, w, n.size[e])
               /\ n.at[e] \in Int /\ n.at[e] <= n.share[e]
    <3>1. /\ k.size[e] \in Nat \ {0} /\ k.share[e] = PartOf(j, e, w, k.size[e])
          /\ k.at[e] \in Int /\ k.at[e] <= k.share[e]
      BY DEF WorkerInv
    <3>2. n.at[e] = IF e = d THEN k.at[e] + 1 ELSE k.at[e]
      BY <1>1, <1>2
    <3>3. e = d => k.at[e] < k.share[e]
      BY DEF Chose
    <3> QED BY <1>1, <1>p, <3>1, <3>2, <3>3
  <2>3. ASSUME NEW e \in DOMAIN n.samples PROVE n.samples[e] \in Nat
    BY <1>1 DEF WorkerInv
  <2> QED BY <1>1, <2>1, <2>2, <2>3 DEF WorkerInv
<1>4. /\ IsSeq(b2) /\ Len(b2) = Len(b) + 1 /\ Len(b) \in Nat /\ b2 # << >>
      /\ DOMAIN b2 = 1 .. Len(b) + 1 /\ DOMAIN b = 1 .. Len(b)
      /\ b2[Len(b) + 1] = s /\ \A p \in DOMAIN b : b2[p] = b[p]
      /\ b # << >> <=> Len(b) > 0
  BY AppendFacts, SeqFacts
<1>5. Alone(j, n) <=> Alone(j, k)
  BY <1>1 DEF Alone
<1> HIDE DEF b2, d
<1>6. CASE Odd(j, k.size) \/ SpentBy(j, w, given)
  BY <1>1, <1>3, <1>6 DEF Aligned, b2
<1>7. CASE SpentIn(j, b, k.size)
  <2>1. PICK p \in DOMAIN b : LastOne(j, b[p], k.size)
    BY <1>7 DEF SpentIn
  <2>2. p \in DOMAIN b2 /\ b2[p] = b[p]
    BY <1>4
  <2>3. SpentIn(j, b2, n.size)
    BY <1>1, <2>1, <2>2 DEF SpentIn
  <2> QED BY <2>3, <1>3 DEF Aligned, b2
<1>8. CASE Alone(j, k) /\ \A p \in DOMAIN b : b[p].dataset = Max(k.left)
  <2>1. d = Max(k.left)
    BY <1>8 DEF Chose, d
  <2>2. ASSUME NEW p \in DOMAIN b2 PROVE b2[p].dataset = Max(n.left)
    BY <1>1, <1>4, <1>8, <2>1 DEF d
  <2> QED BY <1>3, <1>5, <1>8, <2>2 DEF Aligned, b2
<1>9. CASE Begun(j, k, b) /\ ~Odd(j, k.size)
  <2>1. k.size[d] = j.batch
    BY <1>2, <1>9 DEF Odd
  <2>2. ~Alone(j, k)
    BY <1>9 DEF Begun
  <2>3. CASE b = << >>
    <3>1. Len(b) = 0 /\ b2[1] = s /\ DOMAIN b2 = 1 .. 1 /\ Len(b2) = 1
      BY <1>4, <2>3
    <3>2. c.inBatch = 1
      <4> SUFFICES ASSUME k.current # None, k.inBatch < k.size[k.current], d = k.current
                   PROVE  FALSE
        BY <2>2 DEF Chose, d
      <4>1. k.at[d] < k.share[d]
        BY DEF Chose, d
      <4>2. k.at[d] \in Int /\ k.share[d] \in Int
        BY <1>2, <1>p DEF WorkerInv
      <4>3. k.inBatch < j.batch
        BY <2>1
      <4>4. k.inBatch # j.batch
        BY <1>j, <4>3 DEF WorkerInv
      <4>5. k.at[d] >= k.share[d]
        BY <1>2, <1>9, <2>3, <4>4 DEF Begun
      <4> QED BY <4>1, <4>2, <4>5
    <3>3. n.at[d] = s.index
      BY <1>1, <1>2 DEF Chose, d
    <3>4. Begun(j, n, b2)
      BY <1>1, <1>2, <1>4, <1>5, <2>2, <3>1, <3>2, <3>3 DEF Begun, d
    <3> QED BY <1>3, <3>4 DEF Aligned, b2
  <2>4. CASE b # << >>
    <3>1. /\ k.current \in all /\ k.inBatch = Len(b)
          /\ \A p \in DOMAIN b : b[p].dataset = k.current
      BY <1>2, <1>9, <2>4 DEF Begun
    <3>2. k.size[k.current] = j.batch /\ k.current # None
      BY <1>2, <1>9, <1>j, <3>1 DEF Odd
    <3>3. d = k.current /\ c.inBatch = Len(b) + 1
      BY <2>2, <3>1, <3>2 DEF Chose, d
    <3>4. n.at[d] = s.index
      BY <1>1, <1>2 DEF Chose, d
    <3>5. ASSUME NEW p \in DOMAIN b2 PROVE b2[p].dataset = d
      BY <1>4, <3>1, <3>3 DEF d
    <3>6. Begun(j, n, b2)
      BY <1>1, <1>2, <1>4, <1>5, <2>2, <3>3, <3>4, <3>5 DEF Begun
    <3> QED BY <1>3, <3>6 DEF Aligned, b2
  <2> QED BY <2>3, <2>4
<1> QED BY <1>3, <1>6, <1>7, <1>8, <1>9 DEF Aligned, b2

\* The chosen dataset has no sample left.
LEMMA RanOut ==
    ASSUME NEW j \in Jobs, NEW all, all \subseteq DOMAIN j.items, NEW k, NEW c, NEW b, NEW w \in Int,
           NEW given, NEW n,
           WorkerInv(j, all, k, w), Aligned(j, k, b, w, given), Chose(j, k, c),
           ~k.over, IsSeq(b), Len(b) < j.batch, \A p \in DOMAIN b : b[p].worker = w,
           c.at[c.current] >= c.share[c.current],
           \/ n = [c EXCEPT !.over = TRUE]
           \/ ~Alone(j, k) /\ n = [c EXCEPT !.broken = TRUE]
           \/ ~Alone(j, k) /\ n = [c EXCEPT !.left = k.left \ {c.current}]
    PROVE  WorkerInv(j, all, n, w) /\ Aligned(j, n, b, w, given)
<1> DEFINE d == c.current
<1>1. /\ DOMAIN n = Fields /\ n.share = k.share /\ n.size = k.size /\ n.at = k.at
      /\ n.samples = k.samples /\ n.current = d /\ n.inBatch = c.inBatch /\ c.inBatch \in Nat
  BY DEF Chose, Fields
<1>2. WorkerInv(j, all, n, w)
  BY <1>1 DEF WorkerInv
<1>3. DOMAIN b = 1 .. Len(b) /\ Len(b) \in Nat /\ (b # << >> <=> Len(b) > 0)
  BY SeqFacts
<1>4. /\ DOMAIN k.size = all /\ DOMAIN k.at = all
      /\ k.at[d] >= k.share[d]
  BY DEF WorkerInv, Chose
<1>5. n.over = TRUE \/ (~Alone(j, k) /\ n.over = k.over)
  BY DEF Chose, Fields
<1> HIDE DEF d
<1>6. CASE Odd(j, k.size) \/ SpentBy(j, w, given) \/ SpentIn(j, b, k.size)
  BY <1>1, <1>2, <1>6 DEF Aligned
<1>7. CASE Alone(j, k) /\ \A p \in DOMAIN b : b[p].dataset = Max(k.left)
  <2>1. n.over /\ OneKind(b)
    BY <1>5, <1>7 DEF OneKind
  <2> QED BY <1>2, <2>1 DEF Aligned
<1>8. CASE Begun(j, k, b) /\ ~Odd(j, k.size)
  <2>1. ~Alone(j, k)
    BY <1>8 DEF Begun
  <2>2. CASE b = << >>
    <3>1. DOMAIN b = {}
      BY <1>3, <2>2
    <3>2. d \notin DOMAIN n.size \/ n.at[n.current] >= n.share[n.current]
      BY <1>1, <1>4
    <3>3. Begun(j, n, b) \/ Alone(j, n)
      BY <1>1, <2>2, <3>2 DEF Begun
    <3> QED BY <1>2, <3>1, <3>3 DEF Aligned
  <2>3. CASE b # << >>
    <3>1. /\ k.current \in all /\ k.inBatch = Len(b)
          /\ \A p \in DOMAIN b : b[p].dataset = k.current
          /\ b[Len(b)].index = k.at[k.current]
      BY <1>4, <1>8, <2>3 DEF Begun
    <3>2. k.size[k.current] = j.batch /\ k.current \in DOMAIN j.items
      BY <1>4, <1>8, <3>1 DEF Odd
    <3>3. k.current # None
      BY <3>2, JobFacts DEF None
    <3>4. d = k.current
      BY <2>1, <3>1, <3>2, <3>3 DEF Chose, d
    <3>5. k.share[d] = PartOf(j, d, w, k.size[d]) /\ k.size[d] \in Nat \ {0}
      BY <3>1, <3>4 DEF WorkerInv
    <3>6. k.share[d] \in Int
      BY <3>2, <3>4, <3>5, PartType
    <3>7. k.at[d] = k.share[d]
      BY <1>4, <3>1, <3>4, <3>6 DEF WorkerInv
    <3>8. Len(b) \in DOMAIN b
      BY <1>3, <2>3
    <3>9. LastOne(j, b[Len(b)], k.size)
      BY <3>1, <3>4, <3>5, <3>7, <3>8 DEF LastOne
    <3> QED BY <1>1, <1>2, <3>8, <3>9 DEF Aligned, SpentIn
  <2> QED BY <2>2, <2>3
<1> QED BY <1>6, <1>7, <1>8 DEF Aligned

\* A batch is given.
LEMMA WasGiven ==
    ASSUME NEW j, NEW k, NEW b, NEW w, NEW given, NEW g,
           GivenInv(j, given), Aligned(j, k, b, w, given), IsSeq(b), b # << >>,
           Len(b) = j.batch \/ k.over,
           g.worker = w, g.samples = b, g.size = k.size
    PROVE  GivenInv(j, Append(given, g)) /\ Aligned(j, k, << >>, w, Append(given, g))
<1> DEFINE more == Append(given, g)
           m == Len(given) + 1
<1>1. /\ IsSeq(given) /\ IsSeq(more) /\ Len(given) \in Nat
      /\ DOMAIN given = 1 .. Len(given) /\ DOMAIN more = 1 .. m
      /\ more[m] = g /\ \A a \in DOMAIN given : more[a] = given[a]
  BY AppendFacts, SeqFacts DEF GivenInv
<1>2. m \in DOMAIN more /\ \A a \in DOMAIN given : a \in DOMAIN more
  BY <1>1
<1> HIDE DEF more
<1>3. ASSUME NEW a \in DOMAIN given PROVE OneStream(j, more, a)
  <2>1. OneStream(j, given, a)
    BY DEF GivenInv
  <2>2. \A e \in 1 .. a : e \in DOMAIN given
    BY <1>1
  <2> QED BY <1>1, <2>1, <2>2 DEF OneStream
<1>4. OneStream(j, more, m) /\ Aligned(j, k, << >>, w, more)
  <2>0. DOMAIN << >> = {}
    OBVIOUS
  <2>1. CASE Odd(j, k.size)
    BY <1>1, <2>1 DEF OneStream, Aligned
  <2>2. CASE SpentBy(j, w, given)
    <3>1. PICK a \in DOMAIN given : given[a].worker = w /\ SpentIn(j, given[a].samples, given[a].size)
      BY <2>2 DEF SpentBy
    <3>2. a \in 1 .. m /\ a \in DOMAIN more /\ more[a] = given[a]
      BY <1>1
    <3> QED BY <1>1, <3>1, <3>2 DEF OneStream, Aligned, SpentBy
  <2>3. CASE SpentIn(j, b, k.size)
    <3>1. m \in 1 .. m
      BY <1>1
    <3>2. SpentBy(j, w, more)
      BY <1>1, <1>2, <2>3 DEF SpentBy
    <3> QED BY <1>1, <2>3, <3>1, <3>2 DEF OneStream, Aligned
  <2>4. CASE Alone(j, k) /\ \A p \in DOMAIN b : b[p].dataset = Max(k.left)
    <3>1. OneKind(b)
      BY <2>4 DEF OneKind
    <3> QED BY <1>1, <2>0, <2>4, <3>1 DEF OneStream, Aligned
  <2>5. CASE k.over /\ OneKind(b)
    <3>1. OneKind(<< >>)
      BY <2>0 DEF OneKind
    <3> QED BY <1>1, <2>5, <3>1 DEF OneStream, Aligned
  <2>6. CASE Begun(j, k, b)
    <3>1. OneKind(b) /\ k.inBatch = Len(b) /\ ~Alone(j, k)
      BY <2>6 DEF Begun, OneKind
    <3>2. Begun(j, k, << >>) \/ k.over
      BY <3>1 DEF Begun
    <3>3. OneKind(<< >>)
      BY <2>0 DEF OneKind
    <3> QED BY <1>1, <3>1, <3>2, <3>3 DEF OneStream, Aligned
  <2> QED BY <2>1, <2>2, <2>3, <2>4, <2>5, <2>6 DEF Aligned
<1>5. ASSUME NEW a \in DOMAIN more PROVE OneStream(j, more, a)
  <2>1. a \in DOMAIN given \/ a = m
    BY <1>1
  <2> QED BY <1>3, <1>4, <2>1
<1> QED BY <1>1, <1>4, <1>5 DEF GivenInv, more

-----------------------------------------------------------------------------
(* Counts and the workers that start. *)

\* What the wrapped datasets have yielded, by the counts of all workers.
LEMMA YieldedType ==
    ASSUME Combined, NEW t, NEW all, Counts(t.samples, all), NEW d
    PROVE  YieldedOf(t, d) \in Nat
<1> DEFINE ahead == {w \in DOMAIN t.samples : Combined \/ CountOf(t.cycles, w, d) = CyclesOf(t, d)}
           f == [w \in DOMAIN t.samples |-> CountOf(t.samples, w, d)]
<1>1. YieldedOf(t, d) = SumFunctionOnSet(f, ahead)
  BY DEF YieldedOf
<1>2. ahead = DOMAIN t.samples
  OBVIOUS
<1>3. \A w \in ahead : f[w] \in Nat
  BY <1>2 DEF CountOf, Counts
<1>4. IsFiniteSet(ahead)
  BY <1>2 DEF Counts
<1> HIDE DEF ahead, f
<1> QED BY <1>1, <1>3, <1>4, SumType

\* The state of the wrapped datasets that is saved or loaded.
LEMMA StatesType ==
    ASSUME Combined, Counts(tally.samples, Datasets)
    PROVE  DOMAIN States = Datasets /\ StateNumbers(States)
<1>1. Known = tally
  BY DEF Known
<1>2. ASSUME NEW d \in Datasets PROVE States[d].yielded \in Nat
  BY <1>1, YieldedType DEF States, StateOf
<1> QED BY <1>2 DEF States, StateNumbers

LEMMA Smaller == ASSUME NEW a \in Int, NEW b \in Int PROVE Min({a, b}) \in Int /\ Min({a, b}) <= b
<1>1. \E x \in {a, b} : \A y \in {a, b} : x <= y
  OBVIOUS
<1>2. Min({a, b}) \in {a, b} /\ \A y \in {a, b} : Min({a, b}) <= y
  BY <1>1 DEF Min
<1> QED BY <1>2

LEMMA ReplayType ==
    ASSUME job \in Jobs, NEW n \in Nat, NEW w \in Nat
    PROVE  Replay(n, w) \in Nat
<1> DEFINE perRound == NumWorkers * job.batch
           rest == n % perRound
<1>1. job.batch \in Nat \ {0} /\ job.workers \in Nat \ {0}
  BY JobFacts
<1>2. perRound \in Nat \ {0}
  BY <1>1 DEF NumWorkers
<1>3. Replay(n, w) = (n \div perRound) * job.batch
        + (IF w < rest \div job.batch THEN job.batch
           ELSE IF w = rest \div job.batch THEN rest % job.batch ELSE 0)
  BY DEF Replay
<1> HIDE DEF perRound
<1>4. n \div perRound \in Nat /\ rest \in Nat
  BY <1>2, Division
<1> HIDE DEF rest
<1>5. rest % job.batch \in Nat /\ rest \div job.batch \in Nat
  BY <1>1, <1>4, Division
<1>6. (n \div perRound) * job.batch \in Nat
  BY <1>1, <1>4, Product
<1> QED BY <1>1, <1>3, <1>5, <1>6

LEMMA StartedRight ==
    ASSUME job \in Jobs, Combined, Datasets \subseteq DOMAIN job.items, DOMAIN size = Datasets,
           \A d \in Datasets : size[d] \in Nat \ {0},
           NEW states, NEW epochs, NEW counts, NEW w \in Workers, NEW given,
           DOMAIN states = Datasets, StateNumbers(states), Counts(counts.samples, Datasets)
    PROVE  /\ WorkerInv(job, Datasets, Started(w, states, epochs, counts), w)
           /\ Aligned(job, Started(w, states, epochs, counts), << >>, w, given)
<1> DEFINE n == OwnCounts(counts.samples, w)
           k == Started(w, states, epochs, counts)
           part == [d \in Datasets |-> Part(d, w, SizeOf(d))]
           at == [d \in Datasets |-> IF states[d] = NoState THEN 0
                                     ELSE Min({Replay(states[d].yielded, w), part[d]})]
<1>1. /\ DOMAIN k = Fields /\ k.size = size /\ k.samples = n /\ k.current = None
      /\ k.inBatch = 0 /\ k.share = part /\ k.at = at
  BY DEF Started, Fields
<1> HIDE DEF k
<1>2. w \in Nat
  BY JobFacts DEF Workers
<1>3. DOMAIN n \subseteq Datasets /\ \A d \in DOMAIN n : n[d] \in Nat
  BY DEF OwnCounts, Counts
<1>4. ASSUME NEW d \in Datasets
      PROVE  part[d] = PartOf(job, d, w, size[d]) /\ part[d] \in Nat
  <2>1. part[d] = PartOf(job, d, w, size[d])
    BY PartIs DEF SizeOf
  <2> QED BY <2>1, PartType
<1>5. ASSUME NEW d \in Datasets PROVE at[d] \in Int /\ at[d] <= part[d]
  <2>1. CASE states[d] = NoState
    BY <1>4, <2>1
  <2>2. CASE states[d] # NoState
    <3>1. at[d] = Min({Replay(states[d].yielded, w), part[d]})
      BY <2>2
    <3>2. Replay(states[d].yielded, w) \in Nat
      BY <1>2, <2>2, ReplayType DEF StateNumbers
    <3> HIDE DEF at, part
    <3> QED BY <1>4, <3>1, <3>2, Smaller
  <2> QED BY <2>1, <2>2
<1>6. DOMAIN at = Datasets
  OBVIOUS
<1> HIDE DEF at, part, n
<1>7. WorkerInv(job, Datasets, k, w)
  BY <1>1, <1>3, <1>4, <1>5, <1>6 DEF WorkerInv
<1>8. Aligned(job, k, << >>, w, given)
  BY <1>1, BegunAnew
<1> QED BY <1>7, <1>8 DEF k

-----------------------------------------------------------------------------
(* The steps. *)

LEMMA StreamInit == ASSUME Init, PerStream(job) PROVE StreamInv
<1>1. /\ job \in Jobs /\ phase = "idle" /\ latest = 0 /\ ticker = 0
      /\ DOMAIN dsState = 1 .. job.known /\ dsState = [d \in 1 .. job.known |-> NoState]
      /\ size = [d \in 1 .. job.known |-> job.limits[d]] /\ saved = NoState
      /\ tally = NoTally /\ held = NoTally /\ batch = << >> /\ got = << >>
  BY DEF Init
<1>2. 1 .. job.known \subseteq DOMAIN job.items
  BY <1>1, JobFacts
<1>3. \A d \in 1 .. job.known : size[d] \in Nat \ {0}
  BY <1>1, <1>2, JobFacts
<1>4. Counts(NoTally.samples, Datasets)
  <2>1. NoTally.samples = << >> /\ DOMAIN << >> = {}
    BY DEF NoTally
  <2> QED BY <2>1, FS_EmptySet DEF Counts
<1>5. MainInv
  BY <1>1, <1>2, <1>3, <1>4 DEF MainInv, Datasets, StateNumbers
<1>6. DOMAIN << >> = {}
  OBVIOUS
<1>7. GivenInv(job, got) /\ BatchInv
  BY <1>1, <1>6, EmptyIsSeq DEF GivenInv, BatchInv
<1> QED BY <1>1, <1>5, <1>7 DEF StreamInv, LoopInv, SavedInv

\* A worker makes a step: the others and what was given and saved stay as they are.
LEMMA WorkerStep ==
    ASSUME StreamInv, phase = "looping",
           UNCHANGED <<job, loader, wrapper, turn, got, ghosts, saved>>,
           NEW n, worker' = [worker EXCEPT ![turn] = n],
           WorkerInv(job, Datasets, n, turn), Aligned(job, n, batch', turn, got),
           IsSeq(batch'), \A p \in DOMAIN batch' : batch'[p].worker = turn
    PROVE  StreamInv'
<1>1. UNCHANGED <<job, phase, latest, ticker, tally, held, dsState, size, turn, got, saved>>
  BY DEF loader, wrapper
<1>2. Datasets' = Datasets /\ Workers' = Workers
  BY <1>1 DEF Datasets, Workers
<1>3. MainInv' /\ GivenInv(job, got)' /\ SavedInv'
  BY <1>1, <1>2 DEF StreamInv, MainInv, SavedInv
<1>4. BatchInv'
  BY <1>1 DEF BatchInv
<1>5. /\ DOMAIN worker = Workers /\ turn \in Workers
      /\ \A w \in Workers : /\ WorkerInv(job, Datasets, worker[w], w)
                            /\ Aligned(job, worker[w], InHand(w), w, got)
  BY DEF StreamInv, LoopInv
<1>6. ASSUME NEW w \in Workers
      PROVE  /\ WorkerInv(job, Datasets, worker'[w], w)
             /\ Aligned(job, worker'[w], IF w = turn THEN batch' ELSE << >>, w, got)
  <2>1. CASE w = turn
    BY <1>5, <2>1
  <2>2. CASE w # turn
    <3>1. worker'[w] = worker[w] /\ InHand(w) = << >>
      BY <1>5, <2>2 DEF InHand
    <3> QED BY <1>5, <2>2, <3>1
  <2> QED BY <2>1, <2>2
<1>7. LoopInv'
  BY <1>1, <1>2, <1>5, <1>6 DEF LoopInv, InHand
<1> QED BY <1>3, <1>4, <1>7 DEF StreamInv

\* What is known of the worker whose turn it is.
LEMMA TurnFacts ==
    ASSUME StreamInv, phase = "looping"
    PROVE  /\ job \in Jobs /\ turn \in Workers /\ turn \in Int /\ DOMAIN worker = Workers
           /\ Datasets \subseteq DOMAIN job.items
           /\ WorkerInv(job, Datasets, worker[turn], turn)
           /\ Aligned(job, worker[turn], batch, turn, got)
           /\ IsSeq(batch) /\ \A p \in DOMAIN batch : batch[p].worker = turn
<1>1. turn \in Workers
  BY DEF StreamInv, LoopInv
<1>2. turn \in Int
  BY <1>1 DEF Workers
<1> QED BY <1>1, <1>2 DEF StreamInv, LoopInv, MainInv, BatchInv, InHand

LEMMA StreamTakeOne == ASSUME StreamInv, PerStream(job), TakeOne PROVE StreamInv'
<1> DEFINE k == worker[turn]
           c == Choice(k)
           d == c.current
           s == SampleAt(c, d)
           n == [c EXCEPT !.at[d] = @ + 1, !.samples[d] = @ + 1]
<1>1. /\ phase = "looping" /\ ~k.over /\ Len(batch) < job.batch
      /\ d \in DOMAIN c.samples /\ c.at[d] < k.share[d]
      /\ batch' = Append(batch, s) /\ worker' = [worker EXCEPT ![turn] = n]
      /\ UNCHANGED <<job, loader, wrapper, turn, got, ghosts, saved>>
  BY DEF TakeOne, Collecting
<1>2. /\ job \in Jobs /\ turn \in Int /\ Datasets \subseteq DOMAIN job.items
      /\ WorkerInv(job, Datasets, k, turn) /\ Aligned(job, k, batch, turn, got)
      /\ IsSeq(batch) /\ \A p \in DOMAIN batch : batch[p].worker = turn
  BY <1>1, TurnFacts
<1>3. s.dataset = d /\ s.worker = turn /\ s.index = c.at[d] + 1
  BY DEF SampleAt
<1>4. Chose(job, k, c)
  BY <1>2, ChoiceChose DEF PerStream, WorkerInv
<1>5. Counted(c, d, n)
  <2>1. DOMAIN c = Fields
    BY <1>4 DEF Chose
  <2> HIDE DEF c
  <2> QED BY <2>1, CountedUp, Zenon
<1> HIDE DEF k, c, s, n
<1>6. WorkerInv(job, Datasets, n, turn) /\ Aligned(job, n, Append(batch, s), turn, got)
  BY <1>1, <1>2, <1>3, <1>4, <1>5, Taken
<1>7. IsSeq(batch') /\ \A p \in DOMAIN batch' : batch'[p].worker = turn
  BY <1>1, <1>2, <1>3, AppendFacts, SeqFacts
<1> QED BY <1>1, <1>6, <1>7, WorkerStep

LEMMA StreamRunsOut == ASSUME StreamInv, PerStream(job), RunsOut PROVE StreamInv'
<1> DEFINE k == worker[turn]
           c == Choice(k)
           d == c.current
           n == IF ~job.all \/ Cardinality(c.left) = 1 THEN [c EXCEPT !.over = TRUE]
                ELSE IF SumFunctionOnSet(job.weights, c.left \ {d}) = 0
                THEN [c EXCEPT !.broken = TRUE]
                ELSE [c EXCEPT !.left = c.left \ {d}]
<1>1. /\ phase = "looping" /\ ~k.over /\ Len(batch) < job.batch
      /\ c.at[d] >= c.share[d]
      /\ worker' = [worker EXCEPT ![turn] = n] /\ batch' = batch
      /\ UNCHANGED <<job, loader, wrapper, turn, got, ghosts, saved>>
  BY DEF RunsOut, Collecting
<1>2. /\ job \in Jobs /\ turn \in Int /\ Datasets \subseteq DOMAIN job.items
      /\ WorkerInv(job, Datasets, k, turn) /\ Aligned(job, k, batch, turn, got)
      /\ IsSeq(batch) /\ \A p \in DOMAIN batch : batch[p].worker = turn
  BY <1>1, TurnFacts
<1>3. Chose(job, k, c)
  BY <1>2, ChoiceChose DEF PerStream, WorkerInv
<1> HIDE DEF k, c
<1>4. c.left = k.left
  BY <1>3 DEF Chose
<1>5. \/ n = [c EXCEPT !.over = TRUE]
      \/ ~Alone(job, k) /\ n = [c EXCEPT !.broken = TRUE]
      \/ ~Alone(job, k) /\ n = [c EXCEPT !.left = k.left \ {c.current}]
  BY <1>4 DEF Alone
<1> HIDE DEF n, d
<1>6. WorkerInv(job, Datasets, n, turn) /\ Aligned(job, n, batch, turn, got)
  BY <1>1, <1>2, <1>3, <1>5, RanOut DEF d
<1> QED BY <1>1, <1>2, <1>6, WorkerStep

\* A worker that fails: what it has collected stays.
LEMMA StillBroken ==
    ASSUME NEW j, NEW all, NEW k, NEW b, NEW w, NEW given,
           WorkerInv(j, all, k, w), Aligned(j, k, b, w, given)
    PROVE  /\ WorkerInv(j, all, [k EXCEPT !.broken = TRUE], w)
           /\ Aligned(j, [k EXCEPT !.broken = TRUE], b, w, given)
<1> DEFINE n == [k EXCEPT !.broken = TRUE]
<1>1. /\ DOMAIN n = Fields /\ n.share = k.share /\ n.size = k.size /\ n.at = k.at
      /\ n.samples = k.samples /\ n.current = k.current /\ n.inBatch = k.inBatch
      /\ n.left = k.left /\ n.over = k.over
  BY DEF WorkerInv, Fields
<1> HIDE DEF n
<1>2. WorkerInv(j, all, n, w)
  BY <1>1 DEF WorkerInv
<1>3. Aligned(j, n, b, w, given)
  BY <1>1 DEF Aligned, Alone, Begun
<1> QED BY <1>2, <1>3 DEF n

LEMMA StreamUncounted == ASSUME StreamInv, PerStream(job), Uncounted PROVE StreamInv'
<1> DEFINE k == worker[turn]
           n == [k EXCEPT !.broken = TRUE]
<1>1. /\ phase = "looping" /\ worker' = [worker EXCEPT ![turn] = n] /\ batch' = batch
      /\ UNCHANGED <<job, loader, wrapper, turn, got, ghosts, saved>>
  BY DEF Uncounted, Collecting
<1>2. /\ WorkerInv(job, Datasets, k, turn) /\ Aligned(job, k, batch, turn, got)
      /\ IsSeq(batch) /\ \A p \in DOMAIN batch : batch[p].worker = turn
  BY <1>1, TurnFacts
<1>3. WorkerInv(job, Datasets, n, turn) /\ Aligned(job, n, batch, turn, got)
  BY <1>2, StillBroken
<1> HIDE DEF n
<1> QED BY <1>1, <1>2, <1>3, WorkerStep

\* The loop is left.
LEMMA LeavesLoop ==
    ASSUME StreamInv, UNCHANGED <<job, latest, ticker, tally, dsState, size, held, got, saved>>,
           phase' # "looping", batch' = << >>
    PROVE  StreamInv'
<1>1. Datasets' = Datasets
  BY DEF Datasets
<1>2. MainInv' /\ GivenInv(job, got)' /\ SavedInv'
  BY <1>1 DEF StreamInv, MainInv, SavedInv
<1>3. BatchInv' /\ LoopInv'
  BY EmptyIsSeq DEF BatchInv, LoopInv
<1> QED BY <1>2, <1>3 DEF StreamInv

LEMMA StreamBreak == ASSUME StreamInv, Break PROVE StreamInv'
BY LeavesLoop DEF Break, wrapper

LEMMA StreamEndEpoch == ASSUME StreamInv, EndEpoch PROVE StreamInv'
BY LeavesLoop DEF EndEpoch, wrapper

\* The workers take turns.
LEMMA NextWorker ==
    ASSUME job \in Jobs, NEW n \in Nat
    PROVE  (n + 1) % NumWorkers \in Nat /\ (n + 1) % NumWorkers \in Workers
BY JobFacts DEF NumWorkers, Workers

LEMMA StreamYield == ASSUME StreamInv, PerStream(job), Yield PROVE StreamInv'
<1> DEFINE k == worker[turn]
           g == [worker |-> turn, samples |-> batch, size |-> k.size]
           with(f, new) == [w \in DOMAIN f \union {ticker} |-> IF w = ticker THEN new ELSE f[w]]
           counted == with(tally.samples, k.samples)
<1>1. /\ phase = "looping" /\ batch # << >> /\ (Len(batch) = job.batch \/ k.over)
      /\ latest' = ticker /\ ticker' = (ticker + 1) % NumWorkers
      /\ tally'.samples = counted /\ (held' = tally' \/ held' = held)
      /\ got' = Append(got, g) /\ batch' = << >> /\ turn' = (turn + 1) % NumWorkers
      /\ UNCHANGED <<job, phase, dsState, size, worker, saved>>
  BY DEF Yield, NextTurn
<1>2. /\ job \in Jobs /\ turn \in Workers /\ turn \in Int /\ DOMAIN worker = Workers
      /\ WorkerInv(job, Datasets, k, turn) /\ Aligned(job, k, batch, turn, got)
      /\ IsSeq(batch)
  BY <1>1, TurnFacts
<1>3. Datasets' = Datasets /\ Workers' = Workers
  BY <1>1 DEF Datasets, Workers
<1>4. turn \in Nat /\ ticker \in Nat
  BY <1>2 DEF Workers, StreamInv, MainInv
<1>5. Counts(counted, Datasets)
  <2>1. Counts(tally.samples, Datasets)
    BY DEF StreamInv, MainInv
  <2>2. DOMAIN counted = DOMAIN tally.samples \union {ticker}
    OBVIOUS
  <2>3. IsFiniteSet(DOMAIN counted)
    BY <2>1, <2>2, FS_AddElement DEF Counts
  <2>4. ASSUME NEW w \in DOMAIN counted
        PROVE  DOMAIN counted[w] \subseteq Datasets /\ \A d \in DOMAIN counted[w] : counted[w][d] \in Nat
    BY <1>2, <2>1, <2>2 DEF Counts, WorkerInv
  <2> HIDE DEF counted
  <2> QED BY <2>3, <2>4 DEF Counts
<1> HIDE DEF counted
<1>6. MainInv'
  <2>1. Counts(tally.samples, Datasets)' /\ Counts(held.samples, Datasets)'
    BY <1>1, <1>3, <1>5 DEF StreamInv, MainInv
  <2>2. (ticker + 1) % NumWorkers \in Nat
    BY <1>2, <1>4, NextWorker
  <2> QED BY <1>1, <1>3, <1>4, <2>1, <2>2 DEF StreamInv, MainInv
<1>7. g.worker = turn /\ g.samples = batch /\ g.size = k.size
  OBVIOUS
<1>8. GivenInv(job, got)
  BY DEF StreamInv
<1> HIDE DEF g, k
<1>9. GivenInv(job, Append(got, g)) /\ Aligned(job, k, << >>, turn, Append(got, g))
  BY <1>1, <1>2, <1>7, <1>8, WasGiven
<1>10. turn' \in Workers
  BY <1>1, <1>2, <1>4, NextWorker
<1>11. ASSUME NEW w \in Workers
       PROVE  WorkerInv(job, Datasets, worker[w], w) /\ Aligned(job, worker[w], << >>, w, Append(got, g))
  <2>1. WorkerInv(job, Datasets, worker[w], w) /\ Aligned(job, worker[w], InHand(w), w, got)
    BY <1>1 DEF StreamInv, LoopInv
  <2>2. CASE w = turn
    BY <1>9, <2>1, <2>2 DEF k
  <2>3. CASE w # turn
    <3>1. InHand(w) = << >>
      BY <2>3 DEF InHand
    <3>2. \A a \in DOMAIN got : a \in DOMAIN Append(got, g) /\ Append(got, g)[a] = got[a]
      BY <1>8, AppendFacts, SeqFacts DEF GivenInv
    <3> QED BY <2>1, <3>1, <3>2, StillAligned
  <2> QED BY <2>2, <2>3
<1>12. \A w : InHand(w)' = << >>
  BY <1>1 DEF InHand
<1>13. LoopInv'
  <2>1. DOMAIN batch' = {}
    BY <1>1
  <2> QED BY <1>1, <1>2, <1>3, <1>10, <1>11, <1>12, <2>1 DEF LoopInv
<1>14. BatchInv' /\ GivenInv(job, got)' /\ SavedInv'
  BY <1>1, <1>9, EmptyIsSeq DEF StreamInv, BatchInv, SavedInv
<1> QED BY <1>6, <1>13, <1>14 DEF StreamInv

LEMMA StreamSkip == ASSUME StreamInv, Skip PROVE StreamInv'
<1>1. /\ phase = "looping" /\ batch = << >> /\ turn' = (turn + 1) % NumWorkers
      /\ UNCHANGED <<job, phase, latest, ticker, tally, held, dsState, size, worker, batch, got, saved>>
  BY DEF Skip, NextTurn, loader, wrapper
<1>2. Datasets' = Datasets /\ Workers' = Workers
  BY <1>1 DEF Datasets, Workers
<1>3. job \in Jobs /\ turn \in Nat
  BY <1>1, TurnFacts DEF Workers
<1>4. turn' \in Workers
  BY <1>1, <1>3, NextWorker
<1>5. \A w : InHand(w)' = << >> /\ InHand(w) = << >>
  BY <1>1 DEF InHand
<1>6. LoopInv'
  BY <1>1, <1>2, <1>4, <1>5 DEF StreamInv, LoopInv
<1>7. MainInv' /\ BatchInv' /\ GivenInv(job, got)' /\ SavedInv'
  BY <1>1, <1>2 DEF StreamInv, MainInv, BatchInv, SavedInv
<1> QED BY <1>6, <1>7 DEF StreamInv

\* Workers start on what the wrapper holds.
LEMMA Begins ==
    ASSUME StreamInv, PerStream(job), NEW epochs,
           phase' = "looping", batch = << >>,
           worker' = [w \in Workers |-> Started(w, dsState', epochs, held)],
           turn' \in Workers, latest' \in Nat, ticker' \in Nat,
           UNCHANGED <<job, held, size, batch, saved>>,
           DOMAIN dsState' = Datasets, StateNumbers(dsState'),
           Counts(tally'.samples, Datasets), GivenInv(job, got')
    PROVE  StreamInv'
<1>1. Datasets' = Datasets /\ Workers' = Workers
  BY DEF Datasets, Workers
<1>2. /\ job \in Jobs /\ Combined /\ Datasets \subseteq DOMAIN job.items /\ DOMAIN size = Datasets
      /\ \A d \in Datasets : size[d] \in Nat \ {0}
      /\ Counts(held.samples, Datasets)
  BY DEF StreamInv, MainInv, PerStream, Combined
<1>3. MainInv'
  BY <1>1, <1>2 DEF MainInv
<1>4. ASSUME NEW w \in Workers
      PROVE  WorkerInv(job, Datasets, worker'[w], w) /\ Aligned(job, worker'[w], << >>, w, got')
  <2>1. worker'[w] = Started(w, dsState', epochs, held)
    OBVIOUS
  <2> QED BY <1>2, <2>1, StartedRight
<1>5. \A w : InHand(w)' = << >>
  BY DEF InHand
<1>6. DOMAIN batch' = {} /\ DOMAIN worker' = Workers
  OBVIOUS
<1>7. LoopInv'
  BY <1>1, <1>4, <1>5, <1>6 DEF LoopInv
<1>8. BatchInv' /\ GivenInv(job, got)' /\ SavedInv'
  BY DEF StreamInv, BatchInv, SavedInv
<1> QED BY <1>3, <1>7, <1>8 DEF StreamInv

LEMMA NothingCounted == ASSUME NEW all PROVE Counts(NoTally.samples, all)
<1>1. NoTally.samples = << >> /\ DOMAIN << >> = {}
  BY DEF NoTally
<1> QED BY <1>1, FS_EmptySet DEF Counts

LEMMA StreamNewEpoch == ASSUME StreamInv, PerStream(job), NewEpoch PROVE StreamInv'
<1>1. /\ phase = "idle" /\ phase' = "looping" /\ tally' = NoTally /\ latest' = 0 /\ ticker' = 0
      /\ dsState' = [d \in Datasets |-> NoState] /\ turn' = 0 /\ got' = << >>
      /\ worker' = [w \in Workers |-> Started(w, dsState', dsEpoch', held)]
      /\ UNCHANGED <<job, held, size, batch, saved>>
  BY DEF NewEpoch
<1>2. batch = << >>
  BY <1>1 DEF StreamInv, BatchInv
<1>3. turn' \in Workers
  BY <1>1, JobFacts DEF Workers, StreamInv, MainInv
<1>4. DOMAIN dsState' = Datasets /\ StateNumbers(dsState')
  BY <1>1 DEF StateNumbers
<1>5. Counts(tally'.samples, Datasets)
  BY <1>1, NothingCounted
<1>6. GivenInv(job, got')
  <2>1. DOMAIN << >> = {}
    OBVIOUS
  <2> QED BY <1>1, <2>1, EmptyIsSeq DEF GivenInv
<1> QED BY <1>1, <1>2, <1>3, <1>4, <1>5, <1>6, Begins

LEMMA StreamResumeEpoch == ASSUME StreamInv, PerStream(job), ResumeEpoch PROVE StreamInv'
<1>1. /\ phase = "idle" /\ phase' = "looping"
      /\ worker' = [w \in Workers |-> Started(w, dsState', dsEpoch', held)]
      /\ turn' = (IF restore' /\ latest < NumWorkers THEN latest ELSE 0)
      /\ UNCHANGED <<job, tally, latest, ticker, held, dsState, size, batch, got, saved>>
  BY DEF ResumeEpoch
<1>2. batch = << >>
  BY <1>1 DEF StreamInv, BatchInv
<1>3. job \in Jobs /\ latest \in Nat /\ ticker \in Nat
  BY DEF StreamInv, MainInv
<1>4. turn' \in Workers
  BY <1>1, <1>3, JobFacts DEF Workers, NumWorkers
<1>5. /\ DOMAIN dsState' = Datasets /\ StateNumbers(dsState')
      /\ Counts(tally'.samples, Datasets) /\ GivenInv(job, got')
  BY <1>1 DEF StreamInv, MainInv, Datasets
<1> QED BY <1>1, <1>2, <1>3, <1>4, <1>5, Begins

LEMMA StreamAskLength == ASSUME StreamInv, AskLength PROVE StreamInv'
<1>1. /\ phase = "idle" /\ size' = [d \in Datasets |-> job.batch]
      /\ UNCHANGED <<job, phase, latest, ticker, tally, held, dsState, batch, got, saved>>
  BY DEF AskLength, loader
<1>2. Datasets' = Datasets
  BY <1>1 DEF Datasets
<1>3. job \in Jobs
  BY DEF StreamInv, MainInv
<1>4. DOMAIN size' = Datasets /\ \A d \in Datasets : size'[d] \in Nat \ {0}
  BY <1>1, <1>3, JobFacts
<1>5. MainInv'
  BY <1>1, <1>2, <1>4 DEF StreamInv, MainInv
<1>6. BatchInv' /\ LoopInv' /\ GivenInv(job, got)' /\ SavedInv'
  BY <1>1 DEF StreamInv, BatchInv, LoopInv, SavedInv
<1> QED BY <1>5, <1>6 DEF StreamInv

LEMMA StreamSaveState == ASSUME StreamInv, PerStream(job), SaveState PROVE StreamInv'
<1>1. /\ dsState' = [d \in Datasets |-> IF dsState[d] = NoState THEN NoState ELSE States[d]]
      /\ saved'.dataset = States /\ saved'.tally = tally /\ saved'.latest = latest
      /\ saved'.got = got
      /\ UNCHANGED <<job, phase, latest, ticker, tally, held, size, worker, turn, batch, got>>
  BY DEF SaveState, loader
<1>2. Datasets' = Datasets /\ Workers' = Workers
  BY <1>1 DEF Datasets, Workers
<1>3. Combined /\ Counts(tally.samples, Datasets) /\ Datasets \subseteq DOMAIN job.items
      /\ latest \in Nat
  BY DEF StreamInv, MainInv, PerStream, Combined
<1>4. DOMAIN States = Datasets /\ StateNumbers(States)
  BY <1>3, StatesType
<1>5. StateNumbers(dsState')
  BY <1>1, <1>4 DEF StateNumbers
<1>6. MainInv'
  BY <1>1, <1>2, <1>5 DEF StreamInv, MainInv
<1>7. SavedInv'
  <2>1. Counts(tally.samples, DOMAIN job.items)
    BY <1>3 DEF Counts
  <2> QED BY <1>1, <1>3, <1>4, <2>1 DEF StreamInv, SavedInv
<1>8. LoopInv'
  BY <1>1, <1>2 DEF StreamInv, LoopInv, InHand
<1>9. BatchInv' /\ GivenInv(job, got)'
  BY <1>1 DEF StreamInv, BatchInv
<1> QED BY <1>6, <1>7, <1>8, <1>9 DEF StreamInv

LEMMA StreamRestart == ASSUME StreamInv, Restart PROVE StreamInv'
<1> DEFINE all == DOMAIN job.items
<1>1. /\ saved # NoState /\ phase' \in {"idle", "failed"}
      /\ dsState' = StatesLoaded(saved.dataset, all)
      /\ (size' = [d \in all |-> 1] \/ size' = job.limits)
      /\ tally' = saved.tally /\ held' = saved.tally
      /\ latest' = saved.latest + 1 /\ ticker' = (saved.latest + 1) % NumWorkers
      /\ batch' = << >> /\ got' = saved.got
      /\ UNCHANGED <<job, saved>>
  BY DEF Restart
<1>2. job \in Jobs
  BY DEF StreamInv, MainInv
<1>3. /\ Counts(saved.tally.samples, all) /\ StateNumbers(saved.dataset)
      /\ saved.latest \in Nat /\ GivenInv(job, saved.got)
  BY <1>1 DEF StreamInv, SavedInv
<1>4. Datasets' = all /\ StateNumbers(dsState')
  BY <1>1, <1>3 DEF Datasets, StatesLoaded, StateNumbers
<1>5. DOMAIN size' = all /\ \A d \in all : size'[d] \in Nat \ {0}
  BY <1>1, <1>2, JobFacts
<1>6. latest' \in Nat /\ ticker' \in Nat
  BY <1>1, <1>2, <1>3, NextWorker
<1>7. MainInv'
  BY <1>1, <1>2, <1>3, <1>4, <1>5, <1>6 DEF MainInv
<1>8. LoopInv' /\ BatchInv'
  BY <1>1, EmptyIsSeq DEF LoopInv, BatchInv
<1>9. GivenInv(job, got)' /\ SavedInv'
  BY <1>1, <1>3 DEF StreamInv, SavedInv
<1> QED BY <1>7, <1>8, <1>9 DEF StreamInv

LEMMA StreamStep ==
    ASSUME StreamInv, PerStream(job), [Next]_vars
    PROVE  StreamInv'
<1>1. CASE TakeOne
  BY <1>1, StreamTakeOne
<1>2. CASE RunsOut
  BY <1>2, StreamRunsOut
<1>3. CASE TakeEach \/ Stop
  BY <1>3 DEF TakeEach, Stop, PerStream, Combined
<1>4. CASE Uncounted
  BY <1>4, StreamUncounted
<1>5. CASE Break
  BY <1>5, StreamBreak
<1>6. CASE Yield
  BY <1>6, StreamYield
<1>7. CASE Skip
  BY <1>7, StreamSkip
<1>8. CASE EndEpoch
  BY <1>8, StreamEndEpoch
<1>9. CASE NewEpoch
  BY <1>9, StreamNewEpoch
<1>10. CASE GoOn
  BY <1>10 DEF GoOn, GoesOn, Cycling, PerStream
<1>11. CASE ResumeEpoch
  BY <1>11, StreamResumeEpoch
<1>12. CASE AskLength
  BY <1>12, StreamAskLength
<1>13. CASE SaveState
  BY <1>13, StreamSaveState
<1>14. CASE Restart
  BY <1>14, StreamRestart
<1>15. CASE UNCHANGED vars
  BY <1>15 DEF vars, loader, wrapper, StreamInv, MainInv, BatchInv, LoopInv, SavedInv, InHand,
               Datasets, Workers
<1> QED BY <1>1, <1>2, <1>3, <1>4, <1>5, <1>6, <1>7, <1>8, <1>9, <1>10, <1>11, <1>12, <1>13,
           <1>14, <1>15 DEF Next

LEMMA JobStays == ASSUME [Next]_vars PROVE job' = job
BY DEF Next, vars, TakeOne, RunsOut, TakeEach, Stop, Uncounted, Break, Yield, Skip, EndEpoch,
       NewEpoch, GoOn, ResumeEpoch, AskLength, SaveState, Restart

LEMMA InvGives == ASSUME PerStream(job) => StreamInv PROVE OneStreamBatches
<1>1. SUFFICES ASSUME PerStream(job), NEW b \in DOMAIN got
               PROVE  \/ \A p, q \in DOMAIN got[b].samples :
                            got[b].samples[p].dataset = got[b].samples[q].dataset
                      \/ \E d \in DOMAIN got[b].size : got[b].size[d] # job.batch
                      \/ \E a \in 1 .. b : \E p \in DOMAIN got[a].samples :
                            /\ got[a].worker = got[b].worker
                            /\ got[a].samples[p].index =
                                 Part(got[a].samples[p].dataset, got[a].samples[p].worker,
                                      got[a].size[got[a].samples[p].dataset])
  BY DEF OneStreamBatches, PerStream, Combined
<1>2. OneStream(job, got, b)
  BY <1>1 DEF StreamInv, GivenInv
<1> QED BY <1>2, PartIs DEF OneStream, OneKind, Odd, SpentIn, LastOne

\* per_stream: a batch of a combined dataset has samples of one dataset each, as long as
\* none is exhausted and the wrapper knows the batch size of the loader, for every job,
\* over any number of epochs, lengths that are asked for, saved states and restarts (the
\* in-batch count of _CombinedDatasetIterator, which starts over where a worker starts).
THEOREM MixedOneStream == Spec => []OneStreamBatches
<1>1. Init => (PerStream(job) => StreamInv)
  BY StreamInit
<1>2. (PerStream(job) => StreamInv) /\ [Next]_vars => (PerStream(job) => StreamInv)'
  BY StreamStep, JobStays
<1>3. (PerStream(job) => StreamInv) => OneStreamBatches
  BY InvGives
<1> QED BY <1>1, <1>2, <1>3, PTL DEF Spec
=============================================================================
