-------------------------- MODULE AssignmentProofs --------------------------
(* Theorems about Assignment, for every dataset and every layout, and about the   *)
(* splits of a StreamedSubset and what its workers read, for every request.       *)
EXTENDS StreamedSubset, SequenceProofs

-----------------------------------------------------------------------------
(* Arithmetic. *)

LEMMA Division ==
    ASSUME NEW a \in Nat, NEW b \in Nat \ {0}
    PROVE  a \div b \in Nat /\ a % b \in Nat /\ b * (a \div b) <= a
  BY SMT

LEMMA Product == ASSUME NEW a \in Nat, NEW b \in Nat PROVE a * b \in Nat
  BY SMT

LEMMA PositiveProduct ==
    ASSUME NEW a \in Nat \ {0}, NEW b \in Nat \ {0} PROVE a * b \in Nat \ {0}
  BY SMT

LEMMA Monotone ==
    ASSUME NEW a \in Nat, NEW b \in Nat, NEW c \in Nat, b <= c PROVE a * b <= a * c
  BY SMT

LEMMA Associative ==
    ASSUME NEW a \in Nat, NEW b \in Nat, NEW c \in Nat PROVE (a * b) * c = a * (b * c)
  BY SMT

\* The parts of a layout are positive, and so is the number of its workers.
LEMMA LayoutFacts ==
    ASSUME NEW l \in Layouts
    PROVE  /\ l.nodes \in Nat \ {0} /\ l.ranksPerNode \in Nat \ {0}
           /\ l.workers \in Nat \ {0} /\ l.batch \in Nat \ {0}
           /\ WorldSize(l) \in Nat \ {0}
           /\ GlobalNumWorkers(l) \in Nat \ {0}
  <1>1. /\ l.nodes \in Nat \ {0} /\ l.ranksPerNode \in Nat \ {0}
        /\ l.workers \in Nat \ {0} /\ l.batch \in Nat \ {0}
    BY LayoutAssumption
  <1>2. WorldSize(l) \in Nat \ {0}
    BY <1>1, PositiveProduct DEF WorldSize
  <1>3. GlobalNumWorkers(l) \in Nat \ {0}
    BY <1>1, <1>2, PositiveProduct DEF GlobalNumWorkers
  <1> QED BY <1>1, <1>2, <1>3

\* Whole batches for every rank never need more samples than there are.
LEMMA BatchesFit ==
    ASSUME NEW l \in Layouts, NEW n \in Nat
    PROVE  /\ (n \div l.batch) \div WorldSize(l) \in Nat
           /\ l.batch * WorldSize(l) * ((n \div l.batch) \div WorldSize(l)) \in 0 .. n
  <1> DEFINE b == l.batch
             r == WorldSize(l)
             q == n \div b
             p == q \div r
  <1>1. b \in Nat \ {0} /\ r \in Nat \ {0}
    BY LayoutFacts
  <1>2. q \in Nat /\ b * q <= n
    BY <1>1, Division
  <1>3. p \in Nat /\ r * p <= q
    BY <1>1, <1>2, Division
  <1>4. r * p \in Nat /\ b * q \in Nat /\ b * (r * p) \in Nat
    BY <1>1, <1>2, <1>3, Product
  <1>5. b * (r * p) <= b * q
    BY <1>1, <1>2, <1>3, <1>4, Monotone
  <1>6. (b * r) * p = b * (r * p)
    BY <1>1, <1>3, Associative
  <1> HIDE DEF b, r, q, p
  <1>7. (b * r) * p \in 0 .. n
    BY <1>2, <1>4, <1>5, <1>6
  <1> QED BY <1>3, <1>7 DEF b, r, q, p

\* A budget is a number of samples: in particular what is left over for the last
\* rank is not negative.
LEMMA ShareType ==
    ASSUME NEW l \in Layouts, NEW n \in Nat, NEW w \in WorkerIds(l)
    PROVE  Share(l, n, w) \in Nat
  <1> DEFINE p == (n \div l.batch) \div WorldSize(l)
             left == n - l.batch * WorldSize(l) * p
             full == p \div l.workers + (IF w % l.workers < p % l.workers THEN 1 ELSE 0)
             rest == IF /\ ~l.dropLast /\ RankOf(l, w) = WorldSize(l) - 1
                        /\ w % l.workers = p % l.workers
                     THEN left ELSE 0
  <1>1. p \in Nat /\ l.batch * WorldSize(l) * p \in 0 .. n
    BY BatchesFit
  <1>2. left \in Nat
    BY <1>1
  <1>3. l.workers \in Nat \ {0} /\ l.batch \in Nat \ {0}
    BY LayoutFacts
  <1>4. p \div l.workers \in Nat
    BY <1>1, <1>3, Division
  <1>5. full \in Nat
    BY <1>4
  <1>6. l.batch * full \in Nat
    BY <1>3, <1>5, Product
  <1>7. rest \in Nat
    BY <1>2
  <1>8. Share(l, n, w) = l.batch * full + rest
    BY DEF Share
  <1> HIDE DEF p, left, full, rest
  <1> QED BY <1>6, <1>7, <1>8

LEMMA SharesType ==
    ASSUME NEW l \in Layouts, NEW n \in Nat
    PROVE  Shares(l, n) \in [WorkerIds(l) -> Nat]
  BY ShareType DEF Shares

LEMMA NodeType ==
    ASSUME NEW l \in Layouts, NEW w \in WorkerIds(l)
    PROVE  NodeOf(l, w) \in Nat /\ w \in Nat
  <1>1. l.workers \in Nat \ {0} /\ l.ranksPerNode \in Nat \ {0} /\ GlobalNumWorkers(l) \in Nat
    BY LayoutFacts
  <1>2. w \in Nat
    BY <1>1 DEF WorkerIds
  <1> QED BY <1>1, <1>2, Division DEF NodeOf, RankOf

-----------------------------------------------------------------------------
(* The inductive invariant. *)

\* Until the walk starts nobody has an interval.
ListInv == stage = "list" => at = 1 /\ from = 0 /\ rank = 0 /\ plan = NoPlan(layout)

\* The intervals given out are of chunks the walk has reached.
ReachInv == \A w \in WorkerIds(layout) : \A i \in DOMAIN plan[w] :
    \E k \in DOMAIN order : k <= at /\ order[k] = plan[w][i].chunk

\* Of the current chunk, the samples from "from" on belong to nobody.
CutInv == at <= Len(order) /\ ListedOnce(order[at]) =>
    \A w \in WorkerIds(layout) : \A i \in DOMAIN plan[w] :
        plan[w][i].chunk = order[at] => plan[w][i].last <= from

IInv == TypeOK /\ ListInv /\ ReachInv /\ CutInv /\ NothingTwice

LEMMA BeginInv == ASSUME sizes \in Seq(Nat), Begin PROVE IInv
  <1>1. layout \in Layouts
    BY DEF Begin
  <1>2. GlobalNumWorkers(layout) \in Nat \ {0}
    BY <1>1, LayoutFacts
  <1>3. DOMAIN sizes \subseteq Nat
    OBVIOUS
  <1>4. unlisted \subseteq Entries
    BY <1>3 DEF Begin, Entries
  <1>5. plan \in [WorkerIds(layout) -> Seq(Intervals)] /\ \A w \in WorkerIds(layout) : DOMAIN plan[w] = {}
    BY DEF Begin, NoPlan
  <1>6. TypeOK
    BY <1>1, <1>2, <1>4, <1>5 DEF Begin, TypeOK, Walking
  <1>7. ListInv /\ ReachInv /\ CutInv /\ NothingTwice
    BY <1>5 DEF Begin, ListInv, ReachInv, CutInv, NothingTwice
  <1> QED BY <1>6, <1>7 DEF IInv

LEMMA InitInv == Init => IInv
  BY DatasetAssumption, BeginInv DEF Init

\* Dealing the chunks out anew, from whatever list.
LEMMA EmptyPlan ==
    ASSUME plan = NoPlan(layout)
    PROVE  /\ plan \in [WorkerIds(layout) -> Seq(Intervals)]
           /\ \A w \in WorkerIds(layout) : DOMAIN plan[w] = {}
           /\ ReachInv /\ CutInv /\ NothingTwice
  BY DEF NoPlan, ReachInv, CutInv, NothingTwice

LEMMA ListStep == IInv /\ List => IInv'
  <1> SUFFICES ASSUME IInv, List PROVE IInv'
    OBVIOUS
  <1> USE DEF IInv
  <1>1. PICK e \in unlisted : /\ unlisted' = unlisted \ {e}
                             /\ order' = Append(order, e.chunk)
                             /\ items' = items + sizes[e.chunk]
    BY DEF List
  <1>2. /\ stage = "list" /\ UNCHANGED <<job, pass, stage, at, from, rank, budget, plan>>
        /\ sizes' = sizes /\ layout' = layout
    BY DEF List, job
  <1>3. e.chunk \in DOMAIN sizes /\ sizes[e.chunk] \in Nat
    BY DEF TypeOK, Entries
  <1>4. plan = NoPlan(layout) /\ at = 1 /\ from = 0 /\ rank = 0
    BY <1>2 DEF ListInv
  <1>5. order' \in Seq(DOMAIN sizes) /\ Len(order') = Len(order) + 1
    BY <1>1, <1>3 DEF TypeOK
  <1>6. \A w \in WorkerIds(layout) : DOMAIN plan[w] = {}
    BY <1>4, EmptyPlan
  <1>7. TypeOK'
    <2>1. /\ Entries' = Entries /\ Intervals' = Intervals
          /\ WorkerIds(layout)' = WorkerIds(layout)
          /\ GlobalNumWorkers(layout)' = GlobalNumWorkers(layout)
      BY <1>2 DEF Entries, Intervals, WorkerIds, GlobalNumWorkers, WorldSize
    <2>2. unlisted' \subseteq Entries /\ order' \in Seq(DOMAIN sizes) /\ items' \in Nat
      BY SMTT(30), <1>1, <1>3, <1>5 DEF TypeOK
    <2>3. at' \in 1 .. Len(order') + 1
      BY <1>2, <1>4, <1>5, <1>1 DEF TypeOK
    <2> QED BY <1>2, <1>6, <2>1, <2>2, <2>3 DEF TypeOK, Walking
  <1>8. ListInv'
    BY <1>2, <1>4 DEF ListInv, NoPlan, WorkerIds, GlobalNumWorkers, WorldSize
  <1>9. ReachInv' /\ CutInv' /\ NothingTwice'
    BY <1>2, <1>6 DEF ReachInv, CutInv, NothingTwice, WorkerIds, GlobalNumWorkers, WorldSize
  <1> QED BY <1>7, <1>8, <1>9

LEMMA DealStep == IInv /\ Deal => IInv'
  <1> SUFFICES ASSUME IInv, Deal PROVE IInv'
    OBVIOUS
  <1> USE DEF IInv
  <1>1. /\ stage' = "walk" /\ stage = "list" /\ budget' = Shares(layout, items)
        /\ UNCHANGED <<pass, unlisted, order, items, at, from, rank, plan>>
        /\ sizes' = sizes /\ layout' = layout
    BY DEF Deal, job
  <1>2. budget' \in [WorkerIds(layout) -> Nat]
    BY <1>1, SharesType DEF TypeOK
  <1>3. plan = NoPlan(layout) /\ at = 1 /\ from = 0
    BY <1>1 DEF ListInv
  <1>4. \A w \in WorkerIds(layout) : DOMAIN plan[w] = {}
    BY <1>3, EmptyPlan
  <1>5. 1 <= Len(order) => sizes[order[1]] \in Nat
    BY SMTT(30) DEF TypeOK
  <1>6. TypeOK'
    <2>1. /\ Entries' = Entries /\ Intervals' = Intervals
          /\ WorkerIds(layout)' = WorkerIds(layout)
          /\ GlobalNumWorkers(layout)' = GlobalNumWorkers(layout)
      BY <1>1 DEF Entries, Intervals, WorkerIds, GlobalNumWorkers, WorldSize
    <2>2. (Walking => from <= sizes[order[at]])'
      BY <1>1, <1>3, <1>5 DEF Walking
    <2> QED BY <1>1, <1>2, <1>4, <2>1, <2>2 DEF TypeOK
  <1>7. ListInv' /\ ReachInv' /\ CutInv' /\ NothingTwice'
    BY <1>1, <1>4 DEF ListInv, ReachInv, CutInv, NothingTwice, WorkerIds, GlobalNumWorkers,
        WorldSize
  <1> QED BY <1>6, <1>7

LEMMA ReshuffleStep == IInv /\ Reshuffle => IInv'
  <1> SUFFICES ASSUME IInv, Reshuffle PROVE IInv'
    OBVIOUS
  <1> USE DEF IInv
  <1>1. /\ pass' = "again" /\ stage' = "list" /\ order' = << >> /\ items' = 0
        /\ at' = 1 /\ from' = 0 /\ rank' = 0 /\ plan' = NoPlan(layout) /\ budget' = budget
        /\ sizes' = sizes /\ layout' = layout
    BY DEF Reshuffle, job
  <1>2. layout \in Layouts /\ GlobalNumWorkers(layout) \in Nat \ {0}
    BY LayoutFacts DEF TypeOK
  <1>3. unlisted' \subseteq Entries
    <2> SUFFICES ASSUME NEW w \in WorkerIds(layout), NEW i \in DOMAIN plan[w]
                 PROVE  [node |-> NodeOf(layout, w), worker |-> w, place |-> i,
                         chunk |-> plan[w][i].chunk] \in Entries
      BY DEF Reshuffle
    <2>1. plan[w] \in Seq(Intervals)
      BY DEF TypeOK
    <2>2. i \in Nat /\ plan[w][i] \in Intervals
      BY <2>1
    <2>3. NodeOf(layout, w) \in Nat /\ w \in Nat
      BY <1>2, NodeType
    <2> QED BY <2>2, <2>3 DEF Entries, Intervals
  <1>4. Entries' = Entries /\ Intervals' = Intervals /\ WorkerIds(layout)' = WorkerIds(layout)
    BY <1>1 DEF Entries, Intervals, WorkerIds, GlobalNumWorkers, WorldSize
  <1>5. plan' \in [WorkerIds(layout) -> Seq(Intervals)] /\ \A w \in WorkerIds(layout) : DOMAIN plan'[w] = {}
    BY <1>1 DEF NoPlan
  <1>6. TypeOK'
    BY <1>1, <1>2, <1>3, <1>4, <1>5 DEF TypeOK, Walking, GlobalNumWorkers, WorldSize
  <1>7. ListInv' /\ ReachInv' /\ CutInv' /\ NothingTwice'
    BY <1>1, <1>4, <1>5 DEF ListInv, ReachInv, CutInv, NothingTwice, NoPlan, WorkerIds, GlobalNumWorkers,
        WorldSize
  <1> QED BY <1>6, <1>7

\* Giving the samples from "from" to x of the current chunk to the worker at hand
\* keeps the intervals in order, and leaves nothing of the chunk below x.
LEMMA GiveFacts ==
    ASSUME IInv, Walking, rank \in WorkerIds(layout),
           NEW x \in Nat, from < x, x <= sizes[order[at]],
           Give(rank, from, x), UNCHANGED <<job, list>>
    PROVE  /\ plan' \in [WorkerIds(layout) -> Seq(Intervals)]
           /\ \A w \in WorkerIds(layout) : \A i \in DOMAIN plan'[w] :
                 /\ plan'[w][i].first < plan'[w][i].last
                 /\ plan'[w][i].last <= sizes[plan'[w][i].chunk]
                 /\ \E k \in DOMAIN order : k <= at /\ order[k] = plan'[w][i].chunk
                 /\ plan'[w][i].chunk = order[at] /\ ListedOnce(order[at])
                       => plan'[w][i].last <= x
           /\ NothingTwice'
  <1> DEFINE new == [chunk |-> order[at], first |-> from, last |-> x]
  <1>1. /\ plan \in [WorkerIds(layout) -> Seq(Intervals)] /\ from \in Nat
        /\ at \in DOMAIN order /\ order[at] \in DOMAIN sizes /\ sizes[order[at]] \in Nat
    <2>1. plan \in [WorkerIds(layout) -> Seq(Intervals)] /\ from \in Nat
      BY DEF IInv, TypeOK
    <2>2. order \in Seq(DOMAIN sizes) /\ at \in 1 .. Len(order) + 1 /\ at <= Len(order)
      BY DEF IInv, TypeOK, Walking
    <2>3. at \in DOMAIN order /\ order[at] \in DOMAIN sizes
      BY <2>2
    <2>4. sizes[order[at]] \in Nat
      BY SMTT(30), <2>3 DEF IInv, TypeOK
    <2> QED BY <2>1, <2>3, <2>4
  <1> USE DEF IInv
  <1>2. new \in Intervals
    BY <1>1 DEF Intervals
  <1>3. /\ sizes' = sizes /\ layout' = layout /\ order' = order
        /\ WorkerIds(layout)' = WorkerIds(layout)
    BY DEF job, list, WorkerIds, GlobalNumWorkers, WorldSize
  <1>4. plan' = [plan EXCEPT ![rank] = Append(plan[rank], new)]
    BY DEF Give
  <1>5. plan' \in [WorkerIds(layout) -> Seq(Intervals)]
    BY <1>1, <1>2, <1>4
  <1>6. ASSUME NEW w \in WorkerIds(layout), NEW i \in DOMAIN plan'[w]
        PROVE  \/ i \in DOMAIN plan[w] /\ plan'[w][i] = plan[w][i]
               \/ w = rank /\ i = Len(plan[rank]) + 1 /\ plan'[w][i] = new
    <2>1. CASE w = rank
      <3>1. plan[rank] \in Seq(Intervals) /\ plan'[w] = Append(plan[rank], new)
        BY <1>1, <1>4, <2>1
      <3> HIDE DEF new
      <3> QED BY <1>2, <2>1, <3>1
    <2>2. CASE w # rank
      BY <1>1, <1>4, <2>2
    <2> QED BY <2>1, <2>2
  <1>7. new.chunk = order[at] /\ new.first = from /\ new.last = x
    OBVIOUS
  <1>8. \A w \in WorkerIds(layout) : \A i \in DOMAIN plan[w] :
            plan[w][i] \in Intervals /\ plan[w][i].last \in Nat
    <2> SUFFICES ASSUME NEW w \in WorkerIds(layout), NEW i \in DOMAIN plan[w]
                 PROVE  plan[w][i] \in Intervals /\ plan[w][i].last \in Nat
      OBVIOUS
    <2>1. plan[w] \in Seq(Intervals)
      BY <1>1
    <2>2. plan[w][i] \in Intervals
      BY <2>1
    <2> QED BY <2>2 DEF Intervals
  <1>9. ASSUME NEW w \in WorkerIds(layout), NEW i \in DOMAIN plan'[w]
        PROVE  /\ plan'[w][i].first < plan'[w][i].last
               /\ plan'[w][i].last <= sizes[plan'[w][i].chunk]
               /\ \E k \in DOMAIN order : k <= at /\ order[k] = plan'[w][i].chunk
               /\ plan'[w][i].chunk = order[at] /\ ListedOnce(order[at])
                     => plan'[w][i].last <= x
    <2>1. CASE i \in DOMAIN plan[w] /\ plan'[w][i] = plan[w][i]
      <3>1. /\ plan[w][i].first < plan[w][i].last
            /\ plan[w][i].last <= sizes[plan[w][i].chunk]
        BY <2>1 DEF TypeOK
      <3>2. \E k \in DOMAIN order : k <= at /\ order[k] = plan[w][i].chunk
        BY <2>1 DEF ReachInv
      <3>3. ASSUME plan[w][i].chunk = order[at], ListedOnce(order[at])
            PROVE  plan[w][i].last <= x
        <4>1. plan[w][i].last <= from
          BY <2>1, <3>3 DEF CutInv, Walking
        <4> QED BY <1>1, <1>8, <2>1, <4>1
      <3> QED BY <2>1, <3>1, <3>2, <3>3
    <2>2. CASE plan'[w][i] = new
      <3> HIDE DEF new
      <3>1. plan'[w][i].chunk = order[at] /\ plan'[w][i].first = from /\ plan'[w][i].last = x
        BY <1>7, <2>2
      <3>2. at <= at
        BY DEF TypeOK
      <3> QED BY <1>1, <3>1, <3>2
    <2> QED BY <1>6, <2>1, <2>2
  <1>10. ASSUME NEW w \in WorkerIds(layout), NEW i \in DOMAIN plan[w], ListedOnce(order[at])
         PROVE  ~Overlap(plan[w][i], new) /\ ~Overlap(new, plan[w][i])
    <2>1. plan[w][i].chunk = order[at] => plan[w][i].last <= from
      BY <1>10 DEF CutInv, Walking
    <2> HIDE DEF new
    <2> QED BY <1>1, <1>7, <1>8, <2>1 DEF Overlap
  <1>11. NothingTwice'
    <2> SUFFICES ASSUME NEW v \in WorkerIds(layout), NEW w \in WorkerIds(layout),
                        NEW i \in DOMAIN plan'[v], NEW j \in DOMAIN plan'[w],
                        Overlap(plan'[v][i], plan'[w][j]), ListedOnce(plan'[v][i].chunk)
                 PROVE  v = w /\ i = j
      BY <1>3 DEF NothingTwice, ListedOnce, Overlap
    <2> HIDE DEF new
    <2>1. CASE plan'[v][i] = new \/ plan'[w][j] = new
      <3>1. ListedOnce(order[at])
        BY <1>7, <2>1 DEF Overlap
      <3> QED BY <1>6, <1>10, <3>1, <2>1
    <2>2. CASE plan'[v][i] # new /\ plan'[w][j] # new
      BY <1>6, <2>2 DEF NothingTwice
    <2> QED BY <2>1, <2>2
  <1> QED BY <1>5, <1>9, <1>11

\* Going on to the next chunk: nobody has an interval of it yet, unless the list
\* has it twice.
LEMMA NextChunkFacts ==
    ASSUME TypeOK, at \in DOMAIN order, ToNextChunk, UNCHANGED <<job, list>>,
           \A w \in WorkerIds(layout) : \A i \in DOMAIN plan'[w] :
               \E k \in DOMAIN order : k <= at /\ order[k] = plan'[w][i].chunk
    PROVE  /\ at' \in 1 .. Len(order) + 1 /\ from' = 0 /\ rank' = 0
           /\ (Walking => from <= sizes[order[at]])'
           /\ rank' \in 0 .. GlobalNumWorkers(layout)
           /\ ReachInv' /\ CutInv'
  <1>1. /\ sizes' = sizes /\ layout' = layout /\ order' = order /\ stage' = stage
        /\ WorkerIds(layout)' = WorkerIds(layout)
    BY DEF job, list, WorkerIds, GlobalNumWorkers, WorldSize
  <1>2. at' = at + 1 /\ from' = 0 /\ rank' = 0
    BY DEF ToNextChunk
  <1>3. order \in Seq(DOMAIN sizes) /\ sizes \in Seq(Nat) /\ at \in Nat
    BY DEF TypeOK
  <1>4. at' \in 1 .. Len(order) + 1
    BY <1>2, <1>3
  <1>5. (Walking => from <= sizes[order[at]])'
    <2> SUFFICES ASSUME at' <= Len(order) PROVE 0 <= sizes[order[at']]
      BY <1>1, <1>2 DEF Walking
    <2>1. order[at'] \in DOMAIN sizes
      BY <1>3, <1>4
    <2>2. sizes[order[at']] \in Nat
      BY <2>1, <1>3
    <2> QED BY <2>2
  <1>6. rank' \in 0 .. GlobalNumWorkers(layout)
    BY <1>2, LayoutFacts DEF TypeOK
  <1>7. ReachInv'
    <2> SUFFICES ASSUME NEW w \in WorkerIds(layout), NEW i \in DOMAIN plan'[w]
                 PROVE  \E k \in DOMAIN order : k <= at' /\ order[k] = plan'[w][i].chunk
      BY <1>1 DEF ReachInv
    <2>1. PICK k \in DOMAIN order : k <= at /\ order[k] = plan'[w][i].chunk
      OBVIOUS
    <2>2. k <= at'
      BY <1>2, <1>3, <2>1
    <2> QED BY <2>1, <2>2
  <1>8. CutInv'
    <2> SUFFICES ASSUME at' <= Len(order), ListedOnce(order[at])',
                        NEW w \in WorkerIds(layout), NEW i \in DOMAIN plan'[w],
                        plan'[w][i].chunk = order[at']
                 PROVE  FALSE
      BY <1>1 DEF CutInv
    <2>1. PICK k \in DOMAIN order : k <= at /\ order[k] = order[at']
      OBVIOUS
    <2>2. at' \in DOMAIN order
      BY <1>3, <1>4
    <2>3. k = at'
      BY <1>1, <2>1, <2>2 DEF ListedOnce
    <2> QED BY <1>2, <1>3, <2>1, <2>3
  <1> QED BY <1>2, <1>4, <1>5, <1>6, <1>7, <1>8

\* A worker the walk looks at while it is within range.
LEMMA AtWorker ==
    ASSUME TypeOK, Walking, rank < GlobalNumWorkers(layout)
    PROVE  rank \in WorkerIds(layout) /\ budget[rank] \in Nat /\ at \in DOMAIN order
           /\ Rest \in Nat /\ sizes[order[at]] \in Nat /\ rank + 1 \in 0 .. GlobalNumWorkers(layout)
  <1>1. GlobalNumWorkers(layout) \in Nat \ {0}
    BY LayoutFacts DEF TypeOK
  <1>2. rank \in WorkerIds(layout) /\ rank + 1 \in 0 .. GlobalNumWorkers(layout)
    BY SMTT(30), <1>1 DEF TypeOK, WorkerIds
  <1>3. budget[rank] \in Nat
    BY <1>2 DEF TypeOK
  <1>4. at \in DOMAIN order
    BY DEF TypeOK, Walking
  <1>5. order[at] \in DOMAIN sizes
    BY <1>4 DEF TypeOK
  <1>6. sizes[order[at]] \in Nat
    BY <1>5 DEF TypeOK
  <1>7. Rest \in Nat
    BY SMTT(30), <1>6 DEF TypeOK, Rest
  <1> QED BY <1>2, <1>3, <1>4, <1>6, <1>7

\* The parts of the invariant a step of the walk has to re-establish.
LEMMA WalkInv ==
    ASSUME IInv, stage = "walk", UNCHANGED <<job, list>>,
           plan' \in [WorkerIds(layout) -> Seq(Intervals)],
           \A w \in WorkerIds(layout) : \A i \in DOMAIN plan'[w] :
               plan'[w][i].first < plan'[w][i].last /\ plan'[w][i].last <= sizes[plan'[w][i].chunk],
           budget' \in [WorkerIds(layout) -> Nat],
           at' \in 1 .. Len(order) + 1, from' \in Nat, rank' \in 0 .. GlobalNumWorkers(layout),
           (Walking => from <= sizes[order[at]])',
           ReachInv', CutInv', NothingTwice'
    PROVE  IInv'
  <1>1. /\ sizes' = sizes /\ layout' = layout /\ stage' = stage /\ pass' = pass
        /\ unlisted' = unlisted /\ order' = order /\ items' = items
        /\ WorkerIds(layout)' = WorkerIds(layout)
        /\ GlobalNumWorkers(layout)' = GlobalNumWorkers(layout)
        /\ Entries' = Entries /\ Intervals' = Intervals
    BY DEF job, list, WorkerIds, GlobalNumWorkers, WorldSize, Entries, Intervals
  <1>2. TypeOK'
    BY <1>1 DEF IInv, TypeOK
  <1>3. ListInv'
    BY <1>1 DEF ListInv
  <1> QED BY <1>2, <1>3 DEF IInv

LEMMA PassOverStep == IInv /\ PassOver => IInv'
  <1> SUFFICES ASSUME IInv, PassOver PROVE IInv'
    OBVIOUS
  <1>1. /\ Walking /\ rank < GlobalNumWorkers(layout) /\ rank' = rank + 1
        /\ UNCHANGED <<job, list, at, from, budget, plan>>
    BY DEF PassOver
  <1>2. stage = "walk" /\ rank' \in 0 .. GlobalNumWorkers(layout)
    BY <1>1, AtWorker DEF IInv, Walking
  <1>3. ReachInv' /\ CutInv' /\ NothingTwice' /\ (Walking => from <= sizes[order[at]])'
    BY <1>1 DEF IInv, TypeOK, job, list, ReachInv, CutInv, NothingTwice, ListedOnce, Walking,
        WorkerIds, GlobalNumWorkers, WorldSize
  <1>4. /\ plan' \in [WorkerIds(layout) -> Seq(Intervals)]
        /\ \A w \in WorkerIds(layout) : \A i \in DOMAIN plan'[w] :
              plan'[w][i].first < plan'[w][i].last /\ plan'[w][i].last <= sizes[plan'[w][i].chunk]
        /\ budget' \in [WorkerIds(layout) -> Nat]
        /\ at' \in 1 .. Len(order) + 1 /\ from' \in Nat
    BY <1>1 DEF IInv, TypeOK
  <1> QED BY <1>1, <1>2, <1>3, <1>4, WalkInv

\* A step to the next chunk that gives nothing.
LEMMA SkipStep ==
    ASSUME IInv, Walking, ToNextChunk, UNCHANGED <<job, list, budget, plan>>
    PROVE  IInv'
  <1>1. at \in DOMAIN order /\ stage = "walk"
    BY DEF IInv, TypeOK, Walking
  <1>2. \A w \in WorkerIds(layout) : \A i \in DOMAIN plan'[w] :
            \E k \in DOMAIN order : k <= at /\ order[k] = plan'[w][i].chunk
    BY DEF IInv, ReachInv
  <1>3. /\ at' \in 1 .. Len(order) + 1 /\ from' = 0 /\ rank' = 0
        /\ (Walking => from <= sizes[order[at]])'
        /\ rank' \in 0 .. GlobalNumWorkers(layout)
        /\ ReachInv' /\ CutInv'
    <2>1. TypeOK
      BY DEF IInv
    <2> QED BY <1>1, <1>2, <2>1, NextChunkFacts
  <1>4. NothingTwice'
    BY DEF IInv, NothingTwice, ListedOnce, job, list, WorkerIds, GlobalNumWorkers, WorldSize
  <1>5. /\ plan' \in [WorkerIds(layout) -> Seq(Intervals)]
        /\ \A w \in WorkerIds(layout) : \A i \in DOMAIN plan'[w] :
              plan'[w][i].first < plan'[w][i].last /\ plan'[w][i].last <= sizes[plan'[w][i].chunk]
        /\ budget' \in [WorkerIds(layout) -> Nat]
    BY DEF IInv, TypeOK
  <1> QED BY <1>1, <1>3, <1>4, <1>5, WalkInv

LEMMA SplitStep == IInv /\ Split => IInv'
  <1> SUFFICES ASSUME IInv, Split PROVE IInv'
    OBVIOUS
  <1> DEFINE x == from + budget[rank]
  <1>1. /\ Walking /\ rank < GlobalNumWorkers(layout) /\ budget[rank] > 0 /\ Rest > budget[rank]
        /\ Give(rank, from, x) /\ from' = x /\ rank' = rank + 1
        /\ budget' = [budget EXCEPT ![rank] = 0]
        /\ UNCHANGED <<job, list, at>>
    BY DEF Split
  <1>2. /\ rank \in WorkerIds(layout) /\ budget[rank] \in Nat /\ at \in DOMAIN order
        /\ Rest \in Nat /\ sizes[order[at]] \in Nat /\ rank' \in 0 .. GlobalNumWorkers(layout)
    BY <1>1, AtWorker DEF IInv
  <1>3. from \in Nat /\ x \in Nat /\ from < x /\ x <= sizes[order[at]]
    <2>1. from \in Nat
      BY DEF IInv, TypeOK
    <2> QED BY <1>1, <1>2, <2>1 DEF Rest
  <1> HIDE DEF x
  <1>4. /\ plan' \in [WorkerIds(layout) -> Seq(Intervals)]
        /\ \A w \in WorkerIds(layout) : \A i \in DOMAIN plan'[w] :
              /\ plan'[w][i].first < plan'[w][i].last
              /\ plan'[w][i].last <= sizes[plan'[w][i].chunk]
              /\ \E k \in DOMAIN order : k <= at /\ order[k] = plan'[w][i].chunk
              /\ plan'[w][i].chunk = order[at] /\ ListedOnce(order[at])
                    => plan'[w][i].last <= x
        /\ NothingTwice'
    BY <1>1, <1>2, <1>3, GiveFacts
  <1>5. ReachInv' /\ CutInv' /\ (Walking => from <= sizes[order[at]])'
    BY <1>1, <1>3, <1>4 DEF ReachInv, CutInv, ListedOnce, Walking, job, list, WorkerIds,
        GlobalNumWorkers, WorldSize
  <1>6. budget' \in [WorkerIds(layout) -> Nat] /\ at' \in 1 .. Len(order) + 1 /\ from' \in Nat
    BY <1>1, <1>3 DEF IInv, TypeOK
  <1>7. stage = "walk"
    BY <1>1 DEF Walking
  <1> QED BY <1>1, <1>2, <1>4, <1>5, <1>6, <1>7, WalkInv

LEMMA TakeWholeStep == IInv /\ TakeWhole => IInv'
  <1> SUFFICES ASSUME IInv, TakeWhole PROVE IInv'
    OBVIOUS
  <1> DEFINE x == sizes[order[at]]
  <1>1. /\ Walking /\ rank < GlobalNumWorkers(layout) /\ Rest > 0 /\ Rest <= budget[rank]
        /\ Give(rank, from, x) /\ ToNextChunk
        /\ budget' = [budget EXCEPT ![rank] = @ - Rest]
        /\ UNCHANGED <<job, list>>
    BY DEF TakeWhole
  <1>2. /\ rank \in WorkerIds(layout) /\ budget[rank] \in Nat /\ at \in DOMAIN order
        /\ Rest \in Nat /\ x \in Nat
    BY <1>1, AtWorker DEF IInv
  <1>3. from \in Nat /\ from < x /\ x <= sizes[order[at]]
    <2>1. from \in Nat
      BY DEF IInv, TypeOK
    <2> QED BY <1>1, <1>2, <2>1 DEF Rest
  <1>4. /\ plan' \in [WorkerIds(layout) -> Seq(Intervals)]
        /\ \A w \in WorkerIds(layout) : \A i \in DOMAIN plan'[w] :
              /\ plan'[w][i].first < plan'[w][i].last
              /\ plan'[w][i].last <= sizes[plan'[w][i].chunk]
              /\ \E k \in DOMAIN order : k <= at /\ order[k] = plan'[w][i].chunk
        /\ NothingTwice'
    BY <1>1, <1>2, <1>3, GiveFacts
  <1>5. /\ at' \in 1 .. Len(order) + 1 /\ from' = 0 /\ rank' = 0
        /\ (Walking => from <= sizes[order[at]])'
        /\ rank' \in 0 .. GlobalNumWorkers(layout)
        /\ ReachInv' /\ CutInv'
    <2>1. TypeOK
      BY DEF IInv
    <2>2. at \in DOMAIN order /\ ToNextChunk /\ UNCHANGED <<job, list>>
      BY <1>1, <1>2
    <2>3. \A w \in WorkerIds(layout) : \A i \in DOMAIN plan'[w] :
              \E k \in DOMAIN order : k <= at /\ order[k] = plan'[w][i].chunk
      BY <1>4
    <2> QED BY <2>1, <2>2, <2>3, NextChunkFacts
  <1>6. budget' \in [WorkerIds(layout) -> Nat]
    BY SMTT(30), <1>1, <1>2 DEF IInv, TypeOK
  <1>7. stage = "walk"
    BY <1>1 DEF Walking
  <1> QED BY <1>1, <1>4, <1>5, <1>6, <1>7, WalkInv

LEMMA StepInv == IInv /\ [Next]_vars => IInv'
  <1> SUFFICES ASSUME IInv, [Next]_vars PROVE IInv'
    OBVIOUS
  <1>1. CASE List
    BY <1>1, ListStep
  <1>2. CASE Deal
    BY <1>2, DealStep
  <1>3. CASE PassOver
    BY <1>3, PassOverStep
  <1>4. CASE SkipEmpty
    BY <1>4, SkipStep DEF SkipEmpty
  <1>5. CASE Split
    BY <1>5, SplitStep
  <1>6. CASE TakeWhole
    BY <1>6, TakeWholeStep
  <1>7. CASE Drop
    BY <1>7, SkipStep DEF Drop
  <1>8. CASE Reshuffle
    BY <1>8, ReshuffleStep
  <1>9. CASE UNCHANGED vars
    <2>1. /\ UNCHANGED <<sizes, layout, pass, stage, unlisted, order, items>>
          /\ UNCHANGED <<at, from, rank, budget, plan>>
      BY <1>9 DEF vars, job, list
    <2>2. /\ Entries' = Entries /\ Intervals' = Intervals
          /\ WorkerIds(layout)' = WorkerIds(layout)
          /\ GlobalNumWorkers(layout)' = GlobalNumWorkers(layout)
          /\ NoPlan(layout)' = NoPlan(layout)
      BY <2>1 DEF Entries, Intervals, WorkerIds, GlobalNumWorkers, WorldSize, NoPlan
    <2>3. TypeOK'
      BY <2>1, <2>2 DEF IInv, TypeOK, Walking
    <2>4. ListInv' /\ ReachInv' /\ CutInv' /\ NothingTwice'
      BY <2>1, <2>2 DEF IInv, ListInv, ReachInv, CutInv, NothingTwice, ListedOnce
    <2> QED BY <2>3, <2>4 DEF IInv
  <1> QED BY <1>1, <1>2, <1>3, <1>4, <1>5, <1>6, <1>7, <1>8, <1>9 DEF Next, Walk, Settled

\* The walk and the lists of every specified behaviour stay within the invariant.
THEOREM Invariance == Spec => []IInv
  <1>1. Init => IInv
    BY InitInv
  <1>2. IInv /\ [Next]_vars => IInv'
    BY StepInv
  <1> QED BY <1>1, <1>2, PTL DEF Spec

\* Every budget and every interval the walk computes is in range, whatever the
\* sizes of the chunks and the layout of the job.
THEOREM AssignmentTypeCorrect == Spec => []TypeOK
  <1>1. IInv => TypeOK
    BY DEF IInv
  <1> QED BY <1>1, Invariance, PTL

\* No sample of a chunk that is listed once is given out twice: in the first pass,
\* whatever the shuffle, workers never share a sample.
THEOREM NoSampleTwice == Spec => []NothingTwice
  <1>1. IInv => NothingTwice
    BY DEF IInv
  <1> QED BY <1>1, Invariance, PTL

-----------------------------------------------------------------------------
(* What the shares add up to. *)

LEMMA Distribute ==
    ASSUME NEW a \in Nat, NEW b \in Nat, NEW c \in Nat PROVE a * (b + c) = a * b + a * c
  BY SMT

LEMMA Commute == ASSUME NEW a \in Nat, NEW b \in Nat PROVE a * b = b * a
  BY SMT

LEMMA DivisionExact ==
    ASSUME NEW a \in Nat, NEW b \in Nat \ {0}
    PROVE  a \div b \in Nat /\ a % b \in 0 .. b - 1 /\ a = b * (a \div b) + (a % b)
  BY SMT

\* The quotient and the remainder are the only ones.
LEMMA DivisionUnique ==
    ASSUME NEW b \in Nat \ {0}, NEW r \in Nat, NEW j \in 0 .. b - 1
    PROVE  (r * b + j) \div b = r /\ (r * b + j) % b = j
  <1> DEFINE a == r * b + j
             q == a \div b
             m == a % b
  <1>1. a \in Nat
    BY Product
  <1>2. q \in Nat /\ m \in 0 .. b - 1 /\ a = b * q + m
    BY <1>1, DivisionExact
  <1>3. b * q + m = b * r + j
    BY <1>2, Commute
  <1> HIDE DEF a, q, m
  <1>4. b * q \in Nat /\ b * r \in Nat
    BY <1>2, Product
  <1>5. ~(q < r)
    <2> SUFFICES ASSUME q < r PROVE FALSE
      OBVIOUS
    <2>1. b * (q + 1) <= b * r
      BY <1>2, Monotone
    <2>2. b * (q + 1) = b * q + b
      BY <1>2, Distribute
    <2> QED BY <1>2, <1>3, <1>4, <2>1, <2>2
  <1>6. ~(r < q)
    <2> SUFFICES ASSUME r < q PROVE FALSE
      OBVIOUS
    <2>1. b * (r + 1) <= b * q
      BY <1>2, Monotone
    <2>2. b * (r + 1) = b * r + b
      BY Distribute
    <2> QED BY <1>2, <1>3, <1>4, <2>1, <2>2
  <1>7. q = r /\ m = j
    BY <1>2, <1>3, <1>4, <1>5, <1>6
  <1> QED BY <1>7 DEF a, q, m

\* A multiple leaves no remainder.
LEMMA MultipleOf == ASSUME NEW b \in Nat \ {0}, NEW r \in Nat PROVE (b * r) % b = 0
  <1>1. (r * b + 0) % b = 0
    BY DivisionUnique
  <1>2. r * b + 0 = b * r
    BY Commute, Product
  <1> QED BY <1>1, <1>2

\* The whole batches of a rank, and the samples that make none.
Batches(l, n) == (n \div l.batch) \div WorldSize(l)
Over(l, n) == n - l.batch * WorldSize(l) * Batches(l, n)

LEMMA BatchFacts ==
    ASSUME NEW l \in Layouts, NEW n \in Nat
    PROVE  /\ Batches(l, n) \in Nat /\ Over(l, n) \in Nat
           /\ Batches(l, n) \div l.workers \in Nat
           /\ Batches(l, n) % l.workers \in 0 .. l.workers - 1
           /\ Batches(l, n) = l.workers * (Batches(l, n) \div l.workers) + (Batches(l, n) % l.workers)
           /\ l.batch * WorldSize(l) * Batches(l, n) + Over(l, n) = n
           /\ Over(l, n) < l.batch * WorldSize(l)
  <1> DEFINE b == l.batch
             r == WorldSize(l)
             q == n \div b
             p == q \div r
  <1>1. b \in Nat \ {0} /\ r \in Nat \ {0} /\ l.workers \in Nat \ {0}
    BY LayoutFacts
  <1>2. p \in Nat /\ b * r * p \in 0 .. n
    BY BatchesFit
  <1>3. q \in Nat /\ n % b \in 0 .. b - 1 /\ n = b * q + (n % b)
    BY <1>1, DivisionExact
  <1>4. q % r \in 0 .. r - 1 /\ q = r * p + (q % r)
    BY <1>1, <1>3, DivisionExact
  <1>5. n < b * r * p + b * r
    <2> HIDE DEF b, r, q, p
    <2>1. r * p \in Nat /\ b * q \in Nat /\ b * r \in Nat /\ b * (r * p) \in Nat
      BY <1>1, <1>2, <1>3, Product
    <2>2. q + 1 <= r * p + r
      BY <1>1, <1>3, <1>4, <2>1
    <2>3. b * (q + 1) <= b * (r * p + r)
      BY <1>1, <1>3, <2>1, <2>2, Monotone
    <2>4. b * (q + 1) = b * q + b
      BY <1>1, <1>3, Distribute
    <2>5. b * (r * p + r) = b * (r * p) + b * r
      BY <1>1, <2>1, Distribute
    <2>6. (b * r) * p = b * (r * p)
      BY <1>1, <1>2, Associative
    <2> QED BY <1>1, <1>3, <2>1, <2>3, <2>4, <2>5, <2>6
  <1>6. /\ p \div l.workers \in Nat /\ p % l.workers \in 0 .. l.workers - 1
        /\ p = l.workers * (p \div l.workers) + (p % l.workers)
    <2> HIDE DEF p
    <2> QED BY <1>1, <1>2, DivisionExact
  <1>7. b * r \in Nat
    BY <1>1, Product
  <1>8. Batches(l, n) = p /\ Over(l, n) = n - b * r * p
    BY DEF Batches, Over
  <1> HIDE DEF p, q
  <1>9. n - b * r * p \in Nat /\ n - b * r * p < b * r /\ b * r * p + (n - b * r * p) = n
    <2> HIDE DEF b, r
    <2> QED BY <1>2, <1>5, <1>7
  <1> QED BY <1>2, <1>6, <1>8, <1>9

\* One worker of rank r gets what is left over.
LeftTo(l, r) == ~l.dropLast /\ r = WorldSize(l) - 1

\* The share of the worker at place j of rank r.
LEMMA ShareIs ==
    ASSUME NEW l \in Layouts, NEW n \in Nat, NEW r \in 0 .. WorldSize(l) - 1, NEW j \in 0 .. l.workers - 1
    PROVE  LET p == Batches(l, n)
           IN  Share(l, n, r * l.workers + j) =
                 l.batch * (p \div l.workers + (IF j < p % l.workers THEN 1 ELSE 0))
                 + (IF LeftTo(l, r) /\ j = p % l.workers THEN Over(l, n) ELSE 0)
  <1>1. l.workers \in Nat \ {0} /\ WorldSize(l) \in Nat
    BY LayoutFacts
  <1>2. (r * l.workers + j) \div l.workers = r /\ (r * l.workers + j) % l.workers = j
    <2> DEFINE k == l.workers
    <2>1. k \in Nat \ {0} /\ r \in Nat /\ j \in 0 .. k - 1
      BY <1>1
    <2> HIDE DEF k
    <2>2. (r * k + j) \div k = r /\ (r * k + j) % k = j
      BY <2>1, DivisionUnique
    <2> QED BY <2>2 DEF k
  <1> DEFINE w == r * l.workers + j
  <1>3. RankOf(l, w) = r /\ w % l.workers = j
    BY <1>2 DEF RankOf
  <1> HIDE DEF w
  <1>4. LET p == Batches(l, n)
        IN  Share(l, n, w) = l.batch * (p \div l.workers + (IF j < p % l.workers THEN 1 ELSE 0))
                 + (IF LeftTo(l, r) /\ j = p % l.workers THEN Over(l, n) ELSE 0)
    BY <1>3 DEF Share, Batches, Over, LeftTo
  <1> QED BY <1>4 DEF w

\* The workers of rank r.
LEMMA RankRange ==
    ASSUME NEW l \in Layouts, NEW r \in 0 .. WorldSize(l) - 1
    PROVE  /\ r * l.workers \in Nat
           /\ r * l.workers .. r * l.workers + l.workers - 1 \subseteq WorkerIds(l)
           /\ {w \in WorkerIds(l) : RankOf(l, w) = r} = r * l.workers .. r * l.workers + l.workers - 1
  <1> DEFINE k == l.workers
             W == WorldSize(l)
  <1>1. k \in Nat \ {0} /\ W \in Nat \ {0} /\ r \in Nat
    BY LayoutFacts
  <1>2. r * k \in Nat /\ W * k \in Nat
    BY <1>1, Product
  <1>3. r * k + k <= W * k
    <2> HIDE DEF k, W
    <2>1. k * (r + 1) <= k * W
      BY <1>1, Monotone DEF W
    <2>2. k * (r + 1) = k * r + k /\ k * r = r * k /\ k * W = W * k
      BY <1>1, Distribute, Commute
    <2> QED BY <1>1, <1>2, <2>1, <2>2
  <1>4. WorkerIds(l) = 0 .. W * k - 1
    BY DEF WorkerIds, GlobalNumWorkers
  <1>5. ASSUME NEW j \in 0 .. k - 1 PROVE r * k + j \in WorkerIds(l) /\ RankOf(l, r * k + j) = r
    <2>1. (r * k + j) \div k = r
      BY <1>1, DivisionUnique
    <2>2. r * k + j \in 0 .. W * k - 1
      <3> HIDE DEF k, W
      <3> QED BY <1>1, <1>2, <1>3
    <2> QED BY <1>4, <2>1, <2>2 DEF RankOf
  <1>6. ASSUME NEW w \in WorkerIds(l), RankOf(l, w) = r PROVE w \in r * k .. r * k + k - 1
    <2>0. w \in Nat
      BY <1>4
    <2>1. w % k \in 0 .. k - 1 /\ w = k * (w \div k) + (w % k)
      <3> HIDE DEF k
      <3> QED BY <1>1, <2>0, DivisionExact
    <2>2. w = k * r + (w % k) /\ k * r = r * k
      <3>1. w \div k = r
        BY <1>6 DEF RankOf
      <3>2. w = k * r + (w % k)
        BY <2>1, <3>1
      <3> HIDE DEF k
      <3> QED BY <1>1, <3>2, Commute
    <2> HIDE DEF k
    <2> QED BY <1>1, <1>2, <2>1, <2>2
  <1>7. ASSUME NEW w \in r * k .. r * k + k - 1 PROVE w \in WorkerIds(l) /\ RankOf(l, w) = r
    <2>1. w - r * k \in 0 .. k - 1 /\ w = r * k + (w - r * k)
      <3> HIDE DEF k
      <3> QED BY <1>1, <1>2
    <2> HIDE DEF k
    <2> QED BY <1>5, <2>1
  <1> QED BY <1>2, <1>6, <1>7
\* What the workers of a rank get together: whole batches, and what is left over.
LEMMA RankSum ==
    ASSUME NEW l \in Layouts, NEW n \in Nat, NEW r \in 0 .. WorldSize(l) - 1
    PROVE  SumFunctionOnSet(Shares(l, n), {w \in WorkerIds(l) : RankOf(l, w) = r})
             = l.batch * Batches(l, n) + (IF LeftTo(l, r) THEN Over(l, n) ELSE 0)
  <1> DEFINE k == l.workers
             b == l.batch
             p == Batches(l, n)
             d == p \div k
             e == p % k
             over == Over(l, n)
             last == LeftTo(l, r)
             f == Shares(l, n)
             a == r * k
             Least(j) == IF j < e THEN j ELSE e
             More(j) == IF last /\ e < j THEN over ELSE 0
             Adds(j) == SumFunctionOnSet(f, a .. a + j - 1) = b * (j * d + Least(j)) + More(j)
             T == {j \in Nat : j <= k => Adds(j)}
  <1>1. /\ k \in Nat \ {0} /\ b \in Nat \ {0} /\ p \in Nat /\ over \in Nat
        /\ d \in Nat /\ e \in 0 .. k - 1 /\ p = k * d + e
    BY LayoutFacts, BatchFacts
  <1>2. /\ a \in Nat
        /\ {w \in WorkerIds(l) : RankOf(l, w) = r} = a .. a + k - 1
        /\ a .. a + k - 1 \subseteq WorkerIds(l)
    BY RankRange
  <1>3. \A w \in WorkerIds(l) : f[w] \in Nat
    BY SharesType
  <1>4. ASSUME NEW j \in 0 .. k - 1
        PROVE  /\ a + j \in WorkerIds(l)
               /\ f[a + j] = b * (d + (IF j < e THEN 1 ELSE 0)) + (IF last /\ j = e THEN over ELSE 0)
    <2>1. a + j \in WorkerIds(l)
      <3> HIDE DEF k, a
      <3> QED BY <1>1, <1>2
    <2>2. f[a + j] = Share(l, n, a + j)
      BY <2>1 DEF Shares
    <2> QED BY <2>1, <2>2, ShareIs
  <1> HIDE DEF k, b, p, d, e, over, last, f, a
  <1>5. 0 \in T
    <2>1. Adds(0)
      <3>1. a .. a + 0 - 1 = {}
        BY <1>2
      <3>2. b * (0 * d + Least(0)) = 0 /\ More(0) = 0
        BY <1>1
      <3>3. SumFunctionOnSet(f, a .. a + 0 - 1) = 0
        BY <3>1, SumEmpty
      <3> HIDE DEF Least, More
      <3> QED BY <3>2, <3>3
    <2> QED BY <2>1
  <1>6. ASSUME NEW j \in T PROVE j + 1 \in T
    <2> SUFFICES ASSUME j + 1 <= k PROVE Adds(j + 1)
      OBVIOUS
    <2>0. j \in Nat /\ j \in 0 .. k - 1
      BY <1>1
    <2> DEFINE S == a .. a + j - 1
               one == IF j < e THEN 1 ELSE 0
               extra == IF last /\ j = e THEN over ELSE 0
    <2>1. SumFunctionOnSet(f, S) = b * (j * d + Least(j)) + More(j)
      <3>1. j <= k
        BY <1>1, <2>0
      <3> HIDE DEF S, Least, More
      <3> QED BY <3>1 DEF S
    <2>2. SumFunctionOnSet(f, a .. a + (j + 1) - 1) = SumFunctionOnSet(f, S) + f[a + j]
      <3>1. a .. a + (j + 1) - 1 = S \union {a + j} /\ a + j \notin S
        BY <1>1, <1>2, <2>0
      <3>2. IsFiniteSet(S)
        BY <1>2, <2>0, FS_Interval
      <3>3. \A x \in S \union {a + j} : f[x] \in Nat
        <4>1. S \union {a + j} \subseteq a .. a + k - 1
          BY <1>1, <1>2, <2>0
        <4> HIDE DEF S
        <4> QED BY <1>2, <1>3, <4>1
      <3> HIDE DEF S
      <3> QED BY ZenonT(60), <3>1, <3>2, <3>3, SumAdd
    <2>3. f[a + j] = b * (d + one) + extra
      BY <1>4, <2>0
    <2>4. (j + 1) * d = j * d + d /\ j * d \in Nat
      <3>1. d * (j + 1) = d * j + d * 1 /\ d * 1 = d
        BY <1>1, <2>0, Distribute
      <3>2. d * (j + 1) = (j + 1) * d /\ d * j = j * d /\ j * d \in Nat
        BY <1>1, <2>0, Commute, Product
      <3> QED BY <3>1, <3>2
    <2>5. Least(j + 1) = Least(j) + one /\ More(j + 1) = More(j) + extra /\ Least(j) \in Nat /\ one \in Nat
      BY <1>1, <2>0
    <2> HIDE DEF one, extra, Least, More, S
    <2>6. b * ((j * d + Least(j)) + (d + one)) = b * (j * d + Least(j)) + b * (d + one)
      BY <1>1, <2>4, <2>5, Distribute
    <2>7. (j + 1) * d + Least(j + 1) = (j * d + Least(j)) + (d + one)
      BY <1>1, <2>4, <2>5
    <2>8. b * (j * d + Least(j)) \in Nat /\ b * (d + one) \in Nat /\ More(j) \in Nat /\ extra \in Nat
      <3>1. More(j) \in Nat /\ extra \in Nat
        BY <1>1 DEF More, extra
      <3>2. j * d + Least(j) \in Nat /\ d + one \in Nat /\ b \in Nat
        BY SMTT(30), <1>1, <2>4, <2>5
      <3>3. b * (j * d + Least(j)) \in Nat
        BY <3>2, Product
      <3>4. b * (d + one) \in Nat
        BY <3>2, Product
      <3> QED BY <3>1, <3>3, <3>4
    <2>9. SumFunctionOnSet(f, a .. a + (j + 1) - 1)
              = (b * (j * d + Least(j)) + More(j)) + (b * (d + one) + extra)
      BY <2>1, <2>2, <2>3
    <2>10. SumFunctionOnSet(f, a .. a + (j + 1) - 1) = b * ((j + 1) * d + Least(j + 1)) + More(j + 1)
      BY <2>5, <2>6, <2>7, <2>8, <2>9
    <2> QED BY <2>10
  <1>7. T = Nat
    <2> HIDE DEF T
    <2>1. T \subseteq Nat
      BY DEF T
    <2> QED BY <1>5, <1>6, <2>1, Induct
  <1>8. Adds(k)
    <2>1. k \in T /\ k <= k
      <3> HIDE DEF T
      <3> QED BY <1>1, <1>7
    <2> HIDE DEF Adds
    <2> QED BY <2>1
  <1>9. k * d + Least(k) = p /\ More(k) = IF last THEN over ELSE 0
    BY <1>1
  <1>10. SumFunctionOnSet(f, a .. a + k - 1) = b * p + (IF last THEN over ELSE 0)
    <2> HIDE DEF Least, More
    <2> QED BY <1>8, <1>9
  <1> HIDE DEF Adds, T
  <1> QED BY <1>2, <1>10 DEF b, p, last, over, f
\* What all workers get together.
LEMMA TotalSum ==
    ASSUME NEW l \in Layouts, NEW n \in Nat
    PROVE  SumFunctionOnSet(Shares(l, n), WorkerIds(l)) = IF l.dropLast THEN n - Over(l, n) ELSE n
  <1> DEFINE k == l.workers
             b == l.batch
             world == WorldSize(l)
             p == Batches(l, n)
             over == Over(l, n)
             f == Shares(l, n)
             drop == l.dropLast
             Upto(q) == 0 .. q * k - 1
             More(q) == IF ~drop /\ q = world THEN over ELSE 0
             Adds(q) == SumFunctionOnSet(f, Upto(q)) = q * (b * p) + More(q)
             T == {q \in Nat : q <= world => Adds(q)}
  <1>1. /\ k \in Nat \ {0} /\ b \in Nat \ {0} /\ world \in Nat \ {0}
        /\ p \in Nat /\ over \in Nat /\ b * world * p + over = n
    BY LayoutFacts, BatchFacts
  <1>2. \A w \in WorkerIds(l) : f[w] \in Nat
    BY SharesType
  <1>3. WorkerIds(l) = Upto(world)
    BY DEF WorkerIds, GlobalNumWorkers
  <1>4. ASSUME NEW q \in 0 .. world - 1
        PROVE  /\ q * k .. q * k + k - 1 \subseteq WorkerIds(l)
               /\ SumFunctionOnSet(f, q * k .. q * k + k - 1)
                    = b * p + (IF ~drop /\ q = world - 1 THEN over ELSE 0)
    BY RankRange, RankSum DEF LeftTo
  <1> HIDE DEF k, b, world, p, over, f, drop
  <1>5. 0 \in T
    <2>1. Upto(0) = {} /\ 0 * (b * p) = 0 /\ More(0) = 0
      <3>1. b * p \in Nat
        BY <1>1, Product
      <3> HIDE DEF b, p
      <3> QED BY <1>1, <3>1
    <2>2. SumFunctionOnSet(f, Upto(0)) = 0
      <3> HIDE DEF Upto
      <3> QED BY <2>1, SumEmpty
    <2>3. Adds(0)
      <3> HIDE DEF Upto, More
      <3> QED BY <2>1, <2>2
    <2> HIDE DEF Adds
    <2> QED BY <2>3
  <1>6. ASSUME NEW q \in T PROVE q + 1 \in T
    <2> SUFFICES ASSUME q + 1 <= world PROVE Adds(q + 1)
      OBVIOUS
    <2>0. q \in Nat /\ q \in 0 .. world - 1
      BY <1>1
    <2> DEFINE U == q * k .. q * k + k - 1
               extra == IF ~drop /\ q = world - 1 THEN over ELSE 0
    <2>1. SumFunctionOnSet(f, Upto(q)) = q * (b * p) + More(q)
      <3>1. q <= world
        BY <1>1, <2>0
      <3>2. Adds(q)
        <4> HIDE DEF Adds
        <4> QED BY <3>1
      <3> HIDE DEF Upto, More
      <3> QED BY <3>2
    <2>2. q * k \in Nat /\ (q + 1) * k = q * k + k
      <3>1. k * (q + 1) = k * q + k * 1 /\ k * 1 = k
        BY <1>1, <2>0, Distribute
      <3>2. k * (q + 1) = (q + 1) * k /\ k * q = q * k /\ q * k \in Nat
        BY <1>1, <2>0, Commute, Product
      <3> QED BY <3>1, <3>2
    <2>3. Upto(q + 1) = Upto(q) \union U /\ Upto(q) \intersect U = {} /\ Upto(q) \subseteq WorkerIds(l)
      <3> DEFINE m == q * k
                 m2 == (q + 1) * k
                 m3 == world * k
      <3>1. m \in Nat /\ m2 = m + k
        BY <2>2
      <3>2. m2 <= m3 /\ m3 \in Nat
        <4>1. k * (q + 1) <= k * world
          BY <1>1, <2>0, Monotone
        <4>2. k * (q + 1) = (q + 1) * k /\ k * world = world * k /\ world * k \in Nat
          BY <1>1, <2>0, Commute, Product
        <4> QED BY <4>1, <4>2
      <3> HIDE DEF m, m2, m3
      <3>3. /\ 0 .. m2 - 1 = (0 .. m - 1) \union (m .. m + k - 1)
            /\ (0 .. m - 1) \intersect (m .. m + k - 1) = {}
            /\ 0 .. m - 1 \subseteq 0 .. m3 - 1
        BY <1>1, <3>1, <3>2
      <3> QED BY <1>3, <3>3 DEF m, m2, m3
    <2>4. SumFunctionOnSet(f, Upto(q + 1)) = SumFunctionOnSet(f, Upto(q)) + SumFunctionOnSet(f, U)
      <3>1. IsFiniteSet(Upto(q)) /\ IsFiniteSet(U)
        BY <1>1, <2>2, FS_Interval
      <3>2. U \subseteq WorkerIds(l)
        BY <1>4, <2>0
      <3> HIDE DEF Upto, U
      <3> QED BY <1>2, <2>3, <3>1, <3>2, SumUnion
    <2>5. SumFunctionOnSet(f, U) = b * p + extra
      BY <1>4, <2>0
    <2>6. More(q + 1) = More(q) + extra /\ More(q) \in Nat /\ extra \in Nat
      BY <1>1, <2>0
    <2>7. (q + 1) * (b * p) = q * (b * p) + b * p /\ q * (b * p) \in Nat /\ b * p \in Nat
      <3>1. b * p \in Nat
        BY <1>1, Product
      <3>2. (b * p) * (q + 1) = (b * p) * q + (b * p) * 1 /\ (b * p) * 1 = b * p
        BY <2>0, <3>1, Distribute
      <3>3. (b * p) * (q + 1) = (q + 1) * (b * p) /\ (b * p) * q = q * (b * p) /\ q * (b * p) \in Nat
        BY <2>0, <3>1, Commute, Product
      <3> QED BY <3>1, <3>2, <3>3
    <2> HIDE DEF Upto, U, More, extra
    <2> QED BY <2>1, <2>4, <2>5, <2>6, <2>7
  <1>7. T = Nat
    <2> HIDE DEF T
    <2>1. T \subseteq Nat
      BY DEF T
    <2> QED BY <1>5, <1>6, <2>1, Induct
  <1>8. Adds(world)
    <2>1. world \in T /\ world <= world
      <3> HIDE DEF T
      <3> QED BY <1>1, <1>7
    <2> HIDE DEF Adds
    <2> QED BY <2>1
  <1>9. world * (b * p) = b * world * p /\ b * world * p \in Nat
    <2>1. (b * world) * p = b * (world * p) /\ (world * b) * p = world * (b * p)
      BY <1>1, Associative
    <2>2. b * world = world * b /\ b * world \in Nat
      BY <1>1, Commute, Product
    <2>3. (b * world) * p \in Nat
      BY <1>1, <2>2, Product
    <2> QED BY <2>1, <2>2, <2>3
  <1>10. SumFunctionOnSet(f, Upto(world)) = b * world * p + (IF ~drop THEN over ELSE 0)
    <2> HIDE DEF Upto
    <2> QED BY <1>1, <1>8, <1>9
  <1>11. SumFunctionOnSet(f, Upto(world)) = IF drop THEN n - over ELSE n
    <2> HIDE DEF Upto
    <2> QED BY <1>1, <1>9, <1>10
  <1> QED BY <1>3, <1>11 DEF f, drop, over
-----------------------------------------------------------------------------
(* What the walk gives and what it may still give. *)

\* The samples of the chunks of the list.
Listed == [k \in DOMAIN order |-> sizes[order[k]]]

\* num_items counts them.
ItemsInv == items = SumFunctionOnSet(Listed, DOMAIN order)

\* A worker has been given what its budget has lost, the workers that were passed over
\* have spent theirs, and the samples that are left are enough for all budgets.
SpendInv == stage = "walk" =>
    /\ \A w \in WorkerIds(layout) : Given(w) + budget[w] = Share(layout, items, w)
    /\ \A w \in WorkerIds(layout) : w < rank => budget[w] = 0
    /\ at > Len(order) => from = 0
    /\ SumFunctionOnSet(budget, WorkerIds(layout)) + from
         <= SumFunctionOnSet(Listed, at .. Len(order))

\* The lengths of intervals.
Lengths(s) == [i \in DOMAIN s |-> s[i].last - s[i].first]

\* Proper intervals, as TypeOK has them.
Proper(s) == s \in Seq(Intervals) /\ \A i \in DOMAIN s : s[i].first < s[i].last

LEMMA LengthsType ==
    ASSUME NEW s, Proper(s)
    PROVE  IsFiniteSet(DOMAIN s) /\ \A i \in DOMAIN s : Lengths(s)[i] \in Nat
  <1>1. ASSUME NEW i \in DOMAIN s PROVE Lengths(s)[i] \in Nat
    <2>1. s[i] \in Intervals /\ s[i].first < s[i].last
      BY DEF Proper
    <2>2. s[i].first \in Nat /\ s[i].last \in Nat
      BY <2>1 DEF Intervals
    <2> QED BY <2>1, <2>2 DEF Lengths
  <1>2. IsFiniteSet(DOMAIN s)
    <2>1. DOMAIN s = 1 .. Len(s) /\ Len(s) \in Nat
      BY DEF Proper
    <2> QED BY <2>1, FS_Interval
  <1> QED BY <1>1, <1>2

\* One interval more.
LEMMA LengthsAppend ==
    ASSUME NEW s, Proper(s), NEW x \in Intervals, x.first < x.last
    PROVE  /\ SumFunction(Lengths(s)) \in Nat
           /\ SumFunction(Lengths(Append(s, x))) = SumFunction(Lengths(s)) + (x.last - x.first)
  <1> DEFINE t == Append(s, x)
             n == Len(s) + 1
  <1>1. s \in Seq(Intervals) /\ DOMAIN s = 1 .. Len(s) /\ Len(s) \in Nat
    BY DEF Proper
  <1>2. /\ DOMAIN t = DOMAIN s \union {n} /\ n \notin DOMAIN s
        /\ t[n] = x /\ \A i \in DOMAIN s : t[i] = s[i]
    BY <1>1
  <1>3. x.last - x.first \in Nat
    BY DEF Intervals
  <1> HIDE DEF t, n
  <1>4. /\ \A i \in DOMAIN s : Lengths(t)[i] = Lengths(s)[i]
        /\ Lengths(t)[n] = x.last - x.first
        /\ DOMAIN Lengths(t) = DOMAIN s \union {n} /\ DOMAIN Lengths(s) = DOMAIN s
    BY <1>2 DEF Lengths
  <1>5. IsFiniteSet(DOMAIN s) /\ \A i \in DOMAIN s : Lengths(s)[i] \in Nat
    BY LengthsType
  <1>6. \A i \in DOMAIN s \union {n} : Lengths(t)[i] \in Nat
    BY <1>3, <1>4, <1>5
  <1>7. SumFunctionOnSet(Lengths(t), DOMAIN s \union {n})
            = SumFunctionOnSet(Lengths(t), DOMAIN s) + (x.last - x.first)
    BY <1>2, <1>4, <1>5, <1>6, SumAdd
  <1>8. SumFunctionOnSet(Lengths(t), DOMAIN s) = SumFunctionOnSet(Lengths(s), DOMAIN s)
    BY <1>4, <1>5, SumSame
  <1>9. SumFunctionOnSet(Lengths(s), DOMAIN s) \in Nat
    BY <1>5, SumType
  <1>10. /\ SumFunction(Lengths(s)) = SumFunctionOnSet(Lengths(s), DOMAIN s)
         /\ SumFunction(Lengths(t)) = SumFunctionOnSet(Lengths(t), DOMAIN s \union {n})
    BY <1>4 DEF SumFunction
  <1> QED BY <1>7, <1>8, <1>9, <1>10 DEF t

LEMMA PlanProper ==
    ASSUME TypeOK, NEW w \in WorkerIds(layout)
    PROVE  Proper(plan[w]) /\ Given(w) = SumFunction(Lengths(plan[w])) /\ Given(w) \in Nat
  <1>1. plan[w] \in Seq(Intervals)
    BY DEF TypeOK
  <1>2. \A i \in DOMAIN plan[w] : plan[w][i].first < plan[w][i].last
    BY DEF TypeOK
  <1>3. Proper(plan[w])
    BY <1>1, <1>2 DEF Proper
  <1>4. Given(w) = SumFunction(Lengths(plan[w]))
    BY DEF Given, Lengths
  <1>5. SumFunction(Lengths(plan[w])) \in Nat
    <2>1. IsFiniteSet(DOMAIN plan[w]) /\ \A i \in DOMAIN plan[w] : Lengths(plan[w])[i] \in Nat
      BY <1>3, LengthsType
    <2>2. DOMAIN Lengths(plan[w]) = DOMAIN plan[w]
      BY DEF Lengths
    <2> QED BY <2>1, <2>2, SumType DEF SumFunction
  <1> QED BY <1>3, <1>4, <1>5

\* What Give does to the samples given.
LEMMA GiveGiven ==
    ASSUME TypeOK, Walking, rank \in WorkerIds(layout), layout' = layout, sizes' = sizes,
           NEW x \in Nat, from < x, Give(rank, from, x)
    PROVE  \A w \in WorkerIds(layout) :
               Given(w)' = IF w = rank THEN Given(w) + (x - from) ELSE Given(w)
  <1> DEFINE new == [chunk |-> order[at], first |-> from, last |-> x]
  <1>0. plan \in [WorkerIds(layout) -> Seq(Intervals)]
    BY DEF TypeOK
  <1>1. /\ plan'[rank] = Append(plan[rank], new)
        /\ \A w \in WorkerIds(layout) : w # rank => plan'[w] = plan[w]
    BY <1>0 DEF Give
  <1>2. new \in Intervals /\ new.first = from /\ new.last = x
    <2>1. at \in DOMAIN order /\ from \in Nat
      BY DEF TypeOK, Walking
    <2>2. order[at] \in DOMAIN sizes
      BY <2>1 DEF TypeOK
    <2> QED BY <2>1, <2>2 DEF Intervals
  <1>3. \A w \in WorkerIds(layout) : Given(w)' = SumFunction(Lengths(plan'[w]))
    BY DEF Given, Lengths
  <1>4. Proper(plan[rank]) /\ \A w \in WorkerIds(layout) : Given(w) = SumFunction(Lengths(plan[w]))
    BY PlanProper
  <1> HIDE DEF new
  <1>5. SumFunction(Lengths(Append(plan[rank], new))) = SumFunction(Lengths(plan[rank])) + (x - from)
    BY <1>2, <1>4, LengthsAppend
  <1> QED BY <1>1, <1>3, <1>4, <1>5
LEMMA ListedFacts ==
    ASSUME TypeOK
    PROVE  /\ DOMAIN Listed = DOMAIN order /\ DOMAIN order = 1 .. Len(order) /\ Len(order) \in Nat
           /\ IsFiniteSet(DOMAIN order) /\ IsFiniteSet(WorkerIds(layout))
           /\ \A k \in DOMAIN order : Listed[k] \in Nat /\ Listed[k] = sizes[order[k]]
  <1>1. DOMAIN order = 1 .. Len(order) /\ Len(order) \in Nat /\ \A k \in DOMAIN order : order[k] \in DOMAIN sizes
    BY DEF TypeOK
  <1>2. \A c \in DOMAIN sizes : sizes[c] \in Nat
    BY DEF TypeOK
  <1>3. IsFiniteSet(1 .. Len(order))
    BY <1>1, FS_Interval
  <1>4. IsFiniteSet(WorkerIds(layout))
    <2>1. GlobalNumWorkers(layout) \in Nat
      BY LayoutFacts DEF TypeOK
    <2> QED BY <2>1, FS_Interval DEF WorkerIds
  <1> QED BY <1>1, <1>2, <1>3, <1>4 DEF Listed

\* The samples from the current chunk on.
LEMMA AheadFacts ==
    ASSUME TypeOK, Walking
    PROVE  /\ SumFunctionOnSet(Listed, at + 1 .. Len(order)) \in Nat
           /\ SumFunctionOnSet(Listed, at .. Len(order))
                = sizes[order[at]] + SumFunctionOnSet(Listed, at + 1 .. Len(order))
  <1> DEFINE S == at .. Len(order)
             R == at + 1 .. Len(order)
  <1>1. /\ Len(order) \in Nat /\ IsFiniteSet(DOMAIN order) /\ DOMAIN order = 1 .. Len(order)
        /\ \A k \in DOMAIN order : Listed[k] \in Nat /\ Listed[k] = sizes[order[k]]
    BY ListedFacts
  <1>2. at \in 1 .. Len(order)
    BY DEF TypeOK, Walking
  <1>3. R = S \ {at} /\ at \in S /\ at \in DOMAIN order /\ S \subseteq DOMAIN order /\ R \subseteq DOMAIN order
    BY <1>1, <1>2
  <1> HIDE DEF S, R
  <1>4. IsFiniteSet(S) /\ IsFiniteSet(R)
    BY <1>1, <1>3, FS_Subset
  <1>5. SumFunctionOnSet(Listed, S) = Listed[at] + SumFunctionOnSet(Listed, R)
    BY <1>1, <1>3, <1>4, SumTakeOut
  <1>6. SumFunctionOnSet(Listed, R) \in Nat
    BY <1>1, <1>3, <1>4, SumType
  <1> QED BY <1>1, <1>3, <1>5, <1>6 DEF S, R

\* A step that leaves the list alone.
LEMMA ListKept ==
    ASSUME UNCHANGED <<job, list>>
    PROVE  /\ Listed' = Listed /\ order' = order /\ items' = items /\ stage' = stage /\ layout' = layout
           /\ sizes' = sizes /\ WorkerIds(layout)' = WorkerIds(layout)
           /\ ItemsInv => ItemsInv'
           /\ \A w : Share(layout, items, w)' = Share(layout, items, w)
  <1>1. order' = order /\ items' = items /\ stage' = stage /\ layout' = layout /\ sizes' = sizes
    BY DEF job, list
  <1>2. Listed' = Listed
    BY <1>1 DEF Listed
  <1>3. ItemsInv => ItemsInv'
    BY <1>1, <1>2 DEF ItemsInv
  <1>4. \A w : Share(layout, items, w)' = Share(layout, items, w)
    BY <1>1 DEF Share, WorldSize, RankOf
  <1> QED BY <1>1, <1>2, <1>3, <1>4 DEF WorkerIds, GlobalNumWorkers, WorldSize

LEMMA BudgetFacts ==
    ASSUME TypeOK
    PROVE  /\ \A w \in WorkerIds(layout) : budget[w] \in Nat
           /\ SumFunctionOnSet(budget, WorkerIds(layout)) \in Nat
           /\ from \in Nat /\ at \in Nat
  <1>1. \A w \in WorkerIds(layout) : budget[w] \in Nat
    BY DEF TypeOK
  <1>2. IsFiniteSet(WorkerIds(layout))
    BY ListedFacts
  <1>3. SumFunctionOnSet(budget, WorkerIds(layout)) \in Nat
    BY <1>1, <1>2, SumType
  <1> QED BY <1>1, <1>3 DEF TypeOK

LEMMA SpendInit == Begin => ItemsInv /\ SpendInv
  <1> SUFFICES ASSUME Begin PROVE ItemsInv /\ SpendInv
    OBVIOUS
  <1>1. DOMAIN order = {} /\ items = 0 /\ stage = "list"
    BY DEF Begin
  <1> QED BY <1>1, SumEmpty DEF ItemsInv, SpendInv

LEMMA ItemsList == ASSUME IInv, ItemsInv, List PROVE ItemsInv' /\ SpendInv'
  <1>1. PICK e \in unlisted : order' = Append(order, e.chunk) /\ items' = items + sizes[e.chunk]
    BY DEF List
  <1>2. stage' = "list" /\ sizes' = sizes
    BY DEF List, job
  <1>3. e.chunk \in DOMAIN sizes /\ sizes[e.chunk] \in Nat
    BY DEF IInv, TypeOK, Entries
  <1>4. /\ DOMAIN Listed = DOMAIN order /\ DOMAIN order = 1 .. Len(order) /\ Len(order) \in Nat
        /\ IsFiniteSet(DOMAIN order)
        /\ \A k \in DOMAIN order : Listed[k] \in Nat /\ Listed[k] = sizes[order[k]]
    BY ListedFacts DEF IInv
  <1> DEFINE n == Len(order) + 1
  <1>5. /\ DOMAIN order' = DOMAIN order \union {n} /\ n \notin DOMAIN order
        /\ order'[n] = e.chunk /\ \A k \in DOMAIN order : order'[k] = order[k]
    <2>1. order \in Seq(DOMAIN sizes)
      BY DEF IInv, TypeOK
    <2> QED BY <1>1, <1>3, <2>1
  <1> HIDE DEF n
  <1>6. \A k \in DOMAIN order \union {n} : Listed'[k] = sizes[order'[k]]
    BY <1>2, <1>5 DEF Listed
  <1>7. /\ \A k \in DOMAIN order : Listed'[k] = Listed[k]
        /\ Listed'[n] = sizes[e.chunk] /\ \A k \in DOMAIN order \union {n} : Listed'[k] \in Nat
    BY <1>3, <1>4, <1>5, <1>6
  <1>8. SumFunctionOnSet(Listed', DOMAIN order \union {n}) = SumFunctionOnSet(Listed', DOMAIN order) + sizes[e.chunk]
    <2> DEFINE S == DOMAIN order
               f == Listed'
    <2>1. IsFiniteSet(S) /\ n \notin S /\ \A k \in S \union {n} : f[k] \in Nat
      BY <1>4, <1>5, <1>7
    <2> HIDE DEF S, f
    <2>2. SumFunctionOnSet(f, S \union {n}) = SumFunctionOnSet(f, S) + f[n]
      BY <2>1, SumAdd
    <2> QED BY <1>7, <2>2 DEF S, f
  <1>9. SumFunctionOnSet(Listed', DOMAIN order) = SumFunctionOnSet(Listed, DOMAIN order)
    BY <1>4, <1>7, SumSame
  <1>10. ItemsInv'
    BY <1>1, <1>5, <1>8, <1>9 DEF ItemsInv
  <1> QED BY <1>2, <1>10 DEF SpendInv

LEMMA SpendDeal == ASSUME IInv, ItemsInv, Deal PROVE ItemsInv' /\ SpendInv'
  <1>1. /\ stage = "list" /\ budget' = Shares(layout, items)
        /\ UNCHANGED <<order, items, at, from, rank, plan>>
        /\ sizes' = sizes /\ layout' = layout
    BY DEF Deal, job
  <1>2. plan = NoPlan(layout) /\ at = 1 /\ from = 0 /\ rank = 0
    BY <1>1 DEF IInv, ListInv
  <1>3. /\ Listed' = Listed /\ WorkerIds(layout)' = WorkerIds(layout)
        /\ \A w : Share(layout, items, w)' = Share(layout, items, w)
    BY <1>1 DEF Listed, WorkerIds, GlobalNumWorkers, Share, WorldSize, RankOf
  <1>4. ItemsInv'
    BY <1>1, <1>3 DEF ItemsInv
  <1>5. layout \in Layouts /\ items \in Nat
    BY DEF IInv, TypeOK
  <1>6. ASSUME NEW w \in WorkerIds(layout)
        PROVE  Given(w)' = 0 /\ budget'[w] = Share(layout, items, w) /\ budget'[w] \in Nat
    <2>1. DOMAIN plan'[w] = {}
      BY <1>1, <1>2 DEF NoPlan
    <2>2. DOMAIN Lengths(plan'[w]) = {}
      BY <2>1 DEF Lengths
    <2>3. Given(w)' = SumFunctionOnSet(Lengths(plan'[w]), {})
      BY <2>2 DEF Given, Lengths, SumFunction
    <2> QED BY <1>1, <1>5, <2>3, SumEmpty, ShareType DEF Shares
  <1>7. SumFunctionOnSet(budget', WorkerIds(layout)) <= items
    <2>1. Over(layout, items) \in Nat
      BY <1>5, BatchFacts
    <2>2. SumFunctionOnSet(budget', WorkerIds(layout))
              = IF layout.dropLast THEN items - Over(layout, items) ELSE items
      BY <1>1, <1>5, TotalSum
    <2> QED BY <1>5, <2>1, <2>2
  <1>8. SumFunctionOnSet(budget', WorkerIds(layout)) + from <= SumFunctionOnSet(Listed, at .. Len(order))
    <2>1. DOMAIN order = at .. Len(order)
      BY <1>2, ListedFacts DEF IInv
    <2>2. SumFunctionOnSet(budget', WorkerIds(layout)) \in Nat
      <3>1. IsFiniteSet(WorkerIds(layout))
        BY ListedFacts DEF IInv
      <3> QED BY <1>6, <3>1, SumType
    <2> QED BY <1>2, <1>5, <1>7, <2>1, <2>2 DEF ItemsInv
  <1>9. \A w \in WorkerIds(layout) : ~(w < rank)
    BY <1>2, NodeType, <1>5
  <1> QED BY <1>1, <1>2, <1>3, <1>4, <1>6, <1>8, <1>9 DEF SpendInv
LEMMA SpendReshuffle == ASSUME Reshuffle PROVE ItemsInv' /\ SpendInv'
  <1>1. order' = << >> /\ items' = 0 /\ stage' = "list"
    BY DEF Reshuffle
  <1>2. DOMAIN order' = {}
    BY <1>1
  <1>3. SumFunctionOnSet(Listed', DOMAIN order') = 0
    BY <1>2, SumEmpty
  <1> QED BY <1>1, <1>3 DEF ItemsInv, SpendInv

LEMMA SpendPassOver == ASSUME IInv, SpendInv, PassOver PROVE SpendInv'
  <1>1. /\ Walking /\ budget[rank] = 0 /\ rank' = rank + 1
        /\ UNCHANGED <<job, list, at, from, budget, plan>>
    BY DEF PassOver
  <1>2. /\ Listed' = Listed /\ order' = order /\ stage' = stage /\ WorkerIds(layout)' = WorkerIds(layout)
        /\ \A w : Share(layout, items, w)' = Share(layout, items, w)
    BY <1>1, ListKept
  <1>3. \A w \in WorkerIds(layout) : Given(w)' = Given(w)
    BY <1>1 DEF Given
  <1>4. \A w \in WorkerIds(layout) : w < rank' => budget[w] = 0
    <2>1. rank \in Nat /\ stage = "walk"
      BY <1>1, LayoutFacts DEF IInv, TypeOK, Walking
    <2>2. \A w \in WorkerIds(layout) : w \in Nat
      BY NodeType DEF IInv, TypeOK
    <2> QED BY <1>1, <2>1, <2>2 DEF SpendInv
  <1> QED BY <1>1, <1>2, <1>3, <1>4 DEF SpendInv

\* Nothing is given and the next chunk is looked at: nothing was left of this one, or
\* nobody may take any more.
LEMMA SpendSkip ==
    ASSUME IInv, SpendInv, Walking, ToNextChunk, UNCHANGED <<job, list, budget, plan>>,
           Rest = 0 \/ rank = GlobalNumWorkers(layout)
    PROVE  SpendInv'
  <1>1. /\ Listed' = Listed /\ order' = order /\ stage' = stage /\ WorkerIds(layout)' = WorkerIds(layout)
        /\ \A w : Share(layout, items, w)' = Share(layout, items, w)
    BY ListKept
  <1>2. \A w \in WorkerIds(layout) : Given(w)' = Given(w)
    BY DEF Given
  <1>3. at' = at + 1 /\ from' = 0 /\ rank' = 0 /\ budget' = budget /\ stage = "walk"
    BY DEF ToNextChunk, Walking
  <1>4. \A w \in WorkerIds(layout) : ~(w < 0)
    BY NodeType DEF IInv, TypeOK
  <1> DEFINE sum == SumFunctionOnSet(budget, WorkerIds(layout))
             ahead == SumFunctionOnSet(Listed, at + 1 .. Len(order))
             size == sizes[order[at]]
  <1>5. ahead \in Nat /\ sum + from <= size + ahead
    BY <1>3, AheadFacts DEF IInv, SpendInv
  <1>6. sum \in Nat /\ from \in Nat
    BY BudgetFacts DEF IInv
  <1>7. size \in Nat
    <2>1. at \in DOMAIN order
      BY DEF IInv, TypeOK, Walking
    <2>2. order[at] \in DOMAIN sizes
      BY <2>1 DEF IInv, TypeOK
    <2> QED BY <2>2 DEF IInv, TypeOK
  <1>8. sum <= ahead
    <2>1. CASE Rest = 0
      <3> HIDE DEF sum, ahead
      <3>1. size - from = 0
        BY <2>1 DEF Rest
      <3> HIDE DEF size
      <3> QED BY <1>5, <1>6, <1>7, <3>1
    <2>2. CASE rank = GlobalNumWorkers(layout)
      <3>1. \A w \in WorkerIds(layout) : w < rank
        <4>1. GlobalNumWorkers(layout) \in Nat
          BY LayoutFacts DEF IInv, TypeOK
        <4> QED BY <2>2, <4>1 DEF WorkerIds
      <3>2. \A w \in WorkerIds(layout) : budget[w] = 0
        BY <1>3, <3>1 DEF SpendInv
      <3>3. sum = 0
        BY <3>2, ListedFacts, SumZero DEF IInv
      <3> QED BY <1>5, <3>3
    <2> QED BY <2>1, <2>2
  <1>9. sum + 0 <= ahead
    <2> HIDE DEF sum, ahead
    <2> QED BY <1>6, <1>8
  <1> QED BY <1>1, <1>2, <1>3, <1>4, <1>9 DEF SpendInv

\* A worker is given x - from samples of the current chunk, and its budget loses as many.
LEMMA SpendGive ==
    ASSUME IInv, SpendInv, Walking, rank \in WorkerIds(layout), UNCHANGED <<job, list>>,
           NEW x \in Nat, from < x, x - from <= budget[rank], Give(rank, from, x),
           budget' = [budget EXCEPT ![rank] = @ - (x - from)]
    PROVE  /\ \A w \in WorkerIds(layout) : Given(w)' + budget'[w] = Share(layout, items, w)
           /\ \A w \in WorkerIds(layout) : w # rank => budget'[w] = budget[w]
           /\ SumFunctionOnSet(budget', WorkerIds(layout)) + (x - from)
                = SumFunctionOnSet(budget, WorkerIds(layout))
           /\ SumFunctionOnSet(budget', WorkerIds(layout)) \in Nat
  <1>0. TypeOK /\ from \in Nat /\ stage = "walk" /\ sizes' = sizes /\ layout' = layout
    BY ListKept DEF IInv, TypeOK, Walking
  <1>1. budget \in [WorkerIds(layout) -> Nat]
    BY <1>0 DEF TypeOK
  <1> DEFINE d == x - from
  <1>2. d \in Nat /\ d <= budget[rank] /\ budget[rank] \in Nat
    BY <1>0, <1>1
  <1>3. budget'[rank] = budget[rank] - d /\ \A w \in WorkerIds(layout) : w # rank => budget'[w] = budget[w]
    BY <1>1
  <1>4. \A w \in WorkerIds(layout) : Given(w)' = IF w = rank THEN Given(w) + d ELSE Given(w)
    BY <1>0, GiveGiven
  <1>5. \A w \in WorkerIds(layout) : Given(w) \in Nat /\ Given(w) + budget[w] = Share(layout, items, w)
    BY <1>0, PlanProper DEF SpendInv
  <1> HIDE DEF d
  <1>6. ASSUME NEW w \in WorkerIds(layout) PROVE Given(w)' + budget'[w] = Share(layout, items, w)
    <2>1. CASE w = rank
      BY <1>2, <1>3, <1>4, <1>5, <2>1
    <2>2. CASE w # rank
      BY <1>3, <1>4, <1>5, <2>2
    <2> QED BY <2>1, <2>2
  <1>7. \A w \in WorkerIds(layout) : budget[w] \in Nat /\ budget'[w] \in Nat
    BY <1>1, <1>2, <1>3
  <1> DEFINE W == WorkerIds(layout)
  <1>8. IsFiniteSet(W)
    BY <1>0, ListedFacts
  <1>9. SumFunctionOnSet(budget', W) + budget[rank] = SumFunctionOnSet(budget, W) + budget'[rank]
    <2> DEFINE g == budget'
    <2>1. \A w \in W : budget[w] \in Nat /\ g[w] \in Nat /\ (w # rank => budget[w] = g[w])
      BY <1>3, <1>7
    <2> HIDE DEF g, W
    <2>2. SumFunctionOnSet(g, W) + budget[rank] = SumFunctionOnSet(budget, W) + g[rank]
      BY <1>8, <2>1, SumChanged DEF W
    <2> QED BY <2>2 DEF g
  <1>10. SumFunctionOnSet(budget', W) \in Nat /\ SumFunctionOnSet(budget, W) \in Nat
    BY <1>7, <1>8, SumType
  <1>11. SumFunctionOnSet(budget', W) + d = SumFunctionOnSet(budget, W)
    <2> HIDE DEF W
    <2> QED BY <1>2, <1>3, <1>9, <1>10
  <1> QED BY <1>3, <1>6, <1>10, <1>11 DEF d
LEMMA SpendSplit == ASSUME IInv, SpendInv, Split PROVE SpendInv'
  <1> DEFINE x == from + budget[rank]
             sum == SumFunctionOnSet(budget, WorkerIds(layout))
             sum2 == SumFunctionOnSet(budget', WorkerIds(layout))
             ahead == SumFunctionOnSet(Listed, at .. Len(order))
  <1>1. /\ Walking /\ rank < GlobalNumWorkers(layout) /\ budget[rank] > 0
        /\ Give(rank, from, x) /\ from' = x /\ rank' = rank + 1
        /\ budget' = [budget EXCEPT ![rank] = 0]
        /\ UNCHANGED <<job, list, at>>
    BY DEF Split
  <1>2. /\ rank \in WorkerIds(layout) /\ budget[rank] \in Nat /\ from \in Nat
        /\ budget \in [WorkerIds(layout) -> Nat]
    BY <1>1, AtWorker DEF IInv, TypeOK
  <1>3. x \in Nat /\ from < x /\ x - from = budget[rank]
    BY <1>1, <1>2
  <1> HIDE DEF x
  <1>4. budget' = [budget EXCEPT ![rank] = @ - (x - from)]
    <2>1. budget[rank] - (x - from) = 0
      BY <1>2, <1>3
    <2> QED BY <1>1, <2>1
  <1>5. /\ \A w \in WorkerIds(layout) : Given(w)' + budget'[w] = Share(layout, items, w)
        /\ \A w \in WorkerIds(layout) : w # rank => budget'[w] = budget[w]
        /\ sum2 + (x - from) = sum /\ sum2 \in Nat
    <2>1. x - from <= budget[rank]
      BY <1>2, <1>3
    <2> QED BY <1>1, <1>2, <1>3, <1>4, <2>1, SpendGive
  <1>6. /\ Listed' = Listed /\ order' = order /\ stage' = stage /\ WorkerIds(layout)' = WorkerIds(layout)
        /\ \A w : Share(layout, items, w)' = Share(layout, items, w)
    BY <1>1, ListKept
  <1>7. stage = "walk" /\ sum + from <= ahead
    BY <1>1 DEF SpendInv, Walking
  <1>8. sum2 + from' <= ahead
    <2> HIDE DEF sum, sum2, ahead
    <2>1. from' = x /\ sum \in Nat
      BY <1>1, <1>2, <1>3, <1>5
    <2> QED BY <1>2, <1>3, <1>5, <1>7, <2>1
  <1>9. \A w \in WorkerIds(layout) : w < rank' => budget'[w] = 0
    <2>1. \A w \in WorkerIds(layout) : w \in Nat
      BY NodeType DEF IInv, TypeOK
    <2>2. budget'[rank] = 0
      BY <1>1, <1>2
    <2>3. \A w \in WorkerIds(layout) : w < rank => budget[w] = 0
      BY <1>7 DEF SpendInv
    <2>4. rank' = rank + 1
      BY <1>1
    <2> QED BY <1>2, <1>5, <2>1, <2>2, <2>3, <2>4
  <1>10. ~(at' > Len(order'))
    <2>1. at \in 1 .. Len(order)
      BY <1>1 DEF IInv, TypeOK, Walking
    <2> QED BY <1>1, <1>6, <2>1
  <1> QED BY <1>1, <1>5, <1>6, <1>8, <1>9, <1>10 DEF SpendInv

LEMMA SpendTakeWhole == ASSUME IInv, SpendInv, TakeWhole PROVE SpendInv'
  <1> DEFINE x == sizes[order[at]]
             sum == SumFunctionOnSet(budget, WorkerIds(layout))
             sum2 == SumFunctionOnSet(budget', WorkerIds(layout))
             ahead == SumFunctionOnSet(Listed, at + 1 .. Len(order))
  <1>1. /\ Walking /\ rank < GlobalNumWorkers(layout) /\ Rest > 0 /\ Rest <= budget[rank]
        /\ Give(rank, from, x) /\ ToNextChunk
        /\ budget' = [budget EXCEPT ![rank] = @ - Rest]
        /\ UNCHANGED <<job, list>>
    BY DEF TakeWhole
  <1>2. rank \in WorkerIds(layout) /\ budget[rank] \in Nat /\ from \in Nat /\ x \in Nat
    BY <1>1, AtWorker DEF IInv, TypeOK
  <1>3. Rest = x - from /\ from < x /\ x - from <= budget[rank]
    BY <1>1, <1>2 DEF Rest
  <1>4. SumFunctionOnSet(Listed, at .. Len(order)) = x + ahead /\ ahead \in Nat
    BY <1>1, AheadFacts DEF IInv
  <1> HIDE DEF x
  <1>5. /\ \A w \in WorkerIds(layout) : Given(w)' + budget'[w] = Share(layout, items, w)
        /\ sum2 + (x - from) = sum /\ sum2 \in Nat
    <2>1. budget' = [budget EXCEPT ![rank] = @ - (x - from)]
      BY <1>1, <1>3
    <2> QED BY <1>1, <1>2, <1>3, <2>1, SpendGive
  <1>6. /\ Listed' = Listed /\ order' = order /\ stage' = stage /\ WorkerIds(layout)' = WorkerIds(layout)
        /\ \A w : Share(layout, items, w)' = Share(layout, items, w)
    BY <1>1, ListKept
  <1>7. stage = "walk" /\ sum + from <= x + ahead
    BY <1>1, <1>4 DEF SpendInv, Walking
  <1>8. at' = at + 1 /\ from' = 0 /\ rank' = 0
    BY <1>1 DEF ToNextChunk
  <1>9. sum2 + from' <= ahead
    <2> HIDE DEF sum, sum2, ahead
    <2>1. sum \in Nat
      BY <1>2, <1>3, <1>5
    <2> QED BY <1>2, <1>3, <1>4, <1>5, <1>7, <1>8, <2>1
  <1>10. \A w \in WorkerIds(layout) : ~(w < 0)
    BY NodeType DEF IInv, TypeOK
  <1> QED BY <1>5, <1>6, <1>8, <1>9, <1>10 DEF SpendInv

LEMMA SpendStep == ASSUME IInv, ItemsInv, SpendInv, [Next]_vars PROVE ItemsInv' /\ SpendInv'
  <1>1. CASE List
    BY <1>1, ItemsList
  <1>2. CASE Deal
    BY <1>2, SpendDeal
  <1>3. CASE PassOver
    <2>1. ItemsInv'
      BY <1>3, ListKept DEF PassOver
    <2> QED BY <1>3, <2>1, SpendPassOver
  <1>4. CASE SkipEmpty
    <2>1. /\ Walking /\ ToNextChunk /\ Rest = 0 /\ UNCHANGED <<job, list, budget, plan>>
      BY <1>4 DEF SkipEmpty
    <2>2. ItemsInv'
      BY <2>1, ListKept
    <2> QED BY <2>1, <2>2, SpendSkip
  <1>5. CASE Split
    <2>1. ItemsInv'
      BY <1>5, ListKept DEF Split
    <2> QED BY <1>5, <2>1, SpendSplit
  <1>6. CASE TakeWhole
    <2>1. ItemsInv'
      BY <1>6, ListKept DEF TakeWhole
    <2> QED BY <1>6, <2>1, SpendTakeWhole
  <1>7. CASE Drop
    <2>1. /\ Walking /\ ToNextChunk /\ rank = GlobalNumWorkers(layout)
          /\ UNCHANGED <<job, list, budget, plan>>
      BY <1>7 DEF Drop
    <2>2. ItemsInv'
      BY <2>1, ListKept
    <2> QED BY <2>1, <2>2, SpendSkip
  <1>8. CASE Reshuffle
    BY <1>8, SpendReshuffle
  <1>9. CASE UNCHANGED vars
    <2>1. UNCHANGED <<job, list>> /\ UNCHANGED <<at, from, rank, budget, plan>>
      BY <1>9 DEF vars
    <2>2. /\ Listed' = Listed /\ order' = order /\ stage' = stage /\ WorkerIds(layout)' = WorkerIds(layout)
          /\ \A w : Share(layout, items, w)' = Share(layout, items, w)
          /\ ItemsInv'
      BY <2>1, ListKept
    <2>3. \A w \in WorkerIds(layout) : Given(w)' = Given(w)
      BY <2>1 DEF Given
    <2> QED BY <2>1, <2>2, <2>3 DEF SpendInv
  <1> QED BY <1>1, <1>2, <1>3, <1>4, <1>5, <1>6, <1>7, <1>8, <1>9 DEF Next, Walk, Settled

LEMMA Spending == Spec => [](IInv /\ ItemsInv /\ SpendInv)
  <1>1. Init => IInv /\ ItemsInv /\ SpendInv
    BY InitInv, SpendInit DEF Init
  <1>2. IInv /\ ItemsInv /\ SpendInv /\ [Next]_vars => IInv' /\ ItemsInv' /\ SpendInv'
    BY StepInv, SpendStep
  <1> QED BY <1>1, <1>2, PTL DEF Spec

\* Once all chunks are dealt out every worker has its share.
LEMMA AllSpent ==
    ASSUME IInv, SpendInv, Dealt
    PROVE  \A w \in WorkerIds(layout) : Given(w) = Share(layout, items, w) /\ Given(w) \in Nat
  <1>1. stage = "walk" /\ at > Len(order) /\ from = 0
    BY DEF Dealt, SpendInv
  <1>2. at .. Len(order) = {}
    BY <1>1, ListedFacts DEF IInv, TypeOK
  <1>3. SumFunctionOnSet(budget, WorkerIds(layout)) + 0 <= 0
    BY <1>1, <1>2, SumEmpty DEF SpendInv
  <1>4. ASSUME NEW w \in WorkerIds(layout) PROVE budget[w] = 0
    <2>1. IsFiniteSet(WorkerIds(layout)) /\ \A v \in WorkerIds(layout) : budget[v] \in Nat
      BY ListedFacts, BudgetFacts DEF IInv
    <2>2. budget[w] \in Nat /\ budget[w] <= SumFunctionOnSet(budget, WorkerIds(layout))
      BY <2>1, SumPart
    <2>3. SumFunctionOnSet(budget, WorkerIds(layout)) \in Nat
      BY <2>1, SumType
    <2> QED BY <1>3, <2>2, <2>3
  <1>5. \A w \in WorkerIds(layout) : Given(w) \in Nat
    BY PlanProper DEF IInv
  <1>6. \A w \in WorkerIds(layout) : Given(w) + budget[w] = Share(layout, items, w)
    BY <1>1 DEF SpendInv
  <1> QED BY <1>4, <1>5, <1>6
-----------------------------------------------------------------------------
(* What the ranks and the workers of one have. *)

LEMMA GivenToIs ==
    ASSUME IInv, SpendInv, Dealt, NEW ws \in SUBSET WorkerIds(layout)
    PROVE  GivenTo(ws) = SumFunctionOnSet(Shares(layout, items), ws)
  <1> DEFINE f == [w \in ws |-> Given(w)]
             g == Shares(layout, items)
  <1>1. \A w \in ws : f[w] = g[w]
    BY AllSpent DEF Shares
  <1>2. IsFiniteSet(ws)
    BY ListedFacts, FS_Subset DEF IInv
  <1>3. GivenTo(ws) = SumFunctionOnSet(f, ws)
    <2>1. DOMAIN f = ws
      OBVIOUS
    <2> QED BY <2>1 DEF GivenTo, SumFunction
  <1> HIDE DEF f, g
  <1>4. SumFunctionOnSet(f, ws) = SumFunctionOnSet(g, ws)
    BY <1>1, <1>2, SumSame
  <1> QED BY <1>3, <1>4 DEF g

\* A worker at its place in its rank.
LEMMA PlaceOf ==
    ASSUME NEW l \in Layouts, NEW w \in WorkerIds(l)
    PROVE  /\ RankOf(l, w) \in 0 .. WorldSize(l) - 1 /\ w % l.workers \in 0 .. l.workers - 1
           /\ w = RankOf(l, w) * l.workers + (w % l.workers)
  <1> DEFINE k == l.workers
             r == WorldSize(l)
             q == w \div k
  <1>1. k \in Nat \ {0} /\ r \in Nat \ {0} /\ WorkerIds(l) = 0 .. r * k - 1
    BY LayoutFacts DEF WorkerIds, GlobalNumWorkers
  <1>2. w \in Nat
    BY NodeType
  <1>3. q \in Nat /\ w % k \in 0 .. k - 1 /\ w = k * q + (w % k)
    <2> HIDE DEF k
    <2> QED BY <1>1, <1>2, DivisionExact
  <1>4. RankOf(l, w) = q
    BY DEF RankOf
  <1> HIDE DEF k, r, q
  <1>5. r * k \in Nat /\ k * q \in Nat /\ k * q = q * k
    BY <1>1, <1>3, Product, Commute
  <1>6. w < r * k
    <2>1. w \in 0 .. r * k - 1
      BY <1>1
    <2> QED BY <1>2, <1>5, <2>1
  <1>7. ~(r <= q)
    <2> SUFFICES ASSUME r <= q PROVE FALSE
      OBVIOUS
    <2>1. k * r <= k * q /\ k * r = r * k
      BY <1>1, <1>3, Monotone, Commute
    <2> QED BY <1>2, <1>3, <1>5, <1>6, <2>1
  <1>8. q \in 0 .. r - 1
    BY <1>1, <1>3, <1>7
  <1> QED BY <1>3, <1>4, <1>5, <1>8 DEF k, r

\* A share without what is left over.
LEMMA WholeBatches ==
    ASSUME NEW l \in Layouts, NEW n \in Nat, NEW w \in WorkerIds(l), ~LeftTo(l, RankOf(l, w))
    PROVE  LET p == Batches(l, n)
               more == IF w % l.workers < p % l.workers THEN 1 ELSE 0
           IN  p \div l.workers + more \in Nat /\ Share(l, n, w) = l.batch * (p \div l.workers + more)
  <1> DEFINE p == Batches(l, n)
             j == w % l.workers
             r == RankOf(l, w)
             more == IF j < p % l.workers THEN 1 ELSE 0
  <1>1. r \in 0 .. WorldSize(l) - 1 /\ j \in 0 .. l.workers - 1 /\ w = r * l.workers + j
    BY PlaceOf
  <1>2. p \div l.workers \in Nat /\ l.batch \in Nat
    BY BatchFacts, LayoutFacts
  <1>3. Share(l, n, w) = l.batch * (p \div l.workers + more) + 0
    <2> HIDE DEF j, r
    <2>1. Share(l, n, r * l.workers + j) = l.batch * (p \div l.workers + more) + 0
      BY <1>1, ShareIs DEF r
    <2> QED BY <1>1, <2>1
  <1>4. p \div l.workers + more \in Nat
    BY <1>2
  <1>5. l.batch * (p \div l.workers + more) \in Nat
    BY <1>2, <1>4, Product
  <1> HIDE DEF p, j, more
  <1>6. Share(l, n, w) = l.batch * (p \div l.workers + more)
    BY <1>3, <1>5
  <1> QED BY <1>4, <1>6 DEF p, j, more

\* What the budgets and what is spent of them say about the ranks when all is dealt.
LEMMA RanksFollow ==
    ASSUME IInv, SpendInv PROVE RanksAgree
  <1> SUFFICES ASSUME Dealt
               PROVE  LET lost == items - GivenTo(WorkerIds(layout))
                      IN  IF ~layout.dropLast THEN lost = 0
                          ELSE /\ lost < layout.batch * WorldSize(layout)
                               /\ \A q, r \in 0 .. WorldSize(layout) - 1 :
                                     GivenTo(RankWorkers(q)) = GivenTo(RankWorkers(r))
                               /\ \A w \in WorkerIds(layout) : Given(w) % layout.batch = 0
    BY DEF RanksAgree
  <1>0. layout \in Layouts /\ items \in Nat
    BY DEF IInv, TypeOK
  <1>1. GivenTo(WorkerIds(layout)) = IF layout.dropLast THEN items - Over(layout, items) ELSE items
    BY <1>0, GivenToIs, TotalSum
  <1>2. Over(layout, items) \in Nat /\ Over(layout, items) < layout.batch * WorldSize(layout)
    BY <1>0, BatchFacts
  <1>3. CASE ~layout.dropLast
    BY <1>0, <1>1, <1>3
  <1>4. CASE layout.dropLast
    <2>1. items - GivenTo(WorkerIds(layout)) = Over(layout, items)
      BY <1>0, <1>1, <1>2, <1>4
    <2>2. ASSUME NEW q \in 0 .. WorldSize(layout) - 1
          PROVE  GivenTo(RankWorkers(q)) = layout.batch * Batches(layout, items) + 0
      <3>1. ~LeftTo(layout, q)
        BY <1>4 DEF LeftTo
      <3>2. RankWorkers(q) \in SUBSET WorkerIds(layout)
        BY DEF RankWorkers
      <3>3. GivenTo(RankWorkers(q)) = SumFunctionOnSet(Shares(layout, items), RankWorkers(q))
        BY <3>2, GivenToIs
      <3> QED BY <1>0, <3>1, <3>3, RankSum DEF RankWorkers
    <2>3. ASSUME NEW w \in WorkerIds(layout) PROVE Given(w) % layout.batch = 0
      <3>1. ~LeftTo(layout, RankOf(layout, w))
        BY <1>4 DEF LeftTo
      <3>2. \E m \in Nat : Share(layout, items, w) = layout.batch * m
        BY <1>0, <3>1, WholeBatches
      <3>3. Given(w) = Share(layout, items, w)
        BY AllSpent
      <3> QED BY <1>0, <3>2, <3>3, LayoutFacts, MultipleOf
    <2> QED BY <1>2, <1>4, <2>1, <2>2, <2>3
  <1> QED BY <1>3, <1>4

\* For any chunks in any order and any layout, in the first pass and the second: every
\* sample is given to some worker; with drop_last every rank gets the same number, every
\* worker whole batches, and fewer samples are lost than a batch for every rank
\* (_associate_chunks_and_intervals_to_workers).
THEOREM EverySampleDealt == Spec => []RanksAgree
  <1>1. IInv /\ SpendInv => RanksAgree
    BY RanksFollow
  <1> QED BY <1>1, Spending, PTL

\* The same about two workers of a rank.
LEMMA StepsFollow ==
    ASSUME IInv, SpendInv PROVE WorkersInStep
  <1> SUFFICES ASSUME Dealt, NEW v \in WorkerIds(layout), NEW w \in WorkerIds(layout),
                      RankOf(layout, v) = RankOf(layout, w), v < w,
                      layout.dropLast \/ RankOf(layout, w) # WorldSize(layout) - 1
               PROVE  Given(w) <= Given(v) /\ Given(v) <= Given(w) + layout.batch
    BY DEF WorkersInStep
  <1> DEFINE k == layout.workers
             b == layout.batch
             p == Batches(layout, items)
             d == p \div k
             e == p % k
             i == v % k
             j == w % k
             a == RankOf(layout, w) * k
  <1>0. layout \in Layouts /\ items \in Nat
    BY DEF IInv, TypeOK
  <1>1. /\ k \in Nat \ {0} /\ b \in Nat \ {0} /\ d \in Nat /\ e \in 0 .. k - 1
    BY <1>0, LayoutFacts, BatchFacts
  <1>2. i < j
    <2>1. /\ i \in 0 .. k - 1 /\ j \in 0 .. k - 1 /\ v = a + i /\ w = a + j
          /\ RankOf(layout, w) \in Nat
      BY <1>0, PlaceOf
    <2>2. a \in Nat
      BY <1>1, <2>1, Product
    <2> HIDE DEF a, i, j, k
    <2> QED BY <1>1, <2>1, <2>2
  <1>3. i \in Nat /\ j \in Nat
    BY <1>0, PlaceOf
  <1>4. ~LeftTo(layout, RankOf(layout, w)) /\ ~LeftTo(layout, RankOf(layout, v))
    BY DEF LeftTo
  <1>5. /\ Given(v) = b * (d + (IF i < e THEN 1 ELSE 0))
        /\ Given(w) = b * (d + (IF j < e THEN 1 ELSE 0))
    BY <1>0, <1>4, WholeBatches, AllSpent
  <1> HIDE DEF k, b, p, d, e, i, j, a
  <1>6. b * (d + 1) = b * d + b /\ b * d \in Nat
    BY <1>1, Distribute, Product
  <1>7. b * (d + 0) = b * d
    BY <1>1
  <1>8. Given(w) <= Given(v) /\ Given(v) <= Given(w) + b
    BY <1>1, <1>2, <1>3, <1>5, <1>6, <1>7
  <1> QED BY <1>8 DEF b

\* Of two workers of a rank, but for the last rank if it gets what is left over, the later
\* one never has more, and at most a batch less: a loader that takes a batch of each in
\* turn comes round evenly.
THEOREM RankInStep == Spec => []WorkersInStep
  <1>1. IInv /\ SpendInv => WorkersInStep
    BY StepsFollow
  <1> QED BY <1>1, Spending, PTL

-----------------------------------------------------------------------------
(* Subsets: regions, and how many samples the first of them have. *)

LEMMA MinFacts ==
    ASSUME NEW S \in SUBSET Nat, S # {}
    PROVE  Min(S) \in S /\ \A x \in S : Min(S) <= x
<1>1. \E m \in S : \A n \in S : m <= n
  BY SmallestIn
<1> QED BY <1>1 DEF Min

\* Regions, each from a place to one that is not before it; and a subset with one
\* for each of its chunks.
Regions(roi) ==
    /\ roi \in Seq(Nat \X Nat)
    /\ \A k \in 1 .. Len(roi) : roi[k][1] <= roi[k][2]

Paired(s) == IsSeq(s.files) /\ Regions(s.roi) /\ Len(s.files) = Len(s.roi)

LEMMA RegionFacts ==
    ASSUME NEW roi, Regions(roi)
    PROVE  /\ Len(roi) \in Nat /\ DOMAIN roi = 1 .. Len(roi) /\ DOMAIN RegionSizes(roi) = 1 .. Len(roi)
           /\ \A k \in 1 .. Len(roi) :
                 /\ roi[k][1] \in Nat /\ roi[k][2] \in Nat /\ roi[k][1] <= roi[k][2]
                 /\ RegionSizes(roi)[k] = roi[k][2] - roi[k][1] /\ RegionSizes(roi)[k] \in Nat
<1>1. Len(roi) \in Nat /\ DOMAIN roi = 1 .. Len(roi) /\ \A k \in 1 .. Len(roi) : roi[k] \in Nat \X Nat
  BY DEF Regions
<1>2. ASSUME NEW k \in 1 .. Len(roi)
      PROVE  /\ roi[k][1] \in Nat /\ roi[k][2] \in Nat /\ roi[k][1] <= roi[k][2]
             /\ RegionSizes(roi)[k] = roi[k][2] - roi[k][1]
  BY <1>1 DEF Regions, RegionSizes
<1>3. ASSUME NEW k \in 1 .. Len(roi) PROVE roi[k][2] - roi[k][1] \in Nat
  BY <1>2
<1> QED BY <1>1, <1>2, <1>3 DEF RegionSizes

\* How many samples the first regions have.
LEMMA CumSumFacts ==
    ASSUME NEW roi, Regions(roi)
    PROVE  /\ CumSum(roi, 0) = 0
           /\ \A k \in 0 .. Len(roi) : CumSum(roi, k) \in Nat
           /\ \A k \in 1 .. Len(roi) : CumSum(roi, k) = CumSum(roi, k - 1) + (roi[k][2] - roi[k][1])
<1> DEFINE f == RegionSizes(roi)
<1>0. Len(roi) \in Nat /\ \A k \in 1 .. Len(roi) : f[k] = roi[k][2] - roi[k][1] /\ f[k] \in Nat
  BY RegionFacts
<1> HIDE DEF f
<1>1. CumSum(roi, 0) = 0
  <2>1. 1 .. 0 = {}
    OBVIOUS
  <2> QED BY <2>1, SumEmpty DEF CumSum
<1>2. ASSUME NEW k \in 0 .. Len(roi) PROVE CumSum(roi, k) \in Nat
  <2>1. IsFiniteSet(1 .. k) /\ 1 .. k \subseteq 1 .. Len(roi)
    BY <1>0, FS_Interval
  <2>2. \A x \in 1 .. k : f[x] \in Nat
    BY <1>0, <2>1
  <2>3. SumFunctionOnSet(f, 1 .. k) \in Nat
    BY <2>1, <2>2, SumType
  <2> QED BY <2>3 DEF CumSum, f
<1>3. ASSUME NEW k \in 1 .. Len(roi)
      PROVE CumSum(roi, k) = CumSum(roi, k - 1) + (roi[k][2] - roi[k][1])
  <2>1. IsFiniteSet(1 .. k - 1) /\ 1 .. k = (1 .. k - 1) \union {k} /\ k \notin 1 .. k - 1
    <3>1. k \in Nat \ {0}
      BY <1>0
    <3>2. IsFiniteSet(1 .. k - 1)
      BY <3>1, FS_Interval
    <3>3. 1 .. k = (1 .. k - 1) \union {k} /\ k \notin 1 .. k - 1
      BY <3>1
    <3> QED BY <3>2, <3>3
  <2>2. \A x \in (1 .. k - 1) \union {k} : f[x] \in Nat
    BY <1>0, <2>1
  <2>3. SumFunctionOnSet(f, (1 .. k - 1) \union {k}) = SumFunctionOnSet(f, 1 .. k - 1) + f[k]
    BY <2>1, <2>2, SumAdd
  <2> QED BY <1>0, <2>1, <2>3 DEF CumSum, f
<1> QED BY <1>1, <1>2, <1>3

\* Two lists of regions that have as many samples each from some region on.
LEMMA CumSumShift ==
    ASSUME NEW roi, Regions(roi), NEW rest, Regions(rest), NEW m \in Nat, NEW d \in Nat, NEW i \in Nat,
           i <= Len(rest), m + Len(rest) <= Len(roi), CumSum(rest, i) + d = CumSum(roi, m + i),
           \A j \in i + 1 .. Len(rest) : rest[j] = roi[m + j]
    PROVE  CumSum(rest, Len(rest)) + d = CumSum(roi, m + Len(rest))
<1> DEFINE T == {e \in Nat : i + e <= Len(rest) => CumSum(rest, i + e) + d = CumSum(roi, m + (i + e))}
<1>0. /\ Len(roi) \in Nat /\ \A k \in 0 .. Len(roi) : CumSum(roi, k) \in Nat
      /\ Len(rest) \in Nat /\ \A k \in 0 .. Len(rest) : CumSum(rest, k) \in Nat
  BY RegionFacts, CumSumFacts
<1>1. 0 \in T
  BY <1>0
<1>2. ASSUME NEW e \in T PROVE e + 1 \in T
  <2>1. e \in Nat /\ (i + e <= Len(rest) => CumSum(rest, i + e) + d = CumSum(roi, m + (i + e)))
    OBVIOUS
  <2>2. ASSUME i + (e + 1) <= Len(rest)
        PROVE  CumSum(rest, i + (e + 1)) + d = CumSum(roi, m + (i + (e + 1)))
    <3> DEFINE k == i + (e + 1)
    <3>1. /\ k \in 1 .. Len(rest) /\ k \in i + 1 .. Len(rest) /\ k - 1 = i + e /\ i + e <= Len(rest)
          /\ m + k \in 1 .. Len(roi) /\ (m + k) - 1 = m + (i + e)
          /\ i + e \in 0 .. Len(rest) /\ m + (i + e) \in 0 .. Len(roi)
      BY <1>0, <2>1, <2>2
    <3> HIDE DEF k
    <3>2. /\ CumSum(rest, k) = CumSum(rest, k - 1) + (rest[k][2] - rest[k][1])
          /\ rest[k][1] \in Nat /\ rest[k][2] \in Nat
          /\ CumSum(roi, m + k) = CumSum(roi, (m + k) - 1) + (roi[m + k][2] - roi[m + k][1])
          /\ rest[k] = roi[m + k]
      BY <3>1, RegionFacts, CumSumFacts
    <3> DEFINE a == CumSum(rest, i + e)
               b == CumSum(roi, m + (i + e))
               s == rest[k][2] - rest[k][1]
    <3>3. a + d = b
      BY <2>1, <3>1
    <3>4. a \in Nat /\ b \in Nat
      BY <1>0, <3>1
    <3>5. s \in Int
      BY <3>2
    <3>6. CumSum(rest, k) = a + s /\ CumSum(roi, m + k) = b + s
      BY <3>1, <3>2
    <3> HIDE DEF a, b, s
    <3>7. CumSum(rest, k) + d = CumSum(roi, m + k)
      BY <3>3, <3>4, <3>5, <3>6
    <3> QED BY <3>7 DEF k
  <2> QED BY <2>1, <2>2
<1>3. T = Nat
  <2> HIDE DEF T
  <2>1. T \subseteq Nat
    BY DEF T
  <2> QED BY <1>1, <1>2, <2>1, Induct
<1>4. Len(rest) - i \in T /\ i + (Len(rest) - i) = Len(rest)
  <2>1. Len(rest) - i \in Nat /\ i + (Len(rest) - i) = Len(rest)
    BY <1>0
  <2> HIDE DEF T
  <2> QED BY <1>3, <2>1
<1> QED BY <1>0, <1>4

\* Where a subset is cut.
LEMMA MatchFacts ==
    ASSUME NEW s, Paired(s), NEW count \in Nat \ {0}, count <= ItemsIn(s.roi)
    PROVE  /\ Len(s.roi) \in Nat /\ Match(s, count) \in 1 .. Len(s.roi)
           /\ CumSum(s.roi, Match(s, count) - 1) < count
           /\ Cut(s, count) \in Nat
           /\ s.roi[Match(s, count)][1] < Cut(s, count)
           /\ Cut(s, count) <= s.roi[Match(s, count)][2]
           /\ CumSum(s.roi, Match(s, count) - 1)
                + (Cut(s, count) - s.roi[Match(s, count)][1]) = count
           /\ Exact(s, count) => Cut(s, count) = s.roi[Match(s, count)][2]
           /\ CumSum(s.roi, Match(s, count)) = count + (s.roi[Match(s, count)][2] - Cut(s, count))
<1> DEFINE roi == s.roi
           K == {k \in DOMAIN roi : CumSum(roi, k) >= count}
           m == Match(s, count)
           cut == Cut(s, count)
<1>0. Regions(roi)
  BY DEF Paired
<1>1. /\ Len(roi) \in Nat /\ DOMAIN roi = 1 .. Len(roi)
      /\ \A k \in 0 .. Len(roi) : CumSum(roi, k) \in Nat
      /\ CumSum(roi, 0) = 0
  BY <1>0, RegionFacts, CumSumFacts
<1>2. K \in SUBSET Nat /\ K # {}
  <2>1. Len(roi) # 0
    BY <1>1 DEF ItemsIn
  <2>2. Len(roi) \in DOMAIN roi /\ CumSum(roi, Len(roi)) >= count
    BY <1>1, <2>1 DEF ItemsIn
  <2> QED BY <1>1, <2>2
<1>3. m \in K /\ \A k \in K : m <= k
  <2>1. m = Min(K)
    BY DEF Match
  <2> HIDE DEF K, m
  <2> QED BY <1>2, <2>1, MinFacts
<1>4. m \in 1 .. Len(roi) /\ CumSum(roi, m) >= count
  BY <1>1, <1>3
<1>5. m - 1 \in 0 .. Len(roi) /\ CumSum(roi, m - 1) < count
  <2>1. m - 1 \in 0 .. Len(roi)
    BY <1>1, <1>4
  <2>2. CASE m = 1
    BY <1>1, <2>2
  <2>3. CASE m # 1
    <3>1. m - 1 \in DOMAIN roi /\ ~(m <= m - 1)
      BY <1>1, <1>4, <2>3
    <3>2. m - 1 \notin K
      BY <1>3, <3>1
    <3>3. CumSum(roi, m - 1) \in Nat /\ ~(CumSum(roi, m - 1) >= count)
      BY <1>1, <2>1, <3>1, <3>2
    <3> QED BY <2>1, <3>3
  <2> QED BY <2>2, <2>3
<1>6. /\ CumSum(roi, m) = CumSum(roi, m - 1) + (roi[m][2] - roi[m][1])
      /\ roi[m][1] \in Nat /\ roi[m][2] \in Nat /\ roi[m][1] <= roi[m][2]
  BY <1>0, <1>4, RegionFacts, CumSumFacts
<1>7. cut = roi[m][2] - (CumSum(roi, m) - count)
  BY DEF Cut
<1>8. Exact(s, count) <=> CumSum(roi, m) = count
  BY DEF Exact
<1> DEFINE a == CumSum(roi, m - 1)
           b == CumSum(roi, m)
           x == roi[m][1]
           y == roi[m][2]
<1>9. a \in Nat /\ b \in Nat /\ b = a + (y - x) /\ x \in Nat /\ y \in Nat /\ x <= y /\ a < count /\ b >= count
  BY <1>1, <1>4, <1>5, <1>6
<1>10. cut = y - (b - count)
  BY <1>7
<1> HIDE DEF a, b, x, y, cut
<1>11. cut \in Nat /\ x < cut /\ cut <= y /\ a + (cut - x) = count /\ (b = count => cut = y)
       /\ b = count + (y - cut)
  BY <1>9, <1>10
<1> QED BY <1>1, <1>4, <1>5, <1>8, <1>11 DEF a, b, x, y, cut

\* The first items of a subset are as many as were asked for.
LEMMA TakeFacts ==
    ASSUME NEW s, Paired(s), NEW count \in Nat, count <= ItemsIn(s.roi)
    PROVE  /\ Paired(TakeFirst(s, count)) /\ ItemsIn(TakeFirst(s, count).roi) = count
           /\ count # 0 =>
                 /\ Len(TakeFirst(s, count).roi) = Match(s, count)
                 /\ \A k \in 1 .. Match(s, count) :
                       /\ TakeFirst(s, count).files[k] = s.files[k]
                       /\ TakeFirst(s, count).roi[k] =
                             IF k = Match(s, count) THEN <<s.roi[k][1], Cut(s, count)>> ELSE s.roi[k]
<1> DEFINE t == TakeFirst(s, count)
           m == Match(s, count)
           cut == Cut(s, count)
<1>1. CASE count = 0
  <2>1. t.files = << >> /\ t.roi = << >>
    BY <1>1 DEF TakeFirst, Nothing
  <2>2. Regions(t.roi) /\ IsSeq(t.files) /\ Len(t.files) = 0 /\ Len(t.roi) = 0
    BY <2>1, EmptyIsSeq DEF Regions
  <2> QED BY <1>1, <2>2, CumSumFacts DEF Paired, ItemsIn
<1>2. CASE count # 0
  <2>1. /\ Len(s.roi) \in Nat /\ m \in 1 .. Len(s.roi) /\ cut \in Nat /\ s.roi[m][1] < cut
        /\ CumSum(s.roi, m - 1) + (cut - s.roi[m][1]) = count
    BY <1>2, MatchFacts
  <2>2. Regions(s.roi) /\ IsSeq(s.files) /\ Len(s.files) = Len(s.roi)
    BY DEF Paired
  <2>3. /\ t.files = SubSeq(s.files, 1, m)
        /\ t.roi = [k \in 1 .. m |-> IF k = m THEN <<s.roi[k][1], cut>> ELSE s.roi[k]]
    BY <1>2 DEF TakeFirst
  <2> HIDE DEF t, m, cut
  <2>4. \A k \in 1 .. m : k \in 1 .. Len(s.roi)
    BY <2>1
  <2>5. \A k \in 1 .. m : t.roi[k] = IF k = m THEN <<s.roi[k][1], cut>> ELSE s.roi[k]
    BY <2>3
  <2>6. \A k \in 1 .. m : t.roi[k] \in Nat \X Nat /\ t.roi[k][1] <= t.roi[k][2]
    <3> SUFFICES ASSUME NEW k \in 1 .. m PROVE t.roi[k] \in Nat \X Nat /\ t.roi[k][1] <= t.roi[k][2]
      OBVIOUS
    <3>1. /\ s.roi[k][1] \in Nat /\ s.roi[k][2] \in Nat /\ s.roi[k][1] <= s.roi[k][2]
          /\ s.roi[k] \in Nat \X Nat
      BY <2>2, <2>4, RegionFacts DEF Regions
    <3>2. CASE k = m
      <4>1. t.roi[k] = <<s.roi[m][1], cut>> /\ s.roi[m][1] \in Nat
        BY <2>5, <3>1, <3>2
      <4> QED BY <2>1, <4>1
    <3>3. CASE k # m
      BY <2>5, <3>1, <3>3
    <3> QED BY <3>2, <3>3
  <2>7. t.roi \in Seq(Nat \X Nat) /\ Len(t.roi) = m
    <3>1. t.roi = [k \in 1 .. m |-> t.roi[k]]
      BY <2>3
    <3>2. m \in Nat
      BY <2>1
    <3> QED BY <2>6, <3>1, <3>2
  <2>8. Regions(t.roi)
    BY <2>6, <2>7 DEF Regions
  <2>9. IsSeq(t.files) /\ Len(t.files) = m /\ \A k \in 1 .. m : t.files[k] = s.files[k]
    <3>1. PICK S : s.files \in Seq(S)
      BY <2>2 DEF IsSeq
    <3>2. /\ SubSeq(s.files, 1, m) \in Seq(S) /\ Len(SubSeq(s.files, 1, m)) = m
          /\ \A k \in 1 .. m : SubSeq(s.files, 1, m)[k] = s.files[k]
      BY <2>1, <2>2, <3>1
    <3> QED BY <2>3, <3>2 DEF IsSeq
  <2>10. CumSum(t.roi, m - 1) = CumSum(s.roi, m - 1)
    <3>1. IsFiniteSet(1 .. m - 1)
      <4>1. m \in Nat
        BY <2>1
      <4> QED BY <4>1, FS_Interval
    <3>2. \A k \in 1 .. m - 1 : RegionSizes(t.roi)[k] = RegionSizes(s.roi)[k]
      <4> SUFFICES ASSUME NEW k \in 1 .. m - 1 PROVE RegionSizes(t.roi)[k] = RegionSizes(s.roi)[k]
        OBVIOUS
      <4>1. k \in 1 .. m /\ k # m /\ k \in 1 .. Len(t.roi) /\ k \in 1 .. Len(s.roi)
        BY <2>1, <2>7
      <4>2. t.roi[k] = s.roi[k]
        BY <2>5, <4>1
      <4> QED BY <2>2, <2>8, <4>1, <4>2, RegionFacts
    <3>3. SumFunctionOnSet(RegionSizes(t.roi), 1 .. m - 1) = SumFunctionOnSet(RegionSizes(s.roi), 1 .. m - 1)
      BY <3>1, <3>2, SumSame
    <3> QED BY <3>3 DEF CumSum
  <2>11. CumSum(t.roi, m) = count
    <3>1. m \in 1 .. Len(t.roi)
      BY <2>1, <2>7
    <3>2. CumSum(t.roi, m) = CumSum(t.roi, m - 1) + (t.roi[m][2] - t.roi[m][1])
      BY <2>8, <3>1, CumSumFacts
    <3>3. t.roi[m] = <<s.roi[m][1], cut>>
      <4>1. m \in 1 .. m
        BY <2>1
      <4>2. t.roi[m] = IF m = m THEN <<s.roi[m][1], cut>> ELSE s.roi[m]
        BY <2>5, <4>1
      <4> QED BY <4>2
    <3>4. t.roi[m][1] = s.roi[m][1] /\ t.roi[m][2] = cut
      BY <3>3
    <3> QED BY <2>1, <2>10, <3>2, <3>4
  <2> QED BY <2>5, <2>7, <2>8, <2>9, <2>11 DEF Paired, ItemsIn, t, m, cut
<1> QED BY <1>1, <1>2

\* What is left of a subset from chunk n on, and its items.
LEMMA LeaveShape ==
    ASSUME NEW s, Paired(s), NEW count \in Nat \ {0}, count <= ItemsIn(s.roi)
    PROVE  /\ NextChunk(s, count) \in Nat \ {0} /\ NextChunk(s, count) <= Len(s.roi) + 1
           /\ Len(LeaveFirst(s, count).roi) = Len(s.roi) - NextChunk(s, count) + 1
           /\ Paired(LeaveFirst(s, count))
           /\ \A k \in 1 .. Len(LeaveFirst(s, count).roi) :
                 /\ NextChunk(s, count) + k - 1 \in 1 .. Len(s.roi)
                 /\ LeaveFirst(s, count).files[k] = s.files[NextChunk(s, count) + k - 1]
                 /\ LeaveFirst(s, count).roi[k] =
                        IF k = 1 /\ ~Exact(s, count) THEN <<Cut(s, count), s.roi[Match(s, count)][2]>>
                        ELSE s.roi[NextChunk(s, count) + k - 1]
<1> DEFINE n == NextChunk(s, count)
           l == LeaveFirst(s, count)
           m == Match(s, count)
           cut == Cut(s, count)
           end == s.roi[m][2]
<1>0. Len(s.roi) \in Nat /\ m \in 1 .. Len(s.roi) /\ cut \in Nat /\ cut <= end
  BY MatchFacts
<1>1. Regions(s.roi) /\ IsSeq(s.files) /\ Len(s.files) = Len(s.roi)
  BY DEF Paired
<1>2. n = IF Exact(s, count) THEN m + 1 ELSE m
  BY DEF NextChunk
<1>3. /\ l.files = SubSeq(s.files, n, Len(s.files))
      /\ l.roi = [k \in 1 .. Len(s.roi) - n + 1 |->
                     IF k = 1 /\ ~Exact(s, count) THEN <<cut, end>> ELSE s.roi[n + k - 1]]
  BY DEF LeaveFirst
<1> HIDE DEF n, l, m, cut
<1>4. n \in Nat \ {0} /\ n <= Len(s.roi) + 1 /\ Len(s.roi) - n + 1 \in Nat
  BY <1>0, <1>2
<1> DEFINE len == Len(s.roi) - n + 1
<1>5. \A k \in 1 .. len : n + k - 1 \in 1 .. Len(s.roi)
  BY <1>0, <1>4
<1>6. end \in Nat
  BY <1>0, <1>1, RegionFacts
<1>7. \A k \in 1 .. len : s.roi[n + k - 1] \in Nat \X Nat /\ s.roi[n + k - 1][1] <= s.roi[n + k - 1][2]
  BY <1>1, <1>5 DEF Regions
<1>8. \A k \in 1 .. len : l.roi[k] = IF k = 1 /\ ~Exact(s, count) THEN <<cut, end>> ELSE s.roi[n + k - 1]
  BY <1>3
<1>9. \A k \in 1 .. len : l.roi[k] \in Nat \X Nat /\ l.roi[k][1] <= l.roi[k][2]
  <2> SUFFICES ASSUME NEW k \in 1 .. len PROVE l.roi[k] \in Nat \X Nat /\ l.roi[k][1] <= l.roi[k][2]
    OBVIOUS
  <2>1. CASE l.roi[k] = <<cut, end>>
    BY <1>0, <1>6, <2>1
  <2>2. CASE l.roi[k] = s.roi[n + k - 1]
    BY <1>7, <2>2
  <2> QED BY <1>8, <2>1, <2>2
<1>10. l.roi \in Seq(Nat \X Nat) /\ Len(l.roi) = len
  <2>1. l.roi = [k \in 1 .. len |-> l.roi[k]]
    BY <1>3
  <2>2. len \in Nat
    BY <1>4
  <2> HIDE DEF len
  <2> QED BY <1>9, <2>1, <2>2
<1>11. /\ IsSeq(l.files) /\ Len(l.files) = len
       /\ \A k \in 1 .. len : l.files[k] = s.files[n + k - 1]
  <2>1. PICK S : s.files \in Seq(S)
    BY <1>1 DEF IsSeq
  <2> DEFINE t == SubSeq(s.files, n, Len(s.files))
  <2>2. t \in Seq(S) /\ Len(t) = len /\ \A k \in 1 .. len : t[k] = s.files[n + k - 1]
    <3>1. Len(s.files) \in Nat /\ n \in 1 .. Len(s.files) + 1
      BY <1>0, <1>1, <1>4
    <3> QED BY <1>1, <1>4, <2>1, <3>1
  <2> QED BY <1>3, <2>2 DEF IsSeq
<1>12. Regions(l.roi)
  BY <1>9, <1>10 DEF Regions
<1> QED BY <1>4, <1>5, <1>8, <1>10, <1>11, <1>12 DEF Paired, n, l, m, cut

\* What is left has the items that were not taken.
LEMMA LeaveFacts ==
    ASSUME NEW s, Paired(s), NEW count \in Nat, count <= ItemsIn(s.roi)
    PROVE  Paired(LeaveFirst(s, count)) /\ ItemsIn(LeaveFirst(s, count).roi) = ItemsIn(s.roi) - count
<1> DEFINE l == LeaveFirst(s, count)
<1>0. Regions(s.roi) /\ ItemsIn(s.roi) \in Nat
  BY RegionFacts, CumSumFacts DEF Paired, ItemsIn
<1>1. CASE count = 0
  BY <1>0, <1>1 DEF LeaveFirst
<1>2. CASE count # 0
  <2> DEFINE n == NextChunk(s, count)
             m == Match(s, count)
             cut == Cut(s, count)
             end == s.roi[m][2]
  <2>1. /\ Len(s.roi) \in Nat /\ m \in 1 .. Len(s.roi) /\ cut \in Nat /\ cut <= end
        /\ Exact(s, count) => cut = end
        /\ CumSum(s.roi, m) = count + (end - cut)
    BY <1>2, MatchFacts
  <2>2. /\ n \in Nat \ {0} /\ n <= Len(s.roi) + 1 /\ Len(l.roi) = Len(s.roi) - n + 1
        /\ Paired(l)
        /\ \A k \in 1 .. Len(l.roi) :
              l.roi[k] = IF k = 1 /\ ~Exact(s, count) THEN <<cut, end>> ELSE s.roi[n + k - 1]
    <3>1. count \in Nat \ {0}
      BY <1>2
    <3> QED BY <3>1, LeaveShape
  <2>3. n = IF Exact(s, count) THEN m + 1 ELSE m
    BY DEF NextChunk
  <2>4. Regions(l.roi)
    BY <2>2 DEF Paired
  <2>5. end \in Nat
    BY <1>0, <2>1, RegionFacts
  <2> HIDE DEF n, m, cut, l, end
  <2>6. n - 1 \in Nat /\ n - 1 + Len(l.roi) = Len(s.roi) /\ Len(l.roi) \in Nat
    BY <2>1, <2>2
  <2> DEFINE i == IF Exact(s, count) THEN 0 ELSE 1
  <2>7. i \in Nat /\ i <= Len(l.roi) /\ n - 1 + i = m
    BY <2>1, <2>2, <2>3, <2>6
  <2>8. \A j \in i + 1 .. Len(l.roi) : l.roi[j] = s.roi[n - 1 + j]
    <3> SUFFICES ASSUME NEW j \in i + 1 .. Len(l.roi) PROVE l.roi[j] = s.roi[n - 1 + j]
      OBVIOUS
    <3>1. j \in 1 .. Len(l.roi) /\ ~(j = 1 /\ ~Exact(s, count)) /\ n + j - 1 = n - 1 + j
      BY <2>2, <2>6, <2>7
    <3> QED BY <2>2, <3>1
  <2>9. CumSum(l.roi, i) + count = CumSum(s.roi, n - 1 + i)
    <3>1. CASE Exact(s, count)
      <4>1. CumSum(l.roi, 0) = 0 /\ cut = end
        BY <2>1, <2>4, <3>1, CumSumFacts
      <4> QED BY <2>1, <2>5, <2>7, <3>1, <4>1
    <3>2. CASE ~Exact(s, count)
      <4>1. 1 \in 1 .. Len(l.roi)
        BY <2>6, <2>7, <3>2
      <4>2. l.roi[1] = <<cut, end>>
        BY <2>2, <3>2, <4>1
      <4>3. CumSum(l.roi, 1) = CumSum(l.roi, 0) + (l.roi[1][2] - l.roi[1][1]) /\ CumSum(l.roi, 0) = 0
        <5>1. 1 - 1 = 0
          OBVIOUS
        <5> QED BY <2>4, <4>1, <5>1, CumSumFacts
      <4>4. CumSum(l.roi, 1) = end - cut
        BY <2>1, <2>5, <4>2, <4>3
      <4> QED BY <2>1, <2>5, <2>7, <3>2, <4>4
    <3> QED BY <3>1, <3>2
  <2> HIDE DEF i
  <2>10. CumSum(l.roi, Len(l.roi)) + count = CumSum(s.roi, n - 1 + Len(l.roi))
    <3> DEFINE q == n - 1
    <3>1. q \in Nat /\ q + Len(l.roi) = Len(s.roi)
      BY <2>6
    <3>2. CumSum(l.roi, i) + count = CumSum(s.roi, q + i)
      BY <2>9
    <3>3. \A j \in i + 1 .. Len(l.roi) : l.roi[j] = s.roi[q + j]
      BY <2>8
    <3> HIDE DEF q
    <3>4. q + Len(l.roi) <= Len(s.roi)
      <4> DEFINE a == Len(l.roi)
                 b == Len(s.roi)
      <4>1. b \in Nat /\ q + a = b
        BY <2>1, <3>1
      <4> HIDE DEF a, b
      <4>2. q + a <= b
        BY <4>1
      <4> QED BY <4>2 DEF a, b
    <3>5. CumSum(l.roi, Len(l.roi)) + count = CumSum(s.roi, q + Len(l.roi))
      <4> DEFINE roi == s.roi
                 rest == l.roi
      <4>1. Regions(roi) /\ Regions(rest)
        BY <1>0, <2>4
      <4>2. q \in Nat /\ i \in Nat /\ i <= Len(rest) /\ q + Len(rest) <= Len(roi)
        BY <2>7, <3>1, <3>4
      <4>3. CumSum(rest, i) + count = CumSum(roi, q + i)
        BY <3>2
      <4>4. \A j \in i + 1 .. Len(rest) : rest[j] = roi[q + j]
        BY <3>3
      <4> HIDE DEF roi, rest
      <4>5. CumSum(rest, Len(rest)) + count = CumSum(roi, q + Len(rest))
        BY <4>1, <4>2, <4>3, <4>4, CumSumShift
      <4> QED BY <4>5 DEF roi, rest
    <3> QED BY <3>5 DEF q
  <2>11. CumSum(l.roi, Len(l.roi)) \in Nat
    BY <2>4, <2>6, CumSumFacts
  <2> QED BY <1>0, <2>2, <2>6, <2>10, <2>11 DEF ItemsIn, l
<1> QED BY <1>1, <1>2

\* No chunk is listed twice.
Distinct(s) == \A j, k \in 1 .. Len(s.roi) : s.files[j] = s.files[k] => j = k

\* The chunks of a subset are among these.
Among(s, chunks) == \A k \in 1 .. Len(s.roi) : s.files[k] \in chunks

LEMMA TakeAmong ==
    ASSUME NEW s, Paired(s), NEW count \in Nat, count <= ItemsIn(s.roi), NEW chunks, Among(s, chunks)
    PROVE  Among(TakeFirst(s, count), chunks)
<1>1. CASE count = 0
  BY <1>1 DEF TakeFirst, Nothing, Among
<1>2. CASE count # 0
  <2>1. Match(s, count) \in 1 .. Len(s.roi) /\ Len(s.roi) \in Nat
    BY <1>2, MatchFacts
  <2>2. /\ Len(TakeFirst(s, count).roi) = Match(s, count)
        /\ \A k \in 1 .. Match(s, count) : TakeFirst(s, count).files[k] = s.files[k]
    BY <1>2, TakeFacts
  <2> QED BY <2>1, <2>2 DEF Among
<1> QED BY <1>1, <1>2

LEMMA LeaveAmong ==
    ASSUME NEW s, Paired(s), NEW count \in Nat, count <= ItemsIn(s.roi), NEW chunks, Among(s, chunks)
    PROVE  Among(LeaveFirst(s, count), chunks)
<1>1. CASE count = 0
  BY <1>1 DEF LeaveFirst
<1>2. CASE count # 0
  <2>0. count \in Nat \ {0}
    BY <1>2
  <2>1. \A k \in 1 .. Len(LeaveFirst(s, count).roi) :
           /\ NextChunk(s, count) + k - 1 \in 1 .. Len(s.roi)
           /\ LeaveFirst(s, count).files[k] = s.files[NextChunk(s, count) + k - 1]
    BY ZenonT(30), <2>0, LeaveShape
  <2> QED BY <2>1 DEF Among
<1> QED BY <1>1, <1>2

\* Item x is in region k of a subset.
InRegion(s, k, x) ==
    k \in 1 .. Len(s.roi) /\ \E i \in s.roi[k][1] .. s.roi[k][2] - 1 : x = <<s.files[k], i>>

LEMMA ItemsAre ==
    ASSUME NEW s, Paired(s), NEW x
    PROVE  x \in ItemsOf(s) <=> \E k \in 1 .. Len(s.roi) : InRegion(s, k, x)
<1>1. DOMAIN s.files = 1 .. Len(s.roi)
  BY SeqFacts DEF Paired
<1> QED BY <1>1 DEF ItemsOf, InRegion

\* What is taken and what is left are parts of the subset that have no item in common.
LEMMA PartsApart ==
    ASSUME NEW s, Paired(s), Distinct(s), NEW count \in Nat, count <= ItemsIn(s.roi)
    PROVE  /\ Distinct(LeaveFirst(s, count))
           /\ ItemsOf(TakeFirst(s, count)) \subseteq ItemsOf(s)
           /\ ItemsOf(LeaveFirst(s, count)) \subseteq ItemsOf(s)
           /\ ItemsOf(TakeFirst(s, count)) \cap ItemsOf(LeaveFirst(s, count)) = {}
<1> DEFINE t == TakeFirst(s, count)
           l == LeaveFirst(s, count)
<1>1. CASE count = 0
  <2>1. l = s /\ t.files = << >>
    BY <1>1 DEF LeaveFirst, TakeFirst, Nothing
  <2>2. DOMAIN t.files = {}
    BY <2>1
  <2>3. ItemsOf(t) = {}
    BY <2>2 DEF ItemsOf
  <2> QED BY <2>1, <2>3
<1>2. CASE count # 0
  <2> DEFINE n == NextChunk(s, count)
             m == Match(s, count)
             cut == Cut(s, count)
             a == s.roi[m][1]
             b == s.roi[m][2]
  <2>1. /\ Len(s.roi) \in Nat /\ m \in 1 .. Len(s.roi) /\ cut \in Nat
        /\ a < cut /\ cut <= b
        /\ Exact(s, count) => cut = b
    BY <1>2, MatchFacts
  <2>2. /\ Paired(t) /\ Len(t.roi) = m
        /\ \A k \in 1 .. m :
              t.files[k] = s.files[k] /\ t.roi[k] = IF k = m THEN <<s.roi[k][1], cut>> ELSE s.roi[k]
    BY <1>2, TakeFacts
  <2>3. /\ n \in Nat \ {0} /\ Len(l.roi) = Len(s.roi) - n + 1 /\ Paired(l)
        /\ \A k \in 1 .. Len(l.roi) :
              /\ n + k - 1 \in 1 .. Len(s.roi)
              /\ l.files[k] = s.files[n + k - 1]
              /\ l.roi[k] = IF k = 1 /\ ~Exact(s, count) THEN <<cut, b>> ELSE s.roi[n + k - 1]
    <3>1. count \in Nat \ {0}
      BY <1>2
    <3> QED BY <3>1, LeaveShape
  <2>4. n = IF Exact(s, count) THEN m + 1 ELSE m
    BY DEF NextChunk
  <2>5. a \in Nat /\ b \in Nat
    BY <2>1, RegionFacts DEF Paired
  <2> HIDE DEF t, l, n, m, cut
  <2>6. ASSUME NEW k \in 1 .. Len(t.roi), NEW x, InRegion(t, k, x)
        PROVE  InRegion(s, k, x) /\ k <= m /\ (k = m => \E i \in a .. cut - 1 : x = <<s.files[m], i>>)
    <3>1. PICK i \in t.roi[k][1] .. t.roi[k][2] - 1 : x = <<t.files[k], i>>
      BY <2>6 DEF InRegion
    <3>2. k \in 1 .. m /\ k \in 1 .. Len(s.roi) /\ t.files[k] = s.files[k]
      <4>1. k \in 1 .. m
        BY <2>2
      <4>2. k \in 1 .. Len(s.roi)
        BY <2>1, <4>1
      <4> QED BY <2>2, <4>1, <4>2
    <3>3. CASE k = m
      <4>1. t.roi[k] = <<a, cut>>
        BY <2>2, <3>2, <3>3
      <4>2. i \in a .. cut - 1
        BY <3>1, <4>1
      <4>3. i \in a .. b - 1
        BY <2>1, <2>5, <4>2
      <4> QED BY <3>1, <3>2, <3>3, <4>2, <4>3 DEF InRegion
    <3>4. CASE k # m
      <4>1. t.roi[k] = s.roi[k]
        BY <2>2, <3>2, <3>4
      <4>2. i \in s.roi[k][1] .. s.roi[k][2] - 1
        BY <3>1, <4>1
      <4> QED BY <2>1, <3>1, <3>2, <3>4, <4>2 DEF InRegion
    <3> QED BY <3>3, <3>4
  <2>7. ASSUME NEW k \in 1 .. Len(l.roi), NEW x, InRegion(l, k, x)
        PROVE  /\ InRegion(s, n + k - 1, x) /\ m <= n + k - 1
               /\ n + k - 1 = m => \E i \in cut .. b - 1 : x = <<s.files[m], i>>
    <3>1. PICK i \in l.roi[k][1] .. l.roi[k][2] - 1 : x = <<l.files[k], i>>
      BY <2>7 DEF InRegion
    <3> DEFINE q == n + k - 1
    <3>2. q \in 1 .. Len(s.roi) /\ l.files[k] = s.files[q] /\ m <= q
      BY <2>1, <2>3, <2>4
    <3>3. CASE k = 1 /\ ~Exact(s, count)
      <4>1. l.roi[k] = <<cut, b>> /\ q = m
        BY <2>1, <2>3, <2>4, <3>3
      <4>2. i \in cut .. b - 1
        BY <3>1, <4>1
      <4>3. i \in a .. b - 1
        BY <2>1, <2>5, <4>2
      <4> QED BY <3>1, <3>2, <4>1, <4>2, <4>3 DEF InRegion
    <3>4. CASE ~(k = 1 /\ ~Exact(s, count))
      <4>1. l.roi[k] = s.roi[q] /\ q # m
        BY <2>1, <2>3, <2>4, <3>4
      <4>2. i \in s.roi[q][1] .. s.roi[q][2] - 1
        BY <3>1, <4>1
      <4> QED BY <3>1, <3>2, <4>1, <4>2 DEF InRegion
    <3> QED BY <3>3, <3>4
  <2>8. Distinct(l)
    <3> SUFFICES ASSUME NEW j \in 1 .. Len(l.roi), NEW k \in 1 .. Len(l.roi), l.files[j] = l.files[k]
                 PROVE  j = k
      BY DEF Distinct
    <3>1. n + j - 1 \in 1 .. Len(s.roi) /\ n + k - 1 \in 1 .. Len(s.roi)
          /\ s.files[n + j - 1] = s.files[n + k - 1]
      BY <2>3
    <3>2. n + j - 1 = n + k - 1
      BY <3>1 DEF Distinct
    <3> QED BY <2>3, <3>2
  <2>9. ItemsOf(t) \subseteq ItemsOf(s)
    <3> SUFFICES ASSUME NEW x \in ItemsOf(t) PROVE x \in ItemsOf(s)
      OBVIOUS
    <3>1. PICK k \in 1 .. Len(t.roi) : InRegion(t, k, x)
      BY <2>2, ItemsAre
    <3>2. InRegion(s, k, x) /\ k \in 1 .. Len(s.roi)
      BY <2>6, <3>1 DEF InRegion
    <3> QED BY <3>2, ItemsAre
  <2>10. ItemsOf(l) \subseteq ItemsOf(s)
    <3> SUFFICES ASSUME NEW x \in ItemsOf(l) PROVE x \in ItemsOf(s)
      OBVIOUS
    <3>1. PICK k \in 1 .. Len(l.roi) : InRegion(l, k, x)
      BY <2>3, ItemsAre
    <3>2. InRegion(s, n + k - 1, x) /\ n + k - 1 \in 1 .. Len(s.roi)
      BY <2>7, <3>1 DEF InRegion
    <3> QED BY <3>2, ItemsAre
  <2>11. ItemsOf(t) \cap ItemsOf(l) = {}
    <3> SUFFICES ASSUME NEW x \in ItemsOf(t), x \in ItemsOf(l) PROVE FALSE
      OBVIOUS
    <3>1. PICK j \in 1 .. Len(t.roi) : InRegion(t, j, x)
      BY <2>2, ItemsAre
    <3>2. PICK k \in 1 .. Len(l.roi) : InRegion(l, k, x)
      BY <2>3, ItemsAre
    <3> DEFINE q == n + k - 1
    <3>3. /\ InRegion(s, j, x) /\ j <= m /\ (j = m => \E i \in a .. cut - 1 : x = <<s.files[m], i>>)
          /\ InRegion(s, q, x) /\ m <= q /\ (q = m => \E i \in cut .. b - 1 : x = <<s.files[m], i>>)
      BY <2>6, <2>7, <3>1, <3>2
    <3>4. j \in 1 .. Len(s.roi) /\ q \in 1 .. Len(s.roi) /\ s.files[j] = s.files[q]
      BY <3>3 DEF InRegion
    <3>5. j = q
      BY <3>4 DEF Distinct
    <3>6. j = m /\ q = m
      BY <2>1, <3>3, <3>4, <3>5
    <3>7. PICK i \in a .. cut - 1 : x = <<s.files[m], i>>
      BY <3>3, <3>6
    <3>8. PICK h \in cut .. b - 1 : x = <<s.files[m], h>>
      BY <3>3, <3>6
    <3>9. i = h
      BY <3>7, <3>8
    <3>10. i \in a .. cut - 1 /\ i \in cut .. b - 1
      BY <3>9
    <3> QED BY <2>1, <2>5, <3>10
  <2> QED BY <2>8, <2>9, <2>10, <2>11 DEF t, l
<1> QED BY <1>1, <1>2

\* The function that Leftovers is computed with, which exists.
Leaving(f, s, counts, m) ==
    f = [n \in 0 .. m |-> IF n = 0 THEN s ELSE LeaveFirst(f[n - 1], counts[n])]

LEMMA LeftoversExist ==
    ASSUME NEW s, NEW counts, NEW m \in Nat
    PROVE  \E f : Leaving(f, s, counts, m)
<1> DEFINE Left(f, k) == Leaving(f, s, counts, k)
           T == {n \in Nat : \E f : Left(f, n)}
<1>1. 0 \in T
  <2>1. Left([n \in 0 .. 0 |-> s], 0)
    BY DEF Leaving
  <2> HIDE DEF Left
  <2> QED BY <2>1
<1>2. ASSUME NEW n \in T PROVE n + 1 \in T
  <2>1. n \in Nat /\ \E f : Left(f, n)
    OBVIOUS
  <2>2. PICK f : Left(f, n)
    BY <2>1
  <2> DEFINE last == LeaveFirst(f[n], counts[n + 1])
             g == [i \in 0 .. n + 1 |-> IF i = n + 1 THEN last ELSE f[i]]
  <2>3. ASSUME NEW i \in 0 .. n + 1
        PROVE  g[i] = IF i = 0 THEN s ELSE LeaveFirst(g[i - 1], counts[i])
    <3>1. CASE i = n + 1
      <4>1. g[i] = last /\ g[i - 1] = f[n] /\ i # 0 /\ i - 1 = n
        BY <2>1, <3>1
      <4> HIDE DEF g
      <4> QED BY <3>1, <4>1
    <3>2. CASE i # n + 1
      <4>0. i \in 0 .. n
        BY <2>1, <3>2
      <4>1. f[i] = IF i = 0 THEN s ELSE LeaveFirst(f[i - 1], counts[i])
        <5>1. f[i] = [k \in 0 .. n |-> IF k = 0 THEN s ELSE LeaveFirst(f[k - 1], counts[k])][i]
          BY <2>2 DEF Leaving
        <5> QED BY <4>0, <5>1
      <4>2. g[i] = f[i] /\ (i # 0 => g[i - 1] = f[i - 1])
        BY <2>1, <4>0
      <4> HIDE DEF g
      <4> QED BY <4>1, <4>2
    <3> QED BY <3>1, <3>2
  <2>4. Left(g, n + 1)
    <3>1. g = [i \in 0 .. n + 1 |-> g[i]]
      OBVIOUS
    <3> HIDE DEF g
    <3>2. g = [i \in 0 .. n + 1 |-> IF i = 0 THEN s ELSE LeaveFirst(g[i - 1], counts[i])]
      BY <2>3, <3>1
    <3> QED BY <3>2 DEF Leaving
  <2> HIDE DEF g, Left
  <2> QED BY <2>1, <2>4
<1>3. T = Nat
  <2> HIDE DEF T
  <2>1. T \subseteq Nat
    BY DEF T
  <2> QED BY <1>1, <1>2, <2>1, Induct
<1> QED
  <2>1. m \in T
    <3> HIDE DEF T
    <3> QED BY <1>3
  <2> QED BY <2>1

LEMMA LeftoversAre ==
    ASSUME NEW s, NEW counts, Len(counts) \in Nat
    PROVE  /\ Leftovers(s, counts)[0] = s
           /\ \A n \in 1 .. Len(counts) :
                 Leftovers(s, counts)[n] = LeaveFirst(Leftovers(s, counts)[n - 1], counts[n])
<1> DEFINE m == Len(counts)
           left == CHOOSE f : Leaving(f, s, counts, m)
<1>1. Leaving(left, s, counts, m)
  <2>1. m \in Nat
    OBVIOUS
  <2>2. \E f : Leaving(f, s, counts, m)
    BY <2>1, LeftoversExist
  <2> QED BY <2>2
<1>2. Leftovers(s, counts) = left
  BY DEF Leftovers, Leaving
<1> HIDE DEF left
<1>3. ASSUME NEW n \in 0 .. m
      PROVE  left[n] = IF n = 0 THEN s ELSE LeaveFirst(left[n - 1], counts[n])
  <2>1. left[n] = [k \in 0 .. m |-> IF k = 0 THEN s ELSE LeaveFirst(left[k - 1], counts[k])][n]
    BY <1>1 DEF Leaving
  <2> QED BY <2>1
<1>4. left[0] = s
  BY <1>3
<1>5. \A n \in 1 .. m : left[n] = LeaveFirst(left[n - 1], counts[n])
  BY <1>3
<1> QED BY <1>2, <1>4, <1>5

\* Taking the first counts one after the other leaves the rest, which is part of
\* what was left before.
LEMMA LeftoversFacts ==
    ASSUME NEW s, Paired(s), NEW counts \in Seq(Nat),
           \A n \in 0 .. Len(counts) : SumFunctionOnSet(counts, 1 .. n) <= ItemsIn(s.roi),
           NEW n \in 0 .. Len(counts)
    PROVE  /\ Paired(Leftovers(s, counts)[n])
           /\ ItemsIn(Leftovers(s, counts)[n].roi) = ItemsIn(s.roi) - SumFunctionOnSet(counts, 1 .. n)
           /\ \A chunks : Among(s, chunks) => Among(Leftovers(s, counts)[n], chunks)
           /\ Distinct(s) =>
                 /\ Distinct(Leftovers(s, counts)[n])
                 /\ ItemsOf(Leftovers(s, counts)[n]) \subseteq ItemsOf(s)
                 /\ \A m \in 0 .. n :
                       ItemsOf(Leftovers(s, counts)[n]) \subseteq ItemsOf(Leftovers(s, counts)[m])
<1> DEFINE left == Leftovers(s, counts)
           sum(k) == SumFunctionOnSet(counts, 1 .. k)
           P(k) == /\ Paired(left[k]) /\ ItemsIn(left[k].roi) = ItemsIn(s.roi) - sum(k)
                   /\ \A chunks : Among(s, chunks) => Among(left[k], chunks)
                   /\ Distinct(s) =>
                         /\ Distinct(left[k])
                         /\ ItemsOf(left[k]) \subseteq ItemsOf(s)
                         /\ \A m \in 0 .. k : ItemsOf(left[k]) \subseteq ItemsOf(left[m])
           T == {k \in Nat : k <= Len(counts) => P(k)}
<1>0. Len(counts) \in Nat /\ left[0] = s
      /\ \A k \in 1 .. Len(counts) : left[k] = LeaveFirst(left[k - 1], counts[k]) /\ counts[k] \in Nat
  BY LeftoversAre
<1>1. sum(0) = 0 /\ \A k \in 0 .. Len(counts) : sum(k) \in Nat
  <2>1. sum(0) = 0
    <3>1. 1 .. 0 = {}
      OBVIOUS
    <3> QED BY <3>1, SumEmpty
  <2>2. ASSUME NEW k \in 0 .. Len(counts) PROVE sum(k) \in Nat
    <3>1. k \in Nat /\ \A i \in 1 .. k : counts[i] \in Nat
      BY <1>0
    <3>2. IsFiniteSet(1 .. k)
      BY <3>1, FS_Interval
    <3> QED BY <3>1, <3>2, SumType
  <2> QED BY <2>1, <2>2
<1>2. ASSUME NEW k \in 1 .. Len(counts) PROVE sum(k) = sum(k - 1) + counts[k]
  <2>1. k \in Nat \ {0} /\ (1 .. k) = (1 .. k - 1) \union {k} /\ k \notin 1 .. k - 1
    BY <1>0
  <2>2. IsFiniteSet(1 .. k - 1)
    BY <2>1, FS_Interval
  <2>3. \A i \in (1 .. k - 1) \union {k} : counts[i] \in Nat
    BY <1>0
  <2>4. SumFunctionOnSet(counts, (1 .. k - 1) \union {k}) = SumFunctionOnSet(counts, 1 .. k - 1) + counts[k]
    BY <2>1, <2>2, <2>3, SumAdd
  <2> QED BY <2>1, <2>4
<1>3. ItemsIn(s.roi) \in Nat
  BY RegionFacts, CumSumFacts DEF Paired, ItemsIn
<1>4. \A k \in 0 .. Len(counts) : sum(k) <= ItemsIn(s.roi)
  OBVIOUS
<1> HIDE DEF left, sum
<1>5. 0 \in T
  <2>1. Paired(left[0]) /\ ItemsIn(left[0].roi) = ItemsIn(s.roi) - sum(0)
    BY <1>0, <1>1, <1>3
  <2>2. \A m \in 0 .. 0 : m = 0
    OBVIOUS
  <2> QED BY <1>0, <2>1, <2>2
<1>6. ASSUME NEW k \in T PROVE k + 1 \in T
  <2>1. k \in Nat /\ (k <= Len(counts) => P(k))
    OBVIOUS
  <2> SUFFICES ASSUME k + 1 <= Len(counts) PROVE P(k + 1)
    BY <2>1
  <2> DEFINE j == k + 1
  <2>2. j \in 1 .. Len(counts) /\ j - 1 = k /\ j \in 0 .. Len(counts) /\ k \in 0 .. Len(counts)
    BY <1>0, <2>1
  <2>3. P(k)
    BY <1>0, <2>1, <2>2
  <2> HIDE DEF j
  <2>4. left[j] = LeaveFirst(left[k], counts[j]) /\ counts[j] \in Nat /\ sum(j) = sum(k) + counts[j]
    BY <1>0, <1>2, <2>2
  <2>5. /\ sum(j) \in Nat /\ sum(k) \in Nat /\ sum(j) <= ItemsIn(s.roi)
    BY <1>1, <1>4, <2>2
  <2>6. counts[j] <= ItemsIn(left[k].roi)
    BY <1>3, <2>3, <2>4, <2>5
  <2>7. Paired(left[j]) /\ ItemsIn(left[j].roi) = ItemsIn(left[k].roi) - counts[j]
    BY <2>3, <2>4, <2>6, LeaveFacts
  <2>8. ItemsIn(left[j].roi) = ItemsIn(s.roi) - sum(j)
    BY <1>3, <2>3, <2>4, <2>5, <2>7
  <2>9. ASSUME Distinct(s)
        PROVE  /\ Distinct(left[j])
               /\ ItemsOf(left[j]) \subseteq ItemsOf(s)
               /\ \A m \in 0 .. j : ItemsOf(left[j]) \subseteq ItemsOf(left[m])
    <3>1. Distinct(left[j]) /\ ItemsOf(left[j]) \subseteq ItemsOf(left[k])
      BY <2>3, <2>4, <2>6, <2>9, PartsApart
    <3>2. \A m \in 0 .. j : m = j \/ m \in 0 .. k
      BY <2>1, <2>2
    <3> QED BY <2>3, <2>9, <3>1, <3>2
  <2>10. ASSUME NEW chunks, Among(s, chunks) PROVE Among(left[j], chunks)
    BY <2>3, <2>4, <2>6, <2>10, LeaveAmong
  <2> QED BY <2>7, <2>8, <2>9, <2>10 DEF j
<1>7. T = Nat
  <2> HIDE DEF T
  <2>1. T \subseteq Nat
    BY DEF T
  <2> QED BY <1>5, <1>6, <2>1, Induct
<1>8. P(n)
  <2>1. n \in T /\ n <= Len(counts)
    <3>1. n \in Nat /\ n <= Len(counts)
      BY <1>0
    <3> HIDE DEF T
    <3> QED BY <1>7, <3>1
  <2> HIDE DEF P
  <2> QED BY <2>1
<1> QED BY <1>8 DEF left, sum

\* Shares that are no more than a whole take no more items than there are.
LEMMA CountsFit ==
    ASSUME NEW total \in Nat, NEW shares \in Seq(Nat), SumFunction(shares) <= Grain,
           NEW counts, counts = [n \in DOMAIN shares |-> ShareOf(total, shares[n])]
    PROVE  /\ counts \in Seq(Nat) /\ Len(counts) = Len(shares)
           /\ \A n \in 0 .. Len(counts) : SumFunctionOnSet(counts, 1 .. n) <= total
<1> DEFINE len == Len(shares)
           sum(k) == SumFunctionOnSet(counts, 1 .. k)
           part(k) == SumFunctionOnSet(shares, 1 .. k)
<1>0. len \in Nat /\ DOMAIN shares = 1 .. len /\ \A k \in 1 .. len : shares[k] \in Nat
  OBVIOUS
<1>1. ASSUME NEW k \in 1 .. len
      PROVE  counts[k] \in Nat /\ Grain * counts[k] <= total * shares[k]
  <2>1. counts[k] = ShareOf(total, shares[k]) /\ shares[k] \in Nat
    BY <1>0
  <2> DEFINE p == total * shares[k]
  <2>2. p \in Nat
    BY <2>1, Product
  <2>3. counts[k] = p \div 4
    BY <2>1 DEF ShareOf, Grain
  <2> HIDE DEF p
  <2>4. p \div 4 \in Nat /\ 4 * (p \div 4) <= p
    BY <2>2
  <2> QED BY <2>3, <2>4 DEF p, Grain
<1>2. counts \in Seq(Nat) /\ Len(counts) = len
  <2>1. counts = [k \in 1 .. len |-> counts[k]]
    BY <1>0
  <2> HIDE DEF len
  <2> QED BY <1>0, <1>1, <2>1
<1>3. \A k \in 0 .. len : sum(k) \in Nat /\ part(k) \in Nat
  <2> SUFFICES ASSUME NEW k \in 0 .. len PROVE sum(k) \in Nat /\ part(k) \in Nat
    OBVIOUS
  <2>1. k \in Nat /\ 1 .. k \subseteq 1 .. len
    BY <1>0
  <2>2. IsFiniteSet(1 .. k) /\ \A i \in 1 .. k : counts[i] \in Nat /\ shares[i] \in Nat
    BY <1>0, <1>1, <2>1, FS_Interval
  <2> QED BY <2>2, SumType
<1>4. ASSUME NEW k \in 1 .. len
      PROVE  sum(k) = sum(k - 1) + counts[k] /\ part(k) = part(k - 1) + shares[k]
  <2>1. k \in Nat \ {0} /\ (1 .. k) = (1 .. k - 1) \union {k} /\ k \notin 1 .. k - 1
    BY <1>0
  <2>2. IsFiniteSet(1 .. k - 1)
    BY <2>1, FS_Interval
  <2>3. \A i \in (1 .. k - 1) \union {k} : counts[i] \in Nat /\ shares[i] \in Nat
    BY <1>0, <1>1
  <2>4. /\ SumFunctionOnSet(counts, (1 .. k - 1) \union {k}) = SumFunctionOnSet(counts, 1 .. k - 1) + counts[k]
        /\ SumFunctionOnSet(shares, (1 .. k - 1) \union {k}) = SumFunctionOnSet(shares, 1 .. k - 1) + shares[k]
    BY <2>1, <2>2, <2>3, SumAdd
  <2> QED BY <2>1, <2>4
<1>5. sum(0) = 0 /\ part(0) = 0
  <2>1. 1 .. 0 = {}
    OBVIOUS
  <2> QED BY <2>1, SumEmpty
<1>6. part(len) <= Grain
  BY <1>0 DEF SumFunction
<1> HIDE DEF sum, part, len
<1> DEFINE U == {k \in Nat : k <= len => Grain * sum(k) <= total * part(k)}
<1>7. 0 \in U
  BY <1>5 DEF Grain
<1>8. ASSUME NEW k \in U PROVE k + 1 \in U
  <2>1. k \in Nat /\ (k <= len => Grain * sum(k) <= total * part(k))
    OBVIOUS
  <2> SUFFICES ASSUME k + 1 <= len PROVE Grain * sum(k + 1) <= total * part(k + 1)
    BY <2>1
  <2> DEFINE j == k + 1
  <2>2. j \in 1 .. len /\ j - 1 = k /\ k \in 0 .. len /\ k <= len
    BY <1>0, <2>1
  <2> HIDE DEF j
  <2>3. /\ sum(j) = sum(k) + counts[j] /\ part(j) = part(k) + shares[j]
        /\ counts[j] \in Nat /\ Grain * counts[j] <= total * shares[j] /\ shares[j] \in Nat
        /\ sum(k) \in Nat /\ part(k) \in Nat /\ Grain * sum(k) <= total * part(k)
    BY <1>0, <1>1, <1>3, <1>4, <2>1, <2>2
  <2>4. total * (part(k) + shares[j]) = total * part(k) + total * shares[j]
    BY <2>3, Distribute
  <2>5. total * part(k) \in Nat /\ total * shares[j] \in Nat
    BY <2>3, Product
  <2>6. 4 * (sum(k) + counts[j]) <= total * part(k) + total * shares[j]
    <3> DEFINE a == sum(k)
               b == counts[j]
               x == total * part(k)
               y == total * shares[j]
    <3>1. a \in Nat /\ b \in Nat /\ x \in Nat /\ y \in Nat /\ 4 * a <= x /\ 4 * b <= y
      BY <2>3, <2>5 DEF Grain
    <3> HIDE DEF a, b, x, y
    <3>2. 4 * (a + b) <= x + y
      BY <3>1
    <3> QED BY <3>2 DEF a, b, x, y
  <2> QED BY <2>3, <2>4, <2>6 DEF j, Grain
<1>9. U = Nat
  <2> HIDE DEF U
  <2>1. U \subseteq Nat
    BY DEF U
  <2> QED BY <1>7, <1>8, <2>1, Induct
<1>10. ASSUME NEW k \in 0 .. len PROVE part(k) <= part(len)
  <2> DEFINE rest == SumFunctionOnSet(shares, k + 1 .. len)
  <2>1. k \in Nat /\ (1 .. k) \union (k + 1 .. len) = 1 .. len /\ (1 .. k) \cap (k + 1 .. len) = {}
    BY <1>0
  <2>2. IsFiniteSet(1 .. k) /\ IsFiniteSet(k + 1 .. len)
    <3>1. k + 1 \in Int /\ len \in Int
      BY <1>0, <2>1
    <3> QED BY <2>1, <3>1, FS_Interval
  <2>3. \A i \in (1 .. k) \union (k + 1 .. len) : shares[i] \in Nat
    BY <1>0, <2>1
  <2>4. part(len) = part(k) + rest
    <3> DEFINE S == 1 .. k
               T == k + 1 .. len
    <3> HIDE DEF S, T
    <3>1. SumFunctionOnSet(shares, S \union T) = SumFunctionOnSet(shares, S) + SumFunctionOnSet(shares, T)
      BY <2>1, <2>2, <2>3, SumUnion DEF S, T
    <3> QED BY <2>1, <3>1 DEF S, T, part
  <2>5. rest \in Nat
    BY <2>2, <2>3, SumType
  <2> QED BY <1>3, <2>4, <2>5
<1>11. ASSUME NEW k \in 0 .. len PROVE sum(k) <= total
  <2>1. k \in U /\ k <= len
    <3>1. k \in Nat /\ k <= len
      BY <1>0
    <3> HIDE DEF U
    <3> QED BY <1>9, <3>1
  <2>2. Grain * sum(k) <= total * part(k)
    BY <2>1
  <2>3. sum(k) \in Nat /\ part(k) \in Nat /\ part(k) <= 4 /\ part(len) \in Nat
    <3>1. len \in 0 .. len
      BY <1>0
    <3> QED BY <1>3, <1>6, <1>10, <3>1 DEF Grain
  <2>4. total * part(k) <= total * 4
    BY <2>3, Monotone
  <2>5. total * part(k) \in Nat
    BY <2>3, Product
  <2> DEFINE x == total * part(k)
  <2>6. x \in Nat /\ 4 * sum(k) <= x /\ x <= total * 4
    BY <2>2, <2>4, <2>5 DEF Grain
  <2> HIDE DEF x
  <2> QED BY <2>3, <2>6
<1> QED BY <1>2, <1>11 DEF sum, len

\* A sum does not depend on the order.
LEMMA SumPermuted ==
    ASSUME NEW S, NEW U, IsFiniteSet(S), IsFiniteSet(U), NEW p \in [S -> U],
           \A x, y \in S : p[x] = p[y] => x = y,
           NEW f, NEW g, \A y \in U : f[y] \in Nat, \A x \in S : g[x] = f[p[x]]
    PROVE  SumFunctionOnSet(g, S) = SumFunctionOnSet(f, {p[x] : x \in S})
<1> DEFINE Image(s) == {p[x] : x \in s}
           P == {s \in SUBSET S : SumFunctionOnSet(g, s) = SumFunctionOnSet(f, Image(s))}
<1>1. {} \in P
  <2>1. Image({}) = {}
    OBVIOUS
  <2> QED BY <2>1, SumEmpty
<1>2. ASSUME NEW s \in SUBSET S, s # {}, \A t \in SUBSET s : t # s => t \in P
      PROVE  s \in P
  <2>1. PICK x \in s : TRUE
    BY <1>2
  <2>2. p[x] \in Image(s) /\ Image(s) \ {p[x]} = Image(s \ {x}) /\ Image(s) \subseteq U
    BY <2>1
  <2>3. IsFiniteSet(s) /\ IsFiniteSet(Image(s))
    BY <2>2, FS_Subset
  <2>4. \A y \in s : g[y] \in Nat
    OBVIOUS
  <2>5. \A y \in Image(s) : f[y] \in Nat
    BY <2>2
  <2> HIDE DEF Image
  <2>6. SumFunctionOnSet(g, s) = g[x] + SumFunctionOnSet(g, s \ {x})
    BY <2>1, <2>3, <2>4, SumTakeOut
  <2>7. SumFunctionOnSet(f, Image(s)) = f[p[x]] + SumFunctionOnSet(f, Image(s) \ {p[x]})
    BY <2>2, <2>3, <2>5, SumTakeOut
  <2>8. s \ {x} \in P
    <3> HIDE DEF P
    <3> QED BY <1>2, <2>1
  <2>9. g[x] = f[p[x]]
    BY <2>1
  <2> QED BY <2>2, <2>6, <2>7, <2>8, <2>9
<1>3. S \in P
  <2> HIDE DEF P
  <2>1. P \subseteq SUBSET S
    BY DEF P
  <2> QED BY <1>1, <1>2, <2>1, FiniteInduct
<1> QED BY <1>3

\* A subset in another order has as many items, and the same if no chunk is listed twice.
LEMMA OrderFacts ==
    ASSUME NEW s, Paired(s), NEW shuffle, NEW t \in Orders(s, shuffle)
    PROVE  /\ Paired(t) /\ Len(t.roi) = Len(s.roi) /\ ItemsIn(t.roi) = ItemsIn(s.roi)
           /\ Distinct(s) => Distinct(t)
           /\ ItemsOf(t) = ItemsOf(s)
           /\ \A k \in 1 .. Len(t.roi) : \E j \in 1 .. Len(s.roi) :
                 t.files[k] = s.files[j] /\ t.roi[k] = s.roi[j]
<1> DEFINE n == Len(s.roi)
<1>0. /\ n \in Nat /\ Regions(s.roi) /\ IsSeq(s.files) /\ Len(s.files) = n /\ DOMAIN s.files = 1 .. n
      /\ DOMAIN s.roi = 1 .. n
  BY SeqFacts, RegionFacts DEF Paired
<1>1. CASE t = s
  BY <1>0, <1>1
<1>2. CASE t \in ShuffledTogether(s)
  <2>1. PICK p \in SetToSeqs(1 .. n) :
            t = [files |-> [k \in DOMAIN p |-> s.files[p[k]]], roi |-> [k \in DOMAIN p |-> s.roi[p[k]]]]
    BY <1>0, <1>2 DEF ShuffledTogether
  <2> HIDE DEF n
  <2>2. Cardinality(1 .. n) = n /\ IsFiniteSet(1 .. n)
    <3>1. 1 \in Int /\ n \in Int /\ (IF 1 > n THEN 0 ELSE n - 1 + 1) = n
      BY <1>0
    <3> QED BY <3>1, FS_Interval
  <2>3. p \in [1 .. n -> 1 .. n] /\ \A i, j \in 1 .. n : i # j => p[i] # p[j]
    BY <2>1, <2>2 DEF SetToSeqs
  <2>4. {p[k] : k \in 1 .. n} = 1 .. n
    <3>1. p \in Injection(1 .. n, 1 .. n)
      BY <2>3 DEF Injection, IsInjective
    <3>2. p \in Surjection(1 .. n, 1 .. n)
      BY <2>2, <3>1, FS_Injection
    <3>3. \A j \in 1 .. n : \E k \in 1 .. n : p[k] = j
      BY <3>2 DEF Surjection
    <3>4. \A k \in 1 .. n : p[k] \in 1 .. n
      BY <2>3
    <3> QED BY <3>3, <3>4
  <2>5. /\ t.files = [k \in 1 .. n |-> s.files[p[k]]] /\ t.roi = [k \in 1 .. n |-> s.roi[p[k]]]
    BY <2>1, <2>3
  <2>6. \A k \in 1 .. n : p[k] \in 1 .. n /\ t.files[k] = s.files[p[k]] /\ t.roi[k] = s.roi[p[k]]
    BY <2>3, <2>5
  <2>7. t.roi \in Seq(Nat \X Nat) /\ Len(t.roi) = n /\ IsSeq(t.files) /\ Len(t.files) = n
    <3>1. \A k \in 1 .. n : t.roi[k] \in Nat \X Nat
      <4>1. \A k \in 1 .. n : s.roi[k] \in Nat \X Nat
        BY <1>0 DEF Regions, n
      <4> QED BY <2>6, <4>1
    <3>2. PICK S : s.files \in Seq(S)
      BY <1>0 DEF IsSeq
    <3>3. \A k \in 1 .. n : t.files[k] \in S
      BY <1>0, <2>6, <3>2
    <3>4. t.roi = [k \in 1 .. n |-> t.roi[k]] /\ t.files = [k \in 1 .. n |-> t.files[k]]
      BY <2>5
    <3>5. t.roi \in Seq(Nat \X Nat) /\ Len(t.roi) = n
      BY <1>0, <3>1, <3>4
    <3>6. t.files \in Seq(S) /\ Len(t.files) = n
      BY <1>0, <3>3, <3>4
    <3> QED BY <3>5, <3>6 DEF IsSeq
  <2>8. Regions(t.roi)
    BY <1>0, <2>6, <2>7 DEF Regions, n
  <2>9. ItemsIn(t.roi) = ItemsIn(s.roi)
    <3> DEFINE f == RegionSizes(s.roi)
               g == RegionSizes(t.roi)
    <3>1. \A k \in 1 .. n : f[k] = s.roi[k][2] - s.roi[k][1] /\ f[k] \in Nat
      BY <1>0, RegionFacts DEF n
    <3>2. \A k \in 1 .. n : g[k] = t.roi[k][2] - t.roi[k][1]
      BY <2>7, <2>8, RegionFacts
    <3> HIDE DEF f, g
    <3>3. \A k \in 1 .. n : g[k] = f[p[k]]
      BY <2>6, <3>1, <3>2
    <3>4. \A i, j \in 1 .. n : p[i] = p[j] => i = j
      BY <2>3
    <3>5. \A k \in 1 .. n : f[k] \in Nat
      BY <3>1
    <3>6. SumFunctionOnSet(g, 1 .. n) = SumFunctionOnSet(f, {p[k] : k \in 1 .. n})
      <4> DEFINE D == 1 .. n
      <4>1. /\ IsFiniteSet(D) /\ p \in [D -> D] /\ \A i, j \in D : p[i] = p[j] => i = j
            /\ \A k \in D : f[k] \in Nat /\ g[k] = f[p[k]]
        BY <2>2, <2>3, <3>3, <3>4, <3>5
      <4> HIDE DEF D
      <4>2. SumFunctionOnSet(g, D) = SumFunctionOnSet(f, {p[k] : k \in D})
        BY <4>1, SumPermuted
      <4> QED BY <4>2 DEF D
    <3> QED BY <2>4, <2>7, <3>6 DEF ItemsIn, CumSum, f, g, n
  <2>10. ASSUME Distinct(s) PROVE Distinct(t)
    <3> SUFFICES ASSUME NEW j \in 1 .. n, NEW k \in 1 .. n, t.files[j] = t.files[k] PROVE j = k
      BY <2>7 DEF Distinct
    <3>1. p[j] = p[k]
      BY <2>6, <2>10 DEF Distinct, n
    <3> QED BY <2>3, <3>1
  <2>11. Paired(t)
    BY <2>7, <2>8 DEF Paired
  <2>12. ItemsOf(t) = ItemsOf(s)
    <3>1. ASSUME NEW x \in ItemsOf(t) PROVE x \in ItemsOf(s)
      <4>1. PICK k \in 1 .. n : InRegion(t, k, x)
        BY <2>7, <2>11, ItemsAre
      <4>2. InRegion(s, p[k], x) /\ p[k] \in 1 .. Len(s.roi)
        BY <2>6, <4>1 DEF InRegion, n
      <4> QED BY <4>2, ItemsAre
    <3>2. ASSUME NEW x \in ItemsOf(s) PROVE x \in ItemsOf(t)
      <4>1. PICK j \in 1 .. n : InRegion(s, j, x)
        BY ItemsAre DEF n
      <4>2. PICK k \in 1 .. n : p[k] = j
        BY <2>4
      <4>3. InRegion(t, k, x)
        BY <2>6, <2>7, <4>1, <4>2 DEF InRegion
      <4> QED BY <2>7, <2>11, <4>3, ItemsAre
    <3> QED BY <3>1, <3>2
  <2>13. \A k \in 1 .. n : \E j \in 1 .. n : t.files[k] = s.files[j] /\ t.roi[k] = s.roi[j]
    BY <2>6
  <2> QED BY <2>7, <2>9, <2>10, <2>11, <2>12, <2>13 DEF n
<1> QED BY <1>1, <1>2 DEF Orders

\* The first chunks of a list, as many as they are if no chunk comes twice.
Firsts(files, k) == {files[j] : j \in 1 .. k}

LEMMA FirstCounted ==
    ASSUME NEW files, NEW n \in Nat, NEW k \in 0 .. n,
           \A i, j \in 1 .. n : files[i] = files[j] => i = j
    PROVE  Cardinality(Firsts(files, k)) = k
<1> DEFINE D == 1 .. k
           S == {files[j] : j \in D}
           f == [j \in D |-> files[j]]
<1>1. IsFiniteSet(D) /\ Cardinality(D) = k
  <2>1. 1 \in Int /\ k \in Int /\ (IF 1 > k THEN 0 ELSE k - 1 + 1) = k
    OBVIOUS
  <2> QED BY <2>1, FS_Interval
<1>2. D \subseteq 1 .. n
  OBVIOUS
<1>3. f \in Surjection(D, S) /\ f \in Injection(D, S)
  <2>1. f \in [D -> S] /\ \A j \in D : f[j] = files[j]
    OBVIOUS
  <2>2. \A x \in S : \E j \in D : f[j] = x
    OBVIOUS
  <2>3. \A i, j \in D : f[i] = f[j] => i = j
    BY <1>2
  <2>4. DOMAIN f = D
    OBVIOUS
  <2> HIDE DEF f, D, S
  <2> QED BY <2>1, <2>2, <2>3, <2>4 DEF Surjection, Injection, IsInjective
<1> HIDE DEF f, D, S
<1>4. IsFiniteSet(S) /\ Cardinality(S) = Cardinality(D)
  BY <1>1, <1>3, FS_Surjection
<1>5. Firsts(files, k) = S
  BY DEF Firsts, S, D
<1> QED BY <1>1, <1>4, <1>5

\* Chunks that are listed as the index lists them stay in their places.
LEMMA OrderKept ==
    ASSUME NEW files, IsSeq(files), \A k \in 1 .. Len(files) : files[k] \in Nat,
           \A j, k \in 1 .. Len(files) : j < k => files[j] < files[k]
    PROVE  InIndexOrder(ToSet(files)) = files
<1> DEFINE n == Len(files)
           S == ToSet(files)
<1>0. n \in Nat /\ DOMAIN files = 1 .. n /\ files \in Seq(S)
  BY SeqFacts
<1>1. S = Firsts(files, n) /\ S = {files[j] : j \in 1 .. n}
  BY <1>0 DEF ToSet, Firsts
<1>2. \A i, j \in 1 .. n : files[i] = files[j] => i = j
  <2> SUFFICES ASSUME NEW i \in 1 .. n, NEW j \in 1 .. n, files[i] = files[j] PROVE i = j
    OBVIOUS
  <2>1. files[i] \in Nat /\ files[j] \in Nat /\ (i < j => files[i] < files[j]) /\ (j < i => files[j] < files[i])
    OBVIOUS
  <2>2. ~(i < j) /\ ~(j < i)
    BY <2>1
  <2> QED BY <2>2
<1> HIDE DEF n, S
<1>3. Cardinality(S) = n
  <2>1. n \in 0 .. n
    BY <1>0
  <2> QED BY <1>0, <1>1, <1>2, <2>1, FirstCounted
<1>4. ASSUME NEW k \in 1 .. n
      PROVE  Cardinality({d \in S : d <= files[k]}) = k
  <2>1. {d \in S : d <= files[k]} = Firsts(files, k)
    <3>1. ASSUME NEW j \in 1 .. n PROVE files[j] <= files[k] <=> j \in 1 .. k
      <4>1. files[j] \in Nat /\ files[k] \in Nat /\ (j < k => files[j] < files[k]) /\ (k < j => files[k] < files[j])
        BY DEF n
      <4>2. CASE j < k
        BY <4>1, <4>2
      <4>3. CASE j = k
        BY <4>1, <4>3
      <4>4. CASE k < j
        BY <4>1, <4>4
      <4> QED BY <4>2, <4>3, <4>4
    <3>2. \A j \in 1 .. k : j \in 1 .. n
      BY <1>0
    <3> QED BY <1>1, <3>1, <3>2 DEF Firsts
  <2>2. k \in 0 .. n
    OBVIOUS
  <2> QED BY <1>0, <1>2, <2>1, <2>2, FirstCounted
<1>5. ASSUME NEW k \in 1 .. n
      PROVE  (CHOOSE c \in S : Cardinality({d \in S : d <= c}) = k) = files[k]
  <2>1. files[k] \in S /\ Cardinality({d \in S : d <= files[k]}) = k
    BY <1>1, <1>4
  <2>2. ASSUME NEW c \in S, Cardinality({d \in S : d <= c}) = k PROVE c = files[k]
    <3>1. PICK j \in 1 .. n : c = files[j]
      BY <1>1
    <3>2. j = k
      BY <1>4, <2>2, <3>1
    <3> QED BY <3>1, <3>2
  <2> QED BY <2>1, <2>2
<1>6. files = [k \in 1 .. n |-> files[k]]
  BY <1>0
<1>7. InIndexOrder(S) = [k \in 1 .. n |-> CHOOSE c \in S : Cardinality({d \in S : d <= c}) = k]
  BY <1>3 DEF InIndexOrder
<1>8. [k \in 1 .. n |-> CHOOSE c \in S : Cardinality({d \in S : d <= c}) = k] = [k \in 1 .. n |-> files[k]]
  BY <1>5
<1> QED BY <1>6, <1>7, <1>8 DEF S

\* Every place of the list is that of a chunk.
LEMMA RankedIn ==
    ASSUME NEW S, IsFiniteSet(S), S \subseteq Nat, NEW k \in 1 .. Cardinality(S)
    PROVE  \E c \in S : Cardinality({d \in S : d <= c}) = k
<1> DEFINE n == Cardinality(S)
           Upto(c) == {d \in S : d <= c}
           T == {i \in Nat : i + 1 <= n => \E c \in S : Cardinality(Upto(c)) = i + 1}
<1>0. n \in Nat /\ \A c : IsFiniteSet(Upto(c)) /\ Upto(c) \subseteq S
  BY FS_CardinalityType, FS_Subset
<1> HIDE DEF n
<1>1. 0 \in T
  <2> SUFFICES ASSUME 1 <= n PROVE \E c \in S : Cardinality(Upto(c)) = 1
    OBVIOUS
  <2>1. S # {}
    BY FS_EmptySet DEF n
  <2>2. PICK c \in S : \A d \in S : c <= d
    BY <2>1, SmallestIn
  <2>3. Upto(c) = {c}
    <3>1. \A d \in S : d \in Nat
      OBVIOUS
    <3>2. \A d \in S : d <= c <=> d = c
      BY <2>2, <3>1
    <3> QED BY <3>2
  <2> QED BY <2>3, FS_Singleton
<1>2. ASSUME NEW i \in T PROVE i + 1 \in T
  <2>0. i \in Nat /\ (i + 1 <= n => \E c \in S : Cardinality(Upto(c)) = i + 1)
    OBVIOUS
  <2> SUFFICES ASSUME (i + 1) + 1 <= n PROVE \E c \in S : Cardinality(Upto(c)) = (i + 1) + 1
    BY <2>0
  <2>1. PICK c \in S : Cardinality(Upto(c)) = i + 1
    BY <1>0, <2>0
  <2> DEFINE R == {d \in S : d > c}
  <2>2. R \in SUBSET Nat /\ R # {}
    <3>1. Upto(c) # S
      BY <1>0, <2>0, <2>1 DEF n
    <3>2. PICK d \in S : ~(d <= c)
      BY <3>1
    <3>3. d > c
      BY <3>2
    <3> QED BY <3>3
  <2>3. PICK e \in R : \A d \in R : e <= d
    BY <2>2, SmallestIn
  <2>4. e \in S /\ e > c /\ \A d \in S : d > c => e <= d
    BY <2>3
  <2>5. Upto(e) = Upto(c) \union {e} /\ e \notin Upto(c)
    <3>1. e \in Nat /\ c \in Nat /\ \A d \in S : d \in Nat
      BY <2>4
    <3>2. \A d \in S : d <= e <=> d <= c \/ d = e
      BY <2>4, <3>1
    <3>3. ~(e <= c)
      BY <2>4, <3>1
    <3> QED BY <2>4, <3>2, <3>3
  <2> HIDE DEF Upto, R
  <2>6. Cardinality(Upto(e)) = Cardinality(Upto(c)) + 1
    BY <1>0, <2>5, FS_AddElement
  <2> QED BY <2>0, <2>1, <2>4, <2>6
<1>3. T = Nat
  <2> HIDE DEF T
  <2>1. T \subseteq Nat
    BY DEF T
  <2> QED BY <1>1, <1>2, <2>1, Induct
<1>4. k - 1 \in T /\ (k - 1) + 1 = k /\ k <= n
  <2>1. k - 1 \in Nat /\ (k - 1) + 1 = k /\ k <= n
    BY <1>0 DEF n
  <2> HIDE DEF T
  <2> QED BY <1>3, <2>1
<1>5. \E c \in S : Cardinality(Upto(c)) = k
  <2>1. (k - 1) + 1 <= n
    BY <1>4
  <2> HIDE DEF Upto
  <2> QED BY <1>4, <2>1
<1> QED BY <1>5

\* The list is one of as many chunks as there are.
LEMMA IndexOrderIsSeq ==
    ASSUME NEW S, IsFiniteSet(S)
    PROVE  /\ IsSeq(InIndexOrder(S)) /\ Len(InIndexOrder(S)) = Cardinality(S)
           /\ S \subseteq Nat => \A k \in 1 .. Cardinality(S) : InIndexOrder(S)[k] \in S
<1> DEFINE n == Cardinality(S)
           chunk(k) == CHOOSE c \in S : Cardinality({d \in S : d <= c}) = k
           R == {chunk(k) : k \in 1 .. n}
<1>1. n \in Nat
  BY FS_CardinalityType
<1>2. InIndexOrder(S) = [k \in 1 .. n |-> chunk(k)]
  BY DEF InIndexOrder
<1>4. ASSUME S \subseteq Nat, NEW k \in 1 .. n PROVE chunk(k) \in S
  <2>1. \E c \in S : Cardinality({d \in S : d <= c}) = k
    BY <1>4, RankedIn
  <2> QED BY <2>1
<1> HIDE DEF n, chunk
<1>3. [k \in 1 .. n |-> chunk(k)] \in Seq(R) /\ Len([k \in 1 .. n |-> chunk(k)]) = n
  BY <1>1
<1>5. S \subseteq Nat => \A k \in 1 .. n : InIndexOrder(S)[k] \in S
  BY <1>2, <1>4
<1> QED BY <1>2, <1>3, <1>5 DEF IsSeq, n

LEMMA WholeFacts ==
    ASSUME NEW ix \in Seq(Nat)
    PROVE  Paired(Whole(ix)) /\ Len(Whole(ix).roi) = Len(ix) /\ Whole(ix).files \in Seq(1 .. Len(ix))
<1> DEFINE n == Len(ix)
           s == Whole(ix)
<1>1. n \in Nat /\ DOMAIN ix = 1 .. n /\ \A k \in 1 .. n : ix[k] \in Nat
  OBVIOUS
<1>2. s.files = [c \in 1 .. n |-> c] /\ s.roi = [c \in 1 .. n |-> <<0, ix[c]>>]
  BY <1>1 DEF Whole
<1> HIDE DEF n, s
<1>3. s.files \in Seq(1 .. n) /\ Len(s.files) = n
  BY <1>1, <1>2
<1>4. s.roi \in Seq(Nat \X Nat) /\ Len(s.roi) = n
  <2>1. \A c \in 1 .. n : <<0, ix[c]>> \in Nat \X Nat
    BY <1>1
  <2> QED BY <1>1, <1>2, <2>1
<1>5. \A k \in 1 .. n : s.roi[k][1] <= s.roi[k][2]
  <2> SUFFICES ASSUME NEW k \in 1 .. n PROVE s.roi[k][1] <= s.roi[k][2]
    OBVIOUS
  <2>1. s.roi[k] = <<0, ix[k]>> /\ ix[k] \in Nat
    BY <1>1, <1>2
  <2> QED BY <2>1
<1> QED BY <1>3, <1>4, <1>5 DEF Paired, Regions, IsSeq, n, s

LEMMA JoinPaired ==
    ASSUME NEW s, Paired(s), NEW t, Paired(t), NEW C, NEW u, u.files = s.files \o t.files, u.roi = s.roi \o t.roi
    PROVE  /\ Paired(u)
           /\ s.files \in Seq(C) /\ t.files \in Seq(C) => u.files \in Seq(C)
<1>1. /\ IsSeq(s.files) /\ IsSeq(t.files) /\ IsSeq(s.roi) /\ IsSeq(t.roi)
      /\ s.roi \in Seq(Nat \X Nat) /\ t.roi \in Seq(Nat \X Nat)
  BY DEF Paired, Regions, IsSeq
<1>2. IsSeq(u.files) /\ Len(u.files) = Len(s.files) + Len(t.files)
  BY <1>1, ConcatFacts
<1>3. /\ u.roi \in Seq(Nat \X Nat) /\ Len(u.roi) = Len(s.roi) + Len(t.roi)
      /\ Len(s.roi) \in Nat /\ Len(t.roi) \in Nat
  BY <1>1
<1>4. ASSUME NEW k \in 1 .. Len(u.roi) PROVE u.roi[k][1] <= u.roi[k][2]
  <2>1. CASE k \in 1 .. Len(s.roi)
    <3>1. u.roi[k] = s.roi[k]
      BY <1>1, <2>1, ConcatFacts
    <3> QED BY <2>1, <3>1 DEF Paired, Regions
  <2>2. CASE k \notin 1 .. Len(s.roi)
    <3> DEFINE j == k - Len(s.roi)
    <3>1. j \in 1 .. Len(t.roi) /\ k = Len(s.roi) + j
      <4> DEFINE a == Len(s.roi)
                 b == Len(t.roi)
      <4>1. k \in 1 .. a + b /\ a \in Nat /\ b \in Nat /\ k \notin 1 .. a
        BY <1>3, <2>2
      <4> HIDE DEF a, b
      <4>2. k - a \in 1 .. b
        BY <4>1
      <4> QED BY <4>1, <4>2 DEF a, b
    <3> HIDE DEF j
    <3>2. u.roi[k] = t.roi[j]
      BY <1>1, <3>1, ConcatFacts
    <3> QED BY <3>1, <3>2 DEF Paired, Regions
  <2> QED BY <2>1, <2>2
<1>5. s.files \in Seq(C) /\ t.files \in Seq(C) => u.files \in Seq(C)
  OBVIOUS
<1> QED BY <1>1, <1>2, <1>3, <1>4, <1>5 DEF Paired, Regions

\* A share of some items is no more than a whole takes.
LEMMA ShareFits ==
    ASSUME NEW n \in Nat, NEW share \in 0 .. Grain
    PROVE  ShareOf(n, share) \in Nat /\ ShareOf(n, share) <= n
<1> DEFINE p == n * share
<1>1. share \in Nat /\ share <= 4
  BY DEF Grain
<1>2. p \in Nat /\ p <= n * 4
  BY <1>1, Product, Monotone
<1>3. ShareOf(n, share) = p \div 4
  BY DEF ShareOf, Grain
<1> HIDE DEF p
<1>4. p \div 4 \in Nat /\ 4 * (p \div 4) <= p
  BY <1>2
<1> QED BY <1>2, <1>3, <1>4

\* A place of the copies is a chunk of one of them.
LEMMA CopyFacts ==
    ASSUME NEW n \in Nat \ {0}, NEW copies \in Nat, NEW k \in 1 .. n * copies
    PROVE  InCopy(k, n).copy \in 1 .. copies + 1 /\ InCopy(k, n).chunk \in 1 .. n
<1> DEFINE j == k - 1
           q == j \div n
           r == j % n
           full == n * copies
<1>1. full \in Nat
  BY Product
<1> HIDE DEF full
<1>2. j \in Nat /\ j < full
  BY <1>1 DEF full
<1> HIDE DEF j
<1>3. q \in Nat /\ r \in 0 .. n - 1 /\ j = n * q + r
  BY <1>2, DivisionExact
<1> HIDE DEF q, r
<1>4. q <= copies
  <2> SUFFICES ASSUME copies + 1 <= q PROVE FALSE
    BY <1>3
  <2> DEFINE next == copies + 1
  <2>1. next \in Nat /\ next <= q
    OBVIOUS
  <2> HIDE DEF next
  <2>2. n * next <= n * q
    BY <1>3, <2>1, Monotone
  <2>3. n * next = full + n * 1
    BY Distribute DEF next, full
  <2>4. n * 1 = n /\ n * q \in Nat
    BY <1>3, Product
  <2> QED BY <1>1, <1>2, <1>3, <2>2, <2>3, <2>4
<1>5. q + 1 \in 1 .. copies + 1 /\ r + 1 \in 1 .. n
  BY <1>3, <1>4
<1> QED BY <1>5 DEF InCopy, q, r, j

\* Orders joined are a subset if each of them is.
LEMMA JoinedFacts ==
    ASSUME NEW n \in Nat \ {0}, NEW copies \in Nat, NEW orders, NEW count \in Nat, NEW C,
           \A c \in 1 .. copies + 1 :
               /\ Paired(orders[c]) /\ Len(orders[c].roi) = n /\ orders[c].files \in Seq(C)
               /\ count <= ItemsIn(orders[c].roi)
    PROVE  Paired(Joined(orders, n, copies, count)) /\ Joined(orders, n, copies, count).files \in Seq(C)
<1> DEFINE full == n * copies
           part == TakeFirst(orders[copies + 1], count)
           file == [k \in 1 .. full |-> orders[InCopy(k, n).copy].files[InCopy(k, n).chunk]]
           region == [k \in 1 .. full |-> orders[InCopy(k, n).copy].roi[InCopy(k, n).chunk]]
           copied == [files |-> file, roi |-> region]
           joined == Joined(orders, n, copies, count)
<1>1. joined.files = copied.files \o part.files /\ joined.roi = copied.roi \o part.roi
  BY DEF Joined
<1>2. Paired(part) /\ part.files \in Seq(C)
  <2>1. copies + 1 \in 1 .. copies + 1
    OBVIOUS
  <2> DEFINE next == orders[copies + 1]
  <2>2. Paired(next) /\ count <= ItemsIn(next.roi) /\ next.files \in Seq(C)
    BY <2>1
  <2> HIDE DEF next
  <2>3. Paired(TakeFirst(next, count))
    BY <2>2, TakeFacts
  <2>4. TakeFirst(next, count).files \in Seq(C)
    <3>1. CASE count = 0
      BY <3>1 DEF TakeFirst, Nothing
    <3>2. CASE count # 0
      <4> DEFINE m == Match(next, count)
                 t == TakeFirst(next, count)
      <4>1. m \in 1 .. Len(next.roi) /\ Len(next.files) = Len(next.roi)
        BY <2>2, <3>2, MatchFacts DEF Paired
      <4>2. t.files = SubSeq(next.files, 1, m)
        BY <3>2 DEF TakeFirst
      <4> HIDE DEF m, t
      <4> QED BY <2>2, <4>1, <4>2 DEF t
    <3> QED BY <3>1, <3>2
  <2> QED BY <2>3, <2>4 DEF next
<1>3. full \in Nat
  BY Product
<1>4. ASSUME NEW k \in 1 .. full
      PROVE  file[k] \in C /\ region[k] \in Nat \X Nat /\ region[k][1] <= region[k][2]
  <2> DEFINE c == InCopy(k, n).copy
             i == InCopy(k, n).chunk
  <2>1. c \in 1 .. copies + 1 /\ i \in 1 .. n
    BY CopyFacts
  <2>2. file[k] = orders[c].files[i] /\ region[k] = orders[c].roi[i]
    OBVIOUS
  <2> HIDE DEF c, i, file, region
  <2>3. Regions(orders[c].roi) /\ Len(orders[c].roi) = n /\ orders[c].files \in Seq(C) /\ Len(orders[c].files) = n
    BY <2>1 DEF Paired
  <2> HIDE DEF full
  <2>4. orders[c].files[i] \in C
    BY <2>1, <2>3
  <2> QED BY <2>1, <2>2, <2>3, <2>4 DEF Regions
<1>5. file = [k \in 1 .. full |-> file[k]] /\ region = [k \in 1 .. full |-> region[k]]
  OBVIOUS
<1>6. copied.files = file /\ copied.roi = region
  OBVIOUS
<1> HIDE DEF file, region, full, copied, part, joined
<1>7. file \in Seq(C) /\ Len(file) = full
  BY <1>3, <1>4, <1>5
<1>8. region \in Seq(Nat \X Nat) /\ Len(region) = full
  BY <1>3, <1>4, <1>5
<1>9. Paired(copied) /\ copied.files \in Seq(C)
  BY <1>4, <1>6, <1>7, <1>8 DEF Paired, Regions, IsSeq
<1>10. Paired(joined) /\ joined.files \in Seq(C)
  BY <1>1, <1>2, <1>9, JoinPaired
<1> QED BY <1>10 DEF joined

\* Every subset a share may give has a region for each of its chunks.
LEMMA SubsampleFacts ==
    ASSUME NEW ix \in Seq(Nat) \ {<< >>}, NEW share \in Nat \ {0}, NEW shuffle,
           NEW s \in Subsample(ix, share, shuffle)
    PROVE  Paired(s) /\ s.files \in Seq(1 .. Len(ix))
<1> DEFINE n == Len(ix)
           all == Whole(ix)
           copies == share \div Grain
           count == ShareOf(ItemsIn(all.roi), share % Grain)
           C == 1 .. n
<1>0. n \in Nat \ {0} /\ Paired(all) /\ Len(all.roi) = n /\ all.files \in Seq(C)
  BY WholeFacts
<1> SUFFICES Paired(s) /\ s.files \in Seq(C)
  OBVIOUS
<1> HIDE DEF C
<1>1. CASE share = Grain
  BY <1>0, <1>1 DEF Subsample
<1>2. CASE share # Grain
  <2>1. copies \in Nat /\ share % Grain \in 0 .. Grain
    BY DEF Grain
  <2>2. PICK orders \in [1 .. copies + 1 -> Orders(all, shuffle)] : s = Joined(orders, n, copies, count)
    BY <1>2 DEF Subsample
  <2>3. ItemsIn(all.roi) \in Nat
    BY <1>0, RegionFacts, CumSumFacts DEF Paired, ItemsIn
  <2>4. count \in Nat /\ count <= ItemsIn(all.roi)
    BY <2>1, <2>3, ShareFits
  <2> HIDE DEF count, copies, all, n, C
  <2>5. ASSUME NEW c \in 1 .. copies + 1
        PROVE  /\ Paired(orders[c]) /\ Len(orders[c].roi) = n /\ orders[c].files \in Seq(C)
               /\ count <= ItemsIn(orders[c].roi)
    <3> DEFINE t == orders[c]
    <3>1. t \in Orders(all, shuffle)
      BY <2>2
    <3> HIDE DEF t
    <3>2. /\ Paired(t) /\ Len(t.roi) = n /\ ItemsIn(t.roi) = ItemsIn(all.roi)
          /\ \A k \in 1 .. Len(t.roi) : \E j \in 1 .. Len(all.roi) : t.files[k] = all.files[j]
      BY <1>0, <3>1, OrderFacts
    <3>3. Len(all.files) = Len(all.roi)
      BY <1>0 DEF Paired
    <3>4. /\ IsSeq(t.files) /\ Len(t.files) = Len(t.roi)
          /\ \A j \in 1 .. Len(all.roi) : all.files[j] \in C
      <4>1. IsSeq(t.files) /\ Len(t.files) = Len(t.roi)
        BY <3>2 DEF Paired
      <4>2. \A j \in 1 .. Len(all.files) : all.files[j] \in C
        BY <1>0
      <4> QED BY <3>3, <4>1, <4>2
    <3>5. t.files \in Seq(C)
      <4> DEFINE f == t.files
                 m == Len(f)
      <4>1. \A k \in 1 .. m : f[k] \in C
        BY <3>2, <3>4
      <4>2. m \in Nat /\ f = [k \in 1 .. m |-> f[k]]
        BY <3>4 DEF IsSeq
      <4> HIDE DEF m, f
      <4>3. [k \in 1 .. m |-> f[k]] \in [1 .. m -> C]
        BY <4>1
      <4>4. [k \in 1 .. m |-> f[k]] \in Seq(C)
        BY <4>2, <4>3, FunctionIsSeq
      <4> QED BY <4>2, <4>4 DEF f
    <3> QED BY <2>4, <3>2, <3>5 DEF t
  <2> QED BY <1>0, <2>1, <2>2, <2>4, <2>5, JoinedFacts
<1> QED BY <1>1, <1>2

-----------------------------------------------------------------------------
(* The splits of a subset. *)

LEMMA SplitFacts ==
    ASSUME NEW s, Paired(s), NEW shares \in Seq(Nat), SumFunction(shares) <= Grain, NEW shuffle,
           NEW parts \in TrainTestSplit(s, shares, shuffle)
    PROVE  /\ DOMAIN parts = DOMAIN shares
           /\ \A i \in DOMAIN parts : ItemsIn(parts[i].roi) = ShareOf(ItemsIn(s.roi), shares[i])
           /\ \A i \in DOMAIN parts :
                 Paired(parts[i]) /\ (ToSet(s.files) \subseteq Nat => Among(parts[i], ToSet(s.files)))
           /\ InIndexOrder(ToSet(s.files)) = s.files /\ Distinct(s) =>
                 /\ \A i \in DOMAIN parts : ItemsOf(parts[i]) \subseteq ItemsOf(s)
                 /\ \A i, j \in DOMAIN parts : i # j => ItemsOf(parts[i]) \cap ItemsOf(parts[j]) = {}
<1> DEFINE chunks == InIndexOrder(ToSet(s.files))
           all == [files |-> chunks, roi |-> s.roi]
           total == ItemsIn(s.roi)
           counts == [n \in DOMAIN shares |-> ShareOf(total, shares[n])]
<1>1. PICK t \in Orders(all, shuffle) :
         /\ Len(chunks) = Len(s.roi)
         /\ parts = [n \in DOMAIN shares |-> TakeFirst(Leftovers(t, counts)[n - 1], counts[n])]
  BY DEF TrainTestSplit
<1>2. total \in Nat /\ Regions(s.roi) /\ IsSeq(s.files)
  BY RegionFacts, CumSumFacts DEF Paired, ItemsIn
<1>3. Paired(all) /\ ItemsIn(all.roi) = total
  <2>1. IsSeq(chunks)
    BY <1>2, SeqFacts, IndexOrderIsSeq
  <2> QED BY <1>1, <1>2, <2>1 DEF Paired
<1>3a. ToSet(s.files) \subseteq Nat => Among(all, ToSet(s.files))
  <2> SUFFICES ASSUME ToSet(s.files) \subseteq Nat PROVE Among(all, ToSet(s.files))
    OBVIOUS
  <2>1. IsFiniteSet(ToSet(s.files))
    BY <1>2, SeqFacts
  <2>2. /\ Len(chunks) = Cardinality(ToSet(s.files))
        /\ \A k \in 1 .. Cardinality(ToSet(s.files)) : chunks[k] \in ToSet(s.files)
    BY <2>1, IndexOrderIsSeq
  <2> QED BY <1>1, <2>2 DEF Among
<1>4. Paired(t) /\ ItemsIn(t.roi) = total /\ ItemsOf(t) = ItemsOf(all) /\ (Distinct(all) => Distinct(t))
      /\ \A C : Among(all, C) => Among(t, C)
  <2> HIDE DEF all
  <2>1. /\ Paired(t) /\ ItemsIn(t.roi) = total /\ ItemsOf(t) = ItemsOf(all) /\ (Distinct(all) => Distinct(t))
        /\ \A k \in 1 .. Len(t.roi) : \E j \in 1 .. Len(all.roi) : t.files[k] = all.files[j]
    BY <1>1, <1>3, OrderFacts
  <2> QED BY <2>1 DEF Among
<1>5. /\ counts \in Seq(Nat) /\ Len(counts) = Len(shares)
      /\ \A n \in 0 .. Len(counts) : SumFunctionOnSet(counts, 1 .. n) <= total
  <2> HIDE DEF total
  <2> QED BY <1>2, CountsFit
<1> DEFINE left == Leftovers(t, counts)
           len == Len(shares)
<1>6. len \in Nat /\ DOMAIN shares = 1 .. len /\ DOMAIN counts = 1 .. len
  OBVIOUS
<1>7. \A n \in 1 .. len : parts[n] = TakeFirst(left[n - 1], counts[n])
  BY <1>1, <1>6
<1>8. \A i \in 1 .. len : counts[i] = ShareOf(total, shares[i])
  BY <1>6
<1>9. DOMAIN parts = 1 .. len
  BY <1>1, <1>6
<1> HIDE DEF counts, total, all, chunks
<1>10. \A n \in 0 .. len :
          /\ Paired(left[n]) /\ ItemsIn(left[n].roi) = total - SumFunctionOnSet(counts, 1 .. n)
          /\ \A C : Among(t, C) => Among(left[n], C)
          /\ Distinct(t) =>
                /\ Distinct(left[n]) /\ ItemsOf(left[n]) \subseteq ItemsOf(t)
                /\ \A m \in 0 .. n : ItemsOf(left[n]) \subseteq ItemsOf(left[m])
  BY <1>4, <1>5, LeftoversFacts
<1>11. \A n \in 1 .. len : left[n] = LeaveFirst(left[n - 1], counts[n])
  BY <1>5, <1>6, LeftoversAre
<1> HIDE DEF left, len
<1>12. ASSUME NEW n \in 1 .. len
       PROVE  n - 1 \in 0 .. len /\ counts[n] \in Nat /\ counts[n] <= ItemsIn(left[n - 1].roi)
  <2>1. n - 1 \in 0 .. len /\ n \in 0 .. len
    BY <1>6
  <2>2. counts[n] \in Nat
    BY <1>5, <1>6
  <2> DEFINE sum(k) == SumFunctionOnSet(counts, 1 .. k)
  <2>3. sum(n) = sum(n - 1) + counts[n] /\ sum(n - 1) \in Nat
    <3>1. (1 .. n) = (1 .. n - 1) \union {n} /\ n \notin 1 .. n - 1
      BY <1>6
    <3>2. IsFiniteSet(1 .. n - 1)
      <4>1. n - 1 \in Int
        BY <2>1
      <4> QED BY <4>1, FS_Interval
    <3>3. \A i \in (1 .. n - 1) \union {n} : counts[i] \in Nat
      BY <1>5, <1>6
    <3>4. SumFunctionOnSet(counts, (1 .. n - 1) \union {n}) = SumFunctionOnSet(counts, 1 .. n - 1) + counts[n]
      BY <3>1, <3>2, <3>3, SumAdd
    <3>5. SumFunctionOnSet(counts, 1 .. n - 1) \in Nat
      BY <3>2, <3>3, SumType
    <3> QED BY <3>1, <3>4, <3>5
  <2>4. sum(n) <= total
    BY <1>5, <1>6, <2>1 DEF len
  <2>5. ItemsIn(left[n - 1].roi) = total - sum(n - 1)
    BY <1>10, <2>1
  <2> HIDE DEF sum
  <2> QED BY <1>2, <2>1, <2>2, <2>3, <2>4, <2>5 DEF total
<1>13. ASSUME NEW n \in 1 .. len PROVE ItemsIn(parts[n].roi) = ShareOf(total, shares[n])
  BY <1>7, <1>8, <1>10, <1>12, TakeFacts
<1>13a. ASSUME NEW n \in 1 .. len
       PROVE  Paired(parts[n]) /\ (ToSet(s.files) \subseteq Nat => Among(parts[n], ToSet(s.files)))
  <2>1. Paired(left[n - 1]) /\ \A C : Among(t, C) => Among(left[n - 1], C)
    BY <1>10, <1>12
  <2>2. counts[n] \in Nat /\ counts[n] <= ItemsIn(left[n - 1].roi) /\ parts[n] = TakeFirst(left[n - 1], counts[n])
    BY <1>7, <1>12
  <2>3. Paired(parts[n])
    BY <2>1, <2>2, TakeFacts
  <2>4. ToSet(s.files) \subseteq Nat => Among(left[n - 1], ToSet(s.files))
    BY <1>4, <1>3a, <2>1
  <2> QED BY <2>1, <2>2, <2>3, <2>4, TakeAmong
<1>14. ASSUME InIndexOrder(ToSet(s.files)) = s.files, Distinct(s)
       PROVE  /\ \A i \in 1 .. len : ItemsOf(parts[i]) \subseteq ItemsOf(s)
              /\ \A i, j \in 1 .. len : i # j => ItemsOf(parts[i]) \cap ItemsOf(parts[j]) = {}
  <2>1. all.files = s.files /\ all.roi = s.roi
    BY <1>14 DEF all, chunks
  <2>2. Distinct(all) /\ ItemsOf(all) = ItemsOf(s)
    BY <1>14, <2>1 DEF Distinct, ItemsOf
  <2>3. Distinct(t) /\ ItemsOf(t) = ItemsOf(s)
    BY <1>4, <2>2
  <2>4. \A n \in 1 .. len :
           /\ ItemsOf(parts[n]) \subseteq ItemsOf(left[n - 1])
           /\ ItemsOf(parts[n]) \cap ItemsOf(left[n]) = {}
    <3> SUFFICES ASSUME NEW n \in 1 .. len
                 PROVE  /\ ItemsOf(parts[n]) \subseteq ItemsOf(left[n - 1])
                        /\ ItemsOf(parts[n]) \cap ItemsOf(left[n]) = {}
      OBVIOUS
    <3> DEFINE before == left[n - 1]
    <3>1. Paired(before) /\ Distinct(before)
      BY <1>10, <1>12, <2>3
    <3>2. counts[n] \in Nat /\ counts[n] <= ItemsIn(before.roi)
      BY <1>12
    <3>3. parts[n] = TakeFirst(before, counts[n]) /\ left[n] = LeaveFirst(before, counts[n])
      BY <1>7, <1>11
    <3> HIDE DEF before
    <3>4. /\ ItemsOf(TakeFirst(before, counts[n])) \subseteq ItemsOf(before)
          /\ ItemsOf(TakeFirst(before, counts[n])) \cap ItemsOf(LeaveFirst(before, counts[n])) = {}
      BY <3>1, <3>2, PartsApart
    <3> QED BY <3>3, <3>4 DEF before
  <2>5. \A n \in 1 .. len : ItemsOf(parts[n]) \subseteq ItemsOf(s)
    BY <1>10, <1>12, <2>3, <2>4
  <2>6. ASSUME NEW i \in 1 .. len, NEW j \in 1 .. len, i < j
        PROVE  ItemsOf(parts[i]) \cap ItemsOf(parts[j]) = {}
    <3>1. i \in 0 .. j - 1 /\ j - 1 \in 0 .. len
      BY <1>6, <2>6
    <3>2. ItemsOf(left[j - 1]) \subseteq ItemsOf(left[i])
      BY <1>10, <2>3, <3>1
    <3> QED BY <2>4, <3>2
  <2>7. \A i, j \in 1 .. len : i # j => i < j \/ j < i
    BY <1>6
  <2> QED BY <2>5, <2>6, <2>7
<1> QED BY <1>6, <1>9, <1>13, <1>14, <1>13a DEF total

\* A subset in the order of the index is listed as it is, and has no chunk twice.
LEMMA PlainFacts ==
    ASSUME NEW s, Paired(s), \A k \in 1 .. Len(s.roi) : s.files[k] \in Nat, Plain(s)
    PROVE  InIndexOrder(ToSet(s.files)) = s.files /\ Distinct(s)
<1>1. IsSeq(s.files) /\ Len(s.files) = Len(s.roi) /\ DOMAIN s.files = 1 .. Len(s.roi) /\ Len(s.roi) \in Nat
  BY SeqFacts, RegionFacts DEF Paired
<1>2. \A j, k \in 1 .. Len(s.files) : j < k => s.files[j] < s.files[k]
  BY <1>1 DEF Plain
<1>3. InIndexOrder(ToSet(s.files)) = s.files
  BY <1>1, <1>2, OrderKept
<1>4. Distinct(s)
  <2> SUFFICES ASSUME NEW j \in 1 .. Len(s.roi), NEW k \in 1 .. Len(s.roi), s.files[j] = s.files[k]
               PROVE  j = k
    BY DEF Distinct
  <2>1. ~(j < k) /\ ~(k < j)
    BY <1>1, <1>2
  <2> QED BY <1>1, <2>1
<1> QED BY <1>3, <1>4

-----------------------------------------------------------------------------
(* The splits of every dataset that is asked for. *)

LEMMA SplitsAtFirst == SubsetInit => SplitsDisjoint
<1> SUFFICES ASSUME SubsetInit, splits # << >> PROVE SplitsDisjoint!2
  BY DEF SplitsDisjoint
<1> DEFINE ix == request.index
           shares == request.shares
<1>1. /\ ix \in Seq(Nat) \ {<< >>} /\ request.share \in Nat \ {0}
      /\ shares \in Seq(Nat) /\ SumFunction(shares) <= Grain
  BY RequestAssumption DEF SubsetInit
<1>2. whole \in Subsample(ix, request.share, request.shuffled)
  BY DEF SubsetInit, index
<1>3. splits \in TrainTestSplit(whole, shares, request.mixed)
  BY DEF SubsetInit
<1> HIDE DEF ix, shares
<1>4. Paired(whole) /\ whole.files \in Seq(Nat)
  <2>1. Paired(whole) /\ whole.files \in Seq(1 .. Len(ix))
    BY <1>1, <1>2, SubsampleFacts
  <2> QED BY <2>1
<1>5. /\ DOMAIN splits = DOMAIN shares
      /\ \A i \in DOMAIN splits : ItemsIn(splits[i].roi) = ShareOf(ItemsIn(whole.roi), shares[i])
      /\ InIndexOrder(ToSet(whole.files)) = whole.files /\ Distinct(whole) =>
            /\ \A i \in DOMAIN splits : ItemsOf(splits[i]) \subseteq ItemsOf(whole)
            /\ \A i, j \in DOMAIN splits : i # j => ItemsOf(splits[i]) \cap ItemsOf(splits[j]) = {}
  BY <1>1, <1>3, <1>4, SplitFacts
<1>6. ASSUME Plain(whole) PROVE InIndexOrder(ToSet(whole.files)) = whole.files /\ Distinct(whole)
  <2>1. \A k \in 1 .. Len(whole.roi) : whole.files[k] \in Nat
    BY <1>4 DEF Paired
  <2> QED BY <1>4, <1>6, <2>1, PlainFacts
<1> QED BY <1>5, <1>6 DEF shares

\* The splits train_test_split makes of a dataset are as large as was asked for and, if the
\* subset is in the order of its index, share no item: whatever the dataset, the subsample
\* taken of it, the shares and the order the chunks are shuffled into.
THEOREM SplitsApart == SubsetSpec => []SplitsDisjoint
<1>1. SubsetInit => SplitsDisjoint
  BY SplitsAtFirst
<1>2. SplitsDisjoint /\ [Next /\ UNCHANGED subsetVars]_<<vars, subsetVars>> => SplitsDisjoint'
  <2> SUFFICES ASSUME SplitsDisjoint, UNCHANGED <<request, whole, splits>> PROVE SplitsDisjoint'
    BY DEF subsetVars
  <2>1. \A i \in DOMAIN splits : ItemsIn(splits[i].roi)' = ItemsIn(splits[i].roi)
    BY DEF ItemsIn, CumSum, RegionSizes
  <2>2. ItemsIn(whole.roi)' = ItemsIn(whole.roi) /\ (Plain(whole)' <=> Plain(whole))
    BY DEF ItemsIn, CumSum, RegionSizes, Plain
  <2>3. \A i \in DOMAIN splits : ItemsOf(splits[i])' = ItemsOf(splits[i])
    BY DEF ItemsOf
  <2>4. ItemsOf(whole)' = ItemsOf(whole)
    BY DEF ItemsOf
  <2> QED BY <2>1, <2>2, <2>3, <2>4 DEF SplitsDisjoint
<1> QED BY <1>1, <1>2, PTL DEF SubsetSpec

-----------------------------------------------------------------------------
(* What a walk covers. *)

\* Without drop_last the budgets are exactly what is left to deal out.
ExactInv == stage = "walk" /\ ~layout.dropLast =>
    SumFunctionOnSet(budget, WorkerIds(layout)) + from = SumFunctionOnSet(Listed, at .. Len(order))

\* Some worker has sample x of chunk c.
Has(c, x) == \E w \in WorkerIds(layout) : \E i \in DOMAIN plan[w] :
    plan[w][i].chunk = c /\ plan[w][i].first <= x /\ x < plan[w][i].last

\* Then every sample the walk has gone past is somebody's.
CoverInv == stage = "walk" /\ ~layout.dropLast =>
    /\ \A j \in DOMAIN order : j < at => \A x \in 0 .. sizes[order[j]] - 1 : Has(order[j], x)
    /\ Walking => \A x \in 0 .. from - 1 : Has(order[at], x)

\* In the first pass every chunk is listed once, or waits to be.
FirstInv == pass = "first" =>
    /\ \A e \in unlisted : \A j \in DOMAIN order : order[j] # e.chunk
    /\ \A e, f \in unlisted : e.chunk = f.chunk => e = f
    /\ \A c \in DOMAIN sizes :
          (\E e \in unlisted : e.chunk = c) \/ (\E j \in DOMAIN order : order[j] = c)
    /\ \A j, k \in DOMAIN order : order[j] = order[k] => j = k
    /\ stage = "walk" => unlisted = {}

WalkedInv == IInv /\ ItemsInv /\ SpendInv /\ ExactInv /\ CoverInv /\ FirstInv

\* A sample that somebody has stays theirs, and the interval that is given is had.
LEMMA GiveHas ==
    ASSUME IInv, Walking, rank \in WorkerIds(layout), UNCHANGED <<job, list>>,
           NEW x \in Nat, from < x, Give(rank, from, x)
    PROVE  /\ \A c, y : Has(c, y) => Has(c, y)'
           /\ \A c, y : c = order[at] /\ y \in from .. x - 1 => Has(c, y)'
<1> DEFINE new == [chunk |-> order[at], first |-> from, last |-> x]
<1>1. /\ plan \in [WorkerIds(layout) -> Seq(Intervals)] /\ from \in Nat
      /\ WorkerIds(layout)' = WorkerIds(layout) /\ order' = order
  BY ListKept DEF IInv, TypeOK
<1>2. plan' = [plan EXCEPT ![rank] = Append(plan[rank], new)]
  BY DEF Give
<1> HIDE DEF new
<1>3. \A w \in WorkerIds(layout) : \A i \in DOMAIN plan[w] :
         i \in DOMAIN plan'[w] /\ plan'[w][i] = plan[w][i]
  <2> SUFFICES ASSUME NEW w \in WorkerIds(layout), NEW i \in DOMAIN plan[w]
               PROVE  i \in DOMAIN plan'[w] /\ plan'[w][i] = plan[w][i]
    OBVIOUS
  <2>1. plan[w] \in Seq(Intervals)
    BY <1>1
  <2>2. CASE w = rank
    <3>1. plan'[w] = Append(plan[w], new)
      BY <1>1, <1>2, <2>2
    <3> QED BY <2>1, <3>1
  <2>3. CASE w # rank
    BY <1>1, <1>2, <2>3
  <2> QED BY <2>2, <2>3
<1>4. \E i \in DOMAIN plan'[rank] : plan'[rank][i] = new
  <2>1. plan[rank] \in Seq(Intervals) /\ plan'[rank] = Append(plan[rank], new)
    BY <1>1, <1>2
  <2>2. Len(plan[rank]) + 1 \in DOMAIN plan'[rank] /\ plan'[rank][Len(plan[rank]) + 1] = new
    BY <2>1
  <2> QED BY <2>2
<1>5. ASSUME NEW c, NEW y, Has(c, y) PROVE Has(c, y)'
  BY <1>1, <1>3, <1>5 DEF Has
<1>6. ASSUME NEW c, NEW y, c = order[at], y \in from .. x - 1 PROVE Has(c, y)'
  <2>1. new.chunk = c /\ new.first <= y /\ y < new.last
    BY <1>1, <1>6 DEF new
  <2> QED BY <1>1, <1>4, <2>1 DEF Has
<1> QED BY <1>5, <1>6

\* Nothing of it is disturbed by a step that gives nothing.
LEMMA HasKept ==
    ASSUME UNCHANGED <<job, plan>> PROVE \A c, y : Has(c, y)' <=> Has(c, y)
BY DEF Has, job, WorkerIds, GlobalNumWorkers, WorldSize

LEMMA FirstKept == ASSUME FirstInv, UNCHANGED <<job, list>> PROVE FirstInv'
BY DEF FirstInv, job, list

LEMMA BeginWalked == ASSUME sizes \in Seq(Nat), Begin PROVE WalkedInv
<1>1. IInv /\ ItemsInv /\ SpendInv
  BY BeginInv, SpendInit
<1>2. ExactInv /\ CoverInv
  BY DEF Begin, ExactInv, CoverInv
<1>3. FirstInv
  <2>1. /\ pass = "first" /\ stage = "list" /\ order = << >>
        /\ unlisted = {[node |-> 0, worker |-> 0, place |-> c, chunk |-> c] : c \in DOMAIN sizes}
    BY DEF Begin
  <2>2. DOMAIN order = {}
    BY <2>1
  <2>3. ASSUME NEW e \in unlisted, NEW f \in unlisted, e.chunk = f.chunk PROVE e = f
    <3>1. PICK c \in DOMAIN sizes : e = [node |-> 0, worker |-> 0, place |-> c, chunk |-> c]
      BY <2>1
    <3>2. PICK d \in DOMAIN sizes : f = [node |-> 0, worker |-> 0, place |-> d, chunk |-> d]
      BY <2>1
    <3>3. c = d
      BY <2>3, <3>1, <3>2
    <3> QED BY <3>1, <3>2, <3>3
  <2>4. ASSUME NEW c \in DOMAIN sizes PROVE \E e \in unlisted : e.chunk = c
    <3> DEFINE e == [node |-> 0, worker |-> 0, place |-> c, chunk |-> c]
    <3>1. e \in unlisted
      BY <2>1
    <3>2. e.chunk = c
      OBVIOUS
    <3> HIDE DEF e
    <3> QED BY <3>1, <3>2
  <2> QED BY <2>1, <2>2, <2>3, <2>4 DEF FirstInv
<1> QED BY <1>1, <1>2, <1>3 DEF WalkedInv

LEMMA WalkedList == ASSUME WalkedInv, List PROVE ExactInv' /\ CoverInv' /\ FirstInv'
<1>1. PICK e \in unlisted :
         unlisted' = unlisted \ {e} /\ order' = Append(order, e.chunk)
  BY DEF List
<1>2. stage' = "list" /\ stage = "list" /\ sizes' = sizes /\ pass' = pass
  BY DEF List, job
<1>3. order \in Seq(DOMAIN sizes) /\ e.chunk \in DOMAIN sizes
  BY DEF WalkedInv, IInv, TypeOK, Entries
<1> DEFINE n == Len(order) + 1
<1>4. /\ DOMAIN order' = DOMAIN order \union {n} /\ n \notin DOMAIN order
      /\ order'[n] = e.chunk /\ \A k \in DOMAIN order : order'[k] = order[k]
  BY <1>1, <1>3
<1> HIDE DEF n
<1>5. ASSUME pass = "first" PROVE FirstInv'
  <2>0. /\ \A f \in unlisted : \A j \in DOMAIN order : order[j] # f.chunk
        /\ \A f, g \in unlisted : f.chunk = g.chunk => f = g
        /\ \A c \in DOMAIN sizes :
              (\E f \in unlisted : f.chunk = c) \/ (\E j \in DOMAIN order : order[j] = c)
        /\ \A j, k \in DOMAIN order : order[j] = order[k] => j = k
    BY <1>5 DEF WalkedInv, FirstInv
  <2>1. \A f \in unlisted' : \A j \in DOMAIN order' : order'[j] # f.chunk
    BY <1>1, <1>4, <2>0
  <2>2. \A f, g \in unlisted' : f.chunk = g.chunk => f = g
    BY <1>1, <2>0
  <2>3. \A c \in DOMAIN sizes :
              (\E f \in unlisted' : f.chunk = c) \/ (\E j \in DOMAIN order' : order'[j] = c)
    BY <1>1, <1>4, <2>0
  <2>4. \A j, k \in DOMAIN order' : order'[j] = order'[k] => j = k
    BY <1>4, <2>0
  <2> QED BY <1>2, <2>1, <2>2, <2>3, <2>4 DEF FirstInv
<1>6. FirstInv'
  BY <1>2, <1>5 DEF FirstInv
<1> QED BY <1>2, <1>6 DEF ExactInv, CoverInv

LEMMA WalkedDeal == ASSUME WalkedInv, Deal PROVE ExactInv' /\ CoverInv' /\ FirstInv'
<1>1. /\ stage = "list" /\ budget' = Shares(layout, items) /\ unlisted = {}
      /\ UNCHANGED <<order, items, at, from, rank, plan, pass, unlisted>>
      /\ sizes' = sizes /\ layout' = layout
  BY DEF Deal, job
<1>2. at = 1 /\ from = 0
  BY <1>1 DEF WalkedInv, IInv, ListInv
<1>3. layout \in Layouts /\ items \in Nat /\ items = SumFunctionOnSet(Listed, DOMAIN order)
  BY DEF WalkedInv, IInv, TypeOK, ItemsInv
<1>4. DOMAIN order = at .. Len(order) /\ IsFiniteSet(DOMAIN order) /\ DOMAIN order = 1 .. Len(order)
  BY <1>2, ListedFacts DEF WalkedInv, IInv
<1>5. Listed' = Listed /\ WorkerIds(layout)' = WorkerIds(layout)
  BY <1>1 DEF Listed, WorkerIds, GlobalNumWorkers, WorldSize
<1>6. ASSUME ~layout.dropLast
      PROVE  SumFunctionOnSet(budget', WorkerIds(layout)) + from = SumFunctionOnSet(Listed, at .. Len(order))
  <2>1. SumFunctionOnSet(budget', WorkerIds(layout)) = items
    BY <1>1, <1>3, <1>6, TotalSum
  <2> QED BY <1>2, <1>3, <1>4, <2>1
<1>7. ExactInv'
  BY <1>1, <1>5, <1>6 DEF ExactInv
<1>8. CoverInv'
  <2>1. \A j \in DOMAIN order : ~(j < at)
    BY <1>2, <1>4
  <2>2. 0 .. from - 1 = {}
    BY <1>2
  <2> QED BY <1>1, <2>1, <2>2 DEF CoverInv
<1>9. FirstInv'
  BY <1>1 DEF WalkedInv, FirstInv
<1> QED BY <1>7, <1>8, <1>9

LEMMA WalkedReshuffle == ASSUME Reshuffle PROVE ExactInv' /\ CoverInv' /\ FirstInv'
BY DEF Reshuffle, ExactInv, CoverInv, FirstInv

\* Where a worker is passed over nothing else changes.
LEMMA WalkedPassOver == ASSUME WalkedInv, PassOver PROVE ExactInv' /\ CoverInv' /\ FirstInv'
<1>1. UNCHANGED <<job, list>> /\ UNCHANGED <<at, from, budget, plan>>
  BY DEF PassOver
<1>2. /\ Listed' = Listed /\ order' = order /\ stage' = stage /\ layout' = layout /\ sizes' = sizes
      /\ WorkerIds(layout)' = WorkerIds(layout)
  BY <1>1, ListKept
<1>3. \A c, y : Has(c, y)' <=> Has(c, y)
  BY <1>1, HasKept
<1> QED BY <1>1, <1>2, <1>3, FirstKept DEF WalkedInv, ExactInv, CoverInv, Walking

\* A chunk that is gone past without giving anything has been dealt out.
LEMMA WalkedSkip ==
    ASSUME WalkedInv, Walking, ToNextChunk, UNCHANGED <<job, list, budget, plan>>,
           Rest = 0 \/ rank = GlobalNumWorkers(layout)
    PROVE  ExactInv' /\ CoverInv' /\ FirstInv'
<1> DEFINE sum == SumFunctionOnSet(budget, WorkerIds(layout))
           ahead == SumFunctionOnSet(Listed, at + 1 .. Len(order))
           size == sizes[order[at]]
<1>0. IInv /\ TypeOK /\ SpendInv
  BY DEF WalkedInv, IInv
<1>1. /\ Listed' = Listed /\ order' = order /\ stage' = stage /\ layout' = layout /\ sizes' = sizes
      /\ WorkerIds(layout)' = WorkerIds(layout)
  BY ListKept
<1>2. at' = at + 1 /\ from' = 0 /\ budget' = budget /\ stage = "walk"
  BY DEF ToNextChunk, Walking
<1>3. at \in DOMAIN order /\ at \in Nat /\ DOMAIN order \subseteq Nat
  BY <1>0 DEF TypeOK, Walking
<1>4. size \in Nat /\ from \in Nat /\ from <= size
  <2>1. order[at] \in DOMAIN sizes
    BY <1>0, <1>3 DEF TypeOK
  <2> QED BY <1>0, <2>1 DEF TypeOK
<1>5. FirstInv'
  BY FirstKept DEF WalkedInv
<1>6. ASSUME ~layout.dropLast PROVE sum = ahead /\ from = size
  <2>1. ahead \in Nat /\ sum + from = size + ahead
    BY <1>0, <1>2, <1>6, AheadFacts DEF WalkedInv, ExactInv
  <2>2. sum \in Nat
    BY <1>0, BudgetFacts
  <2>3. CASE Rest = 0
    <3>1. size - from = 0
      BY <2>3 DEF Rest
    <3> HIDE DEF sum, ahead, size
    <3> QED BY <1>4, <2>1, <2>2, <3>1
  <2>4. CASE rank = GlobalNumWorkers(layout)
    <3>1. \A w \in WorkerIds(layout) : w < rank
      <4>1. GlobalNumWorkers(layout) \in Nat
        BY <1>0, LayoutFacts DEF TypeOK
      <4> QED BY <2>4, <4>1 DEF WorkerIds
    <3>2. \A w \in WorkerIds(layout) : budget[w] = 0
      BY <1>0, <1>2, <3>1 DEF SpendInv
    <3>3. sum = 0
      BY <1>0, <3>2, ListedFacts, SumZero
    <3> HIDE DEF sum, ahead, size
    <3> QED BY <1>4, <2>1, <3>3
  <2> QED BY <2>3, <2>4
<1>7. ExactInv'
  <2>1. ASSUME ~layout.dropLast PROVE sum + 0 = ahead
    <3>1. sum \in Nat
      BY <1>0, BudgetFacts
    <3> HIDE DEF sum, ahead
    <3> QED BY <1>6, <2>1, <3>1
  <2> QED BY <1>1, <1>2, <2>1 DEF ExactInv
<1>8. CoverInv'
  <2>1. \A c, y : Has(c, y)' <=> Has(c, y)
    BY HasKept
  <2>2. ASSUME ~layout.dropLast, NEW j \in DOMAIN order, j < at + 1, NEW x \in 0 .. sizes[order[j]] - 1
        PROVE  Has(order[j], x)
    <3>1. CASE j < at
      BY <1>2, <2>2, <3>1 DEF WalkedInv, CoverInv
    <3>2. CASE j = at
      BY <1>2, <1>6, <2>2, <3>2 DEF WalkedInv, CoverInv
    <3> QED BY <1>3, <2>2, <3>1, <3>2
  <2>3. 0 .. from' - 1 = {}
    BY <1>2
  <2> QED BY <1>1, <1>2, <2>1, <2>2, <2>3 DEF CoverInv
<1> QED BY <1>5, <1>7, <1>8

LEMMA WalkedSplit == ASSUME WalkedInv, Split PROVE ExactInv' /\ CoverInv' /\ FirstInv'
<1> DEFINE x == from + budget[rank]
           sum == SumFunctionOnSet(budget, WorkerIds(layout))
           sum2 == SumFunctionOnSet(budget', WorkerIds(layout))
           ahead == SumFunctionOnSet(Listed, at .. Len(order))
<1>0. IInv /\ TypeOK /\ SpendInv
  BY DEF WalkedInv, IInv
<1>1. /\ Walking /\ rank < GlobalNumWorkers(layout) /\ budget[rank] > 0
      /\ Give(rank, from, x) /\ from' = x
      /\ budget' = [budget EXCEPT ![rank] = 0]
      /\ UNCHANGED <<job, list, at>>
  BY DEF Split
<1>2. /\ rank \in WorkerIds(layout) /\ budget[rank] \in Nat /\ from \in Nat
      /\ budget \in [WorkerIds(layout) -> Nat]
  <2>1. rank \in WorkerIds(layout) /\ budget[rank] \in Nat /\ at \in DOMAIN order /\ sizes[order[at]] \in Nat
    BY <1>0, <1>1, AtWorker
  <2>2. from \in Nat /\ budget \in [WorkerIds(layout) -> Nat]
    BY <1>0 DEF TypeOK
  <2> QED BY <2>1, <2>2
<1>3. x \in Nat /\ from < x /\ x - from = budget[rank] /\ x - from <= budget[rank]
  BY <1>1, <1>2
<1> HIDE DEF x
<1>4. budget' = [budget EXCEPT ![rank] = @ - (x - from)]
  <2>1. budget[rank] - (x - from) = 0
    BY <1>2, <1>3
  <2> QED BY <1>1, <2>1
<1>5. sum2 + (x - from) = sum /\ sum2 \in Nat
  BY <1>0, <1>1, <1>2, <1>3, <1>4, SpendGive
<1>6. /\ Listed' = Listed /\ order' = order /\ stage' = stage /\ layout' = layout /\ sizes' = sizes
      /\ WorkerIds(layout)' = WorkerIds(layout) /\ stage = "walk"
  BY <1>1, ListKept DEF Walking
<1>7. ExactInv'
  <2>1. ASSUME ~layout.dropLast PROVE sum2 + from' = ahead
    <3>1. sum + from = ahead
      BY <1>6, <2>1 DEF WalkedInv, ExactInv
    <3> HIDE DEF sum, sum2, ahead
    <3> QED BY <1>1, <1>2, <1>3, <1>5, <3>1
  <2> QED BY <1>1, <1>6, <2>1 DEF ExactInv
<1>8. /\ \A c, y : Has(c, y) => Has(c, y)'
      /\ \A c, y : c = order[at] /\ y \in from .. x - 1 => Has(c, y)'
  BY <1>0, <1>1, <1>2, <1>3, GiveHas
<1>9. CoverInv'
  <2>1. ASSUME ~layout.dropLast, NEW c, c = order[at], NEW y \in 0 .. x - 1 PROVE Has(c, y)'
    <3>1. CASE y \in 0 .. from - 1
      BY <1>1, <1>6, <1>8, <2>1, <3>1 DEF WalkedInv, CoverInv
    <3>2. CASE y \notin 0 .. from - 1
      <4>1. y \in from .. x - 1
        BY <1>2, <1>3, <3>2
      <4> QED BY <1>8, <2>1, <4>1
    <3> QED BY <3>1, <3>2
  <2>2. \A j \in DOMAIN order : j < at /\ ~layout.dropLast =>
            \A y \in 0 .. sizes[order[j]] - 1 : Has(order[j], y)'
    BY <1>6, <1>8 DEF WalkedInv, CoverInv
  <2>3. at' = at /\ from' = x
    BY <1>1
  <2> QED BY <1>6, <2>1, <2>2, <2>3 DEF CoverInv
<1> QED BY <1>1, <1>7, <1>9, FirstKept DEF WalkedInv

LEMMA WalkedTakeWhole == ASSUME WalkedInv, TakeWhole PROVE ExactInv' /\ CoverInv' /\ FirstInv'
<1> DEFINE x == sizes[order[at]]
           sum == SumFunctionOnSet(budget, WorkerIds(layout))
           sum2 == SumFunctionOnSet(budget', WorkerIds(layout))
           ahead == SumFunctionOnSet(Listed, at + 1 .. Len(order))
<1>0. IInv /\ TypeOK /\ SpendInv
  BY DEF WalkedInv, IInv
<1>1. /\ Walking /\ rank < GlobalNumWorkers(layout) /\ Rest > 0 /\ Rest <= budget[rank]
      /\ Give(rank, from, x) /\ ToNextChunk
      /\ budget' = [budget EXCEPT ![rank] = @ - Rest]
      /\ UNCHANGED <<job, list>>
  BY DEF TakeWhole
<1>2. /\ rank \in WorkerIds(layout) /\ budget[rank] \in Nat /\ from \in Nat /\ x \in Nat
      /\ at \in DOMAIN order /\ at \in Nat /\ DOMAIN order \subseteq Nat
  <2>1. rank \in WorkerIds(layout) /\ budget[rank] \in Nat /\ at \in DOMAIN order /\ sizes[order[at]] \in Nat
    BY <1>0, <1>1, AtWorker
  <2>2. from \in Nat /\ order \in Seq(DOMAIN sizes) /\ at \in 1 .. Len(order) + 1
    BY <1>0 DEF TypeOK
  <2>3. at \in Nat /\ DOMAIN order \subseteq Nat
    BY <2>2
  <2> QED BY <2>1, <2>2, <2>3
<1>3. Rest = x - from /\ from < x /\ x - from <= budget[rank]
  BY <1>1, <1>2 DEF Rest
<1>4. SumFunctionOnSet(Listed, at .. Len(order)) = x + ahead /\ ahead \in Nat
  BY <1>0, <1>1, AheadFacts
<1> HIDE DEF x
<1>5. sum2 + (x - from) = sum /\ sum2 \in Nat
  <2>1. budget' = [budget EXCEPT ![rank] = @ - (x - from)]
    BY <1>1, <1>3
  <2> QED BY <1>0, <1>1, <1>2, <1>3, <2>1, SpendGive
<1>6. /\ Listed' = Listed /\ order' = order /\ stage' = stage /\ layout' = layout /\ sizes' = sizes
      /\ WorkerIds(layout)' = WorkerIds(layout) /\ stage = "walk"
  BY <1>1, ListKept DEF Walking
<1>7. at' = at + 1 /\ from' = 0
  BY <1>1 DEF ToNextChunk
<1>8. ExactInv'
  <2>1. ASSUME ~layout.dropLast PROVE sum2 + 0 = ahead
    <3>1. sum + from = x + ahead
      BY <1>4, <1>6, <2>1 DEF WalkedInv, ExactInv
    <3> HIDE DEF sum, sum2, ahead
    <3> QED BY <1>2, <1>3, <1>4, <1>5, <3>1
  <2> QED BY <1>6, <1>7, <2>1 DEF ExactInv
<1>9. /\ \A c, y : Has(c, y) => Has(c, y)'
      /\ \A c, y : c = order[at] /\ y \in from .. x - 1 => Has(c, y)'
  BY <1>0, <1>1, <1>2, <1>3, GiveHas
<1>10. CoverInv'
  <2>1. ASSUME ~layout.dropLast, NEW c, c = order[at], NEW y \in 0 .. x - 1 PROVE Has(c, y)'
    <3>1. CASE y \in 0 .. from - 1
      BY <1>1, <1>6, <1>9, <2>1, <3>1 DEF WalkedInv, CoverInv
    <3>2. CASE y \notin 0 .. from - 1
      <4>1. y \in from .. x - 1
        BY <1>2, <1>3, <3>2
      <4> QED BY <1>9, <2>1, <4>1
    <3> QED BY <3>1, <3>2
  <2>2. ASSUME ~layout.dropLast, NEW j \in DOMAIN order, j < at + 1, NEW c, c = order[j], NEW y \in 0 .. sizes[c] - 1
        PROVE  Has(c, y)'
    <3>1. CASE j < at
      <4>1. Has(c, y)
        BY <1>6, <2>2, <3>1 DEF WalkedInv, CoverInv
      <4> QED BY <1>9, <4>1
    <3>2. CASE j = at
      BY <2>1, <2>2, <3>2 DEF x
    <3> QED BY <1>2, <2>2, <3>1, <3>2
  <2>3. 0 .. from' - 1 = {}
    BY <1>7
  <2> QED BY <1>6, <1>7, <2>2, <2>3 DEF CoverInv
<1> QED BY <1>1, <1>8, <1>10, FirstKept DEF WalkedInv

LEMMA WalkedStep == WalkedInv /\ [Next]_vars => WalkedInv'
<1> SUFFICES ASSUME WalkedInv, [Next]_vars PROVE ExactInv' /\ CoverInv' /\ FirstInv'
  BY StepInv, SpendStep DEF WalkedInv
<1>1. CASE List
  BY <1>1, WalkedList
<1>2. CASE Deal
  BY <1>2, WalkedDeal
<1>3. CASE PassOver
  BY <1>3, WalkedPassOver
<1>4. CASE SkipEmpty
  <2>1. Walking /\ ToNextChunk /\ Rest = 0 /\ UNCHANGED <<job, list, budget, plan>>
    BY <1>4 DEF SkipEmpty
  <2> QED BY <2>1, WalkedSkip
<1>5. CASE Split
  BY <1>5, WalkedSplit
<1>6. CASE TakeWhole
  BY <1>6, WalkedTakeWhole
<1>7. CASE Drop
  <2>1. Walking /\ ToNextChunk /\ rank = GlobalNumWorkers(layout) /\ UNCHANGED <<job, list, budget, plan>>
    BY <1>7 DEF Drop
  <2> QED BY <2>1, WalkedSkip
<1>8. CASE Reshuffle
  BY <1>8, WalkedReshuffle
<1>9. CASE UNCHANGED vars
  <2>1. UNCHANGED <<job, list>> /\ UNCHANGED <<at, from, budget, plan>>
    BY <1>9 DEF vars
  <2>2. /\ Listed' = Listed /\ order' = order /\ stage' = stage /\ layout' = layout /\ sizes' = sizes
        /\ WorkerIds(layout)' = WorkerIds(layout)
    BY <2>1, ListKept
  <2>3. \A c, y : Has(c, y)' <=> Has(c, y)
    BY <2>1, HasKept
  <2> QED BY <2>1, <2>2, <2>3, FirstKept DEF WalkedInv, ExactInv, CoverInv, Walking
<1> QED BY <1>1, <1>2, <1>3, <1>4, <1>5, <1>6, <1>7, <1>8, <1>9 DEF Next, Walk, Settled

-----------------------------------------------------------------------------
(* Which item a place of a subset stands for. *)

\* The sizes of the chunks of a list, added up.
Added(ix, s) == FoldSeq(LAMBDA c, sum : ix[c] + sum, 0, s)

LEMMA SizesAdded ==
    ASSUME NEW ix, NEW s, IsFiniteSet(DOMAIN s), \A j \in DOMAIN s : ix[s[j]] \in Nat
    PROVE  Added(ix, s) \in Nat
<1> DEFINE S == DOMAIN s
           f == [j \in S |-> ix[s[j]]]
           Adding(h) == h = [t \in SUBSET S |-> IF t = {} THEN 0 ELSE ix[s[Chosen(t)]] + h[t \ {Chosen(t)}]]
           g == CHOOSE h : Adding(h)
<1>1. Added(ix, s) = g[S]
  BY DEF Added, FoldSeq, FoldFunction, FoldFunctionOnSet, MapThenFoldSet, Chosen
<1>2. ASSUME NEW h PROVE Adding(h) <=> Summing(h, f, S)
  <2>1. \A t \in SUBSET S : t # {} => f[Chosen(t)] = ix[s[Chosen(t)]]
    BY ChosenIn
  <2> HIDE DEF f
  <2> QED BY <2>1 DEF Summing
<1> HIDE DEF Adding, f
<1>3. Adding(g)
  <2>1. \E h : Adding(h)
    BY <1>2, SummingExists
  <2> QED BY <2>1
<1> HIDE DEF g
<1>4. PICK h : Summing(h, f, S) /\ SumFunctionOnSet(f, S) = h[S]
  BY SumComputed
<1>5. g[S] = h[S]
  BY <1>2, <1>3, <1>4, SummingUnique
<1>6. SumFunctionOnSet(f, S) \in Nat
  <2>1. \A x \in S : f[x] \in Nat
    BY DEF f
  <2> QED BY <2>1, SumType
<1> QED BY <1>1, <1>4, <1>5, <1>6

\* Where the chunks of a subset begin, and what is read of them.
LEMMA IntervalFacts ==
    ASSUME NEW ix \in Seq(Nat), NEW s, Paired(s), Among(s, DOMAIN ix)
    PROVE  /\ DOMAIN GenerateIntervals(ix, s) = 1 .. Len(s.roi)
           /\ \A k \in 1 .. Len(s.roi) :
                 /\ GenerateIntervals(ix, s)[k].begin \in Nat
                 /\ GenerateIntervals(ix, s)[k].from = GenerateIntervals(ix, s)[k].begin + s.roi[k][1]
                 /\ GenerateIntervals(ix, s)[k].to = GenerateIntervals(ix, s)[k].begin + s.roi[k][2]
<1> DEFINE begin(k) == Added(ix, SubSeq(s.files, 1, k - 1))
           n == Len(s.roi)
<1>1. /\ n \in Nat /\ IsSeq(s.files) /\ Len(s.files) = n /\ DOMAIN s.files = 1 .. n
  BY SeqFacts, RegionFacts DEF Paired
<1>2. GenerateIntervals(ix, s) =
        [k \in 1 .. n |->
            [begin |-> begin(k), from |-> begin(k) + s.roi[k][1],
             to |-> begin(k) + s.roi[k][2], end |-> begin(k) + ix[s.files[k]]]]
  BY <1>1 DEF GenerateIntervals, Added
<1>3. ASSUME NEW k \in 1 .. n PROVE begin(k) \in Nat
  <2> DEFINE t == SubSeq(s.files, 1, k - 1)
  <2>1. DOMAIN t = 1 .. k - 1 /\ \A j \in 1 .. k - 1 : t[j] = s.files[j]
    BY <1>1 DEF IsSeq
  <2>2. 1 .. k - 1 \subseteq 1 .. n /\ k - 1 \in Nat
    BY <1>1
  <2> HIDE DEF t
  <2>3. ASSUME NEW j \in DOMAIN t PROVE ix[t[j]] \in Nat
    <3>1. j \in 1 .. n /\ t[j] = s.files[j]
      BY <2>1, <2>2
    <3>2. t[j] \in DOMAIN ix
      BY <3>1 DEF Among
    <3> QED BY <3>2
  <2>4. IsFiniteSet(DOMAIN t)
    BY <2>1, <2>2, FS_Interval
  <2>5. Added(ix, t) \in Nat
    BY <2>3, <2>4, SizesAdded
  <2> QED BY <2>5 DEF t
<1> HIDE DEF begin, n
<1>4. DOMAIN GenerateIntervals(ix, s) = 1 .. n
  BY <1>2
<1>5. ASSUME NEW k \in 1 .. n
      PROVE  /\ GenerateIntervals(ix, s)[k].begin \in Nat
             /\ GenerateIntervals(ix, s)[k].from = GenerateIntervals(ix, s)[k].begin + s.roi[k][1]
             /\ GenerateIntervals(ix, s)[k].to = GenerateIntervals(ix, s)[k].begin + s.roi[k][2]
  BY <1>2, <1>3
<1> QED BY <1>4, <1>5 DEF n

\* The first regions have at least as many items as fewer of them.
LEMMA CumSumGrows ==
    ASSUME NEW roi, Regions(roi), NEW j \in 0 .. Len(roi), NEW k \in 0 .. Len(roi), j <= k
    PROVE  CumSum(roi, j) <= CumSum(roi, k)
<1> DEFINE T == {d \in Nat : j + d <= Len(roi) => CumSum(roi, j) <= CumSum(roi, j + d)}
<1>0. /\ Len(roi) \in Nat /\ \A i \in 0 .. Len(roi) : CumSum(roi, i) \in Nat
      /\ \A i \in 1 .. Len(roi) :
            /\ CumSum(roi, i) = CumSum(roi, i - 1) + (roi[i][2] - roi[i][1])
            /\ roi[i][1] \in Nat /\ roi[i][2] \in Nat /\ roi[i][1] <= roi[i][2]
  BY RegionFacts, CumSumFacts
<1>1. 0 \in T
  BY <1>0
<1>2. ASSUME NEW d \in T PROVE d + 1 \in T
  <2>1. d \in Nat /\ (j + d <= Len(roi) => CumSum(roi, j) <= CumSum(roi, j + d))
    OBVIOUS
  <2> SUFFICES ASSUME j + (d + 1) <= Len(roi) PROVE CumSum(roi, j) <= CumSum(roi, j + (d + 1))
    BY <2>1
  <2> DEFINE i == j + (d + 1)
  <2>2. i \in 1 .. Len(roi) /\ i - 1 = j + d /\ j + d <= Len(roi) /\ j + d \in 0 .. Len(roi)
    BY <1>0, <2>1
  <2> HIDE DEF i
  <2>3. CumSum(roi, i) = CumSum(roi, j + d) + (roi[i][2] - roi[i][1]) /\ CumSum(roi, j) <= CumSum(roi, j + d)
    BY <1>0, <2>1, <2>2
  <2>4. CumSum(roi, j) \in Nat /\ CumSum(roi, j + d) \in Nat /\ roi[i][2] - roi[i][1] \in Nat
    <3>1. CumSum(roi, j) \in Nat /\ CumSum(roi, j + d) \in Nat
      BY <1>0, <2>2
    <3>2. roi[i][1] \in Nat /\ roi[i][2] \in Nat /\ roi[i][1] <= roi[i][2]
      BY <1>0, <2>2
    <3>3. roi[i][2] - roi[i][1] \in Nat
      BY <3>2
    <3> QED BY <3>1, <3>3
  <2>5. CumSum(roi, j) <= CumSum(roi, i)
    BY <2>3, <2>4
  <2> QED BY <2>5 DEF i
<1>3. T = Nat
  <2> HIDE DEF T
  <2>1. T \subseteq Nat
    BY DEF T
  <2> QED BY <1>1, <1>2, <2>1, Induct
<1>4. k - j \in T /\ j + (k - j) = k
  <2>1. k - j \in Nat /\ j + (k - j) = k
    BY <1>0
  <2> HIDE DEF T
  <2> QED BY <1>3, <2>1
<1> QED BY <1>0, <1>4

\* The region a place of the subset is in.
AtPlace(s, n, p) == n \in 1 .. Len(s.roi) /\ CumSum(s.roi, n - 1) <= p /\ p < CumSum(s.roi, n)

LEMMA PlaceFacts ==
    ASSUME NEW s, Paired(s), NEW p \in 0 .. ItemsIn(s.roi) - 1
    PROVE  /\ \E n : AtPlace(s, n, p)
           /\ \A m, n : AtPlace(s, m, p) /\ AtPlace(s, n, p) => m = n
<1>0. /\ Len(s.roi) \in Nat /\ Regions(s.roi) /\ \A i \in 0 .. Len(s.roi) : CumSum(s.roi, i) \in Nat
      /\ ItemsIn(s.roi) \in Nat
  BY RegionFacts, CumSumFacts DEF Paired, ItemsIn
<1>1. \E n : AtPlace(s, n, p)
  <2> DEFINE count == p + 1
             m == Match(s, count)
  <2>1. count \in Nat \ {0} /\ count <= ItemsIn(s.roi)
    BY <1>0
  <2> HIDE DEF count
  <2>2. /\ m \in 1 .. Len(s.roi) /\ CumSum(s.roi, m - 1) < count
        /\ Cut(s, count) \in Nat /\ Cut(s, count) <= s.roi[m][2]
        /\ CumSum(s.roi, m) = count + (s.roi[m][2] - Cut(s, count))
    BY <2>1, MatchFacts
  <2> HIDE DEF m
  <2>3. s.roi[m][2] \in Nat /\ CumSum(s.roi, m - 1) \in Nat
    <3>1. m - 1 \in 0 .. Len(s.roi)
      BY <1>0, <2>2
    <3> QED BY <1>0, <2>2, <3>1, RegionFacts
  <2>4. CumSum(s.roi, m) >= count
    BY <2>1, <2>2, <2>3
  <2>5. CumSum(s.roi, m - 1) <= p
    BY <2>2, <2>3 DEF count
  <2>6. p < CumSum(s.roi, m)
    <3>1. CumSum(s.roi, m) \in Nat
      BY <1>0, <2>2
    <3> QED BY <2>4, <3>1 DEF count
  <2> QED BY <2>2, <2>5, <2>6 DEF AtPlace
<1>2. ASSUME NEW m, NEW n, AtPlace(s, m, p), AtPlace(s, n, p), m < n PROVE FALSE
  <2>1. /\ m \in 1 .. Len(s.roi) /\ p < CumSum(s.roi, m)
        /\ n \in 1 .. Len(s.roi) /\ CumSum(s.roi, n - 1) <= p
    BY <1>2 DEF AtPlace
  <2>2. m \in 0 .. Len(s.roi) /\ n - 1 \in 0 .. Len(s.roi) /\ m <= n - 1
    BY <1>0, <1>2, <2>1
  <2>3. CumSum(s.roi, m) <= CumSum(s.roi, n - 1)
    BY <1>0, <2>2, CumSumGrows
  <2>4. CumSum(s.roi, m) \in Nat /\ CumSum(s.roi, n - 1) \in Nat
    BY <1>0, <2>2
  <2> QED BY <2>1, <2>3, <2>4
<1>3. ASSUME NEW m, NEW n, AtPlace(s, m, p), AtPlace(s, n, p) PROVE m = n
  <2>1. m \in Nat /\ n \in Nat
    BY <1>0, <1>3 DEF AtPlace
  <2>2. ~(m < n) /\ ~(n < m)
    BY <1>2, <1>3
  <2> QED BY <2>1, <2>2
<1> QED BY <1>1, <1>3

\* An item is the one its place gives (_get_chunk_index_from_index).
LEMMA AccessFacts ==
    ASSUME NEW ix \in Seq(Nat), NEW s, Paired(s), Among(s, DOMAIN ix),
           NEW p \in 0 .. ItemsIn(s.roi) - 1, NEW n, AtPlace(s, n, p)
    PROVE  Access(ix, s, p) = <<s.files[n], s.roi[n][1] + (p - CumSum(s.roi, n - 1))>>
<1> DEFINE k == CHOOSE i \in DOMAIN s.files : CumSum(s.roi, i - 1) <= p /\ p < CumSum(s.roi, (i + 1) - 1)
<1>0. /\ Len(s.roi) \in Nat /\ DOMAIN s.files = 1 .. Len(s.roi) /\ Regions(s.roi)
      /\ \A i \in 0 .. Len(s.roi) : CumSum(s.roi, i) \in Nat
      /\ ItemsIn(s.roi) \in Nat
  BY SeqFacts, RegionFacts, CumSumFacts DEF Paired, ItemsIn
<1>1. \A i \in 1 .. Len(s.roi) : (i + 1) - 1 = i
  BY <1>0
<1>2. Access(ix, s, p) = ItemAt(ix, s, k, GenerateIntervals(ix, s)[k].from + p - CumSum(s.roi, k - 1))
  BY DEF Access
<1>3. AtPlace(s, k, p)
  <2>1. \E i \in DOMAIN s.files : CumSum(s.roi, i - 1) <= p /\ p < CumSum(s.roi, (i + 1) - 1)
    BY <1>0, <1>1 DEF AtPlace
  <2>2. k \in DOMAIN s.files /\ CumSum(s.roi, k - 1) <= p /\ p < CumSum(s.roi, (k + 1) - 1)
    BY <2>1
  <2> HIDE DEF k
  <2> QED BY <1>0, <1>1, <2>2 DEF AtPlace
<1> HIDE DEF k
<1>4. k = n
  BY <1>3, PlaceFacts
<1>5. n \in 1 .. Len(s.roi) /\ n - 1 \in 0 .. Len(s.roi) /\ CumSum(s.roi, n - 1) \in Nat
  BY <1>0 DEF AtPlace
<1>6. /\ GenerateIntervals(ix, s)[n].begin \in Nat
      /\ GenerateIntervals(ix, s)[n].from = GenerateIntervals(ix, s)[n].begin + s.roi[n][1]
      /\ s.roi[n][1] \in Nat
  BY <1>0, <1>5, IntervalFacts, RegionFacts
<1> DEFINE b == GenerateIntervals(ix, s)[n].begin
           c == CumSum(s.roi, n - 1)
           a == s.roi[n][1]
           f == GenerateIntervals(ix, s)[n].from
<1>7. p \in Nat
  BY <1>0
<1>8. (f + p - c) - b = a + (p - c)
  <2>1. f = b + a /\ b \in Nat /\ a \in Nat /\ c \in Nat
    BY <1>5, <1>6
  <2> HIDE DEF a, b, c, f
  <2> QED BY <1>7, <2>1
<1> QED BY <1>2, <1>4, <1>8 DEF ItemAt

\* Reading a subset place by place gives its items.
LEMMA PlacesGiveItems ==
    ASSUME NEW ix \in Seq(Nat), NEW s, Paired(s), Among(s, DOMAIN ix)
    PROVE  {Access(ix, s, p) : p \in 0 .. ItemsIn(s.roi) - 1} = ItemsOf(s)
<1>0. /\ Len(s.roi) \in Nat /\ Regions(s.roi) /\ ItemsIn(s.roi) \in Nat
      /\ \A i \in 0 .. Len(s.roi) : CumSum(s.roi, i) \in Nat
      /\ \A i \in 1 .. Len(s.roi) :
            /\ CumSum(s.roi, i) = CumSum(s.roi, i - 1) + (s.roi[i][2] - s.roi[i][1])
            /\ s.roi[i][1] \in Nat /\ s.roi[i][2] \in Nat /\ s.roi[i][1] <= s.roi[i][2]
  BY RegionFacts, CumSumFacts DEF Paired, ItemsIn
<1>1. ASSUME NEW p \in 0 .. ItemsIn(s.roi) - 1 PROVE Access(ix, s, p) \in ItemsOf(s)
  <2>1. PICK n : AtPlace(s, n, p)
    BY PlaceFacts
  <2> DEFINE c == CumSum(s.roi, n - 1)
             e == CumSum(s.roi, n)
             a == s.roi[n][1]
             z == s.roi[n][2]
  <2>2. Access(ix, s, p) = <<s.files[n], a + (p - c)>>
    BY <2>1, AccessFacts
  <2>3. n \in 1 .. Len(s.roi) /\ n - 1 \in 0 .. Len(s.roi) /\ n \in 0 .. Len(s.roi) /\ c <= p /\ p < e
    BY <1>0, <2>1 DEF AtPlace
  <2>4. c \in Nat /\ e \in Nat /\ e = c + (z - a) /\ a \in Nat /\ z \in Nat /\ p \in Nat
    <3>1. c \in Nat /\ e \in Nat
      BY <1>0, <2>3
    <3>2. e = c + (z - a) /\ a \in Nat /\ z \in Nat
      BY <1>0, <2>3
    <3> QED BY <3>1, <3>2
  <2> HIDE DEF a, c, e, z
  <2>5. a + (p - c) \in a .. z - 1
    BY <2>3, <2>4
  <2>6. InRegion(s, n, Access(ix, s, p))
    BY <2>2, <2>3, <2>5 DEF InRegion, a, z
  <2> QED BY <2>3, <2>6, ItemsAre
<1>2. ASSUME NEW x \in ItemsOf(s) PROVE \E p \in 0 .. ItemsIn(s.roi) - 1 : x = Access(ix, s, p)
  <2>1. PICK n \in 1 .. Len(s.roi) : InRegion(s, n, x)
    BY ItemsAre
  <2>2. PICK i \in s.roi[n][1] .. s.roi[n][2] - 1 : x = <<s.files[n], i>>
    BY <2>1 DEF InRegion
  <2> DEFINE c == CumSum(s.roi, n - 1)
             e == CumSum(s.roi, n)
             a == s.roi[n][1]
             z == s.roi[n][2]
             p == c + (i - a)
             all == ItemsIn(s.roi)
  <2>3. n - 1 \in 0 .. Len(s.roi) /\ n \in 0 .. Len(s.roi) /\ Len(s.roi) \in 0 .. Len(s.roi) /\ n <= Len(s.roi)
    <3> DEFINE m == Len(s.roi)
    <3>1. m \in Nat
      BY <1>0
    <3>2. n \in 1 .. m
      OBVIOUS
    <3> HIDE DEF m
    <3>3. n - 1 \in 0 .. m /\ n \in 0 .. m /\ m \in 0 .. m /\ n <= m
      BY <3>1, <3>2
    <3> QED BY <3>3 DEF m
  <2>4. c \in Nat /\ e \in Nat /\ e = c + (z - a) /\ a \in Nat /\ z \in Nat /\ i \in a .. z - 1 /\ all \in Nat
    <3> DEFINE i0 == n - 1
    <3>0. i0 \in 0 .. Len(s.roi)
      BY <2>3
    <3> HIDE DEF i0
    <3>1. CumSum(s.roi, i0) \in Nat
      BY <1>0, <3>0
    <3>1a. e \in Nat
      BY <1>0, <2>3
    <3>2. e = c + (z - a) /\ a \in Nat /\ z \in Nat
      BY <1>0, <2>3
    <3>3. all \in Nat
      BY <1>0, <2>3 DEF ItemsIn
    <3>4. i \in a .. z - 1
      BY <2>2
    <3> QED BY <3>1, <3>1a, <3>2, <3>3, <3>4 DEF i0
  <2>5. e <= all
    BY <1>0, <2>3, CumSumGrows DEF ItemsIn
  <2>6. p \in 0 .. all - 1 /\ c <= p /\ p < e /\ a + (p - c) = i
    <3> HIDE DEF a, c, e, z, all
    <3> QED BY <2>4, <2>5
  <2> HIDE DEF p
  <2>7. AtPlace(s, n, p)
    BY <2>6 DEF AtPlace
  <2>8. Access(ix, s, p) = <<s.files[n], a + (p - c)>>
    BY <2>6, <2>7, AccessFacts
  <2> QED BY <2>2, <2>6, <2>8
<1> QED BY <1>1, <1>2

-----------------------------------------------------------------------------
(* What the workers of a dataset read. *)

\* The subset that is read, and that its regions are what the walk deals out.
MineInv ==
    /\ index \in Seq(Nat) /\ Paired(mine) /\ Among(mine, DOMAIN index)
    /\ sizes = RegionSizes(mine.roi)

SubsetInv == WalkedInv /\ MineInv

LEMMA MineFacts ==
    ASSUME index \in Seq(Nat), Paired(mine), Among(mine, DOMAIN index)
    PROVE  /\ SubsetSizes = RegionSizes(mine.roi)
           /\ RegionSizes(mine.roi) \in Seq(Nat)
<1> DEFINE n == Len(mine.roi)
           all == GenerateIntervals(index, mine)
<1>1. /\ n \in Nat /\ DOMAIN RegionSizes(mine.roi) = 1 .. n
      /\ \A k \in 1 .. n : /\ mine.roi[k][1] \in Nat /\ mine.roi[k][2] \in Nat
                           /\ RegionSizes(mine.roi)[k] = mine.roi[k][2] - mine.roi[k][1]
                           /\ RegionSizes(mine.roi)[k] \in Nat
  BY RegionFacts DEF Paired
<1>2. /\ DOMAIN all = 1 .. n
      /\ \A k \in 1 .. n : /\ all[k].begin \in Nat
                           /\ all[k].from = all[k].begin + mine.roi[k][1]
                           /\ all[k].to = all[k].begin + mine.roi[k][2]
  BY IntervalFacts
<1> DEFINE f == RegionSizes(mine.roi)
<1>3. SubsetSizes = [k \in 1 .. n |-> all[k].to - all[k].from]
  BY <1>2 DEF SubsetSizes
<1>4. f = [k \in 1 .. n |-> f[k]]
  BY <1>1 DEF RegionSizes
<1> HIDE DEF all, f
<1>5. ASSUME NEW k \in 1 .. n PROVE all[k].to - all[k].from = f[k]
  <2>1. /\ all[k].begin \in Nat /\ all[k].from = all[k].begin + mine.roi[k][1]
        /\ all[k].to = all[k].begin + mine.roi[k][2]
    BY <1>2
  <2>2. /\ mine.roi[k][1] \in Nat /\ mine.roi[k][2] \in Nat
        /\ f[k] = mine.roi[k][2] - mine.roi[k][1]
    BY <1>1 DEF f
  <2> QED BY <2>1, <2>2
<1> HIDE DEF n
<1>6. SubsetSizes = [k \in 1 .. n |-> f[k]]
  BY <1>3, <1>5
<1>7. [k \in 1 .. n |-> f[k]] \in Seq(Nat)
  BY <1>1 DEF f
<1> QED BY <1>4, <1>6, <1>7 DEF f

LEMMA SubsetBegin == SubsetInit => SubsetInv
<1> SUFFICES ASSUME SubsetInit PROVE SubsetInv
  OBVIOUS
<1> DEFINE ix == request.index
           shares == request.shares
<1>1. /\ ix \in Seq(Nat) \ {<< >>} /\ request.share \in Nat \ {0}
      /\ shares \in Seq(Nat) /\ SumFunction(shares) <= Grain
  BY RequestAssumption DEF SubsetInit
<1>2. whole \in Subsample(ix, request.share, request.shuffled)
  BY DEF SubsetInit, index
<1> HIDE DEF ix, shares
<1>3. Paired(whole) /\ whole.files \in Seq(1 .. Len(ix))
  BY <1>1, <1>2, SubsampleFacts
<1>4. DOMAIN ix = 1 .. Len(ix) /\ Len(ix) \in Nat /\ DOMAIN ix \subseteq Nat
  BY <1>1
<1>5. Among(whole, DOMAIN ix) /\ ToSet(whole.files) \subseteq DOMAIN ix
  <2> DEFINE C == DOMAIN ix
  <2>1. whole.files \in Seq(C)
    BY <1>3, <1>4
  <2> HIDE DEF C
  <2>2. \A k \in 1 .. Len(whole.files) : whole.files[k] \in C
    BY <2>1
  <2>3. Len(whole.files) = Len(whole.roi) /\ DOMAIN whole.files = 1 .. Len(whole.files)
    BY <1>3, SeqFacts DEF Paired
  <2>4. Among(whole, C) /\ ToSet(whole.files) \subseteq C
    BY <2>2, <2>3 DEF Among, ToSet
  <2> QED BY <2>4 DEF C
<1>6. Paired(mine) /\ Among(mine, DOMAIN ix)
  <2>1. CASE splits = << >>
    BY <1>3, <1>5, <2>1 DEF SubsetInit
  <2>2. CASE splits # << >>
    <3>1. splits \in TrainTestSplit(whole, shares, request.mixed) /\ mine \in ToSet(splits)
      BY <2>2 DEF SubsetInit, shares
    <3>2. PICK i \in DOMAIN splits : mine = splits[i]
      BY <3>1 DEF ToSet
    <3>3. Paired(splits[i]) /\ (ToSet(whole.files) \subseteq Nat => Among(splits[i], ToSet(whole.files)))
      BY <1>1, <1>3, <3>1, SplitFacts
    <3> QED BY <1>4, <1>5, <3>2, <3>3 DEF Among
  <2> QED BY <2>1, <2>2
<1>7. index \in Seq(Nat) /\ Paired(mine) /\ Among(mine, DOMAIN index)
  BY <1>1, <1>6 DEF index, ix
<1>8. sizes = SubsetSizes /\ Begin
  BY DEF SubsetInit
<1>9. sizes = RegionSizes(mine.roi) /\ sizes \in Seq(Nat)
  BY <1>7, <1>8, MineFacts
<1> QED BY <1>7, <1>8, <1>9, BeginWalked DEF SubsetInv, MineInv

LEMMA SubsetStep ==
    SubsetInv /\ [Next /\ UNCHANGED subsetVars]_<<vars, subsetVars>> => SubsetInv'
<1> SUFFICES ASSUME SubsetInv, [Next]_vars, UNCHANGED subsetVars PROVE SubsetInv'
  OBVIOUS
<1>1. WalkedInv'
  BY WalkedStep DEF SubsetInv
<1>2. sizes' = sizes
  <2>1. UNCHANGED job
    BY DEF Next, Walk, List, Deal, PassOver, SkipEmpty, Split, TakeWhole, Drop, Reshuffle, Settled, vars
  <2> QED BY <2>1 DEF job
<1>3. request' = request /\ mine' = mine
  BY DEF subsetVars
<1>4. MineInv'
  <2>1. index' = index
    BY <1>3 DEF index
  <2> QED BY <1>2, <1>3, <2>1 DEF SubsetInv, MineInv, Paired, Among, Regions, RegionSizes, IsSeq
<1> QED BY <1>1, <1>4 DEF SubsetInv

\* The item that is read for a sample of the walk.
LEMMA ReadFacts ==
    ASSUME MineInv, NEW k \in 1 .. Len(mine.roi), NEW i \in Nat
    PROVE  Read(k, i) = <<mine.files[k], mine.roi[k][1] + i>>
<1> DEFINE b == GenerateIntervals(index, mine)[k].begin
           a == mine.roi[k][1]
           f == GenerateIntervals(index, mine)[k].from
<1>1. b \in Nat /\ f = b + a /\ a \in Nat
  <2>1. index \in Seq(Nat) /\ Paired(mine) /\ Among(mine, DOMAIN index)
    BY DEF MineInv
  <2>2. b \in Nat /\ f = b + a
    BY <2>1, IntervalFacts
  <2>3. a \in Nat
    BY <2>1, RegionFacts DEF Paired
  <2> QED BY <2>2, <2>3
<1>2. Read(k, i) = ItemAt(index, mine, k, f + i)
  BY DEF Read
<1>3. (f + i) - b = a + i
  <2> HIDE DEF a, b, f
  <2> QED BY <1>1
<1> QED BY <1>2, <1>3 DEF ItemAt

\* The first pass deals out all samples of the subset.
LEMMA AllListed ==
    ASSUME SubsetInv, stage = "walk", pass = "first"
    PROVE  /\ items = ItemsIn(mine.roi)
           /\ \A c \in 1 .. Len(mine.roi) : \E j \in DOMAIN order : order[j] = c
<1>0. /\ \A c \in DOMAIN sizes : \E j \in DOMAIN order : order[j] = c
      /\ \A j, k \in DOMAIN order : order[j] = order[k] => j = k
  BY DEF SubsetInv, WalkedInv, FirstInv
<1>1. /\ sizes = RegionSizes(mine.roi) /\ DOMAIN sizes = 1 .. Len(mine.roi) /\ Len(mine.roi) \in Nat
      /\ \A k \in DOMAIN sizes : sizes[k] \in Nat
  BY RegionFacts DEF SubsetInv, MineInv, Paired
<1>2. /\ IsFiniteSet(DOMAIN order) /\ \A k \in DOMAIN order : Listed[k] = sizes[order[k]]
      /\ order \in [DOMAIN order -> DOMAIN sizes]
  <2>1. TypeOK
    BY DEF SubsetInv, WalkedInv, IInv
  <2>2. order \in Seq(DOMAIN sizes)
    BY <2>1 DEF TypeOK
  <2> QED BY <2>1, <2>2, ListedFacts
<1>3. IsFiniteSet(DOMAIN sizes)
  BY <1>1, FS_Interval
<1>4. {order[j] : j \in DOMAIN order} = DOMAIN sizes
  BY <1>0, <1>2
<1>5. SumFunctionOnSet(Listed, DOMAIN order) = SumFunctionOnSet(sizes, {order[j] : j \in DOMAIN order})
  <2> DEFINE S == DOMAIN order
             U == DOMAIN sizes
             f == sizes
             g == Listed
  <2>1. /\ IsFiniteSet(S) /\ IsFiniteSet(U) /\ order \in [S -> U]
        /\ \A x, y \in S : order[x] = order[y] => x = y
        /\ \A y \in U : f[y] \in Nat
        /\ \A x \in S : g[x] = f[order[x]]
    BY <1>0, <1>1, <1>2, <1>3
  <2> HIDE DEF S, U, f, g
  <2>2. SumFunctionOnSet(g, S) = SumFunctionOnSet(f, {order[x] : x \in S})
    BY <2>1, SumPermuted
  <2> QED BY <2>2 DEF S, f, g
<1>6. items = SumFunctionOnSet(Listed, DOMAIN order)
  BY DEF SubsetInv, WalkedInv, ItemsInv
<1>7. items = ItemsIn(mine.roi)
  BY <1>1, <1>4, <1>5, <1>6 DEF ItemsIn, CumSum
<1> QED BY <1>0, <1>1, <1>7

\* The items the workers are given intervals of.
ReadByAll == UNION {UNION {{Read(plan[w][n].chunk, i) : i \in plan[w][n].first .. plan[w][n].last - 1} :
                            n \in DOMAIN plan[w]} : w \in WorkerIds(layout)}

LEMMA AllRead ==
    ASSUME SubsetInv, Dealt, pass = "first", ~layout.dropLast
    PROVE  ReadByAll = ItemsOf(mine)
<1>0. /\ MineInv /\ TypeOK /\ Paired(mine) /\ sizes = RegionSizes(mine.roi)
      /\ stage = "walk" /\ at > Len(order)
  BY DEF SubsetInv, WalkedInv, IInv, MineInv, Dealt
<1>1. /\ DOMAIN sizes = 1 .. Len(mine.roi) /\ Len(mine.roi) \in Nat
      /\ \A k \in 1 .. Len(mine.roi) :
            /\ sizes[k] = mine.roi[k][2] - mine.roi[k][1] /\ sizes[k] \in Nat
            /\ mine.roi[k][1] \in Nat /\ mine.roi[k][2] \in Nat
  BY <1>0, RegionFacts DEF Paired
<1>2. ASSUME NEW w \in WorkerIds(layout), NEW n \in DOMAIN plan[w],
             NEW i \in plan[w][n].first .. plan[w][n].last - 1
      PROVE  Read(plan[w][n].chunk, i) \in ItemsOf(mine)
  <2> DEFINE c == plan[w][n].chunk
             a == mine.roi[c][1]
             z == mine.roi[c][2]
  <2>1. plan[w][n] \in Intervals /\ plan[w][n].last <= sizes[c]
    <3>1. plan[w] \in Seq(Intervals)
      BY <1>0 DEF TypeOK
    <3>2. plan[w][n] \in Intervals
      BY <3>1
    <3> QED BY <1>0, <3>2 DEF TypeOK
  <2>2. c \in 1 .. Len(mine.roi) /\ plan[w][n].first \in Nat /\ plan[w][n].last \in Nat
    BY <1>1, <2>1 DEF Intervals
  <2>3. i \in Nat /\ i < sizes[c]
    BY <1>1, <2>1, <2>2
  <2>4. sizes[c] = z - a /\ a \in Nat /\ z \in Nat
    BY <1>1, <2>2
  <2> HIDE DEF c, a, z
  <2>5. a + i \in a .. z - 1
    BY <2>3, <2>4
  <2>6. Read(c, i) = <<mine.files[c], a + i>>
    BY <1>0, <2>2, <2>3, ReadFacts DEF a
  <2>7. InRegion(mine, c, Read(c, i))
    BY <2>2, <2>5, <2>6 DEF InRegion, a, z
  <2>8. Read(c, i) \in ItemsOf(mine)
    BY <1>0, <2>2, <2>7, ItemsAre
  <2> QED BY <2>8 DEF c
<1>3. ASSUME NEW x \in ItemsOf(mine)
      PROVE  \E w \in WorkerIds(layout) : \E n \in DOMAIN plan[w] :
                 \E i \in plan[w][n].first .. plan[w][n].last - 1 : x = Read(plan[w][n].chunk, i)
  <2>1. PICK c \in 1 .. Len(mine.roi) : InRegion(mine, c, x)
    BY <1>0, ItemsAre
  <2> DEFINE a == mine.roi[c][1]
             z == mine.roi[c][2]
  <2>2. PICK y \in a .. z - 1 : x = <<mine.files[c], y>>
    BY <2>1 DEF InRegion
  <2> DEFINE i == y - a
  <2>3. a \in Nat /\ z \in Nat /\ sizes[c] = z - a
    BY <1>1
  <2> HIDE DEF a, z
  <2>4. i \in Nat /\ i \in 0 .. sizes[c] - 1 /\ a + i = y
    BY <2>2, <2>3
  <2> HIDE DEF i
  <2>5. PICK j \in DOMAIN order : order[j] = c
    BY <1>0, AllListed
  <2>6. j < at
    <3>1. DOMAIN order = 1 .. Len(order) /\ Len(order) \in Nat /\ at \in Nat
      BY <1>0, ListedFacts DEF TypeOK
    <3> QED BY <1>0, <3>1
  <2>7. Has(c, i)
    BY <1>0, <2>4, <2>5, <2>6 DEF SubsetInv, WalkedInv, CoverInv
  <2>8. PICK w \in WorkerIds(layout) : \E n \in DOMAIN plan[w] :
            plan[w][n].chunk = c /\ plan[w][n].first <= i /\ i < plan[w][n].last
    BY <2>7 DEF Has
  <2>9. PICK n \in DOMAIN plan[w] :
            plan[w][n].chunk = c /\ plan[w][n].first <= i /\ i < plan[w][n].last
    BY <2>8
  <2>10. plan[w][n].first \in Nat /\ plan[w][n].last \in Nat
    <3>1. plan[w] \in Seq(Intervals)
      BY <1>0 DEF TypeOK
    <3>2. plan[w][n] \in Intervals
      BY <3>1
    <3> QED BY <3>2 DEF Intervals
  <2>11. i \in plan[w][n].first .. plan[w][n].last - 1
    BY <2>4, <2>9, <2>10
  <2>12. Read(c, i) = x
    BY <1>0, <2>2, <2>4, ReadFacts DEF a
  <2> QED BY <2>9, <2>11, <2>12
<1> QED BY <1>2, <1>3 DEF ReadByAll

\* Without drop_last the first epoch's workers read, between them, exactly the items of
\* the subset that was asked for, as many as it has, and reading it place by place gives
\* the same: whatever the dataset, its subsample or split, the order of its chunks and
\* the shape of the job.
THEOREM EverySubsetRead == SubsetSpec => []SubsetRead
<1>1. ASSUME SubsetInv PROVE SubsetRead
  <2> SUFFICES ASSUME Dealt, pass = "first", ~layout.dropLast
               PROVE  /\ GivenTo(WorkerIds(layout)) = ItemsIn(mine.roi)
                      /\ ReadByAll = ItemsOf(mine)
                      /\ {Access(index, mine, p) : p \in 0 .. ItemsIn(mine.roi) - 1} = ItemsOf(mine)
    BY DEF SubsetRead, ReadByAll
  <2>1. stage = "walk" /\ IInv /\ SpendInv /\ layout \in Layouts /\ items \in Nat
    BY <1>1 DEF SubsetInv, WalkedInv, IInv, TypeOK, Dealt
  <2>2. GivenTo(WorkerIds(layout)) = items
    BY <2>1, GivenToIs, TotalSum
  <2>3. items = ItemsIn(mine.roi)
    BY <1>1, <2>1, AllListed
  <2>4. ReadByAll = ItemsOf(mine)
    BY <1>1, AllRead
  <2>5. {Access(index, mine, p) : p \in 0 .. ItemsIn(mine.roi) - 1} = ItemsOf(mine)
    BY <1>1, PlacesGiveItems DEF SubsetInv, MineInv
  <2> QED BY <2>2, <2>3, <2>4, <2>5
<1> QED BY <1>1, SubsetBegin, SubsetStep, PTL DEF SubsetSpec

\* Whatever subset is asked for, its samples are dealt like those of any other dataset
\* (_associate_chunks_and_intervals_to_workers over the chunks of a StreamingDataset).
THEOREM SubsetDealt == SubsetSpec => [](NothingTwice /\ RanksAgree /\ WorkersInStep)
<1>1. SubsetInv => NothingTwice /\ RanksAgree /\ WorkersInStep
  <2>1. SubsetInv => IInv /\ SpendInv
    BY DEF SubsetInv, WalkedInv
  <2>2. IInv => NothingTwice
    BY DEF IInv
  <2> QED BY <2>1, <2>2, RanksFollow, StepsFollow
<1> QED BY <1>1, SubsetBegin, SubsetStep, PTL DEF SubsetSpec
=============================================================================
