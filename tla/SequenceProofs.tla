--------------------------- MODULE SequenceProofs ---------------------------
(***************************************************************************)
(* Lemmas about numbers, finite sets, sequences and sums that the proofs    *)
(* about the data processor and the assignment need.  Induction is stated for sets of numbers: the   *)
(* induction theorems of the library take an operator, which no prover here *)
(* can instantiate.                                                        *)
(***************************************************************************)
EXTENDS IndexNames, Sequences, SequencesExt, FiniteSetTheorems, SequenceTheorems,
        WellFoundedInduction, TLAPS

-----------------------------------------------------------------------------
(* Numbers. *)

LEMMA SameEnd == ASSUME NEW m \in Nat, NEW n \in Nat, 1 .. m = 1 .. n PROVE m = n
<1>1. ASSUME m < n PROVE FALSE
  <2>1. n \in 1 .. n /\ n \notin 1 .. m
    BY <1>1
  <2> QED BY <2>1
<1>2. ASSUME n < m PROVE FALSE
  <2>1. m \in 1 .. m /\ m \notin 1 .. n
    BY <1>2
  <2> QED BY <2>1
<1> QED BY <1>1, <1>2

\* A set of natural numbers that is not empty has a least one.
LEMMA SmallestIn ==
    ASSUME NEW T \in SUBSET Nat, T # {}
    PROVE  \E m \in T : \A n \in T : m <= n
<1> DEFINE R == StrictSubsetOrdering(Nat)
           F == FiniteSubsetsOf(Nat)
           Q == {0 .. m : m \in T}
<1>1. IsWellFoundedOn(R, F)
  BY FS_StrictSubsetOrderingWellFounded
<1>2. Q \subseteq F /\ Q # {}
  <2>1. ASSUME NEW m \in T PROVE 0 .. m \in F
    BY FS_Interval DEF FiniteSubsetsOf
  <2> QED BY <2>1
<1>3. \A x, y \in Nat : x < y => <<0 .. x, 0 .. y>> \in R
  <2> SUFFICES ASSUME NEW x \in Nat, NEW y \in Nat, x < y
               PROVE <<0 .. x, 0 .. y>> \in R
    OBVIOUS
  <2>1. y \in 0 .. y /\ y \notin 0 .. x /\ 0 .. x \subseteq 0 .. y
    OBVIOUS
  <2> QED BY <2>1 DEF StrictSubsetOrdering
<1> HIDE DEF R, F
<1>4. PICK x \in Q : \A y \in Q : ~(<<y, x>> \in R)
  <2> HIDE DEF Q
  <2> QED BY <1>1, <1>2, WFMin
<1>5. PICK m \in T : x = 0 .. m
  BY <1>4
<1>6. \A n \in T : ~(n < m)
  <2> HIDE DEF Q
  <2>1. \A n \in T : 0 .. n \in Q
    BY DEF Q
  <2> QED BY <1>3, <1>4, <1>5, <2>1
<1> QED BY <1>5, <1>6

\* Induction: a set with 0, and with n + 1 if it has n, holds all natural numbers.
\* Stated for a set, so that it can be cited.
LEMMA Induct ==
    ASSUME NEW T \in SUBSET Nat, 0 \in T, \A n \in T : n + 1 \in T
    PROVE T = Nat
<1>1. SUFFICES ASSUME Nat \ T # {} PROVE FALSE
  OBVIOUS
<1>2. PICK m \in Nat \ T : \A n \in Nat \ T : m <= n
  BY <1>1, SmallestIn
<1>3. m - 1 \in T 
  BY <1>2
<1> QED BY <1>2, <1>3

\* A finite set of natural numbers has a greatest one.
LEMMA MaxFacts ==
    ASSUME NEW S \in SUBSET Nat, IsFiniteSet(S), S # {}
    PROVE  Max(S) \in S /\ \A x \in S : x <= Max(S)
<1> DEFINE R == StrictSubsetOrdering(S)
           Bounded(T) == \E b \in Nat : \A x \in T : x <= b
           U == {T \in SUBSET S : ~Bounded(T)}
<1>0. \A x \in S : x \in Nat
  OBVIOUS
<1>1. Bounded(S)
  <2> SUFFICES ASSUME ~Bounded(S) PROVE FALSE
    OBVIOUS
  <2>1. IsWellFoundedOn(R, FiniteSubsetsOf(S)) /\ U \subseteq FiniteSubsetsOf(S)
    BY FS_StrictSubsetOrderingWellFounded, FS_Subset DEF FiniteSubsetsOf
  <2>2. U # {}
    OBVIOUS
  <2>3. PICK T \in U : \A V \in U : ~(<<V, T>> \in R)
    <3> HIDE DEF U, R
    <3> QED BY <2>1, <2>2, WFMin
  <2>4. PICK x \in T : TRUE
    OBVIOUS
  <2>5. <<T \ {x}, T>> \in R
    BY <2>4 DEF StrictSubsetOrdering
  <2>6. Bounded(T \ {x})
    <3> HIDE DEF Bounded, R
    <3> QED BY <2>3, <2>5
  <2>7. PICK b \in Nat : \A y \in T \ {x} : y <= b
    BY <2>6
  <2>8. b + x \in Nat /\ \A y \in T : y <= b + x
    BY <1>0, <2>3, <2>4, <2>7
  <2> QED BY <2>3, <2>8
<1>2. PICK b \in Nat : \A x \in S : x <= b
  BY <1>1
<1> DEFINE D == {b - x : x \in S}
<1>3. PICK d \in D : \A e \in D : d <= e
  <2>1. D \subseteq Nat /\ D # {}
    <3>1. PICK x \in S : TRUE
      OBVIOUS
    <3>2. b - x \in D
      BY <3>1
    <3>3. \A y \in S : b - y \in Nat
      BY <1>0, <1>2
    <3> QED BY <3>2, <3>3
  <2> HIDE DEF D
  <2> QED BY <2>1, SmallestIn
<1>4. PICK m \in S : d = b - m
  BY <1>3
<1>5. \A x \in S : m >= x
  <2>1. \A x \in S : b - x \in D
    OBVIOUS
  <2> HIDE DEF D
  <2> QED BY <1>2, <1>3, <1>4, <2>1
<1> HIDE DEF D
<1>6. Max(S) \in S /\ \A x \in S : Max(S) >= x
  BY <1>4, <1>5 DEF Max
<1> QED BY <1>6

-----------------------------------------------------------------------------
(* Sequences. *)

\* s is a sequence of whatever.
IsSeq(s) == \E S : s \in Seq(S)

LEMMA SeqFacts ==
    ASSUME NEW s, IsSeq(s)
    PROVE  /\ Len(s) \in Nat /\ DOMAIN s = 1 .. Len(s)
           /\ s # << >> <=> Len(s) > 0
           /\ s \in Seq(ToSet(s)) /\ IsFiniteSet(ToSet(s))
<1>1. PICK S : s \in Seq(S)
  BY DEF IsSeq
<1>2. Len(s) \in Nat /\ DOMAIN s = 1 .. Len(s) /\ (s # << >> <=> Len(s) > 0)
  BY <1>1
<1>3. s \in Seq(ToSet(s))
  <2>1. s = [i \in 1 .. Len(s) |-> s[i]]
    BY <1>1
  <2>2. \A i \in 1 .. Len(s) : s[i] \in ToSet(s)
    BY <1>2 DEF ToSet
  <2> QED BY <1>2, <2>1, <2>2
<1>4. IsFiniteSet(ToSet(s))
  <2>1. s \in Surjection(1 .. Len(s), ToSet(s))
    <3>1. s \in [1 .. Len(s) -> ToSet(s)]
      BY <1>2, <1>3
    <3> QED BY <1>2, <3>1 DEF Surjection, ToSet
  <2>2. IsFiniteSet(1 .. Len(s))
    BY <1>2, FS_Interval
  <2> QED BY <2>1, <2>2, FS_Surjection
<1> QED BY <1>2, <1>3, <1>4

LEMMA EmptyIsSeq == IsSeq(<< >>) /\ ToSet(<< >>) = {}
<1>1. << >> \in Seq({})
  OBVIOUS
<1> QED BY <1>1 DEF IsSeq, ToSet

LEMMA OneIsSeq ==
    ASSUME NEW x
    PROVE  IsSeq(<<x>>) /\ ToSet(<<x>>) = {x}
<1>1. <<x>> \in Seq({x}) /\ DOMAIN <<x>> = {1} /\ <<x>>[1] = x
  OBVIOUS
<1> QED BY <1>1 DEF IsSeq, ToSet

LEMMA AppendFacts ==
    ASSUME NEW s, IsSeq(s), NEW x
    PROVE  /\ IsSeq(Append(s, x)) /\ Len(Append(s, x)) = Len(s) + 1
           /\ \A i \in 1 .. Len(s) : Append(s, x)[i] = s[i]
           /\ Append(s, x)[Len(s) + 1] = x
           /\ ToSet(Append(s, x)) = ToSet(s) \union {x}
<1>1. PICK S : s \in Seq(S)
  BY DEF IsSeq
<1>2. /\ Append(s, x) \in Seq(S \union {x}) /\ Len(Append(s, x)) = Len(s) + 1
      /\ \A i \in 1 .. Len(s) : Append(s, x)[i] = s[i]
      /\ Append(s, x)[Len(s) + 1] = x
  BY <1>1
<1>3. Len(s) \in Nat /\ DOMAIN s = 1 .. Len(s) /\ DOMAIN Append(s, x) = 1 .. Len(s) + 1
  BY <1>1, <1>2
<1>4. ToSet(Append(s, x)) = ToSet(s) \union {x}
  <2>1. \A i \in 1 .. Len(s) + 1 : i \in 1 .. Len(s) \/ i = Len(s) + 1
    BY <1>3
  <2> QED BY <1>2, <1>3, <2>1 DEF ToSet
<1> QED BY <1>2, <1>4 DEF IsSeq

LEMMA ConcatFacts ==
    ASSUME NEW s, IsSeq(s), NEW t, IsSeq(t)
    PROVE  /\ IsSeq(s \o t) /\ Len(s \o t) = Len(s) + Len(t)
           /\ \A i \in 1 .. Len(s) : (s \o t)[i] = s[i]
           /\ \A i \in 1 .. Len(t) : (s \o t)[Len(s) + i] = t[i]
           /\ ToSet(s \o t) = ToSet(s) \union ToSet(t)
<1>1. PICK S : s \in Seq(S)
  BY DEF IsSeq
<1>2. PICK T : t \in Seq(T)
  BY DEF IsSeq
<1>3. s \in Seq(S \union T) /\ t \in Seq(S \union T)
  BY <1>1, <1>2
<1>4. /\ s \o t \in Seq(S \union T) /\ Len(s \o t) = Len(s) + Len(t)
      /\ Len(s) \in Nat /\ Len(t) \in Nat
  BY <1>3
<1>5. \A i \in 1 .. Len(s) : (s \o t)[i] = s[i]
  BY <1>3
<1>6. \A i \in 1 .. Len(t) : (s \o t)[Len(s) + i] = t[i]
  BY <1>3
<1>7. ToSet(s \o t) = ToSet(s) \union ToSet(t)
  <2>1. /\ DOMAIN s = 1 .. Len(s) /\ DOMAIN t = 1 .. Len(t)
        /\ DOMAIN (s \o t) = 1 .. Len(s) + Len(t)
    BY <1>3, <1>4
  <2>2. \A i \in 1 .. Len(s) + Len(t) : i \in 1 .. Len(s) \/ i - Len(s) \in 1 .. Len(t)
    BY <1>4
  <2>3. \A i \in 1 .. Len(s) + Len(t) :
            (s \o t)[i] \in ToSet(s) \union ToSet(t)
    <3> TAKE i \in 1 .. Len(s) + Len(t)
    <3>1. CASE i \in 1 .. Len(s)
      BY <1>5, <2>1, <3>1 DEF ToSet
    <3>2. CASE i - Len(s) \in 1 .. Len(t)
      <4>1. i = Len(s) + (i - Len(s))
        BY <1>4
      <4>2. (s \o t)[i] = t[i - Len(s)]
        BY <1>6, <3>2, <4>1
      <4> QED BY <2>1, <3>2, <4>2 DEF ToSet
    <3> QED BY <2>2, <3>1, <3>2
  <2>4. \A i \in 1 .. Len(s) : s[i] \in ToSet(s \o t)
    <3> TAKE i \in 1 .. Len(s)
    <3>1. i \in DOMAIN (s \o t)
      BY <1>4, <2>1
    <3> QED BY <1>5, <3>1 DEF ToSet
  <2>5. \A i \in 1 .. Len(t) : t[i] \in ToSet(s \o t)
    <3> TAKE i \in 1 .. Len(t)
    <3>1. Len(s) + i \in DOMAIN (s \o t)
      BY <1>4, <2>1
    <3> QED BY <1>6, <3>1 DEF ToSet
  <2> QED
    <3>1. ToSet(s \o t) \subseteq ToSet(s) \union ToSet(t)
      BY <2>1, <2>3 DEF ToSet
    <3>2. ToSet(s) \subseteq ToSet(s \o t)
      BY <2>1, <2>4 DEF ToSet
    <3>3. ToSet(t) \subseteq ToSet(s \o t)
      BY <2>1, <2>5 DEF ToSet
    <3> QED BY <3>1, <3>2, <3>3
<1> QED BY <1>4, <1>5, <1>6, <1>7 DEF IsSeq

LEMMA ConcatOne ==
    ASSUME NEW s, IsSeq(s)
    PROVE  s \o << >> = s /\ \A x : s \o <<x>> = Append(s, x)
<1>1. PICK S : s \in Seq(S)
  BY DEF IsSeq
<1>2. s \o << >> = s
  BY <1>1
<1>3. ASSUME NEW x PROVE s \o <<x>> = Append(s, x)
  <2>1. s \in Seq(S \union {x}) /\ x \in S \union {x}
    BY <1>1
  <2> QED BY <2>1, AppendIsConcat
<1> QED BY <1>2, <1>3

LEMMA TailFacts ==
    ASSUME NEW s, IsSeq(s), s # << >>
    PROVE  /\ IsSeq(Tail(s)) /\ Len(Tail(s)) = Len(s) - 1 /\ Len(s) \in Nat \ {0}
           /\ \A i \in 1 .. Len(s) - 1 : Tail(s)[i] = s[i + 1]
           /\ Head(s) = s[1]
<1>1. PICK S : s \in Seq(S)
  BY DEF IsSeq
<1>2. /\ Tail(s) \in Seq(S) /\ Len(Tail(s)) = Len(s) - 1 /\ Len(s) \in Nat \ {0}
      /\ \A i \in 1 .. Len(s) - 1 : Tail(s)[i] = s[i + 1]
      /\ Head(s) = s[1]
  BY <1>1
<1> QED BY <1>2 DEF IsSeq

\* A function on 1 .. n is a sequence.
LEMMA FunctionIsSeq ==
    ASSUME NEW S, NEW n \in Nat, NEW f \in [1 .. n -> S]
    PROVE  f \in Seq(S)
  OBVIOUS

\* The function that FlattenSeq is computed with exists.
LEMMA FlatExists ==
    ASSUME NEW seqs, NEW m \in Nat
    PROVE  \E f : f = [i \in 1 .. m |-> IF i = 1 THEN seqs[i] ELSE f[i - 1] \o seqs[i]]
<1> DEFINE Flat(f, n) == f = [i \in 1 .. n |-> IF i = 1 THEN seqs[i] ELSE f[i - 1] \o seqs[i]]
           T == {n \in Nat : \E f : Flat(f, n)}
<1>1. 0 \in T
  <2>1. Flat([i \in 1 .. 0 |-> << >>], 0)
    OBVIOUS
  <2> HIDE DEF Flat
  <2> QED BY <2>1
<1>2. ASSUME NEW n \in T PROVE n + 1 \in T
  <2>1. PICK f : Flat(f, n)
    OBVIOUS
  <2>0. n \in Nat
    OBVIOUS
  <2> DEFINE last == IF n = 0 THEN seqs[1] ELSE f[n] \o seqs[n + 1]
             g == [i \in 1 .. n + 1 |-> IF i = n + 1 THEN last ELSE f[i]]
  <2>4. ASSUME NEW i \in 1 .. n + 1
        PROVE  g[i] = IF i = 1 THEN seqs[i] ELSE g[i - 1] \o seqs[i]
    <3>1. CASE i = n + 1
      BY <2>0, <3>1
    <3>2. CASE i < n + 1
      <4>1. f[i] = IF i = 1 THEN seqs[i] ELSE f[i - 1] \o seqs[i]
        <5>1. f[i] = [k \in 1 .. n |-> IF k = 1 THEN seqs[k] ELSE f[k - 1] \o seqs[k]][i]
          BY <2>1
        <5> QED BY <2>0, <3>2, <5>1
      <4>2. g[i] = f[i] /\ (i # 1 => g[i - 1] = f[i - 1])
        BY <2>0, <3>2
      <4> HIDE DEF g
      <4> QED BY <4>1, <4>2
    <3> QED BY <2>0, <3>1, <3>2
  <2>5. Flat(g, n + 1)
    <3>1. g = [i \in 1 .. n + 1 |-> g[i]]
      OBVIOUS
    <3> HIDE DEF g
    <3>2. g = [i \in 1 .. n + 1 |-> IF i = 1 THEN seqs[i] ELSE g[i - 1] \o seqs[i]]
      BY <2>4, <3>1
    <3> QED BY <3>2
  <2> HIDE DEF g, Flat
  <2> QED BY <2>0, <2>5
<1>3. T = Nat
  <2> HIDE DEF T
  <2>1. T \subseteq Nat
    BY DEF T
  <2> QED BY <1>1, <1>2, <2>1, Induct
<1> QED
  <2>1. m \in T
     <3> HIDE DEF T
     <3> QED BY <1>3
  <2> QED BY <2>1

\* What FlattenSeq makes of sequences is a sequence of their elements.
LEMMA FlatSeq ==
    ASSUME NEW S, NEW seqs \in Seq(Seq(S))
    PROVE  FlattenSeq(seqs) \in Seq(S)
<1> DEFINE m == Len(seqs)
           Flat(f) == f = [i \in 1 .. m |-> IF i = 1 THEN seqs[i] ELSE f[i - 1] \o seqs[i]]
           flat == CHOOSE g : Flat(g)
           T == {n \in Nat : n + 1 \in 1 .. m => flat[n + 1] \in Seq(S)}
<1>1. Flat(flat)
  <2>1. \E f : Flat(f)
    <3>1. m \in Nat
      OBVIOUS
    <3> HIDE DEF m
    <3> QED BY <3>1, FlatExists
  <2> HIDE DEF Flat
  <2> QED BY <2>1
<1> HIDE DEF flat
<1>2. ASSUME NEW i \in 1 .. m
      PROVE  flat[i] = IF i = 1 THEN seqs[i] ELSE flat[i - 1] \o seqs[i]
  <2>1. flat[i] = [k \in 1 .. m |-> IF k = 1 THEN seqs[k] ELSE flat[k - 1] \o seqs[k]][i]
    BY <1>1
  <2> QED BY <2>1
<1>3. \A i \in 1 .. m : seqs[i] \in Seq(S)
  OBVIOUS
<1>4. 0 \in T
  BY <1>2, <1>3
<1>5. ASSUME NEW n \in T PROVE n + 1 \in T
  <2>1. n \in Nat /\ (n + 1 \in 1 .. m => flat[n + 1] \in Seq(S))
    OBVIOUS
  <2>2. n + 2 \in 1 .. m => flat[n + 2] \in Seq(S)
    <3> SUFFICES ASSUME n + 2 \in 1 .. m PROVE flat[n + 2] \in Seq(S)
      OBVIOUS
    <3>1. n + 1 \in 1 .. m /\ n + 2 # 1 /\ (n + 2) - 1 = n + 1
      BY <2>1
    <3>2. flat[n + 2] = flat[n + 1] \o seqs[n + 2]
      BY <1>2, <3>1
    <3> QED BY <1>3, <2>1, <3>1, <3>2
  <2> QED BY <2>1, <2>2
<1>6. T = Nat
  <2> HIDE DEF T
  <2>1. T \subseteq Nat
    BY DEF T
  <2> QED BY <1>4, <1>5, <2>1, Induct
<1>7. CASE m = 0
  <2>1. seqs \in Seq(S)
    BY <1>7
  <2> QED BY <1>7, <2>1 DEF FlattenSeq
<1>8. CASE m # 0
  <2>1. FlattenSeq(seqs) = flat[m]
    BY <1>8 DEF FlattenSeq, flat
  <2>2. m - 1 \in T
    <3>1. m - 1 \in Nat
      BY <1>8
    <3> HIDE DEF T
    <3> QED BY <1>6, <3>1
  <2> QED BY <1>8, <2>1, <2>2
<1> QED BY <1>7, <1>8
-----------------------------------------------------------------------------
(* FlattenSeq. *)

LEMMA ConcatEmpty == ASSUME NEW s, IsSeq(s) PROVE << >> \o s = s
  BY DEF IsSeq

LEMMA ConcatAssoc ==
    ASSUME NEW S, NEW a \in Seq(S), NEW b \in Seq(S), NEW c \in Seq(S)
    PROVE  (a \o b) \o c = a \o (b \o c)
<1> DEFINE p == (a \o b) \o c
           q == a \o (b \o c)
<1>1. p \in Seq(S) /\ q \in Seq(S) /\ Len(p) = Len(a) + Len(b) + Len(c) /\ Len(q) = Len(p)
  OBVIOUS
<1>2. \A i \in 1 .. Len(a) + Len(b) + Len(c) : p[i] = q[i]
  OBVIOUS
<1> HIDE DEF p, q
<1>3. p = q
  BY <1>1, <1>2, SeqEqual
<1> QED BY <1>3 DEF p, q

LEMMA ConcatAppend ==
    ASSUME NEW E, NEW a \in Seq(E), NEW b \in Seq(E), NEW x \in E
    PROVE  a \o Append(b, x) = Append(a \o b, x)
<1> DEFINE p == a \o Append(b, x)
           q == Append(a \o b, x)
<1>1. a \o b \in Seq(E) /\ Append(b, x) \in Seq(E) /\ Len(Append(b, x)) = Len(b) + 1
  OBVIOUS
<1>2. p \in Seq(E) /\ q \in Seq(E) /\ Len(p) = Len(a) + Len(b) + 1 /\ Len(q) = Len(p)
  BY <1>1
<1>3. \A i \in 1 .. Len(a) + Len(b) + 1 : p[i] = q[i]
  BY <1>1
<1> HIDE DEF p, q
<1>4. p = q
  BY <1>2, <1>3, SeqEqual
<1> QED BY <1>4 DEF p, q

\* The steps it is computed in.
FlatBy(f, seqs) ==
    /\ f[0] = << >> /\ \A i \in 1 .. Len(seqs) : f[i] = f[i - 1] \o seqs[i]
    /\ FlattenSeq(seqs) = f[Len(seqs)]

LEMMA FlatSteps ==
    ASSUME NEW seqs, IsSeq(seqs), \A i \in 1 .. Len(seqs) : IsSeq(seqs[i])
    PROVE  \E f : FlatBy(f, seqs)
<1> DEFINE m == Len(seqs)
           Flat(f) == f = [i \in 1 .. m |-> IF i = 1 THEN seqs[i] ELSE f[i - 1] \o seqs[i]]
           flat == CHOOSE g : Flat(g)
           h == [i \in 0 .. m |-> IF i = 0 THEN << >> ELSE flat[i]]
<1>0. m \in Nat /\ DOMAIN seqs = 1 .. m /\ (seqs # << >> <=> m > 0)
  BY SeqFacts
<1>1. Flat(flat)
  <2>1. \E f : Flat(f)
    <3> HIDE DEF m
    <3> QED BY <1>0, FlatExists
  <2> HIDE DEF Flat
  <2> QED BY <2>1
<1>2. ASSUME NEW i \in 1 .. m
      PROVE  flat[i] = IF i = 1 THEN seqs[i] ELSE flat[i - 1] \o seqs[i]
  <2>1. flat[i] = [k \in 1 .. m |-> IF k = 1 THEN seqs[k] ELSE flat[k - 1] \o seqs[k]][i]
    BY <1>1
  <2> QED BY <2>1
<1>3. FlattenSeq(seqs) = IF m = 0 THEN seqs ELSE flat[m]
  BY DEF FlattenSeq, flat
<1> HIDE DEF flat, m
<1>4. h[0] = << >> /\ \A i \in 1 .. m : h[i] = flat[i]
  BY <1>0
<1>5. ASSUME NEW i \in 1 .. m PROVE h[i] = h[i - 1] \o seqs[i]
  <2>1. CASE i = 1
    <3>1. IsSeq(seqs[1])
      BY <2>1 DEF m
    <3>2. << >> \o seqs[1] = seqs[1]
      BY <3>1, ConcatEmpty
    <3>3. h[1] = seqs[1] /\ h[1 - 1] = << >>
      BY <1>2, <1>4, <2>1
    <3> QED BY <2>1, <3>2, <3>3
  <2>2. CASE i # 1
    <3>1. h[i] = flat[i] /\ h[i - 1] = flat[i - 1] /\ flat[i] = flat[i - 1] \o seqs[i]
      <4>1. i - 1 \in 1 .. m
        BY <1>0, <2>2
      <4> QED BY <1>2, <1>4, <2>2, <4>1
    <3> QED BY <3>1
  <2> QED BY <2>1, <2>2
<1>6. FlattenSeq(seqs) = h[m]
  BY <1>0, <1>3, <1>4
<1> HIDE DEF h
<1>7. FlatBy(h, seqs)
  BY <1>4, <1>5, <1>6 DEF FlatBy, m
<1> QED BY <1>7

LEMMA FlatIsSeq ==
    ASSUME NEW S, NEW seqs \in Seq(Seq(S)), NEW f, FlatBy(f, seqs)
    PROVE  \A i \in 0 .. Len(seqs) : f[i] \in Seq(S)
<1> DEFINE T == {n \in Nat : n <= Len(seqs) => f[n] \in Seq(S)}
<1>1. 0 \in T
  <2>1. f[0] = << >> /\ << >> \in Seq(S)
    BY DEF FlatBy
  <2> QED BY <2>1
<1>2. ASSUME NEW n \in T PROVE n + 1 \in T
  <2> SUFFICES ASSUME n + 1 <= Len(seqs) PROVE f[n + 1] \in Seq(S)
    OBVIOUS
  <2>1. n + 1 \in 1 .. Len(seqs) /\ n <= Len(seqs) /\ (n + 1) - 1 = n
    OBVIOUS
  <2>2. f[n] \in Seq(S) /\ seqs[n + 1] \in Seq(S)
    BY <2>1
  <2>3. f[n + 1] = f[n] \o seqs[n + 1]
    BY <2>1 DEF FlatBy
  <2> QED BY <2>2, <2>3
<1>3. T = Nat
  <2> HIDE DEF T
  <2>1. T \subseteq Nat
    BY DEF T
  <2> QED BY <1>1, <1>2, <2>1, Induct
<1>4. \A n \in Nat : n <= Len(seqs) => f[n] \in Seq(S)
  BY <1>3
<1> QED BY <1>4

LEMMA FlatEmpty == FlattenSeq(<< >>) = << >>
  BY DEF FlattenSeq

LEMMA FlatAppend ==
    ASSUME NEW S, NEW seqs \in Seq(Seq(S)), NEW x \in Seq(S)
    PROVE  FlattenSeq(Append(seqs, x)) = FlattenSeq(seqs) \o x
<1> DEFINE m == Len(seqs)
           t == Append(seqs, x)
<1>1. /\ m \in Nat /\ t \in Seq(Seq(S)) /\ Len(t) = m + 1 /\ t[m + 1] = x
      /\ \A i \in 1 .. m : t[i] = seqs[i]
  OBVIOUS
<1> HIDE DEF t
<1>2. /\ IsSeq(seqs) /\ IsSeq(t)
      /\ \A i \in 1 .. m : IsSeq(seqs[i])
      /\ \A i \in 1 .. m + 1 : IsSeq(t[i])
  <2>1. \A i \in 1 .. m : seqs[i] \in Seq(S)
    OBVIOUS
  <2>2. \A i \in 1 .. m + 1 : t[i] \in Seq(S)
    BY <1>1
  <2> QED BY <1>1, <2>1, <2>2 DEF IsSeq
<1>3. PICK f : FlatBy(f, seqs)
  BY <1>2, FlatSteps
<1>4. PICK g : FlatBy(g, t)
  BY <1>1, <1>2, FlatSteps
<1> DEFINE T == {n \in Nat : n <= m => f[n] = g[n]}
<1>5. 0 \in T
  BY <1>3, <1>4 DEF FlatBy
<1>6. ASSUME NEW n \in T PROVE n + 1 \in T
  <2> SUFFICES ASSUME n + 1 <= m PROVE f[n + 1] = g[n + 1]
    OBVIOUS
  <2>1. n + 1 \in 1 .. m /\ n + 1 \in 1 .. m + 1 /\ n <= m /\ (n + 1) - 1 = n
    OBVIOUS
  <2>2. f[n] = g[n] /\ t[n + 1] = seqs[n + 1]
    BY <1>1, <2>1
  <2>3. f[n + 1] = f[n] \o seqs[n + 1] /\ g[n + 1] = g[n] \o t[n + 1]
    BY <1>1, <1>3, <1>4, <2>1 DEF FlatBy
  <2> QED BY <2>2, <2>3
<1>7. T = Nat
  <2> HIDE DEF T
  <2>1. T \subseteq Nat
    BY DEF T
  <2> QED BY <1>5, <1>6, <2>1, Induct
<1>8. f[m] = g[m]
  BY <1>1, <1>7
<1>9. g[m + 1] = g[m] \o x
  <2>1. m + 1 \in 1 .. m + 1 /\ (m + 1) - 1 = m
    BY <1>1
  <2> QED BY <1>1, <1>4, <2>1 DEF FlatBy
<1> QED BY <1>1, <1>3, <1>4, <1>8, <1>9 DEF FlatBy, t

LEMMA FlatConcat ==
    ASSUME NEW S, NEW s \in Seq(Seq(S)), NEW t \in Seq(Seq(S))
    PROVE  FlattenSeq(s \o t) = FlattenSeq(s) \o FlattenSeq(t)
<1> DEFINE Whole(u) == FlattenSeq(s \o u) = FlattenSeq(s) \o FlattenSeq(u)
           T == {n \in Nat : \A u \in Seq(Seq(S)) : Len(u) = n => Whole(u)}
<1>a. \A y, z, w \in Seq(S) : (y \o z) \o w = y \o (z \o w)
  BY ConcatAssoc, SMTT(120)
<1>1. FlattenSeq(s) \in Seq(S)
  BY FlatSeq
<1>2. 0 \in T
  <2> SUFFICES ASSUME NEW u \in Seq(Seq(S)), Len(u) = 0 PROVE Whole(u)
    OBVIOUS
  <2>1. u = << >> /\ s \o << >> = s /\ FlattenSeq(s) \o << >> = FlattenSeq(s)
    BY <1>1
  <2> QED BY <2>1, FlatEmpty
<1>3. ASSUME NEW n \in T PROVE n + 1 \in T
  <2> SUFFICES ASSUME NEW u \in Seq(Seq(S)), Len(u) = n + 1 PROVE Whole(u)
    OBVIOUS
  <2> DEFINE v == SubSeq(u, 1, n)
             x == u[n + 1]
  <2>1. n \in Nat /\ v \in Seq(Seq(S)) /\ Len(v) = n /\ x \in Seq(S) /\ u = Append(v, x)
    <3>1. n \in Nat /\ n + 1 \in 1 .. Len(u)
      OBVIOUS
    <3>2. v \in Seq(Seq(S)) /\ Len(v) = n /\ x \in Seq(S) /\ \A i \in 1 .. n : v[i] = u[i]
      <4>1. v \in Seq(Seq(S)) /\ Len(v) = n
        BY <3>1
      <4>2. x \in Seq(S)
        BY <3>1
      <4>3. \A i \in 1 .. n : v[i] = u[i]
        BY <3>1
      <4> HIDE DEF v, x
      <4> QED BY <4>1, <4>2, <4>3
    <3> HIDE DEF v, x
    <3>3. Append(v, x) \in Seq(Seq(S)) /\ Len(Append(v, x)) = n + 1
      BY <3>1, <3>2
    <3>4. \A i \in 1 .. n + 1 : Append(v, x)[i] = u[i]
      <4>1. \A i \in 1 .. n : Append(v, x)[i] = v[i]
        BY <3>1, <3>2
      <4>2. Append(v, x)[n + 1] = x
        BY <3>1, <3>2
      <4>3. \A i \in 1 .. n + 1 : i \in 1 .. n \/ i = n + 1
        BY <3>1
      <4> QED BY <3>2, <4>1, <4>2, <4>3 DEF x
    <3> QED BY <3>1, <3>2, <3>3, <3>4, SeqEqual
  <2> HIDE DEF v, x
  <2>2. Whole(v)
    BY <2>1
  <2>3. s \o u = Append(s \o v, x) /\ s \o v \in Seq(Seq(S))
    <3>1. s \o v \in Seq(Seq(S))
      BY <2>1
    <3> QED BY <2>1, <3>1, ConcatAppend
  <2>4. FlattenSeq(s \o u) = FlattenSeq(s \o v) \o x
    BY <2>1, <2>3, FlatAppend
  <2>5. FlattenSeq(u) = FlattenSeq(v) \o x
    BY <2>1, FlatAppend
  <2>6. FlattenSeq(v) \in Seq(S)
    BY <2>1, FlatSeq
  <2>7. (FlattenSeq(s) \o FlattenSeq(v)) \o x = FlattenSeq(s) \o (FlattenSeq(v) \o x)
    <3> DEFINE a == FlattenSeq(s)
               b == FlattenSeq(v)
    <3>1. a \in Seq(S) /\ x \in Seq(S) /\ b \in Seq(S)
      BY <1>1, <2>1, <2>6
    <3> HIDE DEF a, b
    <3>2. (a \o b) \o x = a \o (b \o x)
      BY <1>a, <3>1, ZenonT(60)
    <3> QED BY <3>2 DEF a, b
  <2> QED BY <2>2, <2>4, <2>5, <2>7
<1>4. T = Nat
  <2> HIDE DEF T
  <2>1. T \subseteq Nat
    BY DEF T
  <2> QED BY <1>2, <1>3, <2>1, Induct
<1>5. Len(t) \in T
  <2>1. Len(t) \in Nat
    OBVIOUS
  <2> HIDE DEF T
  <2> QED BY <1>4, <2>1
<1> QED BY <1>5

\* Any two entries are related as R says.
Sorted(s, R) == \A p, q \in DOMAIN s : p < q => <<s[p], s[q]>> \in R

\* Sorted parts that are sorted among each other are sorted when they are put together.
LEMMA FlatSorted ==
    ASSUME NEW S, NEW R, NEW seqs \in Seq(Seq(S)),
           \A i \in 1 .. Len(seqs) : Sorted(seqs[i], R),
           \A i, j \in 1 .. Len(seqs) : i < j =>
               \A x \in ToSet(seqs[i]) : \A y \in ToSet(seqs[j]) : <<x, y>> \in R
    PROVE  /\ Sorted(FlattenSeq(seqs), R)
           /\ \A x \in ToSet(FlattenSeq(seqs)) : \E i \in 1 .. Len(seqs) : x \in ToSet(seqs[i])
<1>1. \A i \in 1 .. Len(seqs) : seqs[i] \in Seq(S)
  OBVIOUS
<1>2. PICK f : FlatBy(f, seqs)
  <2>1. IsSeq(seqs) /\ \A i \in 1 .. Len(seqs) : IsSeq(seqs[i])
    BY <1>1 DEF IsSeq
  <2> QED BY <2>1, FlatSteps
<1> DEFINE Good(n) == /\ Sorted(f[n], R)
                      /\ \A x \in ToSet(f[n]) : \E i \in 1 .. n : x \in ToSet(seqs[i])
           T == {n \in Nat : n <= Len(seqs) => Good(n)}
<1>3. \A n \in 0 .. Len(seqs) : f[n] \in Seq(S)
  BY <1>2, FlatIsSeq
<1>4. 0 \in T
  <2>1. f[0] = << >> /\ DOMAIN << >> = {}
    BY <1>2 DEF FlatBy
  <2> QED BY <2>1 DEF Sorted, ToSet
<1>5. ASSUME NEW n \in T PROVE n + 1 \in T
  <2> SUFFICES ASSUME n + 1 <= Len(seqs) PROVE Good(n + 1)
    OBVIOUS
  <2>1. n \in Nat /\ n \in 0 .. Len(seqs) /\ n + 1 \in 1 .. Len(seqs) /\ (n + 1) - 1 = n
    OBVIOUS
  <2>2. Good(n)
    BY <2>1
  <2> DEFINE a == f[n]
             b == seqs[n + 1]
  <2>3. f[n + 1] = a \o b /\ IsSeq(a) /\ IsSeq(b)
    BY <1>1, <1>2, <1>3, <2>1 DEF FlatBy, IsSeq
  <2>4. \A x \in ToSet(a) : \A y \in ToSet(b) : <<x, y>> \in R
    <3> SUFFICES ASSUME NEW x \in ToSet(a), NEW y \in ToSet(b) PROVE <<x, y>> \in R
      OBVIOUS
    <3>1. PICK i \in 1 .. n : x \in ToSet(seqs[i])
      BY <2>2
    <3>2. i \in 1 .. Len(seqs) /\ i < n + 1
      BY <2>1
    <3> QED BY <2>1, <3>1, <3>2
  <2>5. Sorted(a, R) /\ Sorted(b, R)
    BY <2>1, <2>2
  <2>6. \A x \in ToSet(a) \union ToSet(b) : \E i \in 1 .. n + 1 : x \in ToSet(seqs[i])
    <3>1. 1 .. n \subseteq 1 .. n + 1 /\ n + 1 \in 1 .. n + 1
      BY <2>1
    <3> QED BY <2>2, <3>1
  <2> HIDE DEF a, b
  <2>7. /\ Len(a) \in Nat /\ Len(b) \in Nat /\ DOMAIN a = 1 .. Len(a) /\ DOMAIN b = 1 .. Len(b)
        /\ DOMAIN (a \o b) = 1 .. Len(a) + Len(b)
        /\ \A i \in 1 .. Len(a) : (a \o b)[i] = a[i]
        /\ \A i \in 1 .. Len(b) : (a \o b)[Len(a) + i] = b[i]
        /\ ToSet(a \o b) = ToSet(a) \union ToSet(b)
    <3>1. /\ Len(a) \in Nat /\ Len(b) \in Nat /\ DOMAIN a = 1 .. Len(a) /\ DOMAIN b = 1 .. Len(b)
      BY <2>3, SeqFacts
    <3>2. /\ IsSeq(a \o b) /\ Len(a \o b) = Len(a) + Len(b)
          /\ \A i \in 1 .. Len(a) : (a \o b)[i] = a[i]
          /\ \A i \in 1 .. Len(b) : (a \o b)[Len(a) + i] = b[i]
          /\ ToSet(a \o b) = ToSet(a) \union ToSet(b)
      BY <2>3, ConcatFacts
    <3>3. DOMAIN (a \o b) = 1 .. Len(a \o b)
      BY <3>2, SeqFacts
    <3> QED BY <3>1, <3>2, <3>3
  <2>8. Sorted(a \o b, R)
    <3> SUFFICES ASSUME NEW p \in 1 .. Len(a) + Len(b), NEW q \in 1 .. Len(a) + Len(b), p < q
                 PROVE  <<(a \o b)[p], (a \o b)[q]>> \in R
      BY <2>7 DEF Sorted
    <3> DEFINE k == q - Len(a)
               j == p - Len(a)
    <3>1. CASE q \in 1 .. Len(a)
      <4>1. p \in 1 .. Len(a)
        BY <2>7, <3>1
      <4> QED BY <2>5, <2>7, <3>1, <4>1 DEF Sorted
    <3>2. CASE p \in 1 .. Len(a) /\ q \notin 1 .. Len(a)
      <4>1. k \in 1 .. Len(b) /\ q = Len(a) + k
        BY <2>7, <3>2
      <4>2. (a \o b)[q] = b[k] /\ (a \o b)[p] = a[p]
        BY <2>7, <3>2, <4>1
      <4>3. b[k] \in ToSet(b) /\ a[p] \in ToSet(a)
        BY <2>7, <3>2, <4>1 DEF ToSet
      <4> QED BY <2>4, <4>2, <4>3
    <3>3. CASE p \notin 1 .. Len(a)
      <4>1. k \in 1 .. Len(b) /\ q = Len(a) + k /\ j \in 1 .. Len(b) /\ p = Len(a) + j /\ j < k
        <5>1. Len(a) \in Nat /\ Len(b) \in Nat
          BY <2>7
        <5>2. p > Len(a) /\ q > Len(a) /\ p \in Nat /\ q \in Nat
          BY <3>3, <5>1
        <5> QED BY <5>1, <5>2
      <4> HIDE DEF j, k
      <4>2. (a \o b)[q] = b[k]
        BY <2>7, <4>1
      <4>3. (a \o b)[p] = b[j]
        BY <2>7, <4>1
      <4>4. <<b[j], b[k]>> \in R
        <5>1. j \in DOMAIN b /\ k \in DOMAIN b
          BY <2>7, <4>1
        <5> QED BY <2>5, <4>1, <5>1 DEF Sorted
      <4> QED BY <4>2, <4>3, <4>4
    <3> QED BY <3>1, <3>2, <3>3
  <2> QED BY <2>3, <2>6, <2>7, <2>8
<1>6. T = Nat
  <2> HIDE DEF T
  <2>1. T \subseteq Nat
    BY DEF T
  <2> QED BY <1>4, <1>5, <2>1, Induct
<1>7. Good(Len(seqs))
  <2>1. Len(seqs) \in Nat
    OBVIOUS
  <2> HIDE DEF Good
  <2> QED BY <1>6, <2>1
<1> QED BY <1>2, <1>7 DEF FlatBy

\* The rest of a sequence that was put together.
LEMMA RestIs ==
    ASSUME NEW a, IsSeq(a), NEW b, IsSeq(b)
    PROVE  SubSeq(a \o b, Len(a) + 1, Len(a \o b)) = b
<1> DEFINE m == Len(a)
           n == Len(b)
           s == a \o b
           S == ToSet(s)
<1>1. /\ m \in Nat /\ n \in Nat /\ DOMAIN b = 1 .. n /\ Len(s) = m + n /\ s \in Seq(S)
      /\ b \in Seq(ToSet(b))
  <2>1. m \in Nat /\ n \in Nat /\ DOMAIN b = 1 .. n /\ b \in Seq(ToSet(b))
    BY SeqFacts
  <2>2. IsSeq(s) /\ Len(s) = m + n
    BY ConcatFacts
  <2>3. s \in Seq(S)
    BY <2>2, SeqFacts
  <2> QED BY <2>1, <2>2, <2>3
<1>2. \A i \in 1 .. n : s[m + i] = b[i]
  BY ConcatFacts
<1> HIDE DEF m, n, s, S
<1>3. /\ SubSeq(s, m + 1, m + n) \in Seq(S) /\ Len(SubSeq(s, m + 1, m + n)) = n
      /\ \A i \in 1 .. n : SubSeq(s, m + 1, m + n)[i] = s[m + i]
  BY <1>1
<1>4. Len(b) = n
  BY DEF n
<1> DEFINE r == SubSeq(s, m + 1, m + n)
<1> HIDE DEF r
<1>5. r \in Seq(S) /\ DOMAIN r = 1 .. n /\ DOMAIN b = 1 .. n /\ \A i \in 1 .. n : r[i] = b[i]
  BY <1>1, <1>2, <1>3 DEF r
<1>6. r = [i \in 1 .. n |-> r[i]] /\ b = [i \in 1 .. n |-> b[i]]
  BY <1>1, <1>5
<1>7. r = b
  BY <1>5, <1>6
<1> QED BY <1>1, <1>7 DEF r, m, s

-----------------------------------------------------------------------------
(* The names of index files. *)

\* Up to ten writers are read in their order.
LEMMA NamesOfTen ==
    ASSUME NEW n \in Nat, n <= 10, NEW W, W = 0 .. n - 1
    PROVE  \A i \in 1 .. n : ByName(W, i) = i - 1
<1>2. ASSUME NEW w \in W PROVE Padded(w) = w * 100
  <2>1. w \in 0 .. 9
    OBVIOUS
  <2>2. {p \in {1, 10, 100} : w * p < 1000} = {1, 10, 100}
    BY <2>1
  <2>3. Max({1, 10, 100}) = 100
    <3>1. {1, 10, 100} \in SUBSET Nat /\ IsFiniteSet({1, 10, 100})
      <4>1. IsFiniteSet({1}) /\ IsFiniteSet({1} \union {10}) /\ IsFiniteSet({1} \union {10} \union {100})
        BY FS_Singleton, FS_Union
      <4>2. {1} \union {10} \union {100} = {1, 10, 100}
        OBVIOUS
      <4>3. IsFiniteSet({1, 10, 100})
        BY <4>1, <4>2
      <4>4. {1, 10, 100} \in SUBSET Nat
        OBVIOUS
      <4> QED BY <4>3, <4>4
    <3>2. Max({1, 10, 100}) \in {1, 10, 100} /\ \A x \in {1, 10, 100} : x <= Max({1, 10, 100})
      BY <3>1, MaxFacts
    <3> QED BY <3>2
  <2> QED BY <2>2, <2>3 DEF Padded
<1>3. ASSUME NEW v \in W, NEW w \in W PROVE NameBefore(v, w) <=> v < w
  <2>1. v \in Nat /\ w \in Nat
    OBVIOUS
  <2>2. Padded(v) = v * 100 /\ Padded(w) = w * 100
    BY <1>2
  <2> QED BY <2>1, <2>2 DEF NameBefore
<1>4. ASSUME NEW w \in W PROVE Cardinality({v \in W : NameBefore(v, w)}) = w
  <2>1. {v \in W : NameBefore(v, w)} = 0 .. w - 1 /\ w \in Nat
    BY <1>3
  <2>2. Cardinality(0 .. w - 1) = w
    <3>1. 0 \in Int /\ w - 1 \in Int
      BY <2>1
    <3>2. Cardinality(0 .. w - 1) = IF 0 > w - 1 THEN 0 ELSE (w - 1) - 0 + 1
      BY <3>1, FS_Interval
    <3> QED BY <2>1, <3>2
  <2> QED BY <2>1, <2>2
<1>5. ASSUME NEW i \in 1 .. n PROVE ByName(W, i) = i - 1
  <2> DEFINE P(w) == Cardinality({v \in W : NameBefore(v, w)}) = i - 1
  <2>1. i - 1 \in W /\ \A w \in W : P(w) <=> w = i - 1
    BY <1>4
  <2> HIDE DEF P
  <2>2. (CHOOSE w \in W : P(w)) = i - 1
    BY <2>1
  <2> QED BY <2>2 DEF ByName, P
<1> QED BY <1>5

-----------------------------------------------------------------------------
(* Sums. *)

\* The element a sum begins with.
Chosen(s) == CHOOSE x \in s : TRUE

LEMMA ChosenIn == ASSUME NEW s, s # {} PROVE Chosen(s) \in s
BY DEF Chosen

\* What SumFunctionOnSet is computed with, on the subsets of S.
Summing(h, f, S) ==
    h = [s \in SUBSET S |-> IF s = {} THEN 0 ELSE f[Chosen(s)] + h[s \ {Chosen(s)}]]

\* A set of n + 1 elements has n without one of them.
LEMMA OneLess ==
    ASSUME NEW s, IsFiniteSet(s), NEW x \in s
    PROVE  IsFiniteSet(s \ {x}) /\ Cardinality(s \ {x}) = Cardinality(s) - 1 /\ Cardinality(s) \in Nat \ {0}
BY FS_RemoveElement, FS_CardinalityType, FS_EmptySet

\* Such a function exists for every finite set.
LEMMA SummingExists ==
    ASSUME NEW f, NEW S, IsFiniteSet(S)
    PROVE  \E h : Summing(h, f, S)
<1> DEFINE Upto(n) == {s \in SUBSET S : Cardinality(s) <= n}
           At(h, s) == IF s = {} THEN 0 ELSE f[Chosen(s)] + h[s \ {Chosen(s)}]
           T == {n \in Nat : \E h : h = [s \in Upto(n) |-> At(h, s)]}
<1>0. \A s \in SUBSET S : IsFiniteSet(s) /\ Cardinality(s) \in Nat /\ (s # {} => Chosen(s) \in s)
  BY FS_Subset, FS_CardinalityType, ChosenIn
<1>1. 0 \in T
  <2> DEFINE h == [s \in Upto(0) |-> 0]
  <2>1. \A s \in Upto(0) : s = {}
    BY <1>0, FS_EmptySet
  <2>2. h = [s \in Upto(0) |-> At(h, s)]
    BY <2>1
  <2> HIDE DEF h, At, Upto
  <2> QED BY <2>2
<1>2. ASSUME NEW n \in T PROVE n + 1 \in T
  <2>0. n \in Nat
    OBVIOUS
  <2>1. PICK h : h = [s \in Upto(n) |-> At(h, s)]
    OBVIOUS
  <2> DEFINE g == [s \in Upto(n + 1) |-> At(h, s)]
  <2>2. ASSUME NEW s \in Upto(n + 1) PROVE At(h, s) = At(g, s)
    <3>1. CASE s = {}
      BY <3>1
    <3>2. CASE s # {}
      <4> DEFINE t == s \ {Chosen(s)}
      <4>1. t \in Upto(n) /\ t \in Upto(n + 1)
        <5>1. Cardinality(t) = Cardinality(s) - 1 /\ Cardinality(s) \in Nat
          BY <1>0, <3>2, OneLess
        <5> QED BY <2>0, <5>1
      <4>2. h[t] = At(h, t) /\ g[t] = At(h, t)
        <5> HIDE DEF At, Upto, t
        <5>1. h[t] = [r \in Upto(n) |-> At(h, r)][t]
          BY <2>1
        <5> QED BY <4>1, <5>1
      <4> HIDE DEF g
      <4> QED BY <3>2, <4>2
    <3> QED BY <3>1, <3>2
  <2>3. g = [s \in Upto(n + 1) |-> At(g, s)]
    <3> DEFINE a == [s \in Upto(n + 1) |-> At(g, s)]
    <3>1. g = [s \in Upto(n + 1) |-> At(h, s)]
      OBVIOUS
    <3> HIDE DEF g, At, Upto
    <3> QED BY <2>2, <3>1
  <2> HIDE DEF g, At, Upto
  <2> QED BY <2>0, <2>3
<1>3. T = Nat
  <2> HIDE DEF T
  <2>1. T \subseteq Nat
    BY DEF T
  <2> QED BY <1>1, <1>2, <2>1, Induct
<1>4. Cardinality(S) \in T
  <2> HIDE DEF T
  <2> QED BY <1>0, <1>3
<1>5. Upto(Cardinality(S)) = SUBSET S
  BY FS_Subset
<1>6. PICK h : h = [s \in SUBSET S |-> At(h, s)]
  <2>1. PICK h : h = [s \in Upto(Cardinality(S)) |-> At(h, s)]
    BY <1>4
  <2> HIDE DEF Upto, At
  <2> QED BY <1>5, <2>1
<1> QED BY <1>6 DEF Summing

LEMMA SummingIs ==
    ASSUME NEW f, NEW S, NEW h, Summing(h, f, S), NEW s \in SUBSET S
    PROVE  h[s] = IF s = {} THEN 0 ELSE f[Chosen(s)] + h[s \ {Chosen(s)}]
<1>1. h[s] = [t \in SUBSET S |->
          IF t = {} THEN 0 ELSE f[Chosen(t)] + h[t \ {Chosen(t)}]][s]
  BY DEF Summing
<1> QED BY <1>1

\* The sum over S is what such a function says of S.
LEMMA SumComputed ==
    ASSUME NEW f, NEW S, IsFiniteSet(S)
    PROVE  \E h : Summing(h, f, S) /\ SumFunctionOnSet(f, S) = h[S]
<1> DEFINE h == CHOOSE h : Summing(h, f, S)
<1>1. Summing(h, f, S)
  <2> HIDE DEF h
  <2>1. \E g : Summing(g, f, S)
    BY SummingExists
  <2> QED BY <2>1 DEF h
<1>2. SumFunctionOnSet(f, S) = h[S]
  BY DEF SumFunctionOnSet, FoldFunctionOnSet, MapThenFoldSet, Summing, Chosen
<1> HIDE DEF h
<1> QED BY <1>1, <1>2

\* Two of them agree where both are defined.
LEMMA SummingUnique ==
    ASSUME NEW f, NEW S, IsFiniteSet(S), NEW S2 \in SUBSET S, NEW h, NEW g,
           Summing(h, f, S), Summing(g, f, S2)
    PROVE  h[S2] = g[S2]
<1> DEFINE T == {n \in Nat : \A s \in SUBSET S2 : Cardinality(s) = n => h[s] = g[s]}
<1>0. \A s \in SUBSET S2 : IsFiniteSet(s) /\ Cardinality(s) \in Nat /\ s \in SUBSET S
  BY FS_Subset, FS_CardinalityType
<1>1. 0 \in T
  <2>1. ASSUME NEW s \in SUBSET S2, Cardinality(s) = 0 PROVE h[s] = g[s]
    <3>1. s = {}
      BY <1>0, <2>1, FS_EmptySet
    <3>2. h[{}] = 0 /\ g[{}] = 0
      <4>1. IsFiniteSet(S2) /\ {} \in SUBSET S /\ {} \in SUBSET S2
        BY <1>0
      <4> QED BY <4>1, SummingIs
    <3> QED BY <3>1, <3>2
  <2> QED BY <2>1
<1>2. ASSUME NEW n \in T PROVE n + 1 \in T
  <2>1. ASSUME NEW s \in SUBSET S2, Cardinality(s) = n + 1 PROVE h[s] = g[s]
    <3> DEFINE x == Chosen(s)
    <3>1. s # {}
      BY <2>1, FS_EmptySet
    <3>2. x \in s
      BY <3>1, ChosenIn
    <3> HIDE DEF x
    <3>3. Cardinality(s \ {x}) = n
      BY <1>0, <2>1, <3>2, OneLess
    <3>4. h[s \ {x}] = g[s \ {x}]
      BY <3>3
    <3> HIDE DEF T
    <3>5. h[s] = f[x] + h[s \ {x}]
      <4>1. s \in SUBSET S
        BY <1>0
      <4>2. h[s] = IF s = {} THEN 0 ELSE f[Chosen(s)] + h[s \ {Chosen(s)}]
        BY <4>1, SummingIs
      <4> QED BY <3>1, <4>2 DEF x
    <3>6. g[s] = f[x] + g[s \ {x}]
      <4>1. IsFiniteSet(S2) /\ s \in SUBSET S2
        BY <1>0, <2>1
      <4>2. g[s] = IF s = {} THEN 0 ELSE f[Chosen(s)] + g[s \ {Chosen(s)}]
        BY <4>1, SummingIs
      <4> QED BY <3>1, <4>2 DEF x
    <3> QED BY <3>4, <3>5, <3>6
  <2> QED BY <2>1
<1>3. T = Nat
  <2> HIDE DEF T
  <2>1. T \subseteq Nat
    BY DEF T
  <2> QED BY <1>1, <1>2, <2>1, Induct
<1>4. Cardinality(S2) \in T
  <2> HIDE DEF T
  <2> QED BY <1>0, <1>3
<1> QED BY <1>4

\* The sum over nothing is zero, and otherwise that of one element and the rest.
LEMMA SumUnfolds ==
    ASSUME NEW f, NEW S, IsFiniteSet(S)
    PROVE  SumFunctionOnSet(f, S) =
             IF S = {} THEN 0
             ELSE f[Chosen(S)] + SumFunctionOnSet(f, S \ {Chosen(S)})
<1> DEFINE x == Chosen(S)
<1> HIDE DEF x
<1>0. IsFiniteSet(S \ {x}) /\ S \ {x} \in SUBSET S /\ S \in SUBSET S
  BY FS_Subset
<1>1. PICK h : Summing(h, f, S) /\ SumFunctionOnSet(f, S) = h[S]
  BY SumComputed
<1>2. PICK g : Summing(g, f, S \ {x}) /\ SumFunctionOnSet(f, S \ {x}) = g[S \ {x}]
  BY <1>0, SumComputed
<1>3. h[S \ {x}] = g[S \ {x}]
  BY <1>0, <1>1, <1>2, SummingUnique
<1>4. h[S] = IF S = {} THEN 0 ELSE f[x] + h[S \ {x}]
  BY <1>0, <1>1, SummingIs DEF x
<1>5. SumFunctionOnSet(f, S) = IF S = {} THEN 0 ELSE f[x] + SumFunctionOnSet(f, S \ {x})
  BY <1>1, <1>2, <1>3, <1>4
<1> QED BY <1>5 DEF x

LEMMA SumEmpty == ASSUME NEW f PROVE SumFunctionOnSet(f, {}) = 0
BY SumUnfolds, FS_EmptySet

\* A property of finite sets that the empty set has, and a set with an element more
\* than a set that has it.
LEMMA FiniteInduct ==
    ASSUME NEW S, IsFiniteSet(S), NEW P \in SUBSET (SUBSET S), {} \in P,
           \A s \in SUBSET S : s # {} /\ (\A t \in SUBSET s : t # s => t \in P) => s \in P
    PROVE  S \in P
<1> DEFINE T == {n \in Nat : \A s \in SUBSET S : Cardinality(s) <= n => s \in P}
<1>0. \A s \in SUBSET S : IsFiniteSet(s) /\ Cardinality(s) \in Nat
  BY FS_Subset, FS_CardinalityType
<1>1. 0 \in T
  BY <1>0, FS_EmptySet
<1>2. ASSUME NEW n \in T PROVE n + 1 \in T
  <2>1. ASSUME NEW s \in SUBSET S, Cardinality(s) <= n + 1 PROVE s \in P
    <3>1. ASSUME NEW t \in SUBSET s, t # s PROVE t \in P
      <4>1. Cardinality(t) < Cardinality(s)
        BY <1>0, <3>1, FS_Subset
      <4>2. Cardinality(t) <= n /\ t \in SUBSET S
        BY <1>0, <2>1, <4>1
      <4> QED BY <4>2
    <3> QED BY <3>1
  <2> QED BY <2>1
<1>3. T = Nat
  <2> HIDE DEF T
  <2>1. T \subseteq Nat
    BY DEF T
  <2> QED BY <1>1, <1>2, <2>1, Induct
<1>4. Cardinality(S) \in T
  <2> HIDE DEF T
  <2> QED BY <1>0, <1>3
<1> QED BY <1>4

\* A sum of numbers is one.
LEMMA SumType ==
    ASSUME NEW f, NEW S, IsFiniteSet(S), \A x \in S : f[x] \in Nat
    PROVE  SumFunctionOnSet(f, S) \in Nat
<1> DEFINE P == {s \in SUBSET S : SumFunctionOnSet(f, s) \in Nat}
<1>1. {} \in P
  BY SumEmpty
<1>2. ASSUME NEW s \in SUBSET S, s # {}, \A t \in SUBSET s : t # s => t \in P
      PROVE  s \in P
  <2> DEFINE x == Chosen(s)
  <2>1. x \in s
    BY <1>2, ChosenIn
  <2>2. SumFunctionOnSet(f, s) = f[x] + SumFunctionOnSet(f, s \ {x})
    <3>1. IsFiniteSet(s)
      BY FS_Subset
    <3> QED BY <1>2, <3>1, SumUnfolds
  <2> HIDE DEF x
  <2>3. SumFunctionOnSet(f, s \ {x}) \in Nat
    BY <1>2, <2>1
  <2> QED BY <2>1, <2>2, <2>3
<1>3. S \in P
  <2> HIDE DEF P
  <2>1. P \subseteq SUBSET S
    BY DEF P
  <2> QED BY <1>1, <1>2, <2>1, FiniteInduct
<1> QED BY <1>3

\* It is that of any of its elements and the rest.
LEMMA SumTakeOut ==
    ASSUME NEW f, NEW S, IsFiniteSet(S), \A x \in S : f[x] \in Nat, NEW y \in S
    PROVE  SumFunctionOnSet(f, S) = f[y] + SumFunctionOnSet(f, S \ {y})
<1> DEFINE P == {s \in SUBSET S : \A z \in s :
                    SumFunctionOnSet(f, s) = f[z] + SumFunctionOnSet(f, s \ {z})}
<1>1. {} \in P
  OBVIOUS
<1>2. ASSUME NEW s \in SUBSET S, s # {}, \A t \in SUBSET s : t # s => t \in P
      PROVE  s \in P
  <2> SUFFICES ASSUME NEW z \in s
               PROVE SumFunctionOnSet(f, s) = f[z] + SumFunctionOnSet(f, s \ {z})
    OBVIOUS
  <2> DEFINE x == Chosen(s)
  <2>1. x \in s
    BY <1>2, ChosenIn
  <2>2. SumFunctionOnSet(f, s) = f[x] + SumFunctionOnSet(f, s \ {x})
    <3>1. IsFiniteSet(s)
      BY FS_Subset
    <3> QED BY <1>2, <3>1, SumUnfolds
  <2> HIDE DEF x
  <2>3. CASE z = x
    BY <2>2, <2>3
  <2>4. CASE z # x
    <3>1. s \ {x} \in P /\ s \ {z} \in P
      <4> HIDE DEF P
      <4> QED BY <1>2, <2>1
    <3>2. SumFunctionOnSet(f, s \ {x}) = f[z] + SumFunctionOnSet(f, (s \ {x}) \ {z})
      BY <2>4, <3>1
    <3>3. SumFunctionOnSet(f, s \ {z}) = f[x] + SumFunctionOnSet(f, (s \ {z}) \ {x})
      BY <2>1, <2>4, <3>1
    <3>4. (s \ {z}) \ {x} = (s \ {x}) \ {z}
      OBVIOUS
    <3>5. SumFunctionOnSet(f, (s \ {x}) \ {z}) \in Nat
      BY FS_Subset, SumType
    <3>6. f[x] \in Nat /\ f[z] \in Nat
      BY <2>1
    <3> DEFINE a == SumFunctionOnSet(f, s)
               b == SumFunctionOnSet(f, s \ {x})
               c == SumFunctionOnSet(f, s \ {z})
               d == SumFunctionOnSet(f, (s \ {x}) \ {z})
               u == f[x]
               v == f[z]
    <3>7. c = u + d
      BY <3>3, <3>4
    <3>8. a = u + b /\ b = v + d /\ d \in Nat /\ u \in Nat /\ v \in Nat
      BY <2>2, <3>2, <3>5, <3>6
    <3>9. a = v + c
      <4> HIDE DEF a, b, c, d, u, v, P
      <4> QED BY <3>7, <3>8
    <3> QED BY <3>9
  <2> QED BY <2>3, <2>4
<1>3. S \in P
  <2> HIDE DEF P
  <2>1. P \subseteq SUBSET S
    BY DEF P
  <2> QED BY <1>1, <1>2, <2>1, FiniteInduct
<1> QED BY <1>3

\* It depends on what is summed only.
LEMMA SumSame ==
    ASSUME NEW f, NEW g, NEW S, IsFiniteSet(S), \A x \in S : f[x] = g[x]
    PROVE  SumFunctionOnSet(f, S) = SumFunctionOnSet(g, S)
<1> DEFINE P == {s \in SUBSET S : SumFunctionOnSet(f, s) = SumFunctionOnSet(g, s)}
<1>1. {} \in P
  BY SumEmpty
<1>2. ASSUME NEW s \in SUBSET S, s # {}, \A t \in SUBSET s : t # s => t \in P
      PROVE  s \in P
  <2> DEFINE x == Chosen(s)
  <2>1. x \in s /\ IsFiniteSet(s)
    BY <1>2, ChosenIn, FS_Subset
  <2>2. /\ SumFunctionOnSet(f, s) = f[x] + SumFunctionOnSet(f, s \ {x})
        /\ SumFunctionOnSet(g, s) = g[x] + SumFunctionOnSet(g, s \ {x})
    BY <1>2, <2>1, SumUnfolds
  <2> HIDE DEF x
  <2>3. SumFunctionOnSet(f, s \ {x}) = SumFunctionOnSet(g, s \ {x})
    BY <1>2, <2>1
  <2> QED BY <2>1, <2>2, <2>3
<1>3. S \in P
  <2> HIDE DEF P
  <2>1. P \subseteq SUBSET S
    BY DEF P
  <2> QED BY <1>1, <1>2, <2>1, FiniteInduct
<1> QED BY <1>3

\* The sum over two sets that have nothing in common.
LEMMA SumUnion ==
    ASSUME NEW f, NEW S, NEW U, IsFiniteSet(S), IsFiniteSet(U), S \intersect U = {},
           \A x \in S \union U : f[x] \in Nat
    PROVE  SumFunctionOnSet(f, S \union U) = SumFunctionOnSet(f, S) + SumFunctionOnSet(f, U)
<1> DEFINE P == {s \in SUBSET S :
                    SumFunctionOnSet(f, s \union U) = SumFunctionOnSet(f, s) + SumFunctionOnSet(f, U)}
<1>1. {} \in P
  <2>1. SumFunctionOnSet(f, U) \in Nat
    BY SumType
  <2> QED BY <2>1, SumEmpty
<1>2. ASSUME NEW s \in SUBSET S, s # {}, \A t \in SUBSET s : t # s => t \in P
      PROVE  s \in P
  <2>1. PICK x \in s : TRUE
    BY <1>2
  <2>2. IsFiniteSet(s) /\ IsFiniteSet(s \union U) /\ IsFiniteSet(s \ {x})
    BY FS_Subset, FS_Union
  <2>3. SumFunctionOnSet(f, s) = f[x] + SumFunctionOnSet(f, s \ {x})
    BY <2>1, <2>2, SumTakeOut
  <2>4. SumFunctionOnSet(f, s \union U) = f[x] + SumFunctionOnSet(f, (s \ {x}) \union U)
    <3>1. (s \union U) \ {x} = (s \ {x}) \union U /\ x \in s \union U
      OBVIOUS
    <3>2. \A y \in s \union U : f[y] \in Nat
      OBVIOUS
    <3> QED BY <2>2, <3>1, <3>2, SumTakeOut
  <2>5. s \ {x} \in P
    BY <1>2, <2>1
  <2>6. /\ SumFunctionOnSet(f, s \ {x}) \in Nat /\ SumFunctionOnSet(f, U) \in Nat
        /\ f[x] \in Nat
    BY <2>1, <2>2, SumType
  <2> QED BY <2>3, <2>4, <2>5, <2>6
<1>3. S \in P
  <2> HIDE DEF P
  <2>1. P \subseteq SUBSET S
    BY DEF P
  <2> QED BY <1>1, <1>2, <2>1, FiniteInduct
<1> QED BY <1>3

\* What is part of a sum is not more than it.
LEMMA SumPart ==
    ASSUME NEW f, NEW S, IsFiniteSet(S), \A x \in S : f[x] \in Nat, NEW y \in S
    PROVE  f[y] \in Nat /\ f[y] <= SumFunctionOnSet(f, S)
<1>1. SumFunctionOnSet(f, S) = f[y] + SumFunctionOnSet(f, S \ {y})
  BY SumTakeOut
<1>2. SumFunctionOnSet(f, S \ {y}) \in Nat
  BY FS_Subset, SumType
<1>3. f[y] \in Nat
  OBVIOUS
<1> QED BY <1>1, <1>2, <1>3

\* Zeros sum up to zero.
LEMMA SumZero ==
    ASSUME NEW f, NEW S, IsFiniteSet(S), \A x \in S : f[x] = 0
    PROVE  SumFunctionOnSet(f, S) = 0
<1> DEFINE P == {s \in SUBSET S : SumFunctionOnSet(f, s) = 0}
<1>1. {} \in P
  BY SumEmpty
<1>2. ASSUME NEW s \in SUBSET S, s # {}, \A t \in SUBSET s : t # s => t \in P
      PROVE  s \in P
  <2> DEFINE x == Chosen(s)
  <2>1. x \in s /\ IsFiniteSet(s)
    BY <1>2, ChosenIn, FS_Subset
  <2>2. SumFunctionOnSet(f, s) = f[x] + SumFunctionOnSet(f, s \ {x})
    BY <1>2, <2>1, SumUnfolds
  <2> HIDE DEF x
  <2>3. SumFunctionOnSet(f, s \ {x}) = 0
    BY <1>2, <2>1
  <2> QED BY <2>1, <2>2, <2>3
<1>3. S \in P
  <2> HIDE DEF P
  <2>1. P \subseteq SUBSET S
    BY DEF P
  <2> QED BY <1>1, <1>2, <2>1, FiniteInduct
<1> QED BY <1>3

\* Another value at one place.
LEMMA SumChanged ==
    ASSUME NEW f, NEW g, NEW S, IsFiniteSet(S), NEW y \in S,
           \A x \in S : f[x] \in Nat /\ g[x] \in Nat,
           \A x \in S : x # y => f[x] = g[x]
    PROVE  SumFunctionOnSet(g, S) + f[y] = SumFunctionOnSet(f, S) + g[y]
<1>1. /\ SumFunctionOnSet(f, S) = f[y] + SumFunctionOnSet(f, S \ {y})
      /\ SumFunctionOnSet(g, S) = g[y] + SumFunctionOnSet(g, S \ {y})
  BY SumTakeOut
<1>2. IsFiniteSet(S \ {y})
  BY FS_Subset
<1>3. SumFunctionOnSet(f, S \ {y}) = SumFunctionOnSet(g, S \ {y})
  BY <1>2, SumSame
<1>4. SumFunctionOnSet(f, S \ {y}) \in Nat
  BY <1>2, SumType
<1>5. f[y] \in Nat /\ g[y] \in Nat
  OBVIOUS
<1> QED BY <1>1, <1>3, <1>4, <1>5

\* One element more.
LEMMA SumAdd ==
    ASSUME NEW f, NEW S, IsFiniteSet(S), NEW y, y \notin S, \A x \in S \union {y} : f[x] \in Nat
    PROVE  SumFunctionOnSet(f, S \union {y}) = SumFunctionOnSet(f, S) + f[y]
<1>1. SumFunctionOnSet(f, S \union {y}) = f[y] + SumFunctionOnSet(f, (S \union {y}) \ {y})
  <2>1. IsFiniteSet(S \union {y}) /\ y \in S \union {y}
    BY FS_AddElement
  <2> QED BY <2>1, SumTakeOut
<1>2. (S \union {y}) \ {y} = S
  OBVIOUS
<1>3. SumFunctionOnSet(f, S) \in Nat /\ f[y] \in Nat
  BY SumType
<1> QED BY <1>1, <1>2, <1>3
=============================================================================
