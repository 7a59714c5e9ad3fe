----------------------------- MODULE IndexNames -----------------------------
(***************************************************************************)
(* The order in which _merge_no_wait (streaming/writer.py) reads the index *)
(* files of the writers: that of their names, <writer>.index.json.          *)
(***************************************************************************)
EXTENDS Integers, FiniteSets, FiniteSetsExt

\* In it 10 comes before 2.  For fewer than a thousand writers.
Padded(w) == w * Max({p \in {1, 10, 100} : w * p < 1000})
NameBefore(v, w) == Padded(v) < Padded(w) \/ (Padded(v) = Padded(w) /\ v < w)

\* The writer whose file is the i-th of those of the writers W.
ByName(W, i) == CHOOSE w \in W : Cardinality({v \in W : NameBefore(v, w)}) = i - 1
=============================================================================
