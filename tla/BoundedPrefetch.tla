--------------------------- MODULE BoundedPrefetch ---------------------------
(***************************************************************************)
(* What prefetching promises a worker that has its chunks to itself: a     *)
(* bounded buffer.  Chunks are fetched in plan order, at most Capacity of  *)
(* them ahead of what is consumed, and only a fetched chunk is consumed.   *)
(* ChunkCache implements it when downloads are prompt.                     *)
(***************************************************************************)
EXTENDS Naturals

CONSTANTS
    Users,      \* the workers
    Supply,     \* Supply[u]: how many chunks u reads
    Capacity    \* how many chunks may be fetched and not consumed

VARIABLES
    fetched,    \* how many chunks of u were fetched
    consumed    \* how many of them u has consumed

Fetch(u) ==
    /\ fetched[u] < Supply[u]
    /\ fetched[u] < consumed[u] + Capacity
    /\ fetched' = [fetched EXCEPT ![u] = @ + 1]
    /\ UNCHANGED consumed

Consume(u) ==
    /\ consumed[u] < fetched[u]
    /\ consumed' = [consumed EXCEPT ![u] = @ + 1]
    /\ UNCHANGED fetched

Init ==
    /\ fetched = [u \in Users |-> 0]
    /\ consumed = [u \in Users |-> 0]

Next == \E u \in Users : Fetch(u) \/ Consume(u)

Spec == Init /\ [][Next]_<<fetched, consumed>>
=============================================================================
