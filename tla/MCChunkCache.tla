---------------------------- MODULE MCChunkCache ----------------------------
(* Instances of ChunkCache for TLC. *)
EXTENDS ChunkCache

CONSTANTS w1, w2, c1, c2, c3, c4, c5, c6

\* One worker alone with its dataset.
OnePlan3 == [w \in {w1} |-> <<c1, c2, c3>>]
OnePlan6 == [w \in {w1} |-> <<c1, c2, c3, c4, c5, c6>>]

\* Two workers that share no chunk, as when the chunks divide evenly.
DisjointPlans == [w \in {w1, w2} |-> IF w = w1 THEN <<c1, c2, c3>> ELSE <<c4, c5, c6>>]

\* Two workers whose intervals meet in the middle of a chunk, the last of the
\* one and the first of the other.
SharedPlans == [w \in {w1, w2} |-> IF w = w1 THEN <<c1, c2>> ELSE <<c2, c3>>]

ColdCache == {{}}
ColdOrWarm == {{}, {c2}}

\* The glob of chunk-0-1 matches the locks of chunk-0-1, chunk-0-10, chunk-0-11 ...
PrefixPattern == [c \in Chunks |-> IF c = c1 THEN Chunks ELSE {c}]
=============================================================================
