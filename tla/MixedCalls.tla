---------------------------- MODULE MixedCalls ----------------------------
(***************************************************************************)
(* From the arguments of CombinedStreamingDataset, ParallelStreamingDataset *)
(* and StreamingDataLoader to what MixedLoader starts with: the calls that  *)
(* are refused, and the jobs of the others.                                 *)
(*                                                                         *)
(* A call has the fields of a job that it does not compute, and             *)
(*   plain       a wrapped dataset is not a StreamingDataset                *)
(*   shares      the weights, << >> if they are not given                   *)
(*   sizes       the batch sizes set on the wrapper once the loader is      *)
(*               made, << >> if there are none                              *)
(*   arguments   how many arguments transform takes, 0 if it is not given   *)
(*   wrapped     whether what the loader gets is a wrapper                  *)
(*   profile     profile_batches                                            *)
(* length may be Fractional.  workers may be 0: the process itself iterates  *)
(* then, over the one copy of the wrapper, which MixedLoader does not model. *)
(***************************************************************************)
EXTENDS MixedLoader

Fractional == -2

\* _check_datasets
PlainRefused(c) == c.plain

\* Without weights, the datasets are weighed by the lengths they have for one worker.
WeightsOf(c) ==
    IF c.shares # << >> THEN c.shares ELSE [d \in DOMAIN c.items |-> c.items[d] \div c.ranks]

CombinedRefused(c) == (c.all /\ c.shares # << >>) \/ SumFunction(WeightsOf(c)) = 0

ParallelRefused(c) == c.length = Fractional \/ c.arguments \notin 0 .. 2

\* StreamingDataLoader.__init__
LoaderRefused(c) == ~c.wrapped \/ (c.profile /\ c.workers = 0)

\* set_batch_size
SizesRefused(c) == c.sizes # << >> /\ Len(c.sizes) # Len(c.items)

Refused(c) ==
    \/ PlainRefused(c) \/ LoaderRefused(c) \/ SizesRefused(c)
    \/ IF c.kind = "combined" THEN CombinedRefused(c) ELSE ParallelRefused(c)

\* set_batch_size, as the loader and then the caller call it.
LimitsOf(c) == IF c.sizes # << >> THEN c.sizes ELSE [d \in DOMAIN c.items |-> c.batch]

Job(c) == [kind |-> c.kind, items |-> c.items, known |-> c.known, override |-> c.override,
           ranks |-> c.ranks, workers |-> c.workers, batch |-> c.batch, limits |-> LimitsOf(c)]

CombinedJob(c) ==
    Job(c) @@ [all |-> c.all, stratified |-> c.stratified, weights |-> WeightsOf(c),
               draws |-> c.draws, length |-> None, resume |-> FALSE]

ParallelJob(c) ==
    Job(c) @@ [all |-> FALSE, stratified |-> TRUE, weights |-> c.items, draws |-> << 0 >>,
               length |-> c.length, resume |-> c.resume]

JobsOf(calls) ==
    LET of(k) == {c \in calls : c.kind = k /\ c.workers > 0 /\ ~Refused(c)}
    IN  {CombinedJob(c) : c \in of("combined")} \union {ParallelJob(c) : c \in of("parallel")}
=============================================================================
