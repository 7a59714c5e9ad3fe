---------------------------- MODULE MixedLoader ----------------------------
(***************************************************************************)
(* A StreamingDataLoader over a CombinedStreamingDataset or a               *)
(* ParallelStreamingDataset (streaming/combined.py, parallel.py and         *)
(* dataloader.py with utilities/base.py), saving its state, dying and       *)
(* resuming.                                                               *)
(*                                                                         *)
(* Each worker process has a copy of the wrapper.  A combined dataset draws *)
(* the wrapped dataset of the next sample at random; a parallel one takes a *)
(* sample of every wrapped dataset and may cycle through the short ones.    *)
(* With every batch a worker sends how many samples of each wrapped dataset *)
(* it has yielded; the loader keeps the latest of these counts, under the   *)
(* number of the worker it believes the batch is from.  Resuming restores   *)
(* the wrapped datasets from the totals and the workers from their counts.  *)
(*                                                                         *)
(* A job is a wrapper with a loader:                                        *)
(*   kind        "combined" or "parallel"                                   *)
(*   items       the samples of each dataset                                *)
(*   known       how many of them the process that saves the states wraps   *)
(*   override    force_override_state_dict                                  *)
(*   ranks       the ranks that share the samples; this is the first        *)
(*   workers, batch   num_workers and batch_size of the loader              *)
(*   limits      the batch size of each dataset (set_batch_size)            *)
(*   all         iterate_over_all (combined)                                *)
(*   stratified  batching_method is stratified, not per_stream (combined)   *)
(*   weights     the weights of the datasets (combined)                     *)
(*   draws       the numbers of the seeded generator, as parts of Grain     *)
(*   length      length (parallel); None, a number or Infinite              *)
(*   resume      resume (parallel)                                          *)
(***************************************************************************)
EXTENDS Integers, Sequences, FiniteSets, FiniteSetsExt, SequencesExt, Functions, Budgets

CONSTANTS
    Jobs,          \* the jobs to look at
    Grain,         \* how fine the random numbers are
    MaxEpochs,     \* bound: the epochs a behaviour has
    MaxBatches,    \* bound: the batches of an epoch, for infinite lengths
    MaxRestarts,   \* bound: the restarts within one epoch
    NoState        \* no state dictionary

None == 0
Infinite == -1

ASSUME JobAssumption ==
    \A j \in Jobs :
        /\ {j.batch, j.workers, j.ranks} \subseteq Nat \ {0}
        /\ j.items \in Seq(Nat) /\ j.known \in 1 .. Len(j.items)
        /\ j.length \in Nat \union {Infinite}
        /\ j.limits \in [DOMAIN j.items -> Nat \ {0}]
        \* per_stream looks for another dataset until one is drawn
        /\ ~j.stratified => \A d \in DOMAIN j.weights : j.weights[d] > 0
        /\ \A k \in DOMAIN j.draws : j.draws[k] \in 0 .. Grain - 1

VARIABLES
    job,       \* the job
    phase,     \* "idle", "looping" or "failed"
    epoch,     \* current_epoch of the loader
    tally,     \* _num_samples_yielded_wrapper and _num_cycles: counts by worker
    latest,    \* _latest_worker_idx
    ticker,    \* the next value of _worker_idx_iter
    restore,   \* the loader is resuming
    held,      \* _num_samples_yielded and _num_cycles of the wrapper
    aliased,   \* whether held and tally are the same objects
    dsEpoch,   \* current_epoch of each wrapped dataset in the main process
    dsState,   \* _state_dict of each
    size,      \* batch_size of each
    worker,    \* the iterators in the worker processes
    turn,      \* the worker that makes the next batch
    batch,     \* what it has collected for it
    got,       \* the batches the training loop was given in this epoch, in order
    before,    \* how many samples it was given in the epochs a cycling dataset goes on from
    stale,     \* this epoch began with counts or epochs of another one in the wrapper
    restarts,  \* the restarts in this epoch
    saved      \* the last state saved, with what had been given by then

loader == <<phase, epoch, tally, latest, ticker, restore>>
wrapper == <<held, aliased, dsEpoch, dsState, size>>
ghosts == <<before, stale, restarts>>
vars == <<job, loader, wrapper, worker, turn, batch, got, ghosts, saved>>

Datasets == DOMAIN dsState
Workers == 0 .. job.workers - 1
NumWorkers == job.workers

Combined == job.kind = "combined"
Cycling == job.kind = "parallel" /\ job.length # None     \* is_cycling
GoesOn == Cycling /\ job.resume

\* What worker w has of dataset d if that is dealt out in batches of b.  drop_last is
\* on where there is more than one rank.
Part(d, w, b) ==
    Share([nodes |-> 1, ranksPerNode |-> job.ranks, workers |-> NumWorkers, batch |-> b,
           dropLast |-> job.ranks > 1], job.items[d], w)

\* The batch size of a dataset when its iteration starts: a parallel dataset asks all
\* of them for their lengths then, with the first batch size.
SizeOf(d) == IF Combined THEN size[d] ELSE size[1]

\* The length of dataset d when it is dealt out in batches of b.
LengthOf(d, b) == SumFunction([w \in Workers |-> Part(d, w, b)])

\* len(dataset).  A combined dataset is asked as if it were dealt out one by one.
CombinedLength(all) == SumFunction([d \in all |-> LengthOf(d, 1)])
ParallelLength(all) ==
    IF Cycling THEN job.length ELSE Min({LengthOf(d, job.limits[1]) : d \in all})

\* What worker w has of n samples if they are dealt out evenly.
EvenPart(n, w) == (n \div NumWorkers) + (IF w < n % NumWorkers THEN 1 ELSE 0)

NoTally == [samples |-> << >>, cycles |-> << >>]

-----------------------------------------------------------------------------
(* The states of the wrapped datasets. *)

\* get_num_samples_yielded: the samples of dataset d in the latest cycle any worker
\* is in, and how many cycles are behind it.
CountOf(f, w, d) == IF d \in DOMAIN f[w] THEN f[w][d] ELSE 0
CyclesOf(t, d) == Max({0} \union {CountOf(t.cycles, w, d) : w \in DOMAIN t.cycles})
YieldedOf(t, d) ==
    LET ahead == {w \in DOMAIN t.samples : Combined \/ CountOf(t.cycles, w, d) = CyclesOf(t, d)}
    IN  SumFunctionOnSet([w \in DOMAIN t.samples |-> CountOf(t.samples, w, d)], ahead)

\* A parallel dataset asked about no counts at all answers with those it holds.
Known == IF ~Combined /\ DOMAIN tally.samples = {} THEN held ELSE tally

\* state_dict of the wrapper.
StateOf(d) == [yielded |-> YieldedOf(Known, d), epoch |-> dsEpoch[d]]
States == [d \in Datasets |-> StateOf(d)]

\* set_epoch: a dataset that was resumed keeps its epoch, and so does one that cycles.
EpochsSet(states, e) ==
    IF GoesOn THEN dsEpoch
    ELSE [d \in DOMAIN states |-> IF states[d] = NoState THEN e ELSE dsEpoch[d]]

\* update_epoch_counters
EpochsCounted(cycles) ==
    IF Cycling THEN [d \in Datasets |-> cycles[d] + 1] ELSE dsEpoch

\* _replay_sampling: the samples of worker w among n, if the loader took full
\* batches of this dataset from all workers in turn.
Replay(n, w) ==
    LET perRound == NumWorkers * job.batch
        rest == n % perRound
        full == rest \div job.batch
    IN  (n \div perRound) * job.batch
        + (IF w < full THEN job.batch ELSE IF w = full THEN rest % job.batch ELSE 0)

-----------------------------------------------------------------------------
(* A worker: __iter__ of the wrapper and the __init__ of its iterator. *)

\* Wrong: the numbers that were drawn before are drawn again.
DrawnNothing(n) == 0

\* The numbers a resumed combined dataset draws in advance: one for each sample.
Drawn(n) == IF Combined THEN SumFunction(n) ELSE 0

\* The counts of worker w that the wrapper holds.
OwnCounts(f, w) == IF w \in DOMAIN f THEN f[w] ELSE [d \in Datasets |-> 0]

\* Where the count of a length starts, by what dataset d has yielded.
CountBy(n, c, w, d) ==
    IF job.length > 0 /\ EvenPart(job.length, w) > 0
    THEN (EvenPart(LengthOf(d, size[1]), w) * c[d] + n[d]) % EvenPart(job.length, w) ELSE 0

\* A worker that starts with the wrapper as the main process has it.
Started(w, states, epochs, counts) ==
    LET n == OwnCounts(counts.samples, w)
        c == OwnCounts(counts.cycles, w)
        share == [d \in Datasets |-> Part(d, w, SizeOf(d))]
        \* counts from before a dataset was added
        short == DOMAIN n # Datasets
    IN  [share |-> share, size |-> size,
         at |-> [d \in Datasets |-> IF states[d] = NoState THEN 0
                                    ELSE Min({Replay(states[d].yielded, w), share[d]})],
         epoch |-> [d \in Datasets |-> CASE states[d] # NoState -> states[d].epoch
                                         [] Cycling /\ ~job.resume -> 1
                                         [] OTHER -> epochs[d]],
         samples |-> n, cycles |-> c,
         left |-> Datasets, drawn |-> Drawn(n), current |-> None, inBatch |-> 0,
         count |-> CountBy(n, c, w, 1),
         \* the assertion that all datasets are as far
         broken |-> /\ ~Combined
                    /\ IF short THEN EvenPart(job.length, w) > 0
                       ELSE \E d \in Datasets : CountBy(n, c, w, d) # CountBy(n, c, w, 1),
         over |-> FALSE]

\* The sample a worker takes next of dataset d.
SampleAt(k, d) == [dataset |-> d, epoch |-> k.epoch[d], worker |-> turn, index |-> k.at[d] + 1]

Collecting == phase = "looping" /\ ~worker[turn].broken /\ ~worker[turn].over
              /\ Len(batch) < job.batch /\ Len(got) < MaxBatches

-----------------------------------------------------------------------------
(* The next sample of a combined dataset. *)

\* rng.choices: the dataset in whose part of the weights the n-th number falls.
Pick(left, n) ==
    LET r == job.draws[((n - 1) % Len(job.draws)) + 1]
        upTo(d) == SumFunctionOnSet(job.weights, {e \in left : e <= d})
    IN  Min({d \in left : upTo(d) * Grain > r * upTo(Max(left))})

\* Wrong: per_stream does not look for another dataset than the current one.
ChoiceAny(k) ==
    IF job.all /\ Cardinality(k.left) = 1
    THEN [k EXCEPT !.current = Max(k.left)]
    ELSE [k EXCEPT !.current = Pick(k.left, k.drawn + 1), !.drawn = @ + 1]

\* _get_dataset_index, and what __next__ does when one dataset is left.  per_stream
\* keeps to a dataset until it has been asked for a whole batch, then draws until
\* another one comes.
Choice(k) ==
    IF job.all /\ Cardinality(k.left) = 1 THEN [k EXCEPT !.current = Max(k.left)]
    ELSE IF job.stratified \/ k.current = None
    THEN [k EXCEPT !.current = Pick(k.left, k.drawn + 1), !.drawn = @ + 1, !.inBatch = 1]
    ELSE IF k.inBatch < k.size[k.current] THEN [k EXCEPT !.inBatch = @ + 1]
    ELSE LET other == IF Cardinality(k.left) = 1 THEN k.drawn
                      ELSE Min({n \in k.drawn + 1 .. k.drawn + Len(job.draws) :
                                   Pick(k.left, n) # k.current})
         IN  [k EXCEPT !.current = IF other = k.drawn THEN @ ELSE Pick(k.left, other),
                       !.drawn = other, !.inBatch = 1]

\* The dataset that is chosen has a sample.
TakeOne ==
    /\ Collecting /\ Combined
    /\ LET k == Choice(worker[turn])
           d == k.current
       IN  /\ d \in DOMAIN k.samples
           /\ k.at[d] < worker[turn].share[d]
           /\ batch' = Append(batch, SampleAt(k, d))
           /\ worker' = [worker EXCEPT ![turn] = [k EXCEPT !.at[d] = @ + 1, !.samples[d] = @ + 1]]
    /\ UNCHANGED <<job, loader, wrapper, turn, got, ghosts, saved>>

\* Wrong: the iteration ends with the first dataset that is exhausted.
RunsOutEarly ==
    /\ Collecting /\ Combined
    /\ LET k == Choice(worker[turn]) IN
       /\ k.at[k.current] >= k.share[k.current]
       /\ worker' = [worker EXCEPT ![turn] = [k EXCEPT !.over = TRUE]]
    /\ UNCHANGED <<job, loader, wrapper, turn, batch, got, ghosts, saved>>

\* It is exhausted: it is left out from now on, or the iteration ends.  The weights of
\* those that are left are divided by their sum.
RunsOut ==
    /\ Collecting /\ Combined
    /\ LET k == Choice(worker[turn])
           left == k.left \ {k.current}
       IN  /\ k.at[k.current] >= k.share[k.current]
           /\ worker' = [worker EXCEPT ![turn] =
                            IF ~job.all \/ Cardinality(k.left) = 1 THEN [k EXCEPT !.over = TRUE]
                            ELSE IF SumFunctionOnSet(job.weights, left) = 0
                            THEN [k EXCEPT !.broken = TRUE]
                            ELSE [k EXCEPT !.left = left]]
    /\ UNCHANGED <<job, loader, wrapper, turn, batch, got, ghosts, saved>>

-----------------------------------------------------------------------------
(* The next sample of a parallel dataset. *)

Used(k) == {d \in Datasets : k.at[d] >= worker[turn].share[d]}

\* The length is reached, or a dataset has no sample to give.
AtEnd(k) ==
    \/ job.length > 0 /\ k.count >= EvenPart(job.length, turn)
    \/ IF Cycling THEN \E d \in Datasets : worker[turn].share[d] = 0 ELSE Used(k) # {}

\* Wrong: a dataset that starts over goes on counting.
TakeEachUncounted ==
    /\ Collecting /\ ~Combined
    /\ ~AtEnd(worker[turn]) /\ DOMAIN worker[turn].samples = Datasets
    /\ LET w == worker[turn]
           k == [w EXCEPT !.at = [d \in Datasets |-> IF d \in Used(w) THEN 0 ELSE @[d]],
                          !.epoch = [d \in Datasets |-> IF d \in Used(w) THEN @[d] + 1 ELSE @[d]]]
       IN  /\ batch' = Append(batch, [d \in Datasets |-> SampleAt(k, d)])
           /\ worker' = [worker EXCEPT ![turn] =
                 [k EXCEPT !.at = [d \in Datasets |-> @[d] + 1], !.count = @ + 1,
                           !.samples = [d \in Datasets |-> @[d] + 1],
                           !.cycles = [d \in Datasets |-> IF d \in Used(w) THEN @[d] + 1 ELSE @[d]]]]
    /\ UNCHANGED <<job, loader, wrapper, turn, got, ghosts, saved>>

\* A sample of every dataset; those that are used up start over in their next epoch.
TakeEach ==
    /\ Collecting /\ ~Combined
    /\ ~AtEnd(worker[turn]) /\ DOMAIN worker[turn].samples = Datasets
    /\ LET w == worker[turn]
           again(d, new, old) == IF d \in Used(w) THEN new ELSE old
           k == [w EXCEPT !.at = [d \in Datasets |-> again(d, 0, @[d])],
                          !.epoch = [d \in Datasets |-> again(d, @[d] + 1, @[d])]]
       IN  /\ batch' = Append(batch, [d \in Datasets |-> SampleAt(k, d)])
           /\ worker' = [worker EXCEPT ![turn] =
                 [k EXCEPT !.at = [d \in Datasets |-> @[d] + 1], !.count = @ + 1,
                           !.samples = [d \in Datasets |-> again(d, 1, @[d] + 1)],
                           !.cycles = [d \in Datasets |-> again(d, @[d] + 1, @[d])]]]
    /\ UNCHANGED <<job, loader, wrapper, turn, got, ghosts, saved>>

Stop ==
    /\ Collecting /\ ~Combined
    /\ AtEnd(worker[turn])
    /\ worker' = [worker EXCEPT ![turn].over = TRUE]
    /\ UNCHANGED <<job, loader, wrapper, turn, batch, got, ghosts, saved>>

\* A dataset that was added to the wrapper has a sample, but its worker has no place to
\* count it in: IndexError.
Uncounted ==
    /\ Collecting
    /\ LET k == IF Combined THEN Choice(worker[turn]) ELSE worker[turn]
       IN  /\ IF Combined
              THEN k.current \notin DOMAIN k.samples /\ k.at[k.current] < k.share[k.current]
              ELSE DOMAIN k.samples # Datasets /\ ~AtEnd(k)
           /\ worker' = [worker EXCEPT ![turn].broken = TRUE]
    /\ UNCHANGED <<job, loader, wrapper, turn, batch, got, ghosts, saved>>

\* A worker has failed: the loader raises where its batch is due.
Break ==
    /\ phase = "looping"
    /\ worker[turn].broken
    /\ phase' = "failed"
    /\ batch' = << >>
    /\ UNCHANGED <<job, epoch, tally, latest, ticker, restore, wrapper, worker, turn, got,
                   ghosts, saved>>

-----------------------------------------------------------------------------
(* The loader: StreamingDataLoader.__iter__. *)

NextTurn == turn' = (turn + 1) % NumWorkers

\* A batch reaches the training loop, with the counts of the worker that made it.
Yield ==
    /\ phase = "looping"
    /\ batch # << >>
    /\ Len(batch) = job.batch \/ worker[turn].over
    /\ latest' = ticker
    /\ ticker' = (ticker + 1) % NumWorkers
    /\ LET with(f, new) == [w \in DOMAIN f \union {ticker} |-> IF w = ticker THEN new ELSE f[w]]
       IN  tally' = [samples |-> with(tally.samples, worker[turn].samples),
                     cycles |-> with(tally.cycles, worker[turn].cycles)]
    /\ held' = IF aliased THEN tally' ELSE held
    /\ dsEpoch' = EpochsCounted(worker[turn].cycles)
    /\ got' = Append(got, [worker |-> turn, samples |-> batch, size |-> worker[turn].size])
    /\ batch' = << >>
    /\ NextTurn
    /\ UNCHANGED <<job, phase, epoch, restore, aliased, dsState, size, worker, ghosts,
                   saved>>

\* An exhausted worker is passed over.
Skip ==
    /\ phase = "looping" /\ batch = << >>
    /\ worker[turn].over
    /\ \E w \in Workers : ~worker[w].over
    /\ NextTurn
    /\ UNCHANGED <<job, loader, wrapper, worker, batch, got, ghosts, saved>>

EndEpoch ==
    /\ phase = "looping" /\ batch = << >>
    /\ \A w \in Workers : worker[w].over
    /\ phase' = "idle"
    /\ restore' = FALSE
    /\ UNCHANGED <<job, epoch, tally, latest, ticker, wrapper, worker, turn, batch, got, ghosts,
                   saved>>

\* Nothing to resume: a new epoch.  The wrapper goes on holding the counts it was
\* resumed from.
NewEpoch ==
    /\ phase = "idle" /\ ~restore /\ epoch < MaxEpochs
    /\ ~GoesOn \/ epoch = 0
    /\ phase' = "looping"
    /\ epoch' = epoch + 1
    /\ tally' = NoTally /\ latest' = 0 /\ ticker' = 0
    /\ aliased' = FALSE
    /\ dsState' = [d \in Datasets |-> NoState]
    /\ dsEpoch' = EpochsSet(dsState', epoch')
    /\ worker' = [w \in Workers |-> Started(w, dsState', dsEpoch', held)]
    /\ turn' = 0 /\ got' = << >>
    /\ stale' = (held # NoTally) /\ restarts' = 0
    /\ UNCHANGED <<job, restore, held, size, batch, before, saved>>

\* A cycling dataset goes on where the last epoch ended: the loader loads the state
\* it would save now.  restore is off again when the workers start.
GoOn ==
    /\ phase = "idle" /\ ~restore /\ epoch \in 1 .. MaxEpochs - 1
    /\ GoesOn
    /\ phase' = "looping"
    /\ epoch' = epoch + 1
    /\ held' = tally /\ aliased' = TRUE
    /\ latest' = latest + 1 /\ ticker' = (ticker + latest + 1) % NumWorkers
    /\ dsState' = States
    /\ worker' = [w \in Workers |-> Started(w, dsState', dsEpoch, tally)]
    /\ turn' = 0 /\ got' = << >>
    /\ before' = before + SumFunction([b \in DOMAIN got |-> Len(got[b].samples)])
    /\ restarts' = 0
    /\ UNCHANGED <<job, tally, restore, dsEpoch, size, batch, stale, saved>>

\* A loader that is resuming asks the worker after the latest one first.
ResumeEpoch ==
    /\ phase = "idle" /\ restore
    /\ phase' = "looping"
    /\ restore' = ~GoesOn
    /\ dsEpoch' = EpochsSet(dsState, epoch)
    /\ worker' = [w \in Workers |-> Started(w, dsState, dsEpoch', held)]
    /\ turn' = IF restore' /\ latest < NumWorkers THEN latest ELSE 0
    /\ UNCHANGED <<job, epoch, tally, latest, ticker, held, aliased, dsState, size, batch, got,
                   ghosts, saved>>

\* len(loader) between two epochs deals the datasets out in the loader's batches again.
\* It raises if there is no length.
AskLength ==
    /\ phase = "idle"
    /\ IF Combined THEN job.all ELSE job.length # Infinite
    /\ size' = [d \in Datasets |-> job.batch]
    /\ UNCHANGED <<job, loader, held, aliased, dsEpoch, dsState, worker, turn, batch, got, ghosts,
                   saved>>

-----------------------------------------------------------------------------
(* Checkpoints: state_dict and load_state_dict of the loader. *)

\* Wrapped datasets that were resumed update the state they were resumed from: in a
\* new process that has not begun to iterate, with the first epoch.
SaveState ==
    /\ phase \in {"idle", "looping"} /\ batch = << >>
    /\ epoch > 0 /\ got # << >>
    /\ dsState' = [d \in Datasets |-> IF dsState[d] = NoState THEN NoState ELSE States[d]]
    /\ stale' = (stale \/ (phase = "idle" /\ restore /\ dsState' # dsState))
    /\ saved' = [dataset |-> States, epoch |-> epoch, tally |-> tally, latest |-> latest,
                 got |-> got, before |-> before, stale |-> stale', restarts |-> restarts]
    /\ UNCHANGED <<job, loader, held, aliased, dsEpoch, size, worker, turn, batch, got, before,
                   restarts>>

\* Whether a state is one to resume from: its epoch was begun and not finished.
Resumes(t, all) ==
    LET yielded(d) == YieldedOf(t, d)
        total == SumFunction([d \in all |-> yielded(d)])
    IN  CASE Combined -> job.all => total > 0 /\ total < CombinedLength(all)
          [] job.length = Infinite -> \E d \in all : yielded(d) > 0
          [] Cycling -> \E d \in all : (CyclesOf(t, d) * LengthOf(d, job.limits[1]) + yielded(d))
                                          % ParallelLength(all) > 0
          [] OTHER -> \E d \in all : 0 < yielded(d) /\ yielded(d) < ParallelLength(all)

\* The states of the datasets, if there are as many as in the state that is loaded, or
\* more and that is overridden.
StatesLoaded(states, all) == [d \in all |-> IF d \in DOMAIN states THEN states[d] ELSE NoState]
LoadRefused(states, all) == DOMAIN states # all /\ ~job.override

\* The process dies and another one, that may wrap more datasets, loads the last state
\* that was saved.  A cycling dataset that is not resumed in an epoch asks itself for its
\* state when it goes on, and then its wrapped datasets are in their first epoch.
Restart ==
    /\ saved # NoState /\ saved.restarts < MaxRestarts
    /\ LET all == DOMAIN job.items IN
       /\ phase' = IF LoadRefused(saved.dataset, all) THEN "failed" ELSE "idle"
       /\ dsEpoch' = [d \in all |-> 1]
       /\ dsState' = StatesLoaded(saved.dataset, all)
       /\ restore' = Resumes(saved.tally, all)
       \* a combined dataset is asked for its length
       /\ size' = IF Combined /\ job.all /\ \E d \in all : YieldedOf(saved.tally, d) > 0
                   THEN [d \in all |-> 1] ELSE job.limits
    /\ epoch' = saved.epoch
    /\ tally' = saved.tally /\ held' = saved.tally /\ aliased' = TRUE
    /\ latest' = saved.latest + 1 /\ ticker' = (saved.latest + 1) % NumWorkers
    /\ batch' = << >> /\ got' = saved.got /\ before' = saved.before
    /\ stale' = (saved.stale \/ (GoesOn /\ ~restore'))
    /\ restarts' = saved.restarts + 1
    /\ worker' = << >> /\ turn' = 0
    /\ UNCHANGED <<job, saved>>

-----------------------------------------------------------------------------
Init ==
    /\ job \in Jobs
    /\ phase = "idle" /\ epoch = 0 /\ restore = FALSE
    /\ tally = NoTally /\ held = NoTally /\ aliased = FALSE
    /\ latest = 0 /\ ticker = 0
    /\ dsEpoch = [d \in 1 .. job.known |-> 1] /\ dsState = [d \in 1 .. job.known |-> NoState]
    /\ size = [d \in 1 .. job.known |-> job.limits[d]]
    /\ worker = << >> /\ turn = 0 /\ batch = << >>
    /\ got = << >> /\ before = 0 /\ stale = FALSE /\ restarts = 0
    /\ saved = NoState

Next ==
    \/ TakeOne \/ RunsOut \/ TakeEach \/ Stop \/ Uncounted \/ Break
    \/ Yield \/ Skip \/ EndEpoch \/ NewEpoch \/ GoOn \/ ResumeEpoch \/ AskLength
    \/ SaveState \/ Restart

Spec == Init /\ [][Next]_vars

-----------------------------------------------------------------------------
(* Properties. *)

Given == FlattenSeq([b \in DOMAIN got |-> got[b].samples])

\* The epoch was resumed at most once: a second time the wrapped datasets have
\* forgotten which epoch they are in.
Fresh == restarts <= 1 /\ ~stale

\* iterate_over_all: an epoch that ends has given every sample of every dataset
\* once, also when it was resumed, by one worker of one rank.
EpochWhole ==
    /\ phase = "idle" /\ ~restore /\ got # << >> /\ Combined /\ job.all
    /\ restarts = 0 \/ (NumWorkers = 1 /\ job.ranks = 1 /\ Fresh)
    =>
        LET part(d, w) == IF worker = << >> THEN Part(d, w, SizeOf(d)) ELSE worker[w].share[d]
        IN  /\ Len(Given) = SumFunction([d \in Datasets |->
                                           SumFunction([w \in Workers |-> part(d, w)])])
            /\ \A d \in Datasets, w \in Workers : \A i \in 1 .. part(d, w) :
                  \E p \in DOMAIN Given : /\ Given[p].dataset = d /\ Given[p].worker = w
                                          /\ Given[p].index = i /\ Given[p].epoch = epoch

\* One worker, stratified: until a dataset is exhausted the p-th sample of an epoch
\* is of the dataset that the p-th number draws, whether the epoch was resumed or not,
\* and the next one of that dataset (the replay in _CombinedDatasetIterator).
MixResumed ==
    Combined /\ NumWorkers = 1 /\ job.stratified /\ Fresh /\ Datasets = 1 .. job.known =>
        \A p \in DOMAIN Given :
            LET drawn(d) == Cardinality({q \in 1 .. p : Pick(Datasets, q) = d})
            IN  (\A d \in Datasets : drawn(d) <= Part(d, 0, job.limits[d])) =>
                  /\ Given[p].dataset = Pick(Datasets, p)
                  /\ Given[p].index = drawn(Given[p].dataset)
                  /\ Given[p].epoch = epoch

\* per_stream: a batch has samples of one dataset, as long as none is exhausted and the
\* wrapper knows the batch size of the loader.
OneStreamBatches ==
    Combined /\ ~job.stratified =>
        \A b \in DOMAIN got :
            \/ \A p, q \in DOMAIN got[b].samples :
                  got[b].samples[p].dataset = got[b].samples[q].dataset
            \/ \E d \in DOMAIN got[b].size : got[b].size[d] # job.batch
            \/ \E a \in 1 .. b : \E p \in DOMAIN got[a].samples :
                  LET s == got[a].samples[p]
                  IN  got[a].worker = got[b].worker
                      /\ s.index = Part(s.dataset, s.worker, got[a].size[s.dataset])

\* A worker of a parallel dataset gives the samples of each dataset in their order,
\* epoch after epoch of the dataset, without a gap.  If there is only one worker, that
\* is so over the end of an epoch of the loader, if it goes on there, and over a
\* restart, and the assertion that the datasets keep together holds.
CyclesContinue ==
    /\ ~Combined /\ (~stale \/ GoesOn)
    /\ NumWorkers = 1 \/ (epoch = 1 /\ restarts = 0)
    =>
    /\ Datasets = 1 .. job.known => phase # "failed"
    /\ \A w \in Workers :
         LET own == SelectSeq(got, LAMBDA b : b.worker = w)
             tuples == FlattenSeq([b \in DOMAIN own |-> own[b].samples])
         IN  \A p \in DOMAIN tuples : \A d \in DOMAIN tuples[p] :
               LET place == before + p - 1
                   part == Part(d, w, job.limits[1])
               IN  /\ tuples[p][d].index = (place % part) + 1
                   /\ Fresh => tuples[p][d].epoch =
                                  (place \div part) + (IF Cycling THEN 1 ELSE epoch)
=============================================================================
