-------------------------- MODULE ResumableLoader --------------------------
(***************************************************************************)
(* One rank iterating over its StreamingDataset with a StreamingDataLoader  *)
(* of several worker processes, saving its state, dying and resuming        *)
(* (streaming/dataloader.py and streaming/dataset.py).                      *)
(*                                                                         *)
(* The loader only counts the samples it has yielded and remembers which    *)
(* worker it is at.  Resuming replays from those numbers how far every      *)
(* worker must have come.  The loader of PyTorch hands batches out in turn, *)
(* one worker after the other, passing over the exhausted ones.             *)
(*                                                                         *)
(* The dataset object of the main process (dsState, dsEpoch) is copied into *)
(* the worker processes when an iteration starts; what happens to a copy    *)
(* does not reach the original.                                             *)
(***************************************************************************)
EXTENDS Naturals, Sequences, FiniteSets, Functions

CONSTANTS
    Jobs,         \* settings with the intervals of every worker, see JobAssumption
    MaxEpochs,    \* bound: the epochs a behaviour has
    MaxRestarts,  \* bound: the restarts within one epoch
    NoState       \* no state dictionary

\* A dataset and loader are made with shuffle, seed, batch_size and data, which stands for
\* the other settings a state is checked for: num_workers, the directory, the item
\* loader and drop_last.  force is force_override_state_dict; what then comes of other
\* data is not modelled.  The plan depends on batch_size unless there is one worker.
ASSUME JobAssumption ==
    \A j \in Jobs : /\ \A s \in {j.made} \union j.others :
                         /\ s.batch \in Nat \ {0}
                         /\ s.force => s.data = j.made.data
                         /\ s.batch # j.made.batch => DOMAIN j.plan = {0}
                    /\ DOMAIN j.plan # {} /\ DOMAIN j.plan = 0 .. Cardinality(DOMAIN j.plan) - 1
                    /\ \A w \in DOMAIN j.plan : j.plan[w] \in Seq(Nat \ {0})

VARIABLES
    job,       \* plan[w] lists the interval sizes of worker w; made and others: the
               \* settings it is made with, and made again with after a restart
    settings,  \* the settings of this process
    begun,     \* those the epoch was begun with
    phase,     \* "idle", "looping" in the iteration of the loader, or "refused"
    epoch,     \* current_epoch of the loader
    yielded,   \* _num_samples_yielded_streaming
    latest,    \* _latest_worker_idx
    ticker,    \* the next value of _worker_idx_iter
    restore,   \* the loader is resuming
    dsEpoch,   \* current_epoch of the dataset in the main process
    dsState,   \* _state_dict of the dataset in the main process
    worker,    \* the datasets in the worker processes
    turn,      \* the worker that makes the next batch
    batch,     \* what it has collected for it
    got,       \* the samples the training loop was given in this epoch, in order
    restarts,  \* the restarts in this epoch
    saved      \* the last state saved, with what had been given by then

loader == <<phase, epoch, yielded, latest, ticker, restore>>
dataset == <<dsEpoch, dsState>>
vars == <<job, settings, begun, loader, dataset, worker, turn, batch, got, restarts, saved>>

-----------------------------------------------------------------------------
(* The share of this rank. *)

NumWorkers == Cardinality(DOMAIN job.plan)
WorkerIdxs == DOMAIN job.plan
NumChunks(w) == Len(job.plan[w])

\* The samples in the first k intervals of worker w.
SizeOf(w, k) == SumFunctionOnSet(job.plan[w], 1 .. k)
StopLength(w) == SizeOf(w, NumChunks(w))
Length == SumFunction([w \in WorkerIdxs |-> StopLength(w)])

\* The shuffle within a chunk depends on the seed, the number of chunks, the epoch and
\* the place of the chunk in the plan, and on nothing else; a rotation stands for it.
Shuffled(w, e, place, by) ==
    LET size == job.plan[w][place + 1]
        rotation == IF by.shuffle THEN by.seed + NumChunks(w) + e + place ELSE 0
    IN  [i \in 1 .. size |-> [worker |-> w, place |-> place, index |-> (i + rotation) % size]]

-----------------------------------------------------------------------------
(* A worker: StreamingDataset.__iter__, _resume and __next__. *)

FreshWorker(e, by) == [next |-> 0, upcoming |-> << >>, index |-> 0, epoch |-> e,
                       shuffler |-> by, over |-> FALSE]

\* Wrong: the remainder of the last round is not dealt out.
ReplayWholeRounds(n, w, size) == (n \div (NumWorkers * size)) * size

\* _replay_sampling: the samples of worker w among the n the loader has yielded,
\* if it took full batches of this size of all workers in turn.
ReplaySampling(n, w, size) ==
    LET perRound == NumWorkers * size
        rest == n % perRound
        full == rest \div size
    IN  (n \div perRound) * size
        + (IF w < full THEN size ELSE IF w = full THEN rest % size ELSE 0)

\* _replay_chunks_sampling: how many whole intervals of worker w its first n
\* samples make up.
ReplayChunks(w, n) ==
    CHOOSE k \in 0 .. NumChunks(w) :
        SizeOf(w, k) <= n /\ (k < NumChunks(w) => n < SizeOf(w, k + 1))

\* _create_shuffler: a state is read with its own seed.
ShufflerOf(state) == [settings EXCEPT !.seed = state.settings.seed]

\* _validate_state_dict.  batch_size is not looked at.
Accepted(state) ==
    /\ settings.force \/ /\ state.settings.shuffle = settings.shuffle
                         /\ state.settings.data = settings.data
                         /\ state.settings.seed = settings.seed
    /\ state.yielded <= Length

\* _resume: skip what has been consumed of the chunk the worker is in.  A worker
\* that has consumed everything is left at the end.
Resumed(w, state) ==
    LET n == ReplaySampling(state.yielded, w, state.settings.batch)
        k == ReplayChunks(w, n)
        done == n - SizeOf(w, k)
        by == ShufflerOf(state)
        order == Shuffled(w, state.epoch, k, by)
    IN  IF k >= NumChunks(w)
        THEN [FreshWorker(state.epoch, by) EXCEPT !.next = k]
        ELSE [FreshWorker(state.epoch, by) EXCEPT
                !.next = k + 1, !.index = done,
                !.upcoming = SubSeq(order, done + 1, Len(order))]

\* __next__ has a sample: neither the count of samples nor the chunks are used up.
HasNext(w) ==
    /\ worker[w].index < StopLength(w)
    /\ worker[w].upcoming # << >> \/ worker[w].next < NumChunks(w)

\* The worker whose turn it is adds a sample to its batch, opening its next chunk
\* when the current one is used up.
Sample ==
    /\ phase = "looping"
    /\ ~worker[turn].over /\ Len(batch) < settings.batch
    /\ HasNext(turn)
    /\ LET k == worker[turn]
           opens == k.upcoming = << >>
           upcoming == IF opens THEN Shuffled(turn, k.epoch, k.next, k.shuffler) ELSE k.upcoming
       IN  /\ batch' = Append(batch, Head(upcoming))
           /\ worker' = [worker EXCEPT ![turn] =
                            [k EXCEPT !.upcoming = Tail(upcoming), !.index = @ + 1,
                                      !.next = IF opens THEN @ + 1 ELSE @]]
    /\ UNCHANGED <<job, settings, begun, loader, dataset, turn, got, restarts, saved>>

\* It has none left and raises StopIteration.
Exhaust ==
    /\ phase = "looping"
    /\ ~worker[turn].over /\ Len(batch) < settings.batch
    /\ ~HasNext(turn)
    /\ worker' = [worker EXCEPT ![turn].over = TRUE]
    /\ UNCHANGED <<job, settings, begun, loader, dataset, turn, batch, got, restarts, saved>>

-----------------------------------------------------------------------------
(* The loader. *)

NextTurn == turn' = (turn + 1) % NumWorkers

\* A batch, full or the last of its worker, reaches the training loop; its samples
\* are counted as if it were full.
Yield ==
    /\ phase = "looping"
    /\ batch # << >>
    /\ Len(batch) = settings.batch \/ worker[turn].over
    /\ latest' = ticker
    /\ ticker' = (ticker + 1) % NumWorkers
    /\ yielded' = yielded + settings.batch
    /\ got' = got \o batch
    /\ batch' = << >>
    /\ NextTurn
    /\ UNCHANGED <<job, settings, begun, phase, epoch, restore, dataset, worker, restarts, saved>>

\* An exhausted worker is passed over.
Skip ==
    /\ phase = "looping"
    /\ batch = << >>
    /\ worker[turn].over
    /\ \E w \in WorkerIdxs : ~worker[w].over
    /\ NextTurn
    /\ UNCHANGED <<job, settings, begun, loader, dataset, worker, batch, got, restarts, saved>>

\* All workers are exhausted: the end of the epoch.
EndEpoch ==
    /\ phase = "looping"
    /\ batch = << >>
    /\ \A w \in WorkerIdxs : worker[w].over
    /\ phase' = "idle"
    /\ restore' = FALSE
    /\ UNCHANGED <<job, settings, begun, epoch, yielded, latest, ticker, dataset, worker, turn, batch, got,
                   restarts, saved>>

\* __iter__, when there is nothing to resume: a new epoch.
NewEpoch ==
    /\ phase = "idle"
    /\ ~restore
    /\ epoch < MaxEpochs
    /\ phase' = "looping"
    /\ epoch' = epoch + 1
    /\ yielded' = 0 /\ latest' = 0 /\ ticker' = 0
    /\ dsState' = NoState
    /\ dsEpoch' = epoch'
    /\ worker' = [w \in WorkerIdxs |-> FreshWorker(epoch', settings)]
    /\ begun' = settings
    /\ turn' = 0
    /\ got' = << >>
    /\ restarts' = 0
    /\ UNCHANGED <<job, settings, restore, batch, saved>>

\* The first batches are asked of the workers after the latest one, then of all.
FirstTurn == IF latest < NumWorkers THEN latest ELSE 0

\* __iter__, when resuming: the workers start from the state dictionary.
\* set_epoch leaves the epoch of the dataset alone.
ResumeEpoch ==
    /\ phase = "idle"
    /\ restore
    /\ Accepted(dsState)
    /\ phase' = "looping"
    /\ worker' = [w \in WorkerIdxs |-> Resumed(w, dsState)]
    /\ turn' = FirstTurn
    /\ UNCHANGED <<job, settings, begun, epoch, yielded, latest, ticker, restore, dataset, batch, got, restarts, saved>>

\* The workers refuse the state.
RefuseState ==
    /\ phase = "idle"
    /\ restore
    /\ ~Accepted(dsState)
    /\ phase' = "refused"
    /\ UNCHANGED <<job, settings, begun, epoch, yielded, latest, ticker, restore, dataset, worker,
                   turn, batch, got, restarts, saved>>

-----------------------------------------------------------------------------
(* Checkpoints. *)

\* state_dict, called by the training loop between two batches or two epochs.  The
\* loop is given control only after the first batch of a new epoch.  A dataset that
\* was resumed updates the dictionary it was resumed from, which keeps its settings: a
\* worker overrides them in its own copy only.
SaveState ==
    /\ batch = << >>
    /\ phase # "refused" /\ (phase = "looping" => yielded > 0)
    /\ LET state == [yielded |-> yielded, epoch |-> dsEpoch,
                     settings |-> IF dsState = NoState THEN settings ELSE dsState.settings]
       IN  /\ dsState' = IF dsState = NoState THEN NoState ELSE state
           /\ saved' = [dataset |-> state, epoch |-> epoch, yielded |-> yielded,
                        latest |-> latest, got |-> got, restarts |-> restarts, begun |-> begun]
    /\ UNCHANGED <<job, settings, begun, loader, dsEpoch, worker, turn, batch, got, restarts>>

\* Wrong: a loader that has yielded nothing but its last batch starts over.
LoadStateLate(from, restoring) ==
    /\ epoch' = saved.epoch
    /\ yielded' = saved.yielded
    /\ latest' = saved.latest + 1
    /\ ticker' = (from + saved.latest + 1) % NumWorkers
    /\ dsState' = saved.dataset
    /\ restore' = (restoring \/ (saved.yielded > 0 /\ saved.yielded + settings.batch < Length))

\* load_state_dict.  Only an epoch that was begun and not finished is resumed; a
\* loader that was already resuming goes on doing so.  The cycle over the workers
\* is made once in a process, and moved on from wherever it is.
LoadState(from, restoring) ==
    /\ epoch' = saved.epoch
    /\ yielded' = saved.yielded
    /\ latest' = saved.latest + 1
    /\ ticker' = (from + saved.latest + 1) % NumWorkers
    /\ dsState' = saved.dataset
    /\ restore' = (restoring \/ (saved.yielded > 0 /\ saved.yielded < Length))

GoBack(from, restoring) ==
    /\ saved # NoState
    /\ saved.restarts < MaxRestarts
    /\ LoadState(from, restoring)
    /\ phase' = "idle"
    /\ batch' = << >>
    /\ got' = saved.got /\ begun' = saved.begun
    /\ restarts' = saved.restarts + 1
    /\ UNCHANGED <<job, worker, turn, saved>>

\* The process dies and another one, which may have other settings, loads the last state
\* that was saved.
Restart == GoBack(0, FALSE) /\ dsEpoch' = 1 /\ settings' \in {settings} \union job.others

\* The same process abandons its iteration and goes back to that state.
Reload == GoBack(ticker, restore) /\ UNCHANGED <<dsEpoch, settings>>

-----------------------------------------------------------------------------
Init ==
    /\ job \in Jobs
    /\ settings = job.made /\ begun = job.made
    /\ phase = "idle" /\ epoch = 0 /\ yielded = 0 /\ latest = 0 /\ ticker = 0
    /\ restore = FALSE
    /\ dsEpoch = 1 /\ dsState = NoState
    /\ worker = [w \in WorkerIdxs |-> FreshWorker(1, settings)]
    /\ turn = 0 /\ batch = << >> /\ got = << >>
    /\ restarts = 0
    /\ saved = NoState

Iterate == Sample \/ Exhaust \/ Yield \/ Skip \/ EndEpoch \/ NewEpoch \/ ResumeEpoch \/ RefuseState

Next == Iterate \/ SaveState \/ Restart \/ Reload

Spec == Init /\ [][Next]_vars

-----------------------------------------------------------------------------
(* Properties. *)

SmallerOf(a, b) == IF a < b THEN a ELSE b

\* Where sample s comes in an epoch that is not interrupted, when batches are
\* taken of every worker in turn.
PlaceInEpoch(s) ==
    LET order == Shuffled(s.worker, epoch, s.place, begun)
        inWorker == SizeOf(s.worker, s.place) + (CHOOSE i \in DOMAIN order : order[i] = s)
        round == (inWorker - 1) \div begun.batch
        before(v) == SmallerOf(StopLength(v), begun.batch * (IF v < s.worker THEN round + 1 ELSE round))
    IN  SumFunction([v \in WorkerIdxs |-> IF v = s.worker THEN inWorker ELSE before(v)])

\* "Pick up right where you left off": the i-th sample of an epoch is the same,
\* whether the epoch is interrupted or not.
SameSamples == \A i \in DOMAIN got : PlaceInEpoch(got[i]) = i

\* The last state was saved in an epoch, if it is this one, that had not been resumed.
SavedBeforeResuming == saved = NoState \/ saved.epoch # epoch \/ saved.restarts = 0

\* The same however often the epoch is resumed, from states that were saved before it
\* was resumed, and by a process with another seed too, if it may override the state;
\* only shuffle and batch_size must be what they were.
SameSamplesResumed ==
    SavedBeforeResuming /\ settings.shuffle = begun.shuffle /\ settings.batch = begun.batch
        => SameSamples

\* No sample is given twice in an epoch.
NothingRepeated == \A i, k \in DOMAIN got : got[i] = got[k] => i = k

\* No epoch is left for the next one before all its samples were given, and no more,
\* from whatever such state it was resumed, also with batches of another size.
EpochsAreWhole ==
    [][epoch > 0 /\ epoch' = epoch + 1 /\ SavedBeforeResuming => Len(got) = Length]_vars
=============================================================================
