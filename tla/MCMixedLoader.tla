--------------------------- MODULE MCMixedLoader ---------------------------
(* Instances of MixedLoader for TLC. *)
EXTENDS MixedCalls

Mix == [kind |-> "combined", plain |-> FALSE, items |-> <<3, 2>>, known |-> 2, override |-> FALSE,
        ranks |-> 1, workers |-> 1, batch |-> 2, sizes |-> << >>, all |-> TRUE,
        stratified |-> TRUE, shares |-> << >>, draws |-> <<5, 0, 1, 4, 2, 3, 0>>,
        length |-> None, arguments |-> 0, resume |-> TRUE, wrapped |-> TRUE, profile |-> FALSE]
Side == [Mix EXCEPT !.kind = "parallel"]
Single == [Mix EXCEPT !.batch = 1, !.draws = <<0, 1, 5, 0, 5>>]
Streams == [Mix EXCEPT !.stratified = FALSE]

Mixes == {
    Mix, Single,
    [Mix EXCEPT !.items = <<3, 1, 2>>],
    [Mix EXCEPT !.workers = 2, !.items = <<4, 2>>],
    [Mix EXCEPT !.workers = 2, !.items = <<6, 1>>],
    [Single EXCEPT !.workers = 2, !.items = <<5, 4>>],
    [Mix EXCEPT !.items = <<7, 4>>, !.ranks = 2],
    [Single EXCEPT !.items = <<3, 0>>],
    [Single EXCEPT !.items = <<0, 2, 0>>],
    [Mix EXCEPT !.all = FALSE, !.shares = <<1, 1>>],
    [Mix EXCEPT !.all = FALSE, !.workers = 2, !.items = <<4, 5>>],
    \* with a dataset more after the restart
    [Single EXCEPT !.items = <<2, 2, 1>>, !.known = 2, !.override = TRUE],
    [Single EXCEPT !.items = <<2, 2, 1>>, !.known = 2],
    \* per_stream
    [Streams EXCEPT !.items = <<4, 3>>],
    [Streams EXCEPT !.items = <<3, 4, 2>>],
    [Streams EXCEPT !.items = <<4, 5>>, !.all = FALSE],
    [Streams EXCEPT !.items = <<5, 5>>, !.workers = 2],
    [Streams EXCEPT !.items = <<4, 3>>, !.sizes = <<1, 2>>],
    \* refused
    [Mix EXCEPT !.shares = <<1, 2>>], [Mix EXCEPT !.items = <<0, 0>>], [Mix EXCEPT !.plain = TRUE],
    [Mix EXCEPT !.sizes = <<2>>], [Mix EXCEPT !.wrapped = FALSE], [Mix EXCEPT !.profile = TRUE, !.workers = 0]
    }

Sides == {
    [Side EXCEPT !.items = <<3, 4>>],
    [Side EXCEPT !.items = <<2, 3>>, !.length = 4],
    [Side EXCEPT !.items = <<2, 3>>, !.length = 5, !.batch = 1, !.arguments = 2],
    [Side EXCEPT !.items = <<3, 5>>, !.length = 4, !.resume = FALSE],
    [Side EXCEPT !.items = <<2, 3>>, !.length = Infinite],
    [Side EXCEPT !.items = <<4, 5>>, !.workers = 2],
    [Side EXCEPT !.items = <<4, 8>>, !.workers = 2, !.length = 6],
    [Side EXCEPT !.items = <<3, 5>>, !.workers = 2, !.length = 5, !.batch = 1],
    [Side EXCEPT !.items = <<1, 4>>, !.workers = 2, !.length = 3, !.batch = 1],
    \* with a dataset more after the restart
    [Side EXCEPT !.items = <<2, 3>>, !.known = 1, !.length = 3, !.batch = 1, !.override = TRUE],
    [Side EXCEPT !.items = <<2, 3>>, !.known = 1, !.batch = 1, !.override = TRUE],
    \* refused
    [Side EXCEPT !.length = Fractional], [Side EXCEPT !.arguments = 3]
    }

AllJobs == JobsOf(Mixes \union Sides)
=============================================================================
