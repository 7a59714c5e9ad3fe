--------------------------- MODULE MCDatasetLife ---------------------------
(* Instances of DatasetLife for TLC: calls of CacheDataLoader, and the ways    *)
(* one of the datasets they write is opened and read.                         *)
EXTENDS DatasetLife, FillCalls

Same == [i \in 0 .. 9 |-> 1]
Varying == [i \in 0 .. 9 |-> 1 + (i % 2)]

Data == [items |-> 6, ranks |-> 1, size |-> Same, async |-> FALSE, slow |-> FALSE,
         unsteady |-> {}, leaves |-> FALSE, again |-> FALSE, seeded |-> FALSE]

BySize(n) == <<[size |-> n, bytes |-> 0]>>
ByBytes(n) == <<[size |-> 0, bytes |-> n]>>

\* A dataset of the user, which is wrapped, and one that has a cache of its own.
Wrapped == [sampler |-> FALSE, iterable |-> FALSE, own |-> << >>, dir |-> TRUE, chunkBytes |-> 0,
            batchSize |-> 2, workers |-> 2, job |-> Data]
Caching == [Wrapped EXCEPT !.dir = FALSE, !.own = BySize(2)]

OpenedCall == [Wrapped EXCEPT !.workers = 0, !.job.items = 2]

FillCallsMade == {
    OpenedCall,
    [Wrapped EXCEPT !.job.items = 7],
    [Caching EXCEPT !.workers = 1, !.batchSize = 3, !.own = BySize(3), !.job.items = 10,
                    !.job.async = TRUE],
    [Caching EXCEPT !.batchSize = 3, !.own = BySize(4), !.job.items = 9, !.job.async = TRUE],
    \* chunk_bytes, with an item larger than a chunk
    [Wrapped EXCEPT !.batchSize = 0, !.chunkBytes = 4,
                    !.job.size = [i \in 0 .. 9 |-> IF i = 2 THEN 5 ELSE 1 + (i % 2)]],
    [Caching EXCEPT !.workers = 3, !.own = ByBytes(4), !.job.items = 3,
                    !.job.size = [i \in 0 .. 9 |-> IF i = 1 THEN 5 ELSE 2]],
    [Caching EXCEPT !.workers = 1, !.own = ByBytes(3), !.job.items = 7, !.job.size = Varying,
                    !.job.async = TRUE],
    \* chunks smaller than a batch that comes in any order
    [Caching EXCEPT !.batchSize = 3, !.own = BySize(1), !.job.async = TRUE],
    [Caching EXCEPT !.batchSize = 3, !.own = ByBytes(1), !.job.async = TRUE],
    \* the item larger than a chunk may come before its turn
    [Caching EXCEPT !.workers = 1, !.batchSize = 3, !.own = ByBytes(2), !.job.items = 3,
                    !.job.size = [i \in 0 .. 9 |-> IF i = 2 THEN 3 ELSE 1], !.job.async = TRUE],
    \* several ranks, with a second epoch
    [Wrapped EXCEPT !.job.items = 7, !.job.ranks = 2, !.job.again = TRUE, !.job.seeded = TRUE],
    [Caching EXCEPT !.workers = 1, !.own = BySize(1), !.job.items = 5, !.job.ranks = 3],
    [Wrapped EXCEPT !.workers = 1, !.job.items = 5, !.job.ranks = 2, !.job.again = TRUE],
    [Wrapped EXCEPT !.batchSize = 1, !.job.items = 5, !.job.again = TRUE],
    \* a worker without items, a rank without items, and workers that are too slow
    [Wrapped EXCEPT !.workers = 4, !.job.items = 3],
    [Wrapped EXCEPT !.workers = 1, !.job.items = 2, !.job.ranks = 3],
    [Wrapped EXCEPT !.workers = 1, !.job.ranks = 2, !.job.slow = TRUE],
    \* a loop that is left early, and items that come out differently
    [Wrapped EXCEPT !.job.ranks = 2, !.workers = 1, !.job.leaves = TRUE],
    [Wrapped EXCEPT !.job.unsteady = {0, 1, 4}],
    [Wrapped EXCEPT !.job.async = TRUE, !.job.items = 4],
    [Caching EXCEPT !.job.unsteady = {0}],
    \* refused
    [Wrapped EXCEPT !.chunkBytes = 4],
    [Wrapped EXCEPT !.batchSize = 0],
    [Wrapped EXCEPT !.dir = FALSE],
    [Wrapped EXCEPT !.sampler = TRUE],
    [Wrapped EXCEPT !.iterable = TRUE],
    [Caching EXCEPT !.own = BySize(2) \o BySize(3)]
    }

FillJobs == UNION {JobsOf(c) : c \in FillCallsMade}
OpenedJob == CHOOSE j \in JobsOf(OpenedCall) : TRUE

Open == [of |-> <<1, 1>>, kind |-> "remote", stamped |-> TRUE, folder |-> "none", dist |-> FALSE,
         rewritten |-> FALSE, chunks |-> <<1, 1, 1>>, loader |-> "pytree", written |-> "pytree"]

WaysToOpen == {
    Open,
    [Open EXCEPT !.folder = "current"],
    [Open EXCEPT !.folder = "current", !.rewritten = TRUE],
    [Open EXCEPT !.folder = "stale"],
    [Open EXCEPT !.folder = "partial"],
    [Open EXCEPT !.of = <<1, 1, 1>>],
    [Open EXCEPT !.folder = "stale", !.rewritten = TRUE, !.chunks = <<3, 2, 1>>],
    [Open EXCEPT !.folder = "stale", !.stamped = FALSE],
    [Open EXCEPT !.of = <<1>>, !.loader = "tokens"],
    \* read where it is
    [Open EXCEPT !.kind = "files", !.rewritten = TRUE],
    \* on a file store, one dataset or two
    [Open EXCEPT !.kind = "filestore"],
    [Open EXCEPT !.kind = "filestore", !.of = <<1, 2>>],
    [Open EXCEPT !.kind = "filestore", !.folder = "current"],
    \* Hugging Face
    [Open EXCEPT !.kind = "hf", !.of = <<1>>],
    [Open EXCEPT !.kind = "hf", !.of = <<1>>, !.loader = "tokens"],
    [Open EXCEPT !.kind = "hf"],
    [Open EXCEPT !.kind = "hf", !.dist = TRUE],
    [Open EXCEPT !.kind = "hf", !.dist = TRUE, !.folder = "current"],
    [Open EXCEPT !.kind = "hf", !.folder = "stale"]
    }
\* A block per chunk, blocks that leave a rest, and several.
Read == [loader |-> "tokens", format |-> "no_header_tensor", size |-> <<2, 5>>, unit |-> 2, batch |-> 2,
         remote |-> TRUE, preload |-> FALSE, evicts |-> TRUE, slow |-> FALSE]
Local == [Read EXCEPT !.remote = FALSE, !.evicts = FALSE, !.size = <<2, 5, 6>>]
Rows == [Read EXCEPT !.loader = "parquet_low", !.size = <<3, 2>>]

WaysToRead == {
    Read,
    [Read EXCEPT !.batch = 1],
    [Read EXCEPT !.size = <<4>>, !.slow = TRUE],
    [Read EXCEPT !.size = <<2, 2, 2>>, !.batch = 3],
    [Read EXCEPT !.format = "pickle"],
    Local,
    [Local EXCEPT !.batch = 1],
    Rows,
    [Rows EXCEPT !.remote = FALSE],
    [Rows EXCEPT !.loader = "parquet", !.preload = TRUE, !.size = <<1, 2, 1>>]
    }
=============================================================================
