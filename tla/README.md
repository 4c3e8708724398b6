# Formal models of ragbench

ragbench evaluates retrieval-augmented generation over Korean corporate documents. What makes
it hard to get right is not the ranking or the scoring, which are pure functions with good unit
tests, but the way it spends money and keeps evidence: paid provider calls made by concurrent
tasks of several processes under one hard budget, a shared response cache that must never be
paid for twice, and files on disk that are written, interrupted, resumed and concluded over many
invocations. These models are about that, and about the functions in between whose errors would
be quiet ones: leakage between splits, numbers of elements in a merged document, selections,
cited evidence and the tables of a report.

The modules are written for two tools: TLC checks small instances of everything, TLAPS proves
the statements named under "Proofs" for every value of the constants.

Paths below are relative to the package, `src/src/ragbench/`, unless they name another directory.

## 1. The system

| part | state it keeps | operations | interacts with |
|---|---|---|---|
| Budget ledger, `core/money.py` | `budget_reservation` (open, settled, released, reconciliation_required), `api_usage` | reserve, settle, release, record a cache hit | one PostgreSQL advisory lock serialises reserve, settle and release; called by the gateway |
| Provider gateway, `providers/upstage/client.py` | response cache `api_cache_entry`, a process-local lock registry, two semaphores, PostgreSQL advisory locks | generate, embed, parse (and parse of long documents in pieces) | ledger, provider over HTTP, other processes through the database |
| Experiment runner, `experiments/runner.py` | a run directory: `state.json`, `history/`, `results/`, `errors/` | create, run, resume, cancel | a worker pool over an executor that calls the gateway |
| Retrieval screening, `experiments/screening.py` | a checkpoint file replaced as a whole | screen, resume, mark interrupted | retrieval, evaluation |
| Selection, `experiments/planner.py`, `selection.py` | none | the retrieval grid, the shortlist, the top three | screening before, the runner after |
| Corpus collection, `scripts/collect_corpus.py`, `ingestion/manifest.py` | the raw directory, fragments and reports, a frozen manifest | collect one document, validate a manifest | the parse pipeline reads what it collected |
| Parse pipeline, `ingestion/parser.py` | `parse_run` checkpoints per snapshot, document and mode | parse a corpus, resume, reconcile modes | gateway, database |
| Embedding snapshots, `embeddings/` | `embedding_snapshot`, `chunk_embedding` | create, persist a batch, finalize, search | gateway, database |
| Benchmark generation, `benchmark/generation.py`, `validation.py`, `scripts/generate_benchmark.py` | batch checkpoints, candidate and report files | plan, generate, replace, validate | gateway |
| Splits and gold evaluation, `benchmark/splits.py`, `evaluation/gold.py` | sealed splits, preregistrations, results, invalidations, public reports: exclusive files | cut, seal, load, run, invalidate, aggregate | judges |
| Retrieval and grounded generation, `retrieval/`, `rag/` | none | hybrid search, context packing, parsing and checking an answer | snapshots, gateway |
| Analysis and export, `analysis.py` | one output directory, a lock file beside it | build the tables, publish them | everything that leaves evidence |
| Chunking, metrics, judges, HTTP API, CLI | none, or what their caller passes in | pure functions and thin transports | everything above |

Where it is hard:

* Concurrency: tasks of one process interleave at every `await`; several processes share the
  database; nothing locks a run directory, a screening file, a campaign or a gold directory, and
  collectors are locked only against those with the same output directory.
* Failure: a task can be cancelled at any await, a transaction can fail before or after it
  committed, a process can die between two files it publishes, a temporary file can be left
  behind, a response can be lost after the provider billed it.
* Ordering and retries: a stale look at the cache, retries under one reservation, a late release
  after a settlement, state and history written in two steps, stop reasons overwriting each other.
* Data that has to agree: what is cited, sampled, split, merged or reported with what it was made
  from.
* Limits: the strict comparison with the hard cap, the error window, the batch cap, permits.

`PROJECT.json` lists every component, and under `hazards` each of these at the line where it
bites, with the properties that would catch it.

## 2. Modules

| module | models | constants |
|---|---|---|
| `BudgetAccount` | what the ledger promises, without tables: money held, charged, given back | hard limit, largest amount |
| `BudgetLedger` | `core/money.py`: the two tables and the four repository methods | calls, hard limit, largest amount |
| `ProviderGateway` | `providers/upstage/client.py`; extends the ledger, which it calls | processes, keys, prices, retries, permits |
| `LongDocument` | the parse of a document above the page limit in chunks, and their merge | page limits, page counts, bounds |
| `ExperimentRun` | `experiments/runner.py`: repository and runner on one directory | runners, questions, caps, thresholds |
| `CorpusCollection` | `scripts/collect_corpus.py` and the freeze gate of `ingestion/manifest.py` | collectors, documents, contents, directories, targets |
| `ParsePipeline` | `ingestion/parser.py` as `scripts/parse_corpus.py` wires it, over what the gateway promises | documents, processes, budget, bounds |
| `SnapshotStore` | what an embedding snapshot promises: a table that grows, is sealed when whole, and then stays | chunks, vectors |
| `EmbeddingSnapshot` | `embeddings/service.py` over `embeddings/repository.py`, as `scripts/build_embeddings.py` wires them | builders, token counts, batch limits, answers, bounds |
| `Screening` | `experiments/screening.py`: the store and the runner over one checkpoint | processes, questions, rankings |
| `Selection` | `experiments/planner.py`, `selection.py`: grid, shortlist, top three | chunk strategies, top_k values, contests |
| `GroundedAnswer` | `retrieval/rrf.py`, `retrieval/service.py`, `rag/`: from a question to a cited answer | queries |
| `BenchmarkPlan` | `GenerationPlanner` and `validate_candidates` | quotas, windows, caps, similarity |
| `BenchmarkCampaign` | `scripts/generate_benchmark.py` over `benchmark/generation.py`; extends the plan | processes, drafts, rounds, budget |
| `Splits` | `build_split_snapshots` | tokens, benchmarks |
| `WriteOnceFiles` | what the gold evaluation promises of every file: published whole, once, for good | names, contents |
| `GoldRun` | `evaluation/gold.py` and the sealing in `benchmark/splits.py`, as `scripts/run_gold_test.py` wires them | processes, preregistrations, slots, scores |
| `Analysis` | `analysis.py`: the relations of a bundle and the tables | evidence, tax, amounts billed |
| `AnalysisExport` | `export_analysis`: lock, stage, describe, publish; extends `Analysis` | exporters, requests, sample size |
| `FoldFacts` | no code: what a fold over a sequence goes through, for any operation, what a finite set adds up to, and places in a finite order; the proofs take instances | the operation |
| `ProviderGateway_proofs`, `ExperimentRun_proofs`, `ParsePipeline_proofs`, `EmbeddingSnapshot_proofs`, `Screening_proofs`, `GoldRun_proofs`, `BenchmarkCampaign_proofs` | theorems about the modules they extend | |
| `MC...` | instances for TLC | |

How they compose. `ProviderGateway` extends `BudgetLedger` and calls its actions in its own steps.
`ParsePipeline`, `EmbeddingSnapshot` and `BenchmarkCampaign` sit on the gateway and know it by what
`ProviderGateway` shows of it: a stored response is returned for nothing, any other request is paid
for, and a failure may come on either side of the payment. `LongDocument` stands between the two.
`MCParsePipeline` puts collection, pipeline and long documents side by side, `MCGoldRun` the splits
before the gold run, `MCScreening` an answer or a selection before the screening, and `MCAnalysis`
the tables before their export.

### BudgetLedger, BudgetAccount

Each repository method is one transaction under the ledger's advisory lock (one critical section
of the in-memory repository), so it is one action. `status` and `reserved` are the reservation
rows, `usage` the rows of `api_usage`. A provider call makes at most one reservation, with fresh
ids, so the call's name stands for the reservation and correlation ids. Amounts are naturals:
the `Numeric(12, 6)` columns hold multiples of 1e-6. A reservation that is refused writes nothing; the callers
model the refusal where it changes their state.

`BudgetAccount` is the abstract specification: hold, charge, give back. `ImplementsAccount` maps
charged to the sum over `api_usage`, held to the sum over open reservations and excess to what
settled calls cost beyond their reservations.

### ProviderGateway

`generate`, `embed` and `parse` have one shape; a call is a task that runs one of them and `pc`
is the await it is at:

    idle -> lookup -> lock -> permit -> advisory -> recheck -> reserve -> slot <-> post
         -> settle -> put -> unlock -> leave -> done       (answer understood)
         -> reconcile -> unlock ...                        (2xx, not understood)
         -> release -> unlock ...                          (no answer, retries used up)
    lookup/recheck -> hit -> unlock/leave ...              (cached)

`registry`, `users`, `holder` and `entry` are `_LocalSingleflightRegistry`: entries are objects
with a reference count, named here after the call that made them, so that an entry that is
removed and made again is a different one. `permits` and `posting` are the two semaphores,
`advisory` the transaction-scoped PostgreSQL locks. `billing` records what the provider really
did, which the code cannot see; it guards nothing and only properties read it.

`InterruptBefore` and `InterruptAfter` are the two ways an await can raise: nothing was written,
or the transaction committed and the caller did not learn of it. Both stand for cancellation and
for a failing transaction. `Crash` kills the tasks of a process; its locks and connections go,
what it committed stays.

Abstractions: a key's cached response is valid or absent (`get` treats an expired or corrupt
entry as absent; nothing in the code writes either); the reservation's correlation id, headers
and payloads carry no state; the operational connection pool is unbounded; a connection that is
closing releases the advisory lock at once; the wait in a backoff is part of waiting for a slot.

### ExperimentRun

The directory is `disk`, `state`, `history` and `saved` (results, with the runner that wrote
each); a runner is one process that may call `run()` again and again, with `mine` its local
variables. Code between two awaits is one action, except that the writes of `state.json` and of
`history/` are separate, because crashes and other processes come in between. `save_error` is
left out: no decision reads `errors/`. `tripped` and `overlap` are history variables: an error
threshold was passed since the last diagnosis, and two invocations were active at the same time.
The rates of the error window are represented by the counts that reach them. `Crash` also stands
for an exception that leaves `run()` past its handlers (an error file that cannot be written).

### ParsePipeline

An operator prints a plan for a mode (`DryRun`) and executes it under its hash (`Execute`): the
settled cost is read once, Enhanced checks the Standard checkpoint of every document, the plan is
read again document by document and compared with the confirmed one, then the documents are worked
on one after the other, each under its single flight (`Take`, `Look`, `Fetch...`, `Save`,
`RecordFailure`). Every await is an action boundary; `Abort` is a crash, a cancellation or a
database error no handler is left for. `reconcile_paid_checkpoint` is two steps and takes no
flight. `Replace` and `Corrupt` are the environment: a source file that is no longer the approved
one, a row that fails the integrity check.

`row` is the checkpoint under the approved model version. A response that names another version is
recorded under that version, in a row nothing reads: `drifted`. `response` and `settled` are the
gateway, reduced to what `ProviderGateway` promises: a stored response is returned for nothing, any
other is paid for, a failure may come before or after payment. `mine` is the locals of
`plan_corpus` and `parse_corpus`.

Abstractions: every document costs one unit (rounding and tax are left to the price operators);
documents are taken in any order, the code sorts them; a dry run is one step, because it writes
nothing and what it read is only compared; the plan hash is compared piece by piece in `same`; the
plan's count of corrupt checkpoints and the wording of the summary are left out. The single flight
stands for the process lock and the advisory lock together, which `ProviderGateway` models.

### EmbeddingSnapshot

A builder is one process that runs `embed_chunks`, perhaps several times: `Start` (the plan, with
the dataset file's time of modification as `created_at`), `CreateSnapshot`, `Look` (which chunks
have no vector, read once), then for each batch `EmbedStored` or `EmbedPaid` and `PersistBatch`,
and `FinalizeSnapshot`. Every method of the repository is one transaction under the snapshot's
advisory lock and so one action. `row` is `embedding_snapshot`, `vectors` is `chunk_embedding`,
`answers` the stored responses of the gateway. An exception ends the process like a crash; with
or without the commit is `Abort` after or before the action. `Search` reads a complete snapshot,
and `Touch` writes the dataset file again with the same bytes.

`Batch` is the first batch `_batches` cuts: the longest front of the missing chunks within both
limits. The code cuts all of them before the first request, from the same set, so cutting them one
by one gives the same; a chunk longer than the limit raises before the first request (`Oversized`).

Abstractions: a chunk is its number in the dataset, contents are distinct, and all vectors of one
response are named by the version of the response, since only their equality matters; the document
evidence that `create_snapshot` compares is determined by the snapshot's id; the checks of the
index plan and of the search filter never differ between builders of one snapshot and are left
out; the index is built in the transaction that completes the snapshot and is part of it.

### LongDocument

`LargeBegin`, `LargeRequest`, `LargeRaises` and `LargeMerge` are `_parse_large_document`: the chunks
are asked for one after the other, each stored by a request of its own, and merged at the end; the
whole is not stored, so every later call begins again. `MergeParseChunks` is a fold over the
responses, as in the code. An element has its number, the number its HTML names, its page and,
which the code does not see, its place in the document, so that the merge can be compared with what
one request for everything would have returned. Coordinates and the recalculated usage are left out.

### CorpusCollection

A collector takes the lock of its output directory, stages its files, and links the fragment, the
report and last the PDF, each link an action (`PublishFragment`, `PublishReport`, `PublishPdf`);
`CollectionAborts` is a crash or an error between two of them. A link to a taken name is accepted if
what is there is byte for byte what is to be written. `ValidateManifest` is `CorpusManifest.validate`
on any set of the fragments there are; what it once accepted is kept in `frozen`. Left out: the
checks of paths and permissions, the syntax of PDFs, and the names of temporary files, which are
unpredictable and never met again.

### Screening

Every operation of `FileScreeningStore` reads the file, changes the record and replaces the file.
Between processes that is two actions: `Open` reads and creates the temporary file, `Replace`
renames it. The temporary file is named by the process id and created exclusively, so a crash in
between leaves a file that refuses the next process of that id (`leftovers`). `searched`, `lost`,
`overlapped` and `broken` are history variables; the code has no lock, and the properties speak of
invocations that do not overlap: two that do lose each other's searches.

### GoldRun, WriteOnceFiles

Processes share nothing but files, each linked under its name exclusively. A process checks first
and links later: every check and every link is an action of its own. A preregistration is known by
its hash and fixes the cohort; a slot is a (configuration, item) pair. An invocation initializes the
directory, looks at each slot, executes and saves it, checks for invalidations, collects and
publishes; an operator invalidates at any time. `WriteOnceFiles` is the abstract specification:
`Published` reads the content of every file name off the variables.

### Splits, Selection, GroundedAnswer, BenchmarkPlan, Analysis

Pure functions, written as operators, folds and recursive functions with the control of the code:
union-find with roots and unions, components dealt to the emptiest snapshot; the greedy shortlist
with its caps and the top three with the best value; rank fusion, the packing of a context up to its budget, the
policy of an answer; the planner's walk over windows and quotas, its replacement plans, and
validation; the merge of bundles, the stratified failure sample, cost rows with value added tax and
the Pareto frontier. Each has a reference definition that says what the result is to be rather than
how it is found: closure under sharing, optimality among all diverse sets, domination in every
branch, sums over the evidence. Seeded random choices are any choice; scores are brought to a common
denominator; money is counted in units of the quantum it is rounded to.

### BenchmarkCampaign

An invocation plans, asks for its batches (`Ask` pays or replays; `Check` and `Replace` are
`FileBatchRepository.put`), validates, plans replacements for what was rejected, round by round, and writes the candidates and
the report. `responses` is what the gateway keeps, `checkpoints` what `FileBatchRepository` keeps. A
refused response stays what it is: the batch fails again at every start, since the gateway replays
it. The plan hash commits to the plans before it, and so a batch is identified by them.

### AnalysisExport

`Lock`, `Stage`, `Build`, the files one at a time, `Describe`, `Publish`, `Return`: one action per
step that may fail or be interrupted. `Fail` is an error with its `finally`, `SyncFails` the one after
the rename, when an error is raised although the output is there; `Crash` frees the lock, as the
kernel does. A file is its name and the request it was made from.

## 3. Model checking

| run | instance | shows |
|---|---|---|
| `gateway` | 3 calls, 2 processes, 2 keys (a generate and a parse), limit 5, amounts up to 3, 1 retry, 1 post and 1 lock connection at a time, 1 crash; symmetry over calls and processes | one flight per key, nothing paid for twice without a loss, no reservation leaked, one charge per settlement, the cap, the refinement to `BudgetAccount`; no deadlock |
| `gateway_live` | 2 calls, otherwise the same, no symmetry | every call returns; no deadlock |
| `gateway_billed` | 2 calls | violation: a billed request without a usage record |
| `experiment` | 2 runners, 3 questions, concurrency 2, batch 2, window 2, 2 attempts, 1 crash | the state agrees with the artifacts over stops, cancellations, a crash, resumes and two runners on one directory; `run()` returns |
| `experiment_diagnosis` | 1 runner, batch 3 | violation: a threshold stop resumed without a diagnosis |
| `parse` | collection: 2 collectors, 2 documents, 3 contents of which one is empty, 3 descriptions, 2 output directories, 2 collections and 1 after the freeze; pipeline: 2 processes, 2 documents, budget 4, 3 executions, 1 fault; long document: 4 pages, 3 (Standard) or 2 (Enhanced) at a time, up to 2 elements a page, numbers from 0 or 1, 2 models, 2 attempts | what is collected is described and a frozen manifest stays valid; resuming, parity, evidence and budget of the pipeline; the merge of a long document is what one request would have found |
| `parse_evidence` | the same, 2 executions | violation: paid evidence is overwritten |
| `embedding` | 2 builders, 4 chunks of uneven length, 3 choices of limits, 2 answers or a refused one, 4 executions, 1 touch; symmetry over builders and answers | the write-once table, what is paid for once, why builders are refused |
| `gold` | 2 processes, 3 preregistrations over 2 cohorts, 2 slots, 2 scores, 1 report, 3 starts, 2 invalidations; before it all benchmarks of 4 items with 1 or 2 of 4 tokens | files appear once and stay, reports stay true, an invalidated run publishes nothing more; splits isolate every chain of shared tokens |
| `screening` | 2 processes, 2 questions, 2 rankings, 3 starts; before it one question or one selection: all pairs of rankings of up to 2 of 3 chunks with 2 sources, 2 budgets and 9 raw answers, all orders of the scored grid of one strategy with sizes 2 to 6, and quality intervals and costs of 4 candidates | nothing that is kept is searched again, all evaluations agree; hybrid search, answers and selections against their reference definitions |
| `campaign` | 2 processes, quotas of 2 and 1, 3 windows, 6 drafts, batches of 2, 1 replacement round, budget 8, 2 starts | replacements never exceed what validation takes, no more is paid for than was confirmed, reports agree |
| `analysis` | 2 exporters, 6 requests of which 4 fail on the way, samples of 2, 2 starts each; before it bundles of 3 configurations and 3 questions with every pattern of right answers, 4 of costs, billed or not | what is published is whole and described; tables, failure sample and frontier agree with the evidence |

Why the bounds are enough. Three calls for two keys over two processes give every pairing the
locks distinguish: two tasks of a process on one key with a third coming from the other process,
or competing for the single permit with another key. A generate may report 2 or 3 for a
projection of 2, so overruns happen, and with a limit of 5 reservations are refused. One retry
makes the first and the last attempt different. In the runner three questions in batches of two
leave a rest and make the error window of two slide, two schema errors fill it, one provider error
in a full window stops, and two attempts of two runners follow each other, as a resume, or overlap in
every phase.
Two documents make a snapshot of which one is done and one is not; a budget of 4 admits a plan for
both after one has been paid for twice over and refuses it later; three executions are Standard,
Enhanced, and one more that overlaps or follows them, and one fault hits any step of them. Two
collections die between any two links, meet each other's names with the same or with another
directory, and the targets of 2 documents and 4 pages are met only when both went through. Four
pages cut into chunks of 3 leave one page, chunks of 2 are asked for page by page, and empty pages
occur at the start, in the middle and at the end.
Four chunks of lengths 1, 2, 1, 1 are cut by the tokens under one choice of limits (3 items of 3
tokens: two and two) and by the items under another (3 items of 9 tokens: three and one), and the third refuses
the long chunk as long as it is missing; two builders at a time and four executions overlap, resume
and follow each other with equal and with different limits.
Of three preregistrations two share a cohort, so that a directory can be met by the right, by
another, and by one that only fails at the manifest; two slots are one that is there and one that is not;
three starts are a run, its resume and one that overlaps them. Four items over four tokens have
chains of one, two and three links and fall into one to four components. Two rankings tell which
search was kept, and three screenings are one that dies, one refused by its leftover, and one that goes on.
Two batches and one replacement round make a campaign die before, within and after the round, with
a near duplicate on either side of a question.

Deadlock is checked for the gateway, whose specification has an explicit stuttering step for the
state in which every call has returned. Everything else really may come to rest (attempts, starts and
executions used up, an output published), so those configurations do not check it.

Fairness. The gateway assumes weak fairness of the steps of each call: the event loop runs every
ready task, asyncio locks and semaphores and PostgreSQL's lock queues are first in first out, and
each post ends by its timeout. Nothing is assumed about who starts, is cancelled or crashes. In
the runner, weak fairness of a runner's own steps: an executor ends because the gateway's
retries and timeouts are bounded; operators owe nothing.

### Disagreements with the repository's words

* `PaidRequestRecorded`. The implementation plan (line 18) wants a usage record for every paid
  request. When a response is lost after the provider served the request, the reservation is
  released and no row is written. The README of the repository reports a console bill 100 pages
  above the recorded corpus.
* `DiagnosisRequired`. The task 15 report says that resuming a threshold stop requires a
  diagnosis acknowledgement. The check reads the stored stop reason, which a cancellation during
  the drain, or a budget refusal after the threshold, replaces.
* `EvidenceRetained`. The task 6 report says that a paid response which could not be used is kept
  instead of being replaced with nulls. The failure handler upserts unconditionally, so a later
  attempt that fails before it has a response replaces the kept one.

Other things the models show or had to take as they are, without a run of their own:

* The README calls experiment runners resumable. After a crash the state is `running`, and the
  transition table has no way from `running` to `running`: no `run()` gets past the transition again.
* The build script calls itself resumable and derives the snapshot's id from the contents of the
  dataset. The modification time of the file is not part of the id but is compared by
  `create_snapshot`, so after a copy of the same bytes a partial snapshot can be neither resumed nor
  replaced (`RefusalsExplained` names this reason).
* A campaign's refused response is replayed by the gateway forever, so its batch never succeeds, and
  the gate of a resumed campaign asks for the projection of the whole again.
* `FileBatchRepository.put` checks and then replaces: overlapping campaigns may leave result files that
  differ in their origin (`ReportsAgree` compares what they say).
* The parse costs of a configuration are amortized by group of usage rows, and whether a row was
  cached is part of the group: a question with a cached and a new generate call is charged its share
  twice, although `test_parse_amortization_is_allocated_once_and_marginal_cost_is_incremental`
  (`tests/unit/analysis/test_export_results.py`, line 187) is named after an allocation that happens
  once. `CostRows` has the amounts; `AnalysisSound` does not demand their sum.
* In `export_analysis` an fsync that fails after the rename is reported as an error although the
  output is published (`SyncFails`); a later attempt is then refused.

## 4. Proofs

Of the account, `ProviderGateway_proofs` proves that it stays within its cap plus the reported excess
(`AccountCapHolds`): the invariant is inductive as it stands, because a hold is admitted strictly
below the limit and a charge that exceeds its hold grows both sides alike. Of the ledger it proves
that the gateway's steps implement the account (`LedgerImplementsAccount`): a reservation is a hold,
a settlement a charge of what was held, a release gives it back, and every other step moves no money.
The sums over tables are folds over functions; that one row changes a sum by its difference is
proved once, in `FoldFacts`, and cited for each step. `CapUnlessOverrun` (`CapHolds`) is the image of the account's
cap under this mapping, for any number of concurrent calls.

`ProviderGateway_proofs` proves type correctness (`GatewayTypes`) and the inductive invariant
`GatewayIInv` (`GatewayInvariant`), from `LedgerAssumption` and `GatewayAssumption` alone, and
from it `SingleFlight`, `NeverPaysForCached`, `PaidTwiceOnlyAfterLoss`, `OpenReservationOwned`
and `AnswerAccounted`. None of these is inductive alone. The strengthening says:

* `LockHeld`: whoever is at a step under the lock holds its key's advisory lock. Single flight
  follows, since a lock has one holder.
* `Phase`: what a call has reserved and what the provider did for it, by the step it is at.
* `SettledIsStored`: what was settled as understood and not cut off is stored or about to be
  stored. With `NeverPaysForCached` and the lock this gives `PaidTwiceOnlyAfterLoss`: a second
  call under the lock would have found the response.

`ChargedExactlyOnce` is a property of the ledger's tables, and is proved of the ledger under the
gateway's calls (`ChargedExactlyOnceHolds`): a call writes a paid row in the step that closes its
reservation, and nothing reopens one.

The second half of the module proves the reference counting of `_LocalSingleflightRegistry`
(`RegistryInvariant`), and from it `RegistryReclaimed` and `CoalescedPerProcess`. The invariant
`RegistryIInv` says that a count is the cardinality of the set of users (`UsersCounted`), that the
tasks of a process and key that use an entry use the one the registry holds (`EntryShared`), that
an entry the registry holds has a user (`EntryUsed`), which steps a user can be at
(`EntryByStep`), and that whoever is past an entry's lock holds it (`LocalLockHeld`). The one
delicate step is leaving: the count is 1 exactly if the set of users is the leaver alone, so the
entry is dropped only when nobody of that process and key is left. `FiniteSetTheorems` supplies
the cardinalities; that calls are finitely many is `LedgerAssumption`.

`ExperimentRun_proofs` proves type correctness of the runner (`RunTypes`) and the inductive
invariant `RunIInv` (`RunInvariant`) from `RunAssumption` alone, for any number of runners,
questions, attempts and crashes, and from it `RecordsBackedByResults`, `StateMatchesArtifacts`,
`NeverReexecutesSaved`, `HistoryFaithful`, `ResultsImmutable` and `CompletedIsFinal`.
The strengthening says:

* `RunnersBacked`: what a runner knows, and what it is about to write, has results behind it.
  This holds whatever overlaps, because results are only ever added.
* `CreatedFirst`, `Solo`: nothing runs before the directory is complete, and without an overlap
  at most one runner is active. Together they let the next part speak of the runner.
* `InStep`: what the only runner knows about the directory, by its phase: that the transition it
  will write is legal, that its set of completed questions is the set of results, and that its
  queue, its executing and its failed questions are disjoint from each other and from the results.
* `HistoryInStep`: in which phases the history lags behind the state, by how much.

`ParsePipeline_proofs` proves type correctness (`ParseTypes`) and the inductive invariant `ParseIInv`
(`ParseInvariant`) from `ParseAssumption` alone, for any number of documents, processes, executions
and faults, and from it `NeverReparsesIntact`, `RowsHoldResponses`, `EnhancedAfterStandard` and
`SummaryAddsUp`. Types are inductive only together with `InWork` (who works on a document has one
in hand). The strengthening says:

* `FlightHeld`: the flight of a document is held by who works on it. So a row can become intact
  under a worker only through the worker itself or through a reconciliation.
* `DocsSorted`: hits, new, failed and remaining documents, and the one in hand, are disjoint and
  together all documents. The summary follows.
* `AnswersTrusted`: what a process has in hand or counts as succeeded, and the Standard documents it
  has checked, agree with what the gateway has stored. This survives all interleavings because a
  stored response never changes.
* `Reconciling`: what waits to be written back by a reconciliation is good.

`TurnsBelowBudget` has an invariant of its own, `BudgetIInv`: while executions take turns, what is
settled plus what the current one has left stays below the budget.

The same module proves two neighbours of the pipeline. `CorpusStandsHolds` is about any number of
collectors, output directories and interruptions: in `CorpusIInv`, whatever a collector has published
on its way to linking the PDF is still there when it links it (`JobSound`), because files are only
ever added. `LongDocumentsWholeHolds` is about the merge of a long document, for every page limit,
page count, and answer, and any number of attempts. Its invariant (`LongInv`) says that a stored answer
is to a chunk, or to a page of a chunk that was never asked for whole, so that no page is stored
twice (`KeptApart`), and that the requests of an attempt, those answered and those to come, cover the
pages in turn (`Tiles`). The merge is a fold: `MergeStep` shows that one more response keeps numbers
increasing, HTML and pages in step with them, and elements in the order of the document, provided it
starts no earlier than the last one ended; `MergeResponses` follows it through the responses.

`EmbeddingSnapshot_proofs` proves type correctness (`SnapshotTypes`), the refinement to
`SnapshotStore` (`ImplementsStoreHolds`) and, from the inductive invariant `SnapIInv`
(`SnapshotInvariant`), `SearchesAgree`, `ChunksPaidOnce` and `RefusalsExplained`, all from
`EmbeddingAssumption`. The strengthening says:

* `Behind`: what a builder takes to be missing can only be more than what is, so nothing is
  missing at finalize, and a sealed table is whole (`Sealed`, `Searched`).
* `AnswersInv`: a vector, stored or in hand, is that of a stored response, and a batch has one.
* `Alone`: without overlap the one builder knows exactly what is missing.
* `CutInv`: with one choice of limits, the missing chunks, what any builder takes to be missing and
  every request lie at the `Cuts`: the sets one gets from all chunks by taking batches away. The
  cuts are defined as the least family closed under that step, which makes them provable about
  without induction, and `CutsChain` shows that of two cuts one is what batches of the other have
  left. Hence two different batches share no chunk. The argument uses nothing about token counts.

`GoldRun_proofs` proves type correctness (`GoldTypes`) and, from `GoldAssumption` and the inductive
invariants `GoldIInv` (`GoldInvariant`) and `ExecutedIInv`, `ReportsStayTrue`, `InvalidationIsFinal`,
`ExecutedOnce` and the refinement to `WriteOnceFiles` (`ImplementsFilesHolds`), for any number of
processes, slots, starts and crashes. `GoldIInv` says that the manifest, every stored result and
every process past the manifest agree on one preregistration and that the sealed cohort is the one it
binds, and that the scores a process is about to publish are the stored results of all slots; it holds
in all interleavings, because no file ever changes. `ExecutedIInv` is about invocations one at a time:
a lone process that is about to execute a slot finds it free (`Alone`, `SlotFree`), and what was
executed is stored or in hand (`Accounted`). For the refinement, every step is shown to
leave all files alone or to publish exactly one (`FilesStep`).

The same module proves `SplitsIsolate` for benchmarks of any size (`SplitsIsolateHolds`), assuming only
that items have sequences of tokens (`SplitsAssumption`). Parents are never above their children (`Forest`), so
every item has a root, and a merge moves exactly the items of one root to another (`UnionRoots`). Through
the fold over items and tokens, what has one root stays inside every set closed under sharing
(`JoinSound`) and what shares a token gets one root (`JoinedTo`): the components are the chains
(`ComponentsLeak`). Dealing is a fold too, whose steps keep the snapshots disjoint, the components
whole, the sizes within the largest component of each other, and fill one empty snapshot as long as there
is one (`Fair`, `Filled`).

`Screening_proofs` proves type correctness for all interleavings (`ScreeningTypes`) and, from the
inductive invariant of invocations that do not overlap (`AloneIInv`), `SearchedOnce`,
`EvaluationsAgree` and `StrandedOnlyByFault`, from `ScreeningAssumption` alone. The strengthening
`Progress` says that the loop stands at the first question that is not complete, that the record a
process is about to write is the checkpoint but for its one change, and that whoever evaluates does so
on a complete checkpoint; the counting of searches is one more conjunct. That there is a first
incomplete question is proved by the well-foundedness of the subset order on the questions.

The same module proves the two functions the stage is made of, for inputs of any size.
`AnswersGroundedHolds` is about every question, whatever the branches find, the source resolves and
the model writes (`AnswerAssumption` has the types only; a ranking names no chunk twice):

* Over the common denominator a better rank has a larger term, since one factor of the product is
  replaced by a larger one (`Times` and `Term`, followed through the fold). So a chunk that is ahead
  of another in every branch has the larger score.
* The order of scores is strict and total, hence in the fused ranking each place has one chunk
  and each chunk one place, and better chunks come first. The hits are its first `top_k`.
* What the source returns is the hits in some order; put in the order of ranks they are the hits, and
  the context is a prefix of them. What precedes a chunk of a prefix is in it.

`SelectionsBestHolds` is about every whole grid, of any number of chunk strategies, and any number of
generation outcomes (`SelectionAssumption`):

* The ranked families are all families, each once (`Ranked` as a fold).
* The greedy choice refuses a family only if the shortlist is full or a cap is reached. A diverse
  set that agrees with it before its first unshared family cannot take one that was refused.
* A shortlist of every size exists. Were the greedy choice to end short, each family left out would
  have its mode or its retriever at the cap; two modes, three retrievers and as many
  strategies in each cell leave no room for that (counting cells against `Cap`).
* `BetterValue` is a strict order on outcomes with different hashes, so a finite competitive set
  has one that none is better than; it is among the three.

`ExperimentRun_proofs` also proves the inductive invariant of the exporters (`ExportInvariant`) and
`PublishedWhole` for any number of exporters, requests and attempts: whoever is past the lock holds
it, so that nobody publishes between the check that the output is absent and the rename; what is
staged grows and is described only when it is whole; what is published is never touched again. The
assumption there is that `None` is neither an exporter nor a staged directory.

Of the tables it proves `AnalysisSound`, for any evidence, tax and amounts billed. The assumption
(`AnalysisAssumption`) is what the fields of a row allow: scores, times and costs are not negative.

* Merged rows are rows of the parts, so the merged bundle is as good as they are. The groups of a
  table partition the rows, and the sums of the groups add up to the sum of the rows (`GroupsAddUp`,
  a smallest set of rows without that property leads to a contradiction). So no call, cost, result or
  failure is lost or counted twice; that a pair's cohorts are the same is a relation of the bundle.
* Values have places in their order, one each (`Placed` in `FoldFacts`), so `Sorted` is sorted.
  Interpolation between neighbours grows with the position (`BetweenGrows`) and stays between them.
* Round after round is a strict total order too; a sample is the first places of it (`FirstPlaces`), so
  all that is before one of its members is in it. The last one taken of a stratum is then of no later round
  than the first one left of another, and the rounds before count what was taken of each.
* A configuration that the fewest others beat, among those at least as good as a given one, is
  beaten by none; so the frontier is not empty and beats the rest (`Beaten`). It can be put in order
  (`FrontierOrdered`), and of two neighbours neither beats the other: more quality has its price.

`BenchmarkCampaign_proofs` proves, from `PlanAssumption` and `CampaignAssumption`, `ConfirmedScope`,
`ReportsAgree` and `RejectionsOnMerit` for any quotas, windows, drafts and rounds, and any number of
processes that overlap, die and are started again. The argument:

* The gateway has one answer for one batch. So the answers given so far determine, from the empty
  start on, what every process asks for next: all positions lie on one trail, and the invariant
  (`CampaignInvariant`) says that what a process has in hand, what was written and what was answered
  are places on that trail.
* The trail has one end. Two reports are both at that end, hence equal (`ReportsAgree`). Its
  places are different batches, so that there are no more of them than rounds were confirmed
  (`ConfirmedScope`).
* `RejectionsOnMerit` is about the planner and validation together. What the plans ask for fits
  under the caps that validation applies, for each kind, document and unanswerable ratio; then the caps
  never bite and the verdict on a candidate is that on the candidate alone (`OnMerit`). Planning and
  validation are folds; that each of their steps keeps the counts is proved step by step.

Folds over data. `FoldLeft` of the community modules is defined by a choice of a function on sets of
positions. `FoldFacts` proves, without an induction theorem, that such a function exists and that
the fold is the last of the values one gets from the base, one element after the other
(`FoldTrace`, `FoldUnique`, `FoldLast`): were there a set of positions without a solution, there would be a
smallest one. `IntervalInduction` there is induction for a set of numbers, which needs no
operator as a parameter. A module that proves about a fold instantiates `FoldFacts` with the fold's
operation. The sums of a table (`SumFunctionOnSet`) are folds over a set: that they exist, and that one
member can be set apart, is shown there in the same way (`SumsExist`, `SumSplit`), as is that a finite
strict total order has one member at every place (`Placed`).

`RegistryReclaimed`, `CompletedIsFinal`, `SummaryAddsUp`, `SearchesAgree` and the type invariants are
theorems of which no run lists the property: they follow from invariants the runs and the proofs already
establish, and hold for every value of the constants.

Only model-checked: liveness (`EveryCallReturns`, `RunnerReturns`), which depends on fairness and
ENABLED.

## 5. Not modelled

* Pricing and the judges, metrics, bootstrap and taxonomy of `evaluation/`: arithmetic on decimals and
  floats, one value at a time, without state. The gateway takes prices, the gold run takes scores as inputs.
* Chunking: a function from the text of one document to pieces of it, over a library's tokenizer.
  BM25 scoring: floating-point arithmetic; hybrid search takes its ranking as an input. The
  normalizer: the clean-up of text.
* Review samples and the adjudication of reviews (`benchmark/splits.py`), the human review files of
  generation, the wording rules of validation (one flag of a draft), and prompts: text, or one pass over it.
* The dry-run plan and the cost sums of experiments: pure functions of a configuration. The models of
  `experiments/config.py` validate fields.
* The public export of a manifest, drawing and file formats of an analysis.
* Command line, HTTP API, settings, hashing and identifiers: arguments are passed on, keys are model values.
* The database schema and sessions: PostgreSQL appears as the atomicity of a transaction and as
  advisory locks. The checks that guard files against links and permissions are left out as well.

Two listed hazards have no property. Two creators of one experiment can both find the directory of
its hash absent and make a run each; `ExperimentRun` is about one run directory and takes the check
and the mkdir as one step. A response that the embedding service refuses is stored by the gateway
first and replayed: `EmbeddingSnapshot` has the state (`Rejected`), but nothing the code promises is
violated by a build that stops with an error.
