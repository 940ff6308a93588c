# A verification model of WALDO

WALDO (`src/`) is a single Go binary that ingests text into content-addressed
shards, keeps an index of them, and trains, continues, evaluates and exports
language models from those shards with Python workers. What can go wrong in it
goes wrong in two places: in *durable state*, JSON files and directories that
several steps, processes or restarts must leave consistent, and in *pipelines*
of goroutines, processes and ranks that must neither reorder, lose nor wait for
ever. That is what this directory models: TLA+ modules translated from the
source, TLC configurations that check them on small instances, and proofs
checked by TLAPS.

    tlc -workers 2 -config MCTraining_training.cfg MCTraining
    tlapm ModelComposeProofs.tla

`PROJECT.json` lists every component, every run, the source lines behind every
definition (`map`), for every property a mutation of the code it detects
(`mutants`), the hazards of the code and the properties that watch them.

Contents: 1 inventory, 2 modules, 3 runs and bounds, 4 fairness, 5 proofs,
6 where the code and its documentation disagree, 7 what is left out, 8 plan.

## 1. Inventory

| part | state it keeps | operations | hard behaviour | what makes it correct | module |
|---|---|---|---|---|---|
| **Source adapters, probe, plan** `ingest/corpus_directory.go`, `probe.go`, `plan.go`, `text.go`, `jsonl.go`, `record_map.go`, .. | the files of a corpus directory, an accepted plan | load, list, probe, plan, read, convert | files edited between any two of these | what is converted are the pinned bytes, each once and in order; an undisturbed input is not refused | InputConversion |
| **Assembly** `ingest/assemble.go`, `dedup.go` | `.waldo-shard-*` temporaries, `objects/<digest>.parquet` | stream rows, deduplicate, fill, verify and stage shards | bounded verification pipeline, cancellation, kills | shards reach the sink in order, every new row once, nothing partial stays | ShardAssembly |
| **Recovery journal and publication** `ingest/journal.go`, `progress.go` | `INGESTION.json`; a queue, workers, a collector | load, reuse, assemble, publish, journal, unstage | kills between journal and unlink, changed publisher | no object lost, journal truthful, every interruption resumable | IngestPublication |
| **Lookaside publishers** `lookaside/file.go`, `s3.go`, `remove.go` | the remote stores | Publish, Verify, Remove | a removed object | objects are immutable and never partially visible | PublicationContract |
| **Lookaside cache** `lookaside/cache.go`, `inspect.go` | local objects, in-use sets, modification times | fetch, repair, prune, purge, clean | several processes, each knowing its own in-use set | what is read is what was asked for; a failure has a cause | LookasideCache |
| **Contribution** `ingest/stage_contribution.go` | overlay directory, checkout | stage, check, apply file by file, roll back | a kill or a failing rollback between two files | success is walkable, a failure restores, nothing applied is unlisted | IndexContribution |
| **Index checkout** `git/managed.go` | a Git checkout | clone, fetch, status, reset | edits, rewritten upstream, kills in a reset | a refresh discards no work; a clean bill is of its revision | IndexCheckout |
| **Bills of materials** `corpus/bom.go`, `bom_validate.go`, `policy.go`, `record_filter.go`, `distribution.go`, `model/recipe.go`, .. | the document of a selection | walk, pin, expand, validate, materialize, attest | license policies, rollups, overlapping paths | exactly the wanted shards and records, totals that are theirs | BillOfMaterials, RecordFilter, LicensePolicy |
| **Verification pools** `shard/canonical.go`, `corpus/availability.go`, `cli/index.go`, `ingest/probe.go` | a table of record ids | verify, audit, stream, probe | feeder, workers and collector, early errors | the verdict is that of the shards | ShardVerification |
| **Record streams** `training/stream.go`, `prefetch.go` | shuffle windows, one goroutine per corpus | shuffle, merge, hold out, prefetch | goroutines of any speed, cancellation | the order is the seed's on every node | CorpusStream |
| **Held-out selection** `training/stream.go`, `model/build.go` | selection cache, `PREFLIGHT.json` | scan, select, reuse, count | parallel scan, kills, stale caches | the split depends on corpus and policy alone | StagePreflight |
| **Packing** `training/stream.go`, `protocol.go` | buffered tokens | count, pack | overlap tokens, masks, rounding | the plan counts what is packed | SequencePacking |
| **Prepared cache** `training/prepared_cache.go`, `protocol.go` | chunk files and a manifest per node | build, commit, replay | overlapping attempts, kills, damage, limits | a replay is the stream it replaces | PreparedStream |
| **Worker calls** `training/python_worker.go` | a child process and its pipes | feed, read frames, stop, drain | early stop, orphan ranks, cancellation | true outcome; returns | WorkerProtocol |
| **Ranks** `training/workers/pytorch.py` | trainers, collectives, checkpoint states | restore, replay, step, evaluate, report | branches with collectives, partial batches, relaunches | collectives agree, every sequence consumed once | RankTraining, RankState |
| **Multi-node launch** `cli/model_hostfile.go`, `cli/model.go` | processes on other hosts, plan files | launch, plan, acknowledge, rendezvous, stop | failing, hanging and late hosts | one run everywhere, nothing left running | HostLaunch, LaunchState |
| **Run record** `model/build.go`, `records.go`, `observation.go` | `RUN.json`, `MODEL.json`, `MODEL-BOM.json`, checkpoints | start, record, finish, recover, resume | three files per write, kills between any two | history only grows, pins are on disk, a checkpointed run completes | RunProgress |
| **Compose transactions** `model/build.go`, `compose_history.go`, `corpus_history.go` | workspaces, name lock, archive, runs | plan, lock, initialize, train stages, finish | concurrent commands, kills | one trainer, unbroken lineage, stages in order and once | ModelCompose |
| **Model root** `model/pull.go`, `management.go`, `modelexport/*` | model and release directories | pull, remove, train, export | no lock, kills | a name is a whole model, a release one model | ModelDirectories |
| **Configuration** `config/config.go`, `cli/config.go` | one file | set, unset | no lock, dependent keys | every command loads it | Configuration, ConfigurationFile |
| **Forecasts, advice, telemetry, inference loop, evaluation gates, disclosure, signing, host probing** | none that decides anything durable | – | – | – | – |

How the parts interact:

* `waldo index ingest` loads and probes the files (InputConversion), assembles
  them into staged objects (ShardAssembly), hands these to the publication (a
  call), which hands them to a publisher (calls from worker goroutines)
  (IngestPublication); the finished publication is staged and applied as a
  contribution to an index checkout (IndexContribution).
* `waldo model train` refreshes the checkout (IndexCheckout), builds the bill of
  materials (BillOfMaterials), fetches objects through the cache
  (LookasideCache), plans a compose against the model directory, takes the name
  lock and calls `Train` for each stage (ModelCompose). `Train` selects the
  held-out records and counts the steps (StagePreflight, SequencePacking) and
  starts an attempt (RunProgress), on one host or several (HostLaunch). The
  attempt streams records (CorpusStream), or its prepared share (PreparedStream),
  to a worker process (WorkerProtocol), whose ranks train (RankTraining) and
  report through a pipe; each report rewrites the durable record. The next
  invocation reads these files and nothing else.
* The cache, the checkout, the model root and the configuration are shared by
  all commands without a lock.

The hazards, each at its line, are `PROJECT.json` "hazards".

## 2. Modules

An `MC` module composes the modules of one run (section 3). A component with
theorems has them in `<Component>Proofs`, which extends it. Where an `MC` module
only instantiates such a component, its state and what is promised of it are in a
module of their own (ConfigurationFile, LaunchState, RankState), which both extend: what
TLC checks is then the very definition that is proved.

### IngestPublication, with PublicationContract

One staging directory, its `INGESTION.json` and the stores; one invocation of
`ExecutePublication` at a time, killed and repeated.

| in the model | in the code |
|---|---|
| `journal` (status, assembly, base, objects) | `RecoveryJournal`: `Status`, `Assembly != nil`, `Publication.BaseURL`, `Publication.Objects` |
| `staged`, `partial` | `staging/objects/*.parquet`, `.waldo-shard-*` |
| `remote[b]` | what the store at base URL `b` holds |
| `pc`, `base`, `built`, `pubs`, `next` | where the invocation is, its publisher, staged shards, in-memory `publication.Objects`, position of the queueing loop |
| `jobs`, `worker`, `outcomes`, `collecting`, `failed` | the two bounded channels, the goroutines, the collector between journal and unlink, `firstErr`/the cancelled context |
| `Start` .. `Refuse` | the reading of the journal and the early returns of `ExecutePublication` |
| `OpenShard`, `StageShard`, `FinishAssembly`, `FailAssembly` | `ExecuteAssembly` as seen from the journal |
| `Enqueue`, `Take`, `PublishObject`, `SendOutcome`, `CollectPublished`, `Unstage`, .. | one action per channel operation, upload, journal write and unlink |
| `Crash`, `Interrupt`, `RemoveRemote` | a kill, Ctrl-C, `waldo lookaside remove` |

An object is the number of its shard: assembly is deterministic, so the number
stands for digest, size and sequence. A journal write is atomic (temporary file
and rename). `Init` includes the journal a former streaming publisher left.

`PublicationContract` is what a reader of the stores is promised: stores fill,
and the object set is announced once, for a store that holds all of it.
`ImplementsContract` states that journal, workers, kills and repetitions refine
it under `stored <- remote`, `announced <- journal.base` once published. The
refinement is stated for an operator who removes nothing.

### IndexContribution

What `waldo index ingest` does to the checkout once its objects are published.
A directory stands for its path, and a navigation document is the set of
directories it lists; a destination's own document lists the destination, which
stands for its manifest.

| in the model | in the code |
|---|---|
| `tree`, `dirs` | the files and the directories of the checkout |
| `late` | the directories whose name sorts after `index.yaml`: a document is written before what is below such a directory, and after what is below another |
| `overlay` | the plan's `contribution` directory beside its staging |
| `Above[d]` | the directories on the path of `d` |
| `cmd[c]` | the command of the plan for destination `c`: `targets` is `result.Files` and `result.Removed`, `old` the originals read before the first write, `left` what the write or rollback loop has not reached, `botched` whether a rollback step failed |
| `Rank`, `Target` | the order of `result.Files`, which is lexical, with the removals last: the next file of either loop is the least left |
| `Check` | `CheckContributionDestination`, before anything is published |
| `Stage`, `Refuse` | `StageContribution`: the ancestor to hang from, the new documents, the superseded one, the comparison with a retained overlay |
| `Snapshot` .. `RolledBack` | `ApplyContribution`, one file operation per step |
| `Walkable` | `WalkCorpora` from the root, with `LoadDirectory` and `EntryPath` |
| `Kill` | a kill between two file operations, or after the directories of a file were made |

The write of one file is atomic (temporary file and rename). The objects a
manifest names are IngestPublication's; publication lies between `Check` and
`Stage`.

### RunProgress

One training run from its planned record to its end, over any number of
attempts. `loss` fixes the held-out loss of every optimizer step: training is
exact (ADR 0029), so a repeated step measures the same value again.

| in the model | in the code |
|---|---|
| `runFile`, `pinFile`, `stamped` | `RUN.json`, the run's pin in `MODEL.json`, whether `MODEL-BOM.json` describes that `MODEL.json` |
| `bundles` | committed directories in `artifacts/checkpoints` |
| `run`, `pin`, `stale` | the `RunRecord` and `RunPin` of the attempt, `progressErr` |
| `worker`, `pipe`, `verdict` | the worker's loop, what it has written and nobody has read, how it ended |
| `Recover`, `Begin` | `recoverAbandonedComposeRun`, `executeTrainingAttempt` |
| `WriteRun`, `WriteModel`, `WriteBOM`, `WriteFails` | the three writes of `persistRunAndPin`, any of which may be the last |
| `RecordCheckpoint` .. `RejectEvent` | `persistTrainingEvent`, `updateDurableEvaluation` |
| `CompleteRun`, `FailRun` | `mergeProgress`, `validateBackendObservation`, `interruptedTrainingError` |
| `TrainStep` .. `ReportComplete` | the loop of `pytorch.py` / `mlx.py`: `EveryEvaluation` selects which evaluations are bundled |
| `Inspectable` | the part of `Inspect` that rejects a run a killed process left |

### ModelCompose

Processes that run `waldo model train NAME COMPOSE` for the same model. `txn`
is the workspace with its `COMPOSE.json`, `bare` a workspace without it,
`model` is partial between the rename of the new directory and the copy of its
base weights, `torn` says that the archive holds a file that was never written
out, `runs` is the history in `MODEL.json`. What one attempt does to a run is
one step here; RunProgress has its parts, and the states in which it can leave
a run (`planned`, `running`, `interrupted`, `failed`, `complete`, with or
without a checkpoint) are the ones this module starts from. `Plan` runs
without the lock, as in the CLI; `Lock` does not wait; `Kill` releases the lock
as the kernel does.

### HostLaunch

One multi-node command. `setup` says whether it has a hostfile (`managed`), its
first stage, whether it resumes, and on which hosts the corpus copy differs.
`phase` is where the primary is, `current` its run,
`link`/`input`/`inbox`/`ready` are the ssh process
of a worker and what is on its way, `remote`, `task`, `last` the worker process,
`board` the plan file of the shared model root. LaunchState declares the part of
this that the properties speak of, HostLaunch the rest and the steps. One action per call of
`startHostfileSession`, `publish`, `finish`, `abort` on the one side and of
`runSecondaryStreamPlans`, `awaitMultiNodePlan`, `runSecondaryStages` on the
other; `FormGroup` is torchrun's barrier, where `pytorch.py` compares the run
identifiers of all ranks. A host may fail anywhere and hang before it
acknowledges; a primary without a hostfile may be killed (`KillPrimary`), which
leaves its plan file until the operator removes it (`RemoveLeftover`).

### RankTraining

The ranks of one run. `rank[r].at` is the next collective or local step of a
rank, `disk` the committed checkpoints with each rank's consumption, `base` the
step the launch resumed from. `Collective(c)` fires when every rank waits in
`c`; `Fail(r)` kills one, after which the launcher stops the others and
`Resume` relaunches. Both data planes (rank 0 or one rank per node reads the
input) and the padded final batches are there. `job` is the launch as the launcher
sees it. RankState declares `plan`, `rank` and `job`, which the agreement on
collectives speaks of, RankTraining the rest and the steps.

### CorpusStream

`Producer(g)` is one corpus's goroutine, which shuffles through its window of
records; `Merge` the loop that hands on the record of the corpus with the fewest
tokens; `Reader` the consumer behind the prefetch queue, or preflight, which
reads directly; `LeftBehind` a goroutine that a cancelled pass has abandoned.
`Records` are pairs of corpus and row, one row per shard. Passes that
deliver nothing are not among the initial states (section 6).

### PreparedStream

`shape` is a topology (nodes, processes, micro-batches, accumulation, steps) and
the length of the stream; `Share` is what a node sends for it. An attempt packs
its input, or replays the committed directory of chunks from a checkpoint; its
builder writes what it packs into a temporary directory, which a second builder
removes as stale. Chunks may be damaged, attempts killed at any step, also
inside the removal of an oversized cache.

### StagePreflight and SequencePacking

StagePreflight follows an attempt through `build.go`: reuse of an earlier
run's `PREFLIGHT.json`, the selection cache, else the parallel scan
(`FeedScan`, `ScanInput`, `CollectScan`) into one bounded heap per corpus,
selection under one of the policies, counting of steps, and the record of the
run. Two attempts follow each other, with corpora whose record filters differ.
SequencePacking is the counting (`PlanRecord`, `PlanPassEnds`) against the
packing (`EmitRecord`): a record is its loss mask.

### WorkerProtocol, ShardAssembly, ShardVerification

Goroutines over bounded channels and pipes, one action per channel or pipe
operation. WorkerProtocol has the launcher process, a rank that inherits its
pipes, and `runWorkerCommand` with its reader, waiter and watcher, or
`runWorkerStreamJoin` (mode `join`). ShardAssembly has the row stream with its
deduplication set, row groups and targets, and the pool between `jobs` and
`outcomes`; a row is its content. ShardVerification has five variants of a pool
(`kind`), shards with flaws, and the table of record ids of an audit.

### InputConversion, BillOfMaterials, RecordFilter

InputConversion has a file system of inodes that somebody edits, truncates,
replaces or deletes while `Load`, `Walk`, `Probe`, `NewPlan`, `OpenInput`,
`ReadHead`, `ReadTail` and `Finish` go on; a file is its kind and a tail, except
that large text is the byte widths of its characters, read in chunks.
BillOfMaterials has an index of manifests, rollups with sub-manifests, license
expressions and policies; `Validate` is `bom_validate.go`. RecordFilter goes on
from a bill: the filters a recipe declares are resolved to the selected paths and
validated, the review of a distributable selection accepts licenses and sources,
fields that old shards lack are announced, and then each object is read and each of
its records kept or skipped. A pattern of either policy is the set of values it
hits (LicensePolicy), a date an interval, metadata at most one map.

### LookasideCache, IndexCheckout, ModelDirectories, Configuration

Several processes, one file-system call per step, killed anywhere. In the cache
an object is good, bad or absent, `age` is the order of modification times,
`directory` the fan-out directories; `serves` says which of the candidates
have the true bytes; `disturbed` are the commands from which another one took
something they relied on. A checkout is `head` and a worktree of file versions;
`remote` is a branch that may be rewritten. A model is a version and its
weights by path; a directory is its plan, record, bill and weights, each a file
that may be missing. A configuration is the keys that depend on each other and
one that does not.

## 3. Runs and bounds

| run | shows | distinct states |
|---|---|---|
| `recovery` IngestPublication | 3 objects, 2 workers, 2 faults, one publisher: every unstaged object is journaled; the contract is implemented; a repeated command ends published | 38k |
| `stores` IngestPublication | 2 publishers, 1 removal, 2 faults: journal truthful, nothing lost, success verified | 112k |
| `training` MCTraining | RunProgress on MLX's cadence with all crash windows, and on PyTorch's with liveness; HostLaunch with 2 hosts and 2 stages; RankTraining with 2 ranks | 571k |
| `compose` MCCompose | ModelCompose with 2 processes; with 1 process, 3 stages, 3 faults; with 1 process that repeats the command | 234k |
| `data` MCData | InputConversion, IndexContribution, BillOfMaterials, RecordFilter, StagePreflight, SequencePacking | 2.7M |
| `streams` MCStreams | CorpusStream with 2 corpora; PreparedStream with 2 attempts | 262k |
| `pipelines` MCPipelines | ShardAssembly, WorkerProtocol, ShardVerification | 436k |
| `unlocked` MCUnlocked | LookasideCache, IndexCheckout, Configuration with 2 commands, ModelDirectories with 3 | 2.8M |
| `baseswitch`, `torn`, `mlx`, `chunks` | violations, section 6 | |

An `MC` module is a disjoint union: a variable (`side`, `station`, `place`) says
which of its modules a behaviour belongs to; the others stay as they began, or
their variables hold a dummy where their properties are guarded by that
variable. The modules of one `MC` module share no state in the code either, or only
files that one has finished before the other reads them. Where two sides are the
same module (`Resumed`, `Alone`, `Retried`), only constants differ. The properties
of such a run are conjunctions of named parts of the modules; where a module
states a type invariant that is not proved, it is one of the conjuncts. A property
of a module that one side is about only holds trivially on the others.

The bounds are named constants and only cut *how often* something happens.

* IngestPublication: two workers are the least with which one may be uploading
  while another reports; three objects leave one queued while both are busy; two
  faults are a kill and a failure while recovering from it.
* RunProgress: five steps with evaluation every 2 and checkpoints every 5
  (`record`) give steps that are evaluated, bundled, both or neither; with
  checkpoints every 3 (`resumed`) the last step is on neither interval. Two
  losses give a better, an equal and a worse evaluation. `PipeBound` 2: a worker
  one checkpoint and its evaluation ahead.
* HostLaunch: 2 hosts, one of which may differ, fail or hang while the other
  goes on; 2 stages, so that a worker gets a second plan; 3 runs, one repeated;
  1 fault.
* RankTraining: 2 ranks on one node or on two; streams of 3 and 5 sequences, so that the
  last batch is whole or partial for each accumulation; 2 faults.
* ModelCompose: three stages give a first, a middle and a last one; `MaxRuns`
  leaves room for a new run after each fault; three faults build a history over
  several transactions.
* IndexContribution: two destinations of one group that does not exist yet and
  one below the root; every sort order of names; `AtOnce` 1 (section 6).
* InputConversion: two files of ten kinds, one edit; two large texts, one whose
  character straddles the end of a chunk. BillOfMaterials: two
  manifests, one a rollup, three shards with a simple, a compound and a
  malformed license; one fault. RecordFilter: up to two selected manifests with up to two
  objects, rows that differ in every field a filter reads, every shard format, filters
  of one path and of one above it. StagePreflight: five records in three shards of
  two corpora, two attempts, one fault. SequencePacking: up to three records of
  five masks, sequences of 1 to 3 tokens, three passes.
* CorpusStream: 2 corpora, up to 4 records together (`FewRecords`), a long and a
  bulky one, shuffle windows of 2, a prefetch queue of 1, 1 fault.
  PreparedStream: 2 nodes, 2 processes or 2 micro-batches per step (`OneDivision`),
  2 steps, 5 sequences, chunks of 2; attempts overlap on streams of 2 (`OverlapBound`)
  and begin in the order of their numbers, which are interchangeable (`InOrder`).
* ShardAssembly: 5 rows over 5 contents, one long, 2 workers, 1 fault.
  WorkerProtocol: 3 records, 2 steps, buffers of 1, 1 misbehaviour.
  ShardVerification: 3 shards, 2 workers, id batches of 2, 1 flawed shard, 1 fault.
* LookasideCache: 2 objects, one of two units, room for 2, 2 places to fetch
  from; `FewObjects` keeps the smaller object available. IndexCheckout: 2 files, 3
  commits, 1 edit. ModelDirectories: 2 names, 3 models. Configuration: 4 commands
  by 2 processes. 1 fault each. The commands of the checkout, the configuration
  and the model root are interchangeable (`SYMMETRY`); nothing temporal but two
  action properties is checked there.

`TornWrites`, `OrphanBundles` and `MetadataCrashes` open windows of one or two
system calls. The safety properties are checked with them open; `torn` needs only one of them. `Resumed` and `Retried` close them, because
with one open the liveness they check does not hold (section 6); they then show
that nothing else stands in the way of completion.

Deadlock is checked in `stores`. In the other runs it is not: commands,
attempts and streams end, and a completed run, a finished compose or a checkout
that lists every destination is at rest. There the liveness properties
(`EventuallyPublished`, `ResumedRunCompletes`, `EveryLaunchEnds`,
`RepetitionFinishes`, `StreamsEnd`, `EveryCallReturns`) tell rest from standstill.

## 4. Fairness

Weak fairness only, and never of a failure, a kill, an edit or a cancellation;
every budget of those runs out, which is the assumption that the machine
eventually stays up.

* Goroutines (IngestPublication, ShardAssembly, ShardVerification, CorpusStream,
  WorkerProtocol): the Go scheduler runs every runnable goroutine, and a channel
  operation that can proceed stays enabled until it does. Reading, writing and
  uploading end. `MCPipelines` assumes less: of each pipeline only that *some*
  goroutine goes on while one can.
* Processes and timers: in WorkerProtocol the drain timeout expires and the
  kernel delivers a kill; a worker is not assumed to make progress. In HostLaunch
  the primary, the workers and the ssh processes run; a hung worker does not. In
  RankTraining a rank takes its local steps and a collective that all ranks have
  entered returns. In PreparedStream each attempt goes on.
* Repetition: `RetrySpec`, and the sides `resumed` and `retried`: in
  addition the operator repeats the command. Without this a killed command stays
  killed, and nothing could be promised. In HostLaunch and RankTraining nobody
  has to repeat anything: the claim is that each launch ends.
* The modules without a fairness condition (cache, checkout, model root,
  configuration, input, bill, preflight, packing, contribution) claim safety only.

## 5. Proofs

Eight modules hold theorems, each about one component and for every value of its
constants. A run shows the same property on a small instance; the table says
under which hypothesis, beyond the named ASSUMEs, each theorem holds.

| theorem | says | hypothesis |
|---|---|---|
| **IngestPublicationProofs** | | |
| `TypeCorrect` | `[]TypeOK` | |
| `SuccessIsVerified` | `[]SuccessVerified` | |
| `JournalIsTruthful` | `[]JournalTruthful` | |
| `NoObjectIsLost` | `[]NoBytesLost` | |
| `InterruptionIsRecoverable` | `[]UnstagedIsJournaled` | one base URL |
| `ContractIsImplemented` | `ImplementsContract` | no removals |
| **RunProgressProofs** | | |
| `ProgressInvariant` | `[]IInv` | |
| `RecordsAreTrue` | `[]RecordIsTrue` | |
| `BestCheckpointIsPublished` | `[]BestIsPublished` | |
| `HistoryGrows` | `HistoryOnlyGrows`, an action property | |
| **ModelComposeProofs** | | |
| `ComposeInvariant`, `TypeCorrect` | `[]IInv`, `[]TypeOK` | |
| `TrainingIsExclusive` | `[]OneTrainer` | |
| `LineageIsIntact` | `[]LineageIntact` | |
| `HistoryIsAppendOnly` | `HistoryAppendOnly`, an action property | |
| `EveryStageOnceInOrder` | `[]StagesOnceInOrder` | one value of `--audit` |
| **ConfigurationProofs** | | |
| `ConfigurationInvariant`, `EveryCommandLoads` | `[]IInv`, `[]ConfigurationLoads` | |
| **LookasideCacheProofs** | | |
| `CacheInvariant`, `CommandsShareTheCache` | `[]IInv`, `[]CacheIsSound` | |
| **HostLaunchProofs** | | |
| `LaunchInvariant`, `EveryLaunchTrainsOneRun` | `[]IInv`, `[]HostsTrainOneRun` | `LaunchConstants` |
| **IndexContributionProofs** | | |
| `Invariant`, `TypeCorrect` | `[]IInv`, `[]TypeOK` | one command at a time |
| `RollbackRestores` | `[]FilesRestored` | one command at a time |
| `SuccessWalks` | `[]SuccessIsWalkable` | one command at a time |
| `AppliedStays` | `AppliedStaysListed`, an action property | one command at a time |
| **RankTrainingProofs** | | |
| `RanksInvariant`, `RanksAgree` | `[]IInv`, `[]CollectivesAgree` | `RankConstants` |
| `CompletionIsEvaluated` | `[]CompleteIsEvaluated`, a part of `RanksConsumeWhole` | `RankConstants` |

The hypotheses are needed. With two base URLs `UnstagedIsJournaled` is false (run
`baseswitch`), and a removal takes back what the contract's stores were given;
with two values of `--audit` a run that could be resumed is left behind (section
6, 5), and with two processes, which `StagesOnceInOrder` itself excludes, a stage
can be trained twice (11). `LaunchConstants` only says that there is a host and a
stage, that the hosts are finitely many, and that the bounds on runs and faults
are numbers with room for a run of every stage. Two contributions at once lose a
corpus from the index (12), so `AtOnce = 1` is assumed of what the code does not lock;
the directories are any finite tree. `RankConstants` says that ranks,
accumulations and the length of the stream are positive (`profile.go` refuses a run
without a step) and intervals are numbers.

The arguments, by component. No property is inductive as it stands; each module
begins with the invariant `IInv` it follows from.

**Publication.** That the journal is true depends on what the collector is about
to write, which depends on what a worker has sent, which depends on what it has
uploaded. `Control` ties the local state to `pc` and the journal (until the
publication starts, what has been built is staged; while publishing, the journal
lists no more than `pubs`; an object the collector is about to unstage is in the
journal). `Stored` says that whatever the invocation has learned - an `ok` worker,
an `ok` outcome, an entry of `pubs` - its store holds, or has lost to a removal
since. The other invariants relate durable state to durable state and are inductive
relative to `IInv`. The refinement maps every upload to `Store`, `Complete` to
`Announce`, and everything else to a stutter.

**Run record.** A claim travels from the worker's memory through the pipe and the
attempt's record to `RUN.json` and then to the pin. The invariant has one conjunct
per link: what the worker claims or has sent is committed (`CommittedFirst`), what
the attempt holds extends what is on disk (`HistoryKept`), a pin names a recorded
checkpoint (`PinsRecorded`), a living worker knows all that was recorded of it
(`WorkerKnows`), which is what makes the earliest of the best checkpoints the
same for both, and no evaluation is reported before a checkpoint is
(`CheckpointFirst`), which is why a completed record always has one to publish.
`TornWrites`, `OrphanBundles` and `EveryEvaluation` are arbitrary.

**Compose.** `IInv` says who holds the lock (`HolderOnly`), what its newest run is
(`RunOfProcess`), that older ones do not run (`NewestRuns`) and that a stage being
trained is one of the request. All steps are `Moves` of one process: it waits,
locks, works or leaves; the history changes in its newest run, or by one more. Exclusion,
lineage and history follow for any number of processes. `EveryStageOnceInOrder`
needs the whole story of one transaction, `InOrder`: when it opens, stages 1 to k
are trained and it is for all others; the runs behind its start are those of stages
k + 1, k + 2, .., all but the newest complete; a run that is not over is the newest and
belongs to it; and what the process planned without the lock is still so
(`Knows`). The arithmetic - that the i-th stage of the request is stage k + i,
that completing or dropping a transaction leaves a prefix of the stages trained -
is in the lemmas on `StageAt`, `TrainedPrefix` and `OrderContinues`.

**Configuration.** The file becomes what some process has loaded, changed and
written aside, so the invariant carries validity through these three places, and
knows of each operation which dependent keys it drops.

**Cache.** What a command does to the disk it does to an object it does not use
itself or gives up in that step; what it takes from others marks them `disturbed`.
The invariant says of each command what it relies on, of itself (`Local`) and,
undisturbed, of the disk (`Undisturbed`). There is one step per action for the command
that acts, and one argument for all the others.

**Launch.** The properties speak of the moment of the rendezvous and of the
return. The invariant follows a host through a stage: `Fresh` (no plan of this run
has reached it), `Sent` (it is on its way or taken up), `Acked`, `Trained`; where
the primary is, and whether its loop has reached the host, say which.

**Contribution.** While a command writes, the checkout is neither what it found nor
what it makes. The invariant (`IInv`, for one command at a time) gives the mixture:
every target is what it was in `old` or what the overlay holds, every other file is
what it was (`Mixed`), and the targets that are not left are written or, rolling
back, restored (`Progressed`). From that `FilesRestored` is immediate, with any
failing write, validation or rollback step before it. What a killed command leaves
is any such mixture, and the next command starts from it: there it is `PlanStands`
that counts. The overlay adds one child to the document of one directory, the
anchor, and makes what lies between the anchor and the destination, where nothing
was. So a write loses nothing another corpus is listed by, whether or not the others
follow, and no command is about a corpus already there (`NotApplied`). An
`index.json` that an `index.yaml` replaces held no child (`JsonIsEmpty`), which is
where the checkout's having begun without corpora enters. That no directory is above
its own parent, that the anchor is the last document on the path, and that the
documents between it and the destination are new is proved from the tree alone,
which is any finite one: `Above` is a least set, not a recursion.

**Ranks.** Between collectives ranks are at different places of one program, so
they cannot be compared as they are. `Ahead` takes the part of a trainer that
branches depend on to the next collective by that rank's own steps alone: through
restore, reading its own copy of the input up to the next whole micro-batch or the
end, judging and recording an evaluation, the decision what is left to do, the commit.
The invariant says that `Ahead` is the same for all ranks that have not failed
(`Agree`). A local step does not change it; the primary's reports could, as
a restore reads them, but nobody restores while it judges (`NobodyRestores`). A
collective is the same function of the shared part on every rank: clocks,
sequences and ownership do not enter it, except that a snapshot sends the
primary to commit and the others to the barrier behind it, where it catches up.
`CompletionIsEvaluated` needs a second invariant, `Reporting`, about the primary
alone: at every place of the program, what its lists hold is what has been
reported, but for a checkpoint held back until its evaluation is judged.

Model-checked only:

* liveness (`EventuallyPublished`, `ResumedRunCompletes`, `EveryLaunchEnds`,
  `RepetitionFinishes`, `StreamsEnd`, `EveryCallReturns`): fairness and ENABLED
  are beyond the prover;
* what a recursive function over data computes (packing, shuffling and merging, selection,
  the expansion of a bill, the sums of `PruneBounds`, the consumption of
  `ConsumptionIsWhole`): that needs induction over data. `StepsAreReached` is of this
  kind too: whether a last batch is padded depends on the number of sequences all
  ranks hold;
* `WorkSurvives`, `CheckoutIsSound` and `ModelsAreWhole`, and the invariants of the
  streams, the pipelines and the bills, for which section 8 has the plan.

## 6. Where the code and its documentation disagree

Each of the first four is a violation run and a finding in `PROJECT.json`.

1. `baseswitch`: an interrupted publication repeated with another base URL
   forgets the journaled objects whose staging files are gone.
2. `torn`: a process killed between `RUN.json` and `MODEL.json` of the second
   or a later checkpoint leaves a model that `Inspect` rejects.
3. `mlx`: a resumed MLX run evaluates recorded steps again and is rejected,
   because bundles are written only for newly best evaluations.
4. `chunks`: a large text whose characters straddle chunk ends and whose size
   leaves no slack is reported as "changed after the ingestion plan was
   accepted": the number of chunks is computed from its size, but each chunk
   first holds up to three bytes carried over from the one before.

Four are stated in the modules and refuted by TLC when they are added, guarded
by their side, to the invariants of the run that has the module:

5. `CheckpointNotAbandoned` of ModelCompose, with `AuditChoices` `{TRUE, FALSE}`
   in `Alone`: `model continue` of a transaction started with `--audit`
   trains a stage again from its start (`build.go:638`, `command.go:223`).
6. `PolicyIsExplained` of BillOfMaterials: a license policy that excludes shards
   of an assessed manifest makes the bill fail its validation, because
   `addManifest` copies the assessment of the whole manifest (`bom.go:168`) and
   `bom_validate.go:238` requires it to be that of the selected shards; the
   comment at `bom.go:228` promises an explainable result.
7. `RateOfThisLaunch` of RankTraining: a node-local resume replays nothing, so the
   rate window is never restarted and absolute token counts are divided by the
   time since the launch (`pytorch.py:821` against its comment at 82-85).
8. `ScanIsWhole` of CorpusStream: a cancelled, directly read balanced scan
   ends without an error and too few records (`stream.go:1742`, 1777-1790), so
   the count of steps is a truncated one, against the comment at 1230-1231. It is
   not persisted, because the backends are probed with the cancelled context first.

More appear when a constant of a passing run is changed (in the INSTANCE of its
`MC` module, or in the configuration):

9. `OrphanBundles = TRUE` in `Resumed`: a bundle that was renamed into place but
   not recorded cannot be replaced (`commit_directory`), so every later attempt
   fails at that step.
10. `MetadataCrashes = TRUE` in `Retried`: a kill between `os.Mkdir` of the
    workspace and `COMPOSE.json` makes every repetition fail, because the
    directory exists and holds no transaction. The same holds for a model whose
    base weights were not copied and for an archived compose not written out.
11. Two processes in `Alone`: an invocation that planned while another was
    training trains the same corpora again, because completed corpora are
    removed from the request before the lock is taken and not again after.
12. `AtOnce = 2` in `data`: of two commands that read the same navigation
    document, the second replaces it and drops the first one's corpus from the
    index, although both report success.

And the counterexamples of stronger properties show what the properties
deliberately do not say.

* **Contributions.** `docs/UX.md:139-141` says that a contribution is applied
  atomically. A kill between two of its files leaves the first ones, and
  `CheckContributionDestination` then refuses every repetition; so does a
  rollback, which leaves the directories it made. A kill after the `index.yaml`
  of a new group and before the document that lists it: a later ingestion into
  the group reports success, although its corpus cannot be reached from the
  root. An overlay staged by an interrupted command is refused once another
  ingestion changed the document it replaces: the price of `AppliedStaysListed`.
  That property is about corpora this command entered, in a checkout that begins
  without any. In one whose `index.json` already lists corpora, a rollback removes the
  `index.yaml` before it restores the `index.json` it superseded (removals are the
  last of its targets), so a kill between the two leaves that directory without a
  navigation document, and its corpora unlisted, until somebody restores it.
* **Record filters.** `docs/MODEL-COMPOSE.md:499` says that missing metadata values are
  rejected: a filter that only excludes keeps records without the key
  (`record_filter.go:260-278`). One manifest declared by two spellings (`a/b`
  and `a/b.yaml`) silently gets the later filter (`recipe.go:392-395`). Two selected
  manifests that differ in their suffix alone share one group, so the second's filter is
  never applied (`cli/model.go:2462-2478`); `SelectionIsSpecific` excludes this.
* **Checkout.** An edit or commit between the status and the reset of a pull is
  lost, and the upstream reference is resolved again after the status, so another
  command's fetch of a rewritten branch makes the reset something else than a
  fast-forward (`managed.go:92-178`). A kill inside the reset leaves a dirty
  worktree. A manifest is loaded and read again for its digest (`bom.go:148`): a
  pull in between pins the digest of one version and the shards of another.
* **Model root.** `writeJSONAtomic` makes missing directories
  (`records.go:738`), so a run that goes on after `model rm` leaves a husk that
  `Inspect`, `rm`, `pull` and `init` refuse; so does a killed `rm`. A converted
  export opens weights by path after its inspection: removal and pull of the same
  name in between release another model's weights under the first one's record. A native
  export takes its attribution from a first inspection and its files from a second.
* **Cache.** Another process's prune, purge or clean may remove an object between
  its fetch and its use, a fan-out directory between `MkdirAll` and `CreateTemp`,
  or a name during the walk: the command fails, never with wrong bytes. Killed
  downloads leave temporaries.
* **Launches.** A worker that hangs after its acknowledgement hangs the primary;
  the model lets it hang only before. A primary without a hostfile that is
  killed leaves its plan file, and the next command refuses until it is removed.
* **Worker calls.** `runWorkerStreamJoin` leaves its end of the input open when
  the worker exits, so an orphan rank that holds the pipe makes it wait; the
  passing property claims the return of `runWorkerCommand` only. A completed run
  whose leftover rank holds the output is reported as failed.
* **Streams.** After a cancellation the merged order is lost too. A repeating
  stream with weighted corpora, whose first corpus has only held-out records,
  waits for ever: such plans are not among the initial states.
* **Prepared cache.** A node that owns no sequence commits an empty manifest
  that `loadPreparedCache` rejects (`prepared_cache.go:574`), so every later attempt
  fails: the shapes tried give each node at least one. A damaged chunk's
  sequences reach the worker before its digest is checked; such an attempt fails.
  A kill while an oversized cache is removed leaves half a directory, after
  which every commit fails.
* **Input.** A whole-file record with an excluded license fails the whole
  ingestion (`file_profiles.go:28-36`). Change detection relies on size and
  modification time.
* **Configuration.** Two `config set` at once lose one update, though both report
  success.

## 7. What is left out

* Inside the modelled parts: the bytes of shards, manifests and checkpoints;
  what an adapter extracts from a record, redaction and content assessment;
  numerics of training; wording and progress output; parameter correction,
  forecasts and telemetry in `build.go`; NCCL timeouts and hung ranks; migration
  of transactions and caches written by older versions.
* Two simultaneous ingestions into one staging directory: nothing locks
  `INGESTION.json`, and nothing promises that it is safe.
* Updates of an existing corpus (`ingest/update.go`): they share
  `ApplyContribution`; their staging compares against the manifest it replaces.
* Probes, statistics, scrubbing and credentials of the lookaside stores.
* The chain of stations as one behaviour (what is trained is what was
  published): each module assumes of its input what the one before it promises.
* Whole parts with no durable or concurrent state: conversation views and
  tokenizers, forecasts, advice, telemetry, the inference loop, evaluation gates,
  disclosure, signing, host probing. `PROJECT.json` gives the reason for each.

## 8. Plan

What remains is mostly proof, after what TLC has agreed to. In this order:

1. IndexCheckout and ModelDirectories: `CheckoutIsSound`, `ModelsAreWhole`.
2. ShardAssembly: that the collector sinks in order; WorkerProtocol: that
   success is true.
3. RankTraining: `StepsAreReached`, from lemmas on sums over the ranks.

Of the code, updates of a corpus and the scrubbing of the cache would be the next
operations to model.
