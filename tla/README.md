# TLA+ models of the analytics-agent stack

Models, model checks and machine-checked proofs of the stateful parts of this
repository. The code is the reference: every definition names the lines it is
translated from in `PROJECT.json` ("map"). TLC checks small instances, TLAPS
proves the main results for every value of the constants.

    tlc -config Checkpoint.cfg MCCheckpoint.tla     # one run
    tlapm CheckpointProofs.tla                      # one proof module

## The system

The repository is the local "lakehouse" half of an analytics agent. A Slurm job
brings up PostgreSQL, MinIO, Redis, a data gateway, FlowMesh with native workers
and Lumilake on one node; natural-language requests become workflows that run
there; what was learned from them goes into an episodic memory. Nodes are
ephemeral, so the stack backs itself up to a directory the owner's jobs share.

| Component | Source | State | Operations | What makes it correct |
|---|---|---|---|---|
| Checkpoints | `deploy/soc/stack/checkpoint.sh` | generation directories, `latest`, the lock file, the stores of the allocation | create, prune, restore, validate | `latest` names a whole backup; restores are exact; pruning keeps the last-good and enough others; "quiesced" means one cut; the lock comes back |
| Stack lifecycle | `slurm-stack.sbatch`, `stack-up.sh`, `stack-down.sh` | stage of the job, `database.ready`, `writers.stopped` | boot, restore, seed, serve, back up, rehearse, clean up | restore only without writers; no restored history is lost but by statements; final backup is a cut; cleanup ends |
| Stack environment | `stack-env.sh` | stack lock, secrets, certificates | acquire, create once | one stack per node and owner |
| Process ownership | `process-lib.sh`, `run-service.sh` | records of pid and start time | start, track, signal, stop | only own processes are signalled; a stopped service has no survivors |
| Native worker provider | `vendor/flowmesh/0001-*.patch`, `0002-*.patch` | workers, tasks, GPU reservations | create, start, register, stop, destroy | a GPU belongs to one worker; a stopped worker stays stopped; nothing leaks |
| Learning memory | `src/analytics_agent/learning/` | one SQLite file, open store objects | open, append, correct, retrieve, close | append-only history, sound corrections, true answers |
| Gateway | `src/analytics_agent/lumid_gateway/` | requests in one event loop, probe threads, two buckets | retrieve, list, put, get, catalog, ready | what is acknowledged is stored and seen, what is refused is not; private stays private; readiness is true; every request comes back |
| Contracts | `src/analytics_agent/models.py`, `api.py` | frozen records | plan, assess, report | the DAG can be run and the bindings describe it; a reported verdict stays |
| Inference gate | `src/analytics_agent/inference/` | none of its own; the adapter's provider | generate, admit as evidence | what the approved provider did not generate is no evidence |
| Benchmark | `src/analytics_agent/benchmark/` | the manifest's file | edit, hash, freeze, load, check contamination | nothing held out can be learned |
| nl2workflow | `src/analytics_agent/nl2workflow/` | none | extract, classify, generate, score | operations, placeholders and columns fit together |
| Demo intake | `src/analytics_agent/demo_intake*.py`, `scripts/adapt_zhengyuan_demo.py`, `scripts/validate_demo_intake_sql.py` | bundles, the dump, a private PostgreSQL | adapt, verify, restore, query, stop, report | what is accepted is what was pinned; no server is left behind |
| Log redaction | `vendor/flowmesh/0003-*.patch`, `0004-*.patch` | none | log | wording |
| Jobs, seed, smoke tests | `deploy/soc/jobs`, `seed-demo-data.sql`, `e2e-smoke.sh` | none | run once | data and probes |

How they interact: the batch script calls `stack-up.sh` and `stack-down.sh` as
child processes and `checkpoint.sh` as functions in its own shell; those three
share files (`latest` and the generations between allocations, `database.ready`
and `writers.stopped` inside one). The gateway and the workers are the writers
of the stores the checkpoints copy. The memory store is opened by whoever learns,
from any number of processes. `plan()`, the benchmark, the gate, the assessments
and the memory store meet in the harness of an experiment, which the repository
prepares (`models.py`, `benchmark/`, `inference/`, `learning/`) and does not
contain. The SQL acceptance shares nothing with the running stack: it makes a
server of its own.

What is hard: several allocations on one checkpoint root; kill -9, TERM and lost
nodes between any two commands; commands whose failure nobody checks; copies
taken one after the other from stores that change; a database file several
processes initialise at once; one event loop that blocks, threads that outlive
their time-out and uploads that land after they were given up; files that change
between two reads and a cleanup that is interrupted; a provider that is replaced
while it is checked. `PROJECT.json` ("hazards") has each at its line.

## Modules

| Module | What it is |
|---|---|
| `LastGood` | abstract: a register with the last good backup, replaced only as a whole, by what was seen of changing stores |
| `Checkpoint` | `checkpoint.sh`, command by command, any number of shells, with a free environment |
| `StackLifecycle` | extends `Checkpoint`: the environment is replaced by the batch script, `stack-up.sh` and `stack-down.sh` |
| `EpisodeLog` | abstract: the append-only history of `MemoryAdapter` |
| `MemoryStore` | `sqlite_store.py`, statement by statement, any number of store objects and other clients of the file |
| `ProcessOwnership` | `process-lib.sh`, the service part of `stack-up.sh` and `stack-down.sh --writers-only`, over a process table |
| `Gateway` | `lumid_gateway/`: the handlers of one process over PostgreSQL and S3 |
| `SqlAcceptance` | the two scripts of the SQL acceptance, command by command, with the server they start |
| `Workflow` | operators: from a request to its DAG, and the score of one DAG against another |
| `Benchmark` | operators: cases, manifests, contamination, what loads |
| `Contracts` | operators: validators and derived verdicts of `models.py`, provider metadata |
| `Retrieval` | operators: `SQLiteMemoryStore.retrieve` |
| `Experiment` | extends those four: an author, a harness, a provider and a job that use them |
| `*Proofs` | theorems and proofs of the module they are named after |
| `MC*` | model values and bounds for TLC |

### Checkpoint

A `Proc` is a shell inside `checkpoint_create` or `checkpoint_restore_latest`,
with the stores of its allocation (`live`, `database`, `writers`, `marker`). `gens`,
`latest`, `legacy` and `lock` are the shared root. `pc` names the next command;
the actions are the commands whose effect something can separate from the next:
the lock with the fresh name and the consistency label, the dump, each object of
the two mirrors, sealing (manifest, checksums, validation), the two renames, the pruning loop
entry by entry, each load of a restore.

* Names. A generation name is node clock, job, pid and random number. Nothing
  forces it to sort after names other nodes drew, so `CreateLock` takes any free
  place in the order. Places are reused after a removal, which keeps the state
  finite while backups come and go for ever.
* Failures. Every checked command may fail (`CreateFails`, `ResetFails`,
  `LoadFails` with any partial result). The commands of the commit (lines
  172-178) are not checked: which of them may fail is the constant
  `CommitFaults`, and whether the caller has errexit in force is `errexit`. Where it
  is, an unchecked command that fails (`mkdir`, the manifest, the commit) ends the
  shell, which goes through its EXIT trap with descriptor 9 still open (`Trapped`).
* `Crash` is a killed shell: the kernel drops its flock, its temporary directory
  stays for ever. `Interrupt` is TERM or INT under the traps of the batch script:
  the shell leaves `checkpoint_create` with the lock still held until it exits or
  locks again (`Release`).
* What is not looked at: the content of manifests beyond "sealed", permissions,
  log lines, and `chmod` failures. A damaged or orphaned directory is kept as a
  taken place without content, since nothing ever reads it.
* `Write` leaves any content behind: the services' role may UPDATE and DELETE
  (`stack-up.sh:162-171`), their S3 user may delete objects (`:261`), and the gateway's
  `put_object` overwrites keys. A `Fact` is a version of a row or an object, so that a
  row that is changed is one fact less and another more. A periodic backup of running
  writers need therefore not be contained in any one state of the stores, and what it
  is instead is what `LastGood` says: each row and object was looked at once while
  the backup was made, and the backup holds what was there (`read`, `seen`). The dump
  is one look at the whole database, a mirror is one look at each object, in no
  order (`MirrorObject`, `looked`).
* `Seed` is an upsert: at each boot it resets what became of the seed's own rows
  (`Superseded` are the versions it overwrites).

### StackLifecycle

Every action is an action of `Checkpoint` for the same shell, plus the stage of
the batch script. A `Proc` is a node that runs job after job. `Submit` chooses
`serve` or `test` (STACK_TEST_MODE, with STACK_TEST_RESTORE 1 or 0). Any `die` of
`stack-up.sh` before, in or after the restore, the loss of a process, failing
health checks and signals lead to `quiesce`, the first command of `cleanup()`.
TERM while a child script runs is handled by bash after the child; it is
therefore the same as ending at the next stage. Ports, certificates, Redis and the
health probes are left out: they only decide whether a stage succeeds, and every
stage may fail.

`ready` is `database.ready`, and before that file exists how the restore of this job
ended ("restored", "failed"), which is history. So is `removed`: what statements of
workflows, or the seed, have taken out of the stores since the restore.
`ServedKeepsHistory` is stated with it: the backup of a job that was restored lacks
nothing that `latest` held except what is in `removed`. It does not speak of jobs whose
restore failed, nor of jobs that died before it with both stores up: their cleanup
saves whatever the stores hold (second finding).

### MemoryStore

A `Conn` is a `SQLiteMemoryStore`. `executescript` commits each statement, so the
schema is built one object at a time; `with connection:` starts its transaction
only at the INSERT, so the look at the corrected episode is a step of its own.
INSERT and COMMIT are one step, because nobody sees the row in between and a
failing commit rolls back. `OtherClient` is any UPDATE, INSERT OR REPLACE by id,
or DELETE from outside the class, as the tests send them. `LockedOut` is
`busy_timeout` running out, `Leave` also a lost process. An episode is what the
checks compare: id, scope, split, eligibility and the corrected id. Eligibility is a
number, as `int()` hands it to the CHECK: `LearningEpisode` does not ask for its type, so
2 stands for a value that is true and neither 0 nor 1, and the contract error is what
it gets. The index and the text columns are left out. REPLACE by an explicit sequence number and an
initialisation by another schema version that runs at the same time are not modelled:
a store is old from the start or never.

### ProcessOwnership

`proc` is the process table: who holds which pid and group, whose child it is,
which service or other deployment it belongs to (the environment marks are
inherited). A process is named by its start time, so a pid used again is
another process with the same number, and an `Entry` (pid, group, start) is what
`write_process_record` writes and what a line of the descendants file holds.
Between any two commands of a script, processes fork (a child may have a session
of its own, as native workers do), exit, are reaped, and other jobs start some.

While a launch sleeps its 0.2 s the script has no `Entry` but only the number of its
child (`child`): `Record` and `LaunchFails` act on whoever holds that number by then
(`Holders`), in the second case with no look at whose it is (`process-lib.sh:165-172`).
`fresh`, the process that was launched, is history, and so is `mistaken`: to whom a
process belonged that a launch took for its child.

A script is at `pc`, with the service `Writers[at]`. `StackUp` walks from the
gateway to Lumilake (`Adopt`, `Refuse`, or `Launch` then `Record` or
`LaunchFails`), `StackDown` back (`StopUntracked`, or `Capture`, `Term`, `Kill` or
`Spare` per line, then `StopConfirmed` or `StopSurvived`), and `Mark` writes or
removes `writers.stopped`. `ScriptDies` is any end in between.

* `Faults` says what may go wrong: "verify" (a read of /proc, ps or environ
  fails, and counts as false, in the checks that lead to a signal or not),
  "confirm" (the same in the last check of a stop), "write" (the record stays
  empty or cannot be renamed), "hang" (a process outlives SIGKILL for a while),
  "die".
* A check and the `kill` after it are one step, and the listing of descendants is
  one step: the windows are milliseconds, and nothing in the scripts could close
  them. The window the scripts do guard, between a record and its use, is open, and so is the
  one of a launch, which nothing guards.
* One script runs at a time: the batch script runs them one after the other, and
  a deployment has one batch script.
* Left out: ports (`Refuse` may always happen while anything runs), time-outs
  (waiting is any number of steps of the processes), Redis, MinIO and
  PostgreSQL with `--stores-only`.
* `owed`, `signalled`, `fresh`, `lost` and `mistaken` are history: what a stop has taken on, whom the
  last step signalled, and which launches were cut short.

### Gateway

A request `r` is at a place (`at`), and what it asks is chosen from `Asked[r]` when
it is sent. `loop` is who has the event loop: psycopg and boto3 are called in
handlers declared `async`, so whoever waits for them keeps the loop, and only the
body of an upload (`BeginUpload`, `BodyIn`) and the readiness checks are awaited.
That is why `GET /livez`, which changes nothing and has no action, does not answer
either while a query runs.

* `Select` is the query and the serialisation: any number of rows, refused with 413
  when the characters exceed the cap. `Size` is what is stored: JSON escapes what
  is not ASCII, CSV does not, so a CSV result may have `Width` bytes for each
  character the cap counted. The check of `max_blob_bytes` is on bytes.
* `AttemptLost` is an attempt whose answer boto3 never got; it may still be carried
  out at any later time (`LateLands`) or never. `StoreFails` is the last of them.
* `BeginChecks` puts one check per store into the executor (`ThreadStarts`, at most
  `Threads`), `TimeOut` gives one up and leaves its thread running, `StoreAnswers`
  and `CheckRaises` are threads that come back, perhaps to nobody.
* `Crash` is the end of the process; a run has one process lifetime of requests
  after another, as requests are sent at any time.
* `before` and `heard` are history: which requests had been answered when a read was
  sent, and which stores answered the checks of a request.
* Left out: authentication, catalog listings (`/catalog/tables`, which is `/retrieve`
  with a fixed statement), content types, URL quoting, `limit` of a listing. A
  listing with an empty prefix looks in the private bucket only, as the code does.

### SqlAcceptance

`adapt_zhengyuan_demo.py` is `author[p]` for each bundle directory, one write at a
time, which may stop anywhere; `EditBundle` and `EditDump` are somebody else. The
validator is `step`: loading, verifying the dump in chunks, the programs, the second
verification with the private copy, `initdb`, `pg_ctl start`, `capture_pid`,
`createdb`, `pg_restore`, the grants, the queries, and `stop` command by command.
`server` is the postmaster from its fork over its `postmaster.pid` to its end;
it may exit or crash at any time, its `postmaster.pid` is gone before it is
(`exiting`), and its pid may be used again (`reused`).

* `Raise` is any refusal, failure or time-out in the `try`, and KeyboardInterrupt
  anywhere in it; when it lands in the handler of another failure, nothing catches
  it (`flies`), the `finally` runs all the same and no report is printed. `StopRaises`
  is the same in the cleanup. `Die` is SIGKILL.
* `cut` says that `pg_ctl start` did not come back with 0: from then on a postmaster
  may live that has no `postmaster.pid` yet, and cleanup reports "stopped" with no
  pid. `StoppedIsTrue` says that a server that runs after "stopped" is such a one, or one
  without a known pid that is just exiting, and that neither is part of an accepted
  report: with a known pid it is `kill(pid, 0)` that decides (`PidGone`). The code claims no more: it reports the pid it knew.
* A hash is what it is the hash of. A `Text` is exact when its bytes are those that
  `adapt_workflow` makes; a torn or edited file is not.
* The contents of the queries, permissions and symlinks are left out; a check of them
  that fails is a `Raise`. `demo_intake.py`'s rewriting of SQL is one step: its result
  is determined by the pinned original, the ticker and the date.

### Workflow, Benchmark, Contracts, Retrieval, Experiment

`Workflow` starts where the regular expressions end: a request is the symbols it
mentions, in order, and the intents it has keywords of. An operation is its wiring:
placeholders (`holes`) and what they are bound to (`params`), the fields it reads of
other operations and the columns or JSON fields it yields. `Score` is in
ten-thousandths, without the rounding of ties.

`Benchmark` has `CaseValid`, `ManifestValid`, `ScanContamination` and `Loads`;
`Contracts` has `ProviderValid`, `JobSpecValid`, `RuntimeValid`, `RuntimeSuccess`,
`EndToEnd` and `OutcomeValid`; `Retrieval` has `Retrieve`. They are one operator per
validator or property.

`Experiment` is their composition. The author edits the file of a manifest, computes
hashes, sets the status; `LoadManifest` takes it when it loads and is frozen. The
harness takes a case (`TakeCase`, which is `plan()`), recalls episodes, infers, passes
`require_evidence_eligible` in three steps (`CheckResult`, `ReadMetadata`,
`ReadReadiness`), proposes a JobSpec, submits, looks at the job and the output in any
order, reports, learns, and may die at any point (`Abandon`). `Redeploy` replaces or
stops the provider at any time. The pydantic models are validated when they are
built and can be copied unvalidated (`model_copy`), which is `Relabel`: with some fields
of the metadata changed (`Forged`), or with all the metadata of a contract, as
`tests/test_inference_adapter.py:90-100` and `:153-155` do. `EvidenceFresh` therefore has
two cases. What the gate accepts was generated by the provider of the contract; or the
whole metadata of the contract was copied onto it and the contract's provider was put
behind the adapter before the gate asked. The repository's test stops short of the second:
there the fake is still behind the adapter, and its readiness is what is refused.

External, and modelled from what the parts require: the harness, the author, the
deployment and Lumilake. What is assumed of them: the status of a job only goes
forward; a result is copied with changed fields (`Forged`) or with the metadata of a
contract, and with no other metadata; two deployed providers differ in something `ProviderMetadata` records; SHA-256 does not collide.
A planner's answer is any proposal and any assessment.

`Checkpoint` takes from `ProcessOwnership` that a stop that says it was confirmed has
stopped the writers (`StopWriters`). `MarkerMeansStopped` is that promise, and findings 3
and 4 are its limits: `QuiescedIsCut` and `FinalIsCut` do not speak of a worker that
outlives a confirmed stop because its service had died.

## Runs

| Run | Instance | Shows |
|---|---|---|
| `checkpoint` | 2 shells, 1 fact, 3 places, Keep 2, all commit faults under errexit, no legacy dump, one alone or a truncated one | `TypeOK`, `LatestComplete`, `RestoreExact`, `QuiescedIsCut`, `PruneRetains` |
| `checkpoint_commit_faults` | 2 shells, no facts, 2 places, all commit faults | violates `LatestComplete`: first finding |
| `lifecycle` | 1 node, 1 fact, which the seed supersedes, 3 places, no, whole or truncated legacy backup, serve and test jobs | `LifeTypeOK`, `QuietRestore`, `FinalIsCut`, `ServedKeepsHistory`, `CallsAsAssumed`, `ImplementsLastGood` |
| `lifecycle_ends` | 2 nodes, one serves and one rehearses, no facts, 2 places, one commit fault, fairness | `CleanupEnds`, `LockReleased` |
| `lifecycle_failed_restore` | 1 node, 1 seed row, 3 places, no legacy backup | violates `FailedRestoreKeepsLastGood`: second finding |
| `memory_store` | 2 objects, 2 ids, 2 scopes, 7 episodes, fresh or old file | the seven properties of `MemoryStore` |
| `ownership` | 2 services, 4 processes, 3 pids, all faults but "confirm" | `TypeOK`, `OnlyOwnSignalled`, `NeverForgotten`, `MarkerMeansStopped`, `CapturedGone`, `RecordKept` |
| `ownership_confirm` | the same, "verify" and "confirm" | violates `RecordKept`: third finding |
| `ownership_gateway` | the same, no faults | violates `GatewayLast`: fourth finding |
| `gateway` | 3 requests, 4 keys, 2 rows, 1 thread, caps of 1, fairness | `TypeOK`, `ObjectsLawful`, `ResultsKept`, `AcknowledgedIsSeen`, `ReadyHonest`, `AnswersComeBack` |
| `sql_acceptance` | 2 tickers, 2 bundles, 2 queries, 2 chunks, 3 days, 3 rows, fairness | `TypeOK`, `AcceptedIsPinned`, `StoppedIsTrue`, `Ends` |
| `experiment` | all requests of up to 3 mentions, 7 drafts of 4 cases, 4 providers, 3 approvals, 2 scopes | `PlanFaithful`, `NoLeak`, `EvidenceFresh`, `VerdictFinal` |

Why the bounds are enough. Three places with Keep 2 is the least in which pruning has
a victim besides `latest` and one to spare, in every order of names. Two shells give
every race on the lock and the root; in `checkpoint` one of them serves and backs up
and the other restores (`Roles`), and the serving stack is not replaced within the run
(`SameAllocation`), because with one shell in both roles there is `lifecycle`; the
legacy dump is followed up to the first checkpoint, after which nothing reads it
(`LegacyFirst`). A restore there begins with empty stores, or with what a broken one
left when it had dropped the database (`StartsOver`); the rehearsal of `lifecycle`
restores into full ones. Callers that lose errexit are the subject of
`checkpoint_commit_faults`. One fact tells a stale, missing or left-over copy from a
right one, as each part holds it or not, and as one fact that comes and goes it is also
a row that is deleted and an object that is overwritten. The public bucket of a job
stays empty (`PublicEmpty`): its steps are those of the private one, which shows what a
mirror of a changing bucket can see, and the proofs are about both. In `lifecycle` the
fact is also one that the seed overwrites, so that a restored row is lost to the seed, to
a workflow, or, in the mutant, to a restore that was taken for absent; in
`lifecycle_failed_restore` it is a row of the seed. In the fairness run the contents do
not matter, so there are none; one node serves and one rehearses (`OneRehearses`), which
has both kinds compete for the lock. In `memory_store` each id
has originals and corrections whose scope or split matches or does not, and one episode
is eligible by no truth value. In `ownership`
two services are the least with an order, three pids for four births force a pid to be
used again, and four births allow both services with a worker or a stranger each, or a
second launch.

In `gateway` one client queries, one uploads and one looks or checks: `b` may upload
to the very key of `a`'s result, `c` may read either or list, with any answer of
the others before or after; two rows, caps of 1 and two bytes per character put
every limit between two sizes, and one thread makes a check wait in the queue. In
`sql_acceptance` two bundles may name the same ticker, a day too early, the accepted
one or a later one, or a ticker that is not allowed; two chunks let a change fall
between two reads of the dump; one row is expected, `fetchmany` asks for two and a
query may return three. In `experiment` the test case comes in four versions, one for
each way it could leak, and the counts of the frozen manifest are 2 train cases and 1
test case, so that an id can be learned while another case is in hand; a file with
the dev case is always refused, as the code treats dev and test alike. Two symbols
and three mentions give every order and repetition. `MCExperiment` also has
two `ASSUME`s that TLC evaluates: over all these requests, `ExtractSymbols` is what
the loop of `extract_symbols` returns; and over all their DAGs, the score is full
exactly when the match is exact, and an exact match is the same DAG.

Of the passing runs only `sql_acceptance` disables the deadlock check: the script ends.
The theorems below lift all of these bounds for the safety properties.

### Fairness

`FairSpec`: a shell inside `checkpoint.sh` goes on. Every external command there
has its own timeout or ends (`flock -w` among them), and bash runs the next.
`FairLifeSpec`: the same for the batch script from boot to exit. No fairness is
assumed for anything outside: jobs need not be submitted, services need not fail
or end, writers need not write, and a node may be lost at any time. Weak
fairness suffices, as every step stays enabled until it is taken, the wait for
the lock excepted, which `LockTimeout` and `CreateLock` between them keep enabled.

`FairSpec` of `Gateway`: the event loop gives a handler that is ready its turn and its
timers run (weak fairness of `Begin`, `AnswerReady`, `TimeOut`). Nothing is assumed of
PostgreSQL, S3 or the threads, and `AnswersComeBack` is stated for behaviours in which
no handler keeps the loop for ever: `DB.select` sets no time-out, so a query that
never ends stops the whole gateway. `FairSpec` of `SqlAcceptance`: the script takes its
steps while it is not in a query, because every command has a time-out (60 s, `pg_ctl -t
30` and `-t 15`, 5 s for `ps`), while the server, the files and the author need do
nothing. In a query it waits in psycopg with `statement_timeout`, which is the server's,
and no limit of its own but for connecting (`validate_demo_intake_sql.py:344, 368`):
`ComesBack` leaves those steps out, and `Ends` says that the script ends unless it stays in
a query for ever. A frozen server keeps it, and its cleanup, from coming.

### What the properties leave open

Three things `experiment` shows that break no promise of the code. A request for news,
fundamentals or prices that mentions no symbol gets the DAG of the profile universe
while its `template_id` names its own intent. A trading request without a symbol
has a DAG whose input is not bound to one, so the bindings are empty as well. The
output of a comparison refers to the last query only.

Two properties name an exception because the code has it. `OnlyOwnSignalled`: a launch
sleeps 0.2 s and then, when a check fails, kills the number of its child
(`process-lib.sh:165-172`), in one of the two cases because it could not be verified;
if no check fails it records whoever of the deployment has the number. When the child
has ended and its pid was used again within the sleep, this reaches somebody else.
Lines 1 and 202 speak of exact ownership and of refusing to signal unverified pids.
`EvidenceFresh`: `inference/fake.py:1` says that the output of the test double is never
valid evidence, but nothing ties a result to the adapter that made it
(`inference/base.py:116-153`). Copied with the approved metadata, it passes once the
approved provider is behind the adapter and ready.

### Findings

1. `checkpoint_commit_faults`. `mv`, `printf` and `mv -f` at `checkpoint.sh:172-178`
   are unchecked, and the batch script calls the function where bash ignores
   errexit (`if checkpoint_create`, `checkpoint_create final || ...`). When the
   first rename or the write fails, `latest` still moves: to a generation that
   is not there, or to an empty file. The comment at 176-177 promises either the
   old or a fully validated generation.
2. `lifecycle_failed_restore`. When a restore fails, `stack-up.sh:291` says that
   the last-good was not modified; then the EXIT trap of the batch script finds
   both stores up and saves them, empty or half loaded, as the final checkpoint
   and new `latest`. The old generation stays on disk until pruned.
3. `ownership_confirm`. `stop_tracked_service` decides with `process_identity_alive`
   that a process is gone; a failed read looks the same, and the record is
   deleted (`process-lib.sh:264-274`). Lines 95-97 say that a transient failure
   must not authorize that. `RecordsAreKept` proves that no other removal can.
4. `ownership_gateway`. `stack-down.sh:29-31` says that the gateway stops only after
   workers are confirmed gone. `stop_writers` stops it in any case, and the stop of
   a FlowMesh that has exited finds nobody to list: workers that live in sessions
   of their own go on while the gateway stops and the stop counts as confirmed.

## Proofs

All are `THEOREM`s checked by TLAPS with no assumption but the named `ASSUME`s on
the constants and, where stated, `CommitFaults = {}` (the commit's own three
commands work; without it the first finding refutes them) or `"confirm" \notin
Faults` (likewise, the third finding). One theorem has a temporal hypothesis,
`[]OneAtATime` (below).

**CheckpointProofs.** `IInv` has one conjunct per reason a shell may rely on what
it saw: `LockInv` (inside a critical section one holds the lock), `IdleInv`,
`CreateInv` (the temporary directory is one's own, has the parts copied so far, and when
quiesced equals the stores as far as the shell has been through them), `PruneInv` (victims never include
`latest`), `WriterInv` (marker, label and restore all exclude writers) and
`RestoreInv` (the source is still `latest`, the parts loaded equal it). None of
the checked properties is inductive alone: `LatestComplete` needs `CreateInv` to
know what `PointLatest` points at and `PruneInv` for the sweep, and these need
the lock. `OthersKeep` shows that a step of one shell does not touch what the
invariants of another speak of, so `InvStep` follows one shell through its own
actions. Results: `TypeCorrect`, `LatestAlwaysComplete`, `RestoreAlwaysExact`,
`QuiescedAlwaysCut`, `Refinement` (of `LastGood`: each dump, and each object of a mirror,
is a `Look`, the pointer's rename is `Publish`, and every other way out of
`checkpoint_create` an `Abandon`) and `Retention`. The last needs
`RetainInv`: while a shell sweeps, either Keep generations are outside its victims,
or each victim still has Keep newer ones besides `latest`; cardinalities come
from `FiniteSetTheorems`.

**StackLifecycleProofs.** `StageInv` follows the writers: down from submission to
the end of the restore, and from a confirmed stop to the end of what it was for.
With it every step of a job is a `Checkpoint` step or none (`StepMaps`), hence
`ScriptIsACaller`: `LifeSpec` implies `Spec` of `Checkpoint`, and every theorem
above holds of the jobs (`LatestCompleteInService`, `CheckpointInService`). Also
`RestoreAlwaysQuiet` and `FinalAlwaysCut`.

`HistoryIsKept` is `ServedKeepsHistory` under `[]OneAtATime`: at any time at most one
allocation is not off. That is how the cluster is used, and nothing in the scripts
enforces it; with two, the property is false (the hazard at `slurm-stack.sbatch:56`),
and so `lifecycle` has one node. Jobs may still follow each other on any number of
nodes and be killed anywhere. `HistInv` is what it needs: a node that is off does
nothing (`OffInv`); once a job is restored its stores hold all of `latest` but what is
noted as removed, until it replaces it (`RestoredHolds`, `LiveKeeps`); what a copy in
hand has looked at and not found was not in `latest` or is noted as removed
(`CopyKeepsOld`), and what it found is in the stores still or noted (`CopyIsNoted`); and an older stack's dump is loaded only while there is no
generation at all, which the lock keeps true (`LegacyInv`, through the steps of
others too).

**MemoryStoreProofs.** The version row is written only after the whole schema
(`SchemaInv`, `OpenInv`), so whoever is past `__init__` has all triggers under it;
with them `rows` only grows; so what was read before the INSERT still holds at it
(`AppendInv`). Results: `ReadyAlwaysWhole`, `CorrectionsAlwaysSound`,
`AlwaysStoredOnce`, `RefusalAlwaysDuplicate` (an INSERT is refused for its id or for an eligibility that is no
truth value), `OldStoreAlwaysUntouched` and
`Refinement` (of `EpisodeLog`).

**ProcessOwnershipProofs.** `ProcInv` says what pids and groups mean: one process per
pid, one service per group, children of the service of their parents. It is
why `NameInv` is kept: records and listed lines go on naming what they were written
for, and if the process is still there, with the pid and group they hold. That process is
one of the service on record, or of an owner in `mistaken` (`NamedFor`): a launch records
whoever of the deployment has the number. `Continues` states once what any step of the system leaves
of a process. From these `OwnedNames`: whoever passes the checks of
`process-lib.sh` is the recorded process, and its group is its service's. `MarkerInv`
carries the walk over all services to the marker. Results: `OwnershipTypeCorrect`,
`SignalsReachOwn` and `StopEndsCaptured` with all faults; `LaunchedIsOnRecord`,
`MarkerIsTrue` and `RecordsAreKept` without "confirm".

**GatewayProofs.** `Moved` says what one step can do to one request, and `Wrote` what
it can do to the buckets; `StepMoves` proves both action by action, and everything
else argues from them. `Kinds` says what a request is by its place; `Lawful` that
every stored object, and every attempt that may still land, is the upload of a
request that was let through, which stays the same object for ever (`UploadFixed`);
`Kept` that an acknowledged upload whose key nobody else writes is where it belongs:
whatever lands late on its key is the same object. `ObjectsLawful` follows from
`Lawful`, `ResultsKept` from `Kept`, `AcknowledgedIsSeen` from `Kept` at the read and
from the rest of `Moved` after it. `Checked` is the invariant of `ReadyHonest`.
Results: `TypeCorrect`, `StoredLawfully`, `ResultsAreKept`, `SeenAfterwards`,
`ReadyIsHonest`.

**SqlAcceptanceProofs.** `Accepts` says what has been verified by the time the script
is at a step, `Knows` what it can know of the server there: that a `pid` is of a
server that has booted, that only a cut start leaves one that has not, that one without a `postmaster.pid` after
a stop is gone or exiting, and that `ok` after the cleanup is of a server with a pid that
is gone. Results: `TypeCorrect`,
`AcceptanceIsPinned`, `StopIsTrue`.

**WorkflowProofs.** About operators, so there is no induction over steps.
`ExtractSymbols` is stated by what it returns, each mentioned symbol once and in order
of first appearance (as a fold the prover could say nothing of it; TLC checks that the
loop of `extract_symbols` returns the same). `OrderOfAppearance` shows that there is
such a sequence, so the targets of a comparison differ pairwise (`TargetsDistinct`).
From there one lemma per template and operation shows that what it reads is yielded by
what it names: `EveryDagRuns`. `FullScoreIsExact`: a score is full exactly when the
structures are equal, for any two DAGs whose operations and edges number less than
`FullScore` together. The bound is where it comes from: with ten thousand of them, one
that differs is rounded away.

**ExperimentProofs.** `Leak`: what is frozen is free of contamination, what is learned
is from what is frozen, and what is retrieved is learned from train cases of the
query's scope. `Gated`: what the gate has compared so far,
and that metadata other than the generating provider's is forged or a contract's copy. `Settled`: how far a
reported verdict can still be moved. `Planned`: a JobSpec in hand is `plan()`'s of
some request. `Stored`: the rows of the store are finitely many, with an id each.
Results, from `ExperimentAssumption` only: `NothingLeaks`, `EvidenceIsFresh`,
`VerdictIsFinal`, `PlansAreFaithful` (from `Planned` and `EveryDagRuns`) and
`TheBestAreRecalled`. For the last, `Retrieve` is defined by counting who ranks
before a row, where the code sorts and cuts. `RankingOrders` shows that the sort key
is a strict total order on hits with ids of their own (`CrossTransitive` for the
scores, which are fractions), and `FirstAreCounted` that in such an order counting is
cutting: exactly as many as there are, up to the limit, and none that ranks after
one left out.

`ExperimentAssumption` says that drafts are cases, that the request of each draft
reads as one of `Requests`, that texts have finitely many tokens, that the limit is
in 1 .. 100 (`learning/models.py:195`), and that deployed providers are told apart by
what identifies them.

Only model-checked: the liveness properties (`LockReleased`, `CleanupEnds`,
`AnswersComeBack`, `Ends`), which are out of the prover's reach, and two `ASSUME`s of
`MCExperiment`: `LoopExtracts` (what a fold computes needs an induction over data)
and that an exact match of two DAGs of the generator is the same DAG. Every safety
property of the passing runs is also a theorem.

## Not modelled

* The native worker provider (`vendor/flowmesh/0001-*.patch`, `0002-*.patch`). The
  patches change FlowMesh, whose sources are a git submodule and not in this
  repository. The hunks show some handlers and none of their callers: who sends
  REGISTER when, what the dispatcher does with a stopped worker, who else holds
  reservations. A model would rest on guesses. The hazards are listed nevertheless.
* Log redaction (`0003-*.patch`, `0004-*.patch`): wording of log lines.
* `stack-env.sh`: secrets, certificates and directories made once. Its lock is `flock`
  on the nodes; the `mkdir` fallback, which a killed shell leaves behind, is there for
  local validation of the scripts (`stack-env.sh:96`).
* Redis, MinIO and PostgreSQL as processes of the stack (`--stores-only`), ports, TLS
  and health probes: they decide whether a stage succeeds, and every stage may fail.
* `checkpoint_validate_latest` changes no state. It reads the pointer without the lock,
  so that a concurrent prune may fail a rehearsal: a false alarm.
* The regular expressions of `baseline.py` and `demo_intake.py`, SQL and prompt texts,
  `evaluate_set`'s averages, informational entity overlaps, gold plans: text or
  arithmetic without state, which unit tests reach.
* `demo_intake_objects.py`: receipts of archive members read in one pass.
* Batch jobs, seed data, smoke tests: one-shot scripts and data.
