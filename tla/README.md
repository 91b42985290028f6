# Verification of dup (docker-updater)

dup keeps Docker Compose stacks up to date. It runs as two processes: `dup serve`, an
unprivileged HTTP service that accepts update requests, decides on automatic updates and keeps
the record of jobs, and `dup-agent`, a root process behind a unix socket that alone may run
docker. The `dup` command line works beside them on the same files. This directory holds TLA+
models of the parts whose correctness depends on concurrency, failure, time or on two pieces of
code agreeing, the TLC configurations that check them on small instances, and TLAPS proofs of
their main properties for every value of the constants.

## Inventory

| Component | State | Operations | Interacts with |
|---|---|---|---|
| Job store and manager (`internal/job`) | `jobs`, `order`, `running`; each job's state, step log, `done` channel | `Begin`, `Complete`, `StartStep`, `AddStep`, `finish`, `DrainRunning`, the `run` goroutine | HTTP handlers and the scheduler start jobs; the agent client reports steps; `OnComplete` calls the scheduler; the recorder and the notifier follow |
| HTTP API (`internal/server`) | the throttle table | source rules, CORS, authentication, throttle; `handleUpdate`, `githubRequest`, listings | job manager, agent client, scheduler (read only) |
| Scheduler (`internal/schedule`) | `pending`, `broken`, `nextCheck`, `lastCheck`; a ticker and a soak timer per stack | `watch`, `tick`, `apply`, `mark`, `clear`, `ClearPending` | agent (`Check`), manager (`Start`, `Busy`), notifier |
| Agent (`internal/agentd`, `cmd/dup-agent`) | per-stack lock, slots | `handleExec`, `handleCheck`, `acquire`, `release`, shutdown | its client in the service, the pipeline |
| Agent client (`internal/agent`) | none | `Update`/`consume`, `Check` | agent |
| Pipeline (`internal/pipeline`, `internal/compose`) | one run's snapshot, references, deadlines; docker's containers, references and images | validate, inspect, resolve, tag check, pull, compare, hook, up, health, rollback | docker, the registry |
| History and rotation (`internal/history`, `internal/rotate`) | the live file, numbered archives, an archive under construction; the writer's handle and size | `Open`, `Append`, `Write`, `rotate`, `Close`, `Read` | manager writes, `dup logs` (another process) reads |
| Self-update check (`internal/selfupdate`) | one cache file | `Check`, `Cached`, `readCache`, `writeCache`, `Compare` | GitHub; the service's ticker and every `dup version` share the file |
| Configuration (`internal/config`) | none once loaded | `LoadBasic`, `LoadService`, `LoadAgent`: defaults, secrets, validation | every process loads the same file, each at its own time |
| Credentials (`internal/dockercfg`, `dup auth`) | one docker `config.json` per stack | read, prompt and verify, write, delete | the agent hands the directory to docker |
| Notifier, discovery, audit, certificates, CLI output | none that outlives a call | requests and reports | - |

What is hard in this code: jobs that finish in several steps while others look on; a shutdown
that races with ticks and with the last steps of a job; a lock on each side of a socket and a
connection that may be cut at any point; updates that outlive the callers that asked for them;
docker commands that fail half way; a rollback that has to restore what a snapshot says with
tools that move references; a soak that has to survive failed checks, contention, manual updates
and restarts; a rotation of several renames that can be cut between any two of them, under a
reader; a throttle that is asked before and told after; files that several processes read, think
about and replace; two validations of one request, written separately. `PROJECT.json` lists each
of these hazards at its line with the properties that would catch it.

## Modules

| Module | Models | Composition |
|---|---|---|
| `UpdateExclusion` | the promise of both processes: at most one piece of work per stack, each done at most once | abstract |
| `JobStore` | `internal/job`, the part of `handleUpdate` that starts and waits, `runServe`'s shutdown | implements `UpdateExclusion` |
| `Agentd` | `internal/agentd` (exec and check), `internal/agent`, `cmd/dup-agent` | implements `UpdateExclusion` |
| `Pipeline` | `internal/pipeline` over `internal/compose` | - |
| `Scheduler` | `internal/schedule`, with the manager and the agent as far as it sees them | - |
| `History` | `internal/history` over `internal/rotate`, the service's writer and one reader | - |
| `Api` | `internal/server`: `access.go`, `auth.go`, `Server.protected` | - |
| `Semver`, `SelfUpdate` | `internal/selfupdate`, `watchForNewRelease`, `dup version` | `SelfUpdate` extends `Semver` |
| `Config` | `internal/config`: defaults, secrets, validation, as operators | - |
| `Credentials` | `internal/dockercfg` and the `dup auth` commands | - |
| `Settings` | the processes that load one file at different times; a request through both validations | composes `Config` and `Credentials` |
| `MC*` | instances for TLC | extend the above |
| `*Proofs` | theorems about `JobStore`, `Agentd`, `Scheduler`, `Pipeline`, `History`, `Api`, `Settings`, `SelfUpdate` | extend the above |

Operators that end in `Mut`, or are named for a mistake (`BusyNever`, `ReceiveEarly`,
`AcquireUnchecked`, `FreeNone`, `ArmNothing`, `RoomUnswept`,
`CompressInPlace`, `PutKept`, `SeenOnce`, `SaveLimitNot`, ...), are not part of any
specification: each is a plausible bug in the definition after it, kept to show that some
property notices it.

### JobStore

One action per critical section or channel operation. `pc[j]` is the program counter of the run
goroutine of a job: `update` (in the backend) - `close` (outcome published, `done` still open) -
`free` (`done` closed, target still held) - `record` (target free, history and notification to
come) - `end`. `caller` is the state of a handler or of a tick that has decided to apply; `phase`
is where `runServe` is in its shutdown; when the listener fails it returns at once, without
shutdown or drain (`ServeFails`). `Begin` includes eviction. The backend is abstract: it reports
steps and returns any outcome.

Run `jobstore` (two stacks, two jobs, a store that keeps one, a handler and a ticker):
- `ImplementsExclusion`: backend calls of a stack never overlap, and each job has one;
- `AnswerIsFinal`: a waiter that `done` woke reports the outcome the job keeps;
- `NoStepOutlivesJob`: a finished job shows no running step, even when the stream was cut;
- `DrainWaitsForRequests`: a shutdown within its budgets leaves no requested update behind (an
  update it does leave was started by a tick that was past its check);
- `Progress`: targets are freed, and the drain ends without the help of its budgets.

Run `jobstore_exit` finds that the drain waits for the wrong thing where the history is
concerned: a job leaves the running map before it is recorded, so a clean exit can lose the
record of a finished update.

### Agentd

A request goes `arrived - locked - working - emitted - unslotted - released - returned`: the
deferred calls of the Go handler are steps of their own, in their order. The caller may give up
at any moment, the agent may stop, die and restart.

The deadline of a docker command need not end it. `exec.CommandContext` kills the command, but
its `Run` also waits for the end of the output, and without a `WaitDelay`
(`internal/compose/compose.go:218-228`, the hook at `internal/pipeline/pipeline.go:179-191`) a
process the command left behind, a compose plugin or a child of a hook, keeps that open for as
long as it lives. `stuck` is a handler that waits for such a command; `Resume` need not come.

The result event precedes the release on the wire. `consume` is still right to take it as the
end, because it reads to the end of the body, which follows the release. `Client.Check` drops the
error of its read and stops at `maxErrorBytes`, so it may conclude from a part of an answer, cut or
long, before the handler has returned (`ReceivePrefix`): from the 500 of a failed check, which
quotes docker, or from a 200 of which the whole JSON came. The other bodies are short.

Run `agentd` (three requests, two stacks, one slot): `NothingLeaks` ties the lock table and the
slots to the requests being handled, through conflicts, full slots and crashes;
`AnsweredMeansReleased`: a caller that has an update's result, or a refusal other than the 500 of
a failed check, finds the stack and the slot free; `ResultIsWhole`: an update's result is never
made of a stream that was cut, and its handler has returned; `LockReleased`: a lock is given back, unless a docker
command never returns; `CallerConcludes`: every caller ends with a verdict, the agent dead or
stuck; `ImplementsExclusion`, where a request is in progress from its lock to the release. The
slot is taken after the lock and given back before it, so even with one slot two requests on a
stack are kept apart by the lock only.

### Pipeline

One run over docker's world: the container of each service (reference, image ID, condition), the
local references, the local images and the registry. Every command may fail, alone or because a
deadline passed (`Expire`); pull and up may fail half way, for any subset of services. Health
polls see containers in any condition. `Prune` removes an unused image at any moment. Time is
counted in polls. Digests and pull-error texts are left out; a container whose image is an ID
only has reference `None`.

`docker compose up` recreates a service whose reference or image differs from the compose file,
or that does not run; with `--force-recreate`, all it was given. It is run without `--no-deps`
(`compose.go:124-131`), so what differs among the services the listed ones depend on is recreated
too (`Needs`, `UpScope`). `DOCUMENTATION.md:352` says of `services` that it restricts a stack's
updates to these services; that holds of the pull and the comparison, and of `up` only for
services that no listed one needs. These effects, and pull's, are modelled from how the pipeline
relies on them and are marked external.

As in `Agentd`, a command may not return at its deadline (`stuck`, `Stall`, `Resume`); the pull
and the hook have deadlines of their own, the other commands that of the job. A service is one
container: a scaled service, of which the snapshot keeps the last replica
(`pipeline.go:567-573`), is left out.

Run `pipeline` (two services, five starting worlds, every configuration that changes the control
flow, at most one prune):
- `UntouchedUnlessReported`: checks, dry runs, no-ops and failures before `up` leave every
  container as it was;
- `StableForTheWindow`: success and rollback are reported only after a full window without an
  unsettled poll;
- `FinishedMeansCurrent`: `succeeded` and `no_change` mean the registry's image runs;
- `RolledBackRestores`: after `rolled_back` each service that `up` may have recreated, the updated
  ones and those they need, runs its previous image, provided that the rollback found it and
  nobody pruned it during the run, the retagged reference is the one compose resolves, and no
  other container ran a different image under the same reference;
- `Terminates`: every run ends, unless it keeps waiting for a command that does not return.

The provisos of `RolledBackRestores` are where the rollback is weaker than its name: a pruned
image, and a fall-back to a reference that compose would not resolve, are hazards it leaves open.
Run `pipeline_shared_ref` drops the last proviso: the retag loop visits every container of the
stack, and the last one wins.

### Scheduler

One stack: its watch goroutine, the entry in `pending`, the ticker with its one-element channel,
the soak timer, the job that may hold the target, the completion callbacks that are still to
come, and the agent's lock. Time is kept as durations that saturate, so liveness can be checked
without a horizon: `pending` is the age of the entry, `timer`, `tickLeft` and `next` are the
time to go. A unit stands for minutes or more, so it does not pass between two statements of
`watch` that wait for nothing. The environment publishes and withdraws images, fails and refuses
checks, starts manual updates and dry runs, lets jobs time out and restarts the service, each
within a budget; a budget is the only bound.

Run `scheduler` (no soak, one shorter and one longer than the interval):
- `SoakObserved`: no automatic update before a full soak in which every answered check found
  something new;
- `WakesForTheSoak`: while `watch` sleeps, an unfinished soak has a timer for its end;
- `AlertsTellTheTruth`: `broken` agrees with the last check that was not refused for contention;
- `Converges`: once the disturbances end, the stack runs what the registry offers and no soak is
  advertised.

Two runs show where code and documentation disagree: `scheduler_replaced` (an image that
replaces a soaking one inherits its soak) and `scheduler_dropped` (any finished job drops the
soak: a dry run, a failed update, or one the agent refused). The next check that
`GET /v1/targets` reports drifts from the ticker's phase after a soak wake-up; nothing decides by
it, so it is only listed among the hazards.

### History

The disk is `file`, a function from the index of a file (0 is the live one, then the archives) to
its contents, and `partial`, the archive under construction. `pc` is where the writer is in
`Append` and `rotate`: one action per system call, so that a failure, a kill or the reader can
come between any two. A record is one unit long; a write that is cut short leaves a fragment
without an end of line, and the record appended behind it shares its line. `rpc`, `toRead` and
`out` are one run of `Read` in another process, which lists the files and then opens them one by
one, past whatever the writer renames meanwhile. A file that cannot be opened or scanned ends the
read with an error, which reports nothing (`ReadFails`).

Run `history`:
- `AcknowledgedIsKept`: what `Append` acknowledged stays on disk until retention drops it;
  `Retained` counts an archive less for each interrupted rotation, which is what one costs;
- `ArchivesAreWhole`: an archive under its final name was full when it was retired;
- `ReadIsNewest`: a read that no rotation overtook is what was on record when it began, newest
  first, once each.

What the model shows besides: a record behind a torn fragment is on disk but no reader can parse
it, although its `Append` succeeded; a rotation that fails after the close leaves the writer
without a file, so that every later update goes unrecorded, with a warning each, until the
service restarts; a read that a rotation overtakes can see a record twice or not at all. The code
promises nothing else, so these are provisos of the properties. The branch of `rotate` for
`Keep = 0` is left out: the defaults of both configurations make it positive.

### Api

A request waits in `allow` until the throttle is asked, in `authenticate` while the credentials
are compared, and in `fail` before a failure is counted; only the first and the last hold the
throttle's mutex. `clientIP` is an operator over the chain of hops of a request, `allowedSource`,
CORS, `/healthz` and the body limit are guards. A request is a record of marks: what its headers
say, not how they are parsed. `since` is a history variable with the ages of each source's latest
failures, from which the throttle is judged independently of its own counters.

Run `api` (two goroutines, ten kinds of requests from three sources, a table of two entries):
- `CountIsRight`: a source is turned away only for that many failures of its own within the
  window; requests that were past the check still count, fewer than there are goroutines;
- `BudgetKept`: a count within its window is never taken back, except by making room in a table
  full of such counts.

The table is emptied when every entry in it is live; then every source starts anew. That is the
code's choice against growing without bound, and the proviso of `BudgetKept`.

### Semver and SelfUpdate

A version is three fields and a sequence of identifiers, each a record of what the comparison
can tell: digits, a leading zero, its value, its rank in byte order. Numbers with a leading zero
or beyond `int` compare as text; the order stays total all the same.

Reading the cache, being answered or refused by GitHub and writing the cache are separate steps
of each checker, with other checkers, new releases and time in between; a check takes at most
`Timeout`. A check that is disabled, or whose own build is not `Checkable` (an unversioned build,
or `git describe` output, which is ahead of the tag it names), ends before it reads anything.
Writes may fail, GitHub may leave out the header that says when to come back, and some processes,
`Writers` being the others, cannot write the cache at all: those of an ordinary user
(`cache.go:46-47`).

Run `selfupdate` (the service, a command that may write the cache and one that may not, two
releases, six builds with odd identifiers, one from `git describe`):
- `CheckedAtIsTruthful`: no release newer than the one on file had come out when the check that
  is named as the last one began, although a rate-limited check writes back what it read before;
- `RefusalsBounded`: once GitHub refuses, the N processes that may write the cache ask at most
  N(N+1)/2 times more before they all stop: each answer from before the refusal can erase the
  suppression once. The count ends, until GitHub refuses anew, when one of their writes fails or
  one is not told when to come back;
- `AdviceIsOrdered`: of the builds that `Check` would compare, one that `Cached` tells to upgrade is
  older than the release and than every build that is not told.

What these do not promise. A process that cannot write the cache is refused as often as it asks,
as long as nobody else suppresses it. A 403 or 429 without `X-RateLimit-Remaining: 0`
(`selfupdate.go:199-203`) is an error like any other: nothing is written and the next check asks
again. `Cached` (`selfupdate.go:285-295`), which `dup version` shows without a request, asks only
whether a build is valid: it compares a `git describe` build and may advise the tag that build is
ahead of, where `semver.go:10-13` and `semver_test.go:58-66` say that such a build is not to be
compared.

### Config, Credentials and Settings

`Config` gives `applyDefaults`, `resolveSecrets` and every validation as operators over a file,
which is a record of what its text sets; what is found on the disk is a world. YAML decoding and
the warnings are left out. `Credentials` gives one action per step of `dup auth`: nothing locks
`config.json`, and a command prompts between its read and its write. `Settings` lets people edit
the file and start and stop the service, the agent and commands, each of which loads what the
file says at that time, and takes a request through the service's validation and the agent's.
The two `validateTag` functions are operators of their own, `TagOK` and `AgentTagOK`; that they agree is a
lemma, `ValidationsAgree`.

Run `settings` (three sound files, nine with one mistake each, two overlapping commands):
- `QuietStartIsHonoured`: after a start that did not warn, the agent turns down no request that
  the service accepted - neither its stack nor its tag;
- `SavedIsKept`: a credential changes only by a command asked to change it, or by one that had
  read the file for its current registry before that credential was written.

`dup auth` reads before it prompts, so a command that saved several registries meanwhile can lose
all of them to one write, and a removed credential can come back; the comment at
`internal/cli/auth.go:242` expects at most one host's update to be lost. A run over several
stacks is the same steps one stack after another. Files edited by hand to have no entries are
left out.

## Bounds

| Run | Bounds | Why they are enough |
|---|---|---|
| `jobstore` | two stacks, two jobs, one of each caller, history of one | every pair of actors meets: a busy target, an eviction, a tick that races with the drain, a completion with a begin |
| `agentd` | three requests, two stacks, one slot | a conflict, a full agent, and a request that is neither |
| `pipeline` | two services, one of which needs the other, a window of one poll, a deadline of two, one prune | a listed service and an unlisted one it needs; settled, unsettled and failed polls before and after the grace period; every failure of the rollback |
| `scheduler` | soaks of 0, 1 and 3 against an interval of 2, one or two disturbances of two or three kinds | every order of soak and ticker; every pair of disturbances |
| `history` | two archives of two records, eight records, one fault, one kill, reads of three | archives are pruned and shifted; a kill in a rotation that follows a failed one |
| `api` | two goroutines, two failures, two keys, a window of one, time up to four | both are past the check at the limit; a third source finds the table full, live or expired; a window ends and begins again |
| `selfupdate` | three checkers, one of which cannot write, two releases, a TTL of two, a reset of two, time up to three | a stale answer over a newer one, a refusal between a read and a write, a suppression that ends, a refusal that is never written |
| `settings` | twelve files, three worlds, seven requests, two commands, three edits, starts and commands | each mistake is tried on every process; an edit between two starts; a command that overlaps another's read, prompt and write |

The proofs have none of these bounds but those that are part of the model: the horizons of the
clocks and the budgets, which are constants of any size.

## Fairness

Goroutines that can run do run (weak fairness of their steps) and timers fire. In the service the
backend of a job returns, because the request to the agent has the job's deadline for its context
(`Manager.run`) and ending an HTTP request waits for nobody; a caller of the agent concludes for the
same reason. In the agent a deadline does not end a command (see `Agentd`), so no docker command is
assumed to return: `LockReleased` and `Terminates` name the case instead. Nothing is assumed of
clients, requests, signals, failures, containers, the registry or pruning. The drain's end, in
`Progress`, needs no fairness of the shutdown's own budgets. `Converges` assumes that a service
told to stop is started again, that disturbances are finite in number, and that the agent's lock is
released, hence that the stack's commands do return: with one that does not, every later check and
update of the stack is refused until the agent restarts. `History`, `Api`,
`SelfUpdate` and `Settings` state safety only, without fairness: their code waits for nobody.

## Proofs

TLAPS proves for all constants that satisfy the `ASSUME`s of the modules:
- `JobStoreProofs`: the inductive invariant adds to the type invariant that a job in `update`,
  `close` or `free` is the holder of its target (`HoldersAgree`, without which the exclusion is
  not inductive), that state and `done` follow the program counter, that answers name jobs that
  are done, that logs have at most one placeholder, at the end, and what the drain has seen.
  From it: `TypeCorrect`, `Exclusive`, `FinalAnswers`, `StepsClosed`, `DrainSound`, and
  `Refinement` of `UpdateExclusion`.
- `AgentdProofs`: `NothingLeaks` alone does not say that a lock has one holder, since the table
  is a set; the invariant adds `LockIsExclusive`, what the status line says of the work
  (`StatusOfWork`), and that only a returned handler has an answered caller, but for a check
  (`AnswersFollowReturn`). From it: `TypeCorrect`, `Accounting`, `AnsweredReleased`, `ResultsAreWhole`,
  `Refinement`.
- `SchedulerProofs`: the open entry and tick's copy of it are never older than the run of
  checks that found something new (`SoakBacked`, `CopyBacked`), except between the answer
  "nothing new" and the clear that follows. From it: `TypeCorrect`, `SoakIsObserved`,
  `SoakWakesWatch`, `AlertsAreTrue`.
- `PipelineProofs`: what a run may rely on at each step. Until `up` containers are those of the
  snapshot (`NotYet`); after the pull a wanted reference names what the registry has or was
  pruned (`Pulled`), and either way `up` starts the registry's image (`Current`); `settledSince`
  lies after the last unsettled poll (`Settling`). From it: `TypeCorrect`, `Untouched`,
  `StableWindow`, `FinishedIsCurrent`. A second invariant on top of the first
  (`Restoring`) follows the rollback: each service the retag loop has passed has its reference on
  its previous image, and the forced `up` has started it. From it: `RolledBackIsRestored`.
- `HistoryProofs`: `ArchivesAreWhole` needs that a file being rotated is full and that the
  archive under construction is shorter until the moment it is published (`RotatingIsFull`),
  that the writer's count is the size of its file (`SizeIsKnown`), and that a handle which could
  not be closed belongs to a full file, so that nothing is written through it (`StaleIsFull`).
  From it: `WholeArchives`. On top of it `Reach` says how far back the files go: a record in the
  live file precedes the one in hand (`LiveIsOlder`), and a record in an archive precedes the
  lines of every file in front of it, less a file for each interrupted rotation
  (`ArchivesAreOlder`), which needs that what is renamed or published finds its place empty
  (`RoomAhead`) and is the live file (`CopyIsFaithful`). So what is pruned lies a whole retention
  back: `AcknowledgedRecordsAreKept`. `Chronological` orders the lines, within a file always and
  between files until a rotation is interrupted; `Reading` then says of each record that was on
  record when a read began that it has been found, is in a file still listed, or is older than
  the `Limit` records found, and that nothing still listed is newer than what was found. From
  both: `TypeCorrect`, `ReadsAreNewest`. The lemma `Ascending`, that `InOrder` lists a finite set
  of numbers in order, counts members below each instead of recursing.
- `ApiProofs`: an entry's count is backed by as many failures of its own source since its window
  began (`Backed`), and a count leaves room for the requests past the check (`FlightBounded`).
  From it: `TypeCorrect`, `CountsAreRight`, `BudgetsAreKept`.
- `SettingsProofs`: what runs was loaded; a service that started quietly has the
  agent's configuration, and what it accepted passes the agent's validation (`ForwardedIsValid`,
  by `ValidationsAgree`);
  a command's copy differs from the file only where others wrote since it read (`CopiesAgree`).
  From it: `TypeCorrect`, `QuietIsHonoured`, `CredentialsAreKept`.
- `SelfUpdateProofs`: `CheckedAtIsTruthful` is not inductive, since a refused check writes back
  what it had read; it holds of every copy under way (`Sound`), and no release newer than an
  answer was out when the check that got it began (`UnderWay`). From it: `TypeCorrect`,
  `TimesAreTruthful`. Of two versions the first difference decides, so the comparison is
  antisymmetric and transitive (`VersionOrder`, `VersionTransitive`): `AdviceOrdered`, of the
  builds `Check` would compare. Requests of writers under a refusal are counted by what is left
  to spend (`Budget`): a command that read the cache before the refusal may still ask, and may
  write that stale copy back once, which lets those that hold no other ask once more. Each request uses some of it up, nothing adds to it before the
  refusal ends, and N writers, a finite number, begin with enough for N(N + 1)/2 requests, unless a
  write of theirs fails or one is not told when to come back: `RefusalsAreBounded`. Processes that
  cannot write change neither the cache nor the count.

Every safety property of a passing run is the property of a theorem. Only model-checked is all
liveness (`Progress`, `LockReleased`, `CallerConcludes`, `Terminates`, `Converges`), which needs
fairness and `ENABLED`.

## Not modelled

Notifications (best effort, without state, and without a promise of their order), YAML decoding
and the warnings of the configuration, discovery, audit, certificates, the listings of the HTTP
API, CLI rendering, and the wording of messages. The agent's `/images` and `/discover` only read.
An evicted job that is still running can no longer be looked up; this needs two hundred jobs
during one and is the documented limit. `dup auth --list` only reads, and what a registry says of
credentials is a choice.

## Possible extensions

1. A composition of `Scheduler` and `JobStore` over the agent's lock, if it shows more than its
   parts.
