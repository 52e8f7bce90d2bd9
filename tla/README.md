# A verification project for the demo compiler

TLA+ models of the Go server in this repository, model-checked with TLC and, for
the most part, proved with TLAPS. Every
definition is translated from the code under `src/`; `PROJECT.json` maps each one
to its lines.

## 1. The system

One Go process serves a web UI over HTTP and keeps everything it must remember
in SQLite. SQLite is opened with a single connection, so every statement (and
every transaction) is atomic and everything *between* two statements is a point
where another handler, goroutine or a crash may come in. Handlers do long
things between statements: they stream a model's answer, run `docker compose`,
run `gcx`, query telemetry. That is where the behaviour of this program is
hard, and what the modules are about.

| Component | State it keeps | Operations | Talks to | Correct when |
|---|---|---|---|---|
| Local demo lifecycle (`deployment_service.go`, `deployment/`) | `deployments` rows; Compose projects; `localMu`; one goroutine per started demo | attach a deployment, configure its token, start, verify, stop the active demo | docker, Grafana OTLP, session state | one demo up at a time; containers always have a row that says so; a start is claimed once |
| Launch of a demo (`deployment/runner.go`, `readiness.go`, `verification.go`, `telemetryconfig/`) | containers; what a query has found so far | preflight, wiring, Compose, wait until ready, verify telemetry | docker, the application's helper, Alloy, the stack through `gcx` | announced when everything is up at once; verified by its own telemetry only; always a verdict |
| Session deletion (`session_delete.go`, `server.go`) | `session_deletions` marker; the request gate | begin, stop containers, delete stack, remove files and credentials, cascade | all of the above | no work on a session being deleted; a failed deletion can be repeated |
| Grafana Cloud stack (`deployment_service.go`, `store/stacks.go`, `deployment/connect.go`) | `session_stacks` row, credential file; one goroutine per request accepted | create, retry, connect, delete | Grafana Cloud through `gcx` | one goroutine per stack; `ready` means verified; nothing left in the Cloud |
| Chat turns and living brief (`chat_service.go`, `brief_service.go`, `chat/bedrock.go`) | `messages`, `operations`, `living_briefs` versions with a cursor, session state | turn, curator update, plan evaluation | Bedrock | confirmed decisions kept; acceptance belongs to the plan it was given for; no message skipped |
| Focused threads (`brief_service.go`) | `brief_threads`, their messages | open, ask, answer, confirm | Bedrock, living brief | a confirmation changes its topic alone, once |
| Prototype generation (`prototype_service.go`, `prototype/`) | `prototype_iterations`, files | start, progress, finish | Bedrock, session state | one build at a time; files match the validation |
| Approvals (`gcx_handlers.go`, `revision_handlers.go`) | `gcx_actions`, `revision_proposals` | propose, approve or reject, run | `gcx`, prototype generation | used once, for the sources they were proposed on |
| Restart recovery (`store.go` `migrate`) | - | rewrites rows of work that died | every table | every interrupted piece of work can be tried again |
| Topic registry (`brieftopics/registry.go`) | IDs inside the stored brief | reconcile, ensure, resolve, apply | living brief, focused threads | an ID means one item; a locked item keeps it whatever the model answers |
| Context compiler (`contextengine/compiler.go`) | none that outlives a call | compile the packet of each role | session, messages | the packet fits, keeps what is required and the user's request |
| gcx classification, telemetry validators, prompts, observability, web UI | none that outlives a call | pure functions, text, rendering | - | not modelled, see section 8 |

Interactions: `localMu` serialises the starts of local demos and the clean-up
of a deletion. The HTTP gate (`sessionMutationGate`) is a read lock for every
mutating request and a write lock for DELETE; goroutines started by a request
outlive it and are *not* under the gate. `sessions.state` is written by the
brief, by builds and by deployments.

## 2. The modules

| Module | Role |
|---|---|
| `LocalDemo` | local demo lifecycle, deletion and recovery for several sessions |
| `DemoSlot` | what `LocalDemo` promises: one slot, one holder, launch only into an empty slot |
| `LocalDemoProofs` | TLAPS proofs about `LocalDemo` |
| `DemoLaunch` | one launch of a demo after another: wiring, containers, readiness, telemetry |
| `LaunchPromise` | what the README promises of a launch; `DemoLaunch` implements it |
| `DemoLaunchProofs` | TLAPS proofs about `DemoLaunch` |
| `GrafanaStack` | creation, connection, deletion and recovery of one session's stack |
| `GrafanaStackProofs` | TLAPS proofs about `GrafanaStack` |
| `LivingBrief` | turns, curator, focused threads, confirmations and recovery for one session |
| `LivingBriefProofs` | TLAPS proofs about `LivingBrief` |
| `BriefItems` | the identity of the items of one collection of the brief |
| `BriefItemsProofs` | TLAPS proofs about `BriefItems` |
| `PrototypeBuild` | prototype iterations and the revision proposals they are built for |
| `PrototypeBuildProofs` | TLAPS proofs about `PrototypeBuild` |
| `GcxActions` | gcx commands of the agent, read or approved; extends `GrafanaStack` and composes with it |
| `GcxActionsProofs` | TLAPS proofs about `GcxActions`, built on those about `GrafanaStack` |
| `ContextBudget` | the packets of the context compiler, a pure algorithm |
| `ContextBudgetProofs` | TLAPS proofs about `ContextBudget` |
| `MC*` | values of the constants for TLC |

`Next` is in every module the disjunction of: the steps of each request handler,
the steps of each goroutine, the steps of DELETE, and `Restart`. A handler is a
program counter with what it carries from one statement to the next (its
*snapshot* or *item*), so that a stale copy is stale in the model too.

### LocalDemo

`status`/`error` are the columns of `deployments`, `up[s]` says that the Compose
project of session `s` has containers, `pc[d]`, `item[d]`, `todo[d]` and
`halted[d]` are the locals of the `startLocal` goroutine of deployment `d`,
`lock` is `localMu`.

- `StartCheck`, `StartCreate`: `Start`. `TokenCheck`, `Claim`, `Resolve*`,
  `Spawn`, `SaveFails`, `RestoreToken`: `ConfigureToken`.
- `Acquire` ... `Finish`: `startLocal`; `List`, `DownProject`, `StopProject`,
  `StopFails`, `RecordStopped`, `StopAbandoned`, `StopDone`:
  `stopActiveLocalDeployment`; `Compose*`: `Runner.Run`; `Verify*`: telemetry.
- `DeleteRequest` ... `DropSession`, `CleanupFails`: `DeleteSession`.
- `Restart`: process death and `migrate`. Rows and files survive; locks,
  goroutines and requests do not. Containers survive because Docker is a daemon
  of its own; a command that was running is taken to die with the server.

Abstractions: a session starts with a complete prototype and a ready stack
(what `Start` requires). Progress messages re-save the row only where the code
does. The order in which stopped candidates of equal priority are handled is
any order. What happens inside `composing` and `verify` is `DemoLaunch`. With `StoreFaults` every write may fail.

### DemoLaunch

`phase`, `missing` and `outcome` follow the `startLocal` goroutine through
`PreflightLocal`, `stopActiveLocalDeployment`, `StartLocal`, `WaitReady` and
`VerifyTelemetry`; `LocalDemo` has the rows and locks around it. `cont` are the
containers of the session's Compose project, `of` the deployment they were
started for, `probed` and `cloud` what the helper has sent and what a query would
find. `met` is history: the services of a deployment were once all up together.

- An application (`Project`) is what `WireFoundation` and `dynamicHostPorts` look
  at: services, builds, health checks, networks, environments. `Accepted` is what
  they do not refuse, `Wired` the environment they leave each container with, and
  `Routed` says that an application's probes then reach Alloy and the stack.
- `Ready`, `NotReady`: one listing by `checkComposeReady`. A poll that finds
  nothing new is no step. A service that runs once and exits has no model of its own: to
  the code (`readiness.go:52`) and here it is a container that has failed.
- `Rises`, `Wavers`, `Breaks`: Docker. `Probe`: the helper's ticker. `Arrives`: a
  signal of *any* deployment, at any time after it was sent.
- `calm` is chosen once: on a calm day no command fails, no container breaks and no
  limit expires. The safety properties do not depend on it; `CalmVerifies` says what
  the launch must then achieve.

`LaunchPromise` has no polls, no containers and no single signals: a launch starts,
is announced when its services are up, and ends in a verdict. In the refinement
`up` is `met`, and `delivered` is that every signal is in the stack.

### GrafanaStack

`row` is the session's row in `session_stacks` reduced to its status and whether
`stack_url` is known; `cloud` and `config` are the stack in Grafana Cloud and
the credential file. `work[w]` is a goroutine with its own `item`, which it
writes back whole (`UpdateGrafanaStack` has no condition): `told` says that the
progress of its present command was written. One session is enough: stacks of
different sessions have different slugs and rows and share no lock.

`SettlesPromptly` is an assumption on the *environment*: a retry is not
accepted between the two writes by which `provision` records a failure. They
are microseconds apart, but nothing in the code rules it out; section 3 says
what happens without the assumption.

### LivingBrief

`brief` is the latest row of `living_briefs` with its cursor; `open` counts
operations `running` and focused messages `streaming`; `turn`, `focus` and
`confirm` are the handlers with their snapshots. Topic texts are members of
`Values`, a topic may be unknown, proposed or confirmed. What the model answers
is any output that the code accepts (`Propose`, `KeepUnchanged`, `FocusAnswer`).
`Generated` stands for the later states of a session as well. `GetSession` is
one step although it is some ten statements (a hazard listed as uncovered).

`seen`, `overtaken` and `abandoned` are history that no action reads: what a curator
whose result was stored has read, which replies were still being written when it read
past them, and how many rows in progress were left by a handler that lost its request.
Nothing keeps turns, threads and confirmations apart, neither in the model nor in the
code: the UI's busy flags do not enforce it between two of its parts, and two browser
windows enforce nothing. So the properties do not assume it, but say what a handler
makes of the snapshot it has; where that is less than the documentation promises, the
promise is a definition too (`ConfirmedKept`, `Honest`, `GeneratedKept`), and section 3
says how it fails. A dropped request (`Disconnect`) cancels every statement the handler
still tries, those of `failTurn` included; the write of the session's state may fail by
itself, since the code logs that and goes on.

### BriefItems

`items` is one collection (services, telemetry, ...) of the stored brief, in
order; `issued` counts the IDs of `newTopicID`; `threads` are the topics with a
draft thread. `Curate` is one curation, from the tool's input to the stored brief:
the model answers with any short list of items, each with an ID it was shown (in or
out of place, twice, or one that is gone), one it made up, or none; `Reconcile`
settles the IDs, `PreserveConfirmed` puts the locked items back, `Ensure` repairs
what is stored. `Confirm` applies a candidate by topic ID. Names are compared as
`normalized` leaves them, so `Names` are the normalized ones. Curations and
confirmations are single steps here; their interleaving is in `LivingBrief`.

Outside the condition `Consistent`, named items do not keep their IDs, although
the comment on `Reconcile` does not say so: a model that sends the ID of one item
under the name of another renames the first and drops the second's ID, and a
draft thread on the second can no longer be confirmed (`ReconcileContract` without
`Consistent` fails).

### PrototypeBuild

`iteration` holds the rows of `prototype_iterations` with the operation of each
(`origin`, the proposal it was built for, is history), `disk` the files under
their root paths, `proposal` the rows of `revision_proposals`. `req[r]` is a
`POST prototypes` or `POST revisions/{id}` handler in `start`; the steps in
`Guarded` hold `startMu`. `build[n]` is the goroutine `run` of iteration `n`,
with the state of the builder's tools: `checks` is the last verdict of
`validate_prototype`, `checked` the files it saw (history).

- `Draft`, `CreateRevision`: the agent's tool. `Reject`, `Approve`:
  `ClaimRevision`. `Post`, `Load` ... `Spawn`: `start`. `Receipt`, `Denied`:
  `FinishRevisionApproval`.
- `OpenWorkspace`, `Write`, `Validate`, `Validated`, `Stop`, `BuildFails`:
  `BuildPrototype` and its tools. `FinishOperation`, `SetState`,
  `FinishIteration`: the three writes that end `run`.
- `Restart`: `migrate`. Proposals left `approved` are not recovered.

A file has one of `Contents`; the model may write any file it is allowed to,
and the checks may give any verdict. `Tidied` are the files that
`go mod tidy`, a part of every validation, rewrites even outside the approved
paths. With `Disconnects`, statements made with the request's context may fail;
with `StoreFaults`, any statement may. `ParallelTools` says whether the tools of
one step run in parallel, which the code leaves to the SDK.

### GcxActions

Extends `GrafanaStack`, whose row, Cloud stack and credential file a command
depends on. `action` are the rows of `gcx_actions`, `ran` counts how often the
command of an action reached Grafana, `turn` and `tool` are the chat turn with
its snapshot and its `run_gcx` calls, `click[c]` are the `decideGCXAction`
handlers. A command that is not a known read waits as `pending` (`Propose`), a
read is stored as `running` and run at once (`ReadStart` ...). `Quiet` is the
mutation gate: DELETE waits for turns and clicks. `Restart` composes with
`Forget`: a `running` action stays `running` for good, as the documentation says.

### ContextBudget

`Sections` gives the sections of each role with their priority, `Taken` is the
loop of `manifest`, `Window` and `Recent` cut the history. A section is the
length of its encoding; tokens are lengths divided and rounded up. Sums are the
sizes of sets of pieces (`Pieces`, `Bytes`) and the sort is by rank (`Ascending`,
`InOrder`), which says the same as the loops and can be reasoned about. The state
machine only enumerates conversations and asks for packets; the properties
compare each packet with reference definitions. Selection is greedy, so a
conversation may reach the model with a gap: a long recent message may be left
out and a short older one kept. `BestChoice` states what that loop does promise.

## 3. What the runs check

Passing runs:

| Run | Properties | Bounds and states |
|---|---|---|
| `local_demo` | `OneDemo`, `NothingOrphaned`, `StateBacked`, refinement `ImplementsSlot`, `StartResolves`, `DeleteAnswered` | 2 sessions, 3 deployments (a demo, its replacement, another session's), one request at a time beside goroutines and deletions, fairness; 161 056 states |
| `local_demo_faults` | `ClaimedOnce`, `NoWorkWhileDeleting` | the same with 2 concurrent requests, any write may fail; 763 894 states |
| `demo_launch` | `ReadyTogether`, `DeliveredAll`, `CalmVerifies`, refinement `ImplementsLaunch` | 2 launches, 2 services and Alloy, 2 signals, 15 pairs of applications, fairness; 243 094 states |
| `gcx_actions` | `RunsOnce`, `ReceiptTrue`, `OwnCredentials`; of the stack: `OneWorker`, `NoWorkWhileDeleting`, `NothingLeftBehind`, `ReadyVerified`, `ReadyStays`, `StackResolves` | one action, two clicks, a turn, 2 stack requests and 2 goroutines, failing writes, lost receipts, fairness; 462 871 states |
| `living_brief` | `SeenDecisionsKept`, `ChangeNeedsAcceptance`, `ReadyAccepted`, `ConfirmedFrozen` | a turn, a thread and a confirmation in any order, 2 topics, 4 messages, 3 versions, failing state writes, dropped requests, restarts; 1 229 375 states |
| `living_brief_races` | `NothingSkipped`, `WorkAccounted` | 2 turns and a thread in any order, 4 messages, 2 versions, 2 rows in progress, dropped requests, restarts; 1 652 659 states |
| `brief_items` | `ReconcileContract`, `LockedKept` | answers of up to 2 items over 2 names with any IDs, 3 IDs issued, threads on all of them; 4 923 states, in each of which the contract is evaluated for every answer |
| `prototype` | `OneBuild`, `SingleUse`, `RevisionFresh`, `ReceiptTrue` | 2 requests, a proposal, 3 iterations, 2 brief versions, failing statements, disconnects, restarts; 2 858 376 states |
| `prototype_live` | `ScopeKept`, `ValidatedLast`, `BuildEnds` | one request, 2 files of which one is tidied, 2 iterations, fairness, only builds fail; 155 702 states |
| `context_budget` | `WithinBudget` (with `ManifestTrue`), `BestChoice`, `RequestKept` | every conversation of up to 4 messages, every size of the sections, 6 roles; 338 990 states |

The type invariants and the inductive invariants are proved (section 5) and hold in
these runs too when added to the configurations: `Coordination`, `Coverage` and
`Backing` of `LocalDemo` with `CandidatesStable` and `MarkerDurable`; `Coordination`
of `GrafanaStack`; `GcxTypeOK`, `Decisions`, `StackSeen` and `ReceiptStays` of
`GcxActions`; `Bookkeeping`, `Derived` and `Unskipped` of `LivingBrief`; `Custody`, `OutcomeLast` and, without parallel tools, `ChecksCurrent` of
`PrototypeBuild`. So do the `TypeOK` of `BriefItems`, that of
`ContextBudget` with conversations of two messages (it compiles every packet again), and `Honest` and
`GeneratedBacked` in `prototype_live`. They are left out of the regular runs because
the others already tell what they tell.

Why the bounds are enough for the cases meant: two sessions are needed for a
demo to be displaced, a third deployment for a session to replace its own; two
requests for a race on a claim; two goroutines for one to be superfluous. Two
messages make a turn, so four messages allow a proposal and its acceptance, or two
turns that overlap; a second topic is what a confirmation must leave alone; two launches let
the second one find the containers and the telemetry of the first; two items with
two names let one take the other's ID, and a third ID is the one that is dropped or
new; three versions allow a curator's brief, a confirmation and a
later update. Three iterations give a revision a base, a build between its
proposal and its approval, and a build of its own. Two clicks race for one
approval; a second action adds nothing to the first (checked once by hand, 1.1
million states). A budget of seven tokens of two bytes, with windows of two and
three messages, makes every optional section fit in some cases and not in
others, and puts the request outside the window. The applications
launched differ in one thing each from one that works: the foundation changed, a
service without health check, on the host's network, with exporter settings of its
own, no Alloy, nothing built (`MCPlans`). `LivingBrief` and `DemoLaunch` stop at
their bounds, hence `CHECK_DEADLOCK FALSE` there; the other modules are checked for
deadlock.

Violation runs, each with one property quoted from the repository and a finding
in `PROJECT.json`:

| Run | What the code does |
|---|---|
| `deletion_retry` | a deletion that fails after the files are gone cannot be repeated: the first step needs the directory |
| `lost_confirmation` | a curator overwrites a decision that was confirmed while the reply was streamed |

What else does not hold, and how to see it. Each of these is a passing run in
which one constant is changed and the property named is checked alone, or one
property is added; the assumptions exist because of them.

- `StoreFaults = TRUE` in `LocalDemo.cfg` (with `Spec`) breaks `OneDemo`: the row of a started
  demo cannot be written (`deployment_service.go:402`) and the next start does
  not stop its containers.
- `OneActivePerSession` as an invariant of `LocalDemoFaults.cfg` fails: two attach
  requests both find no active deployment and both create one
  (`deployment_service.go:78`).
- `SettlesPromptly = FALSE` in `GcxActions.cfg` breaks `NoWorkWhileDeleting`:
  `provision` writes a failure twice (`deployment_service.go:282` and `289`), and
  the second write hides a retry accepted in between, under which the session can
  be deleted.
- `ConnectRetryable` as an invariant of `GcxActions.cfg` fails: a connection
  that began from a snapshot without URL erases the URL, for good
  (`deployment_service.go:151`).
- `Honest` as an invariant of `LivingBriefRaces.cfg` fails: after a dropped request
  `failTurn` writes with the request's cancelled context (`chat_service.go:123`) and rows
  stay in progress until a restart, although `PLAN.md` has failure and interruption
  persisted. `Disconnects = TRUE` in `PrototypeBuildLive.cfg` breaks its `Honest`: the
  clean-up of `start` uses the context that failed (`prototype_service.go:106`).
- `NothingSkipped` without `overtaken` fails in `LivingBriefRaces.cfg`: a turn's curator
  reads up to its own reply and stores that cursor while an earlier reply is still being
  written. When that one completes it is behind the cursor, and only the curator of its
  own turn, if that does not fail, still reads it from its older snapshot (`store.go:865`).
- `ReadyAccepted` without `Undisturbed` fails in `LivingBrief.cfg`: a turn and a
  confirmation store their session states in the other order than their briefs
  (`brief_service.go:261`), and the session is Ready with a plan that nobody accepted.
- `GeneratedKept` as a property of `LivingBrief.cfg` fails: an accepted change
  takes a session from Generated back to Ready.
- `Restarts = TRUE` or `StoreFaults = TRUE` in `PrototypeBuildLive.cfg` breaks
  `GeneratedBacked` (and `StoreFaults = TRUE` also `Honest`): the state is written before the iteration is complete
  (`prototype_service.go:177`).
- `ParallelTools = TRUE` in `PrototypeBuildLive.cfg` breaks `ValidatedLast`: a
  write that runs during a validation is overlooked when its verdict arrives.

Every property of a passing run has a mutant in `PROJECT.json`: a definition in
the same module (marked *mutant*) that changes one mapped definition the way a
plausible bug would, under which TLC finds the property violated.

## 4. Fairness

Weak fairness on the steps of handlers and goroutines that have begun, where every
call they wait for has a context with a deadline: the goroutines of deployments and
stacks (docker, gcx, telemetry: 3, 10 and 15 minutes), DELETE (5 minutes) and the
builder (15 minutes). Each ends in success or failure. There is none in `LivingBrief`,
nor for the chat turns of `GcxActions`: they stream with the request's context, to
which `bedrock.go:409` adds a cancellation and no deadline, and the server sets no
write timeout, so that a model that falls silent leaves its reply `streaming` for as
long as the browser waits. That a reply ends is therefore not among the properties; nor
is that DELETE gets the request gate, which such a turn holds (`DeleteAnswered` begins
when it has it). None on the arrival of requests,
on restarts or on disconnects. Strong fairness on taking `localMu` (`Acquire`,
`DeleteAcquire`): Go's `sync.Mutex` hands the lock to a waiter that has starved
for a millisecond. `BuildEnds` rests on the builder's own limits, forty steps and
fifteen minutes (`Stop`, `BuildFails`). In `DemoLaunch` the goroutine always goes
on (its waits end after 90 and 120 seconds); Docker, the helper and the pipeline
are fair only on a calm day, so that the refinement's liveness, a verdict for every
launch, rests on the code alone. `StackResolves` excuses a row only when the
statement that would have settled it failed (`lost`). The liveness runs assume that writes succeed where a status
only changes by a write, since the code logs a failed write and goes on.

## 5. What is proved

Proofs are checked by TLAPS for every value of the constants that the named
assumptions allow: any sets of sessions, deployments, requests, proposals, files.

`LocalDemoProofs`, from the constants' assumptions (`OwnerAssumption`,
`StoreFaultsAssumption`, `LockAssumption`):

- `TypeCorrect`, `Coordinated`: `TypeOK` and the inductive invariant
  `Coordination`, whatever the store does.
- `DeletionExcludesWork`: `NoWorkWhileDeleting`. `OneClaim`: `ClaimedOnce`.
- `MarkerStays` (`MarkerDurable`) and `CandidatesKept` (`CandidatesStable`), action
  properties, also whatever the store does.
- With `Reliable` (`StoreFaults = FALSE`) as a further assumption: `Covered`,
  `OneDemoAtATime` (`OneDemo`), `DemosAreListed` (`NothingOrphaned`),
  `StatesAreBacked` (`StateBacked`) and `SlotImplemented` (`ImplementsSlot`).

`OneDemo` is not inductive by itself. The argument is: a goroutine brings
containers up only at `composing`; it gets there only from `stopping` with an
empty `todo`; `todo` is the set of candidate rows (`StopsAll`), which nobody
else can change while `localMu` is held (`LockHeld`, `WorkersClaimed`,
`StopsCandidates`); and every project that is up has a candidate row
(`NothingOrphaned`). So nothing is up when containers come up. `Coordination`
holds the facts about who may do what, `Coverage` those about containers and
their rows. The split follows the assumption: the first half does not depend on
the store, the second fails without it (section 3).

`SlotImplemented` takes the argument one level up. The slot is the session whose
project is up and the holder is `lock`; `Acquire` is `Take`, a project that goes down
is `Clear`, containers that come up are `Launch`, and whatever releases `localMu` is
`Leave`. `Coverage` is what makes `Launch` find the slot empty, and the set of
projects that are up a single session. `StatesAreBacked` needs one invariant more,
`StatesInStep`: `startLocal` writes a row and then the session's state, and between
the two the row already says what the state will be, while a stop lowers the state
of what it halts before its row.

`GrafanaStackProofs`, from `StoreFaultsAssumption`, `TimingAssumption` and, as
an assumption of the theorems, `SettlesPromptly`:

- `TypeCorrect`, `Coordinated`: `TypeOK` and the inductive invariant
  `Coordination`.
- `OneWorkerAtATime` (`OneWorker`), `DeletionExcludesWork`
  (`NoWorkWhileDeleting`), `CloudIsEmptied` (`NothingLeftBehind`) and
  `ReadyIsVerified` (`ReadyVerified`), as consequences; `ReadyIsKept`
  (`ReadyStays`), an action property.

The argument: the row and the goroutine's copy of it move together. A row in
progress has exactly one worker (or one request about to start one), a goroutine
at work sees its own status in the row, and a settled row has none; so every
unconditional write puts back what is there or takes the next step.

`PrototypeBuildProofs`, from `BoundAssumption` and `NoneAssumption`, with failing
statements, disconnects, restarts and parallel tools allowed:

- `InCustody` (`Custody`), and from the same invariant `OneBuildAtATime`
  (`OneBuild`), `ApprovedOnce` (`SingleUse`), `BuiltAsApproved` (`RevisionFresh`),
  `ReceiptsAreTrue` (`ReceiptTrue`) and `IterationsSettle` (`SettledStays`).

The inductive invariant `Held` is `Custody` with `SingleUse`, `RevisionFresh` and
`ReceiptTrue`; none of them is inductive alone. `OneBuild` rests on three facts:
`startMu` has one holder (`LockHeld`); it holds it from the check that the latest
row is settled to the goroutine that takes the new row (`HandlerOwns`); and a
goroutine is active for the latest row only, and only while that row is being
generated (`LatestOpen`), so that no other row can be created meanwhile. The
approval follows the same path: the claim puts a proposal in one handler's hands,
where it stays to its receipt (`ApprovalHeld`), and nothing was built for it before.
A restart empties those hands, and leaves the proposal `approved` for good: it
cannot be claimed again, which is what makes it safe.

Two theorems about the files follow, with two more invariants:

- `OnlyApprovedFiles` (`ScopeKept`), under the same assumptions. A goroutine copies
  its base before it writes anything, `startMu` has compared that base with the
  proposal's digest (`RevisionFresh`), and no writer but the goroutine itself touches
  its files. `OutcomeLast` makes the exception for failed builds harmless: a build
  that can still write has not failed.
- `CompleteIsValidated` (`ValidatedLast`), if the tools of a step run one by one
  (`ParallelTools = FALSE`). `ChecksCurrent` carries the verdict: a validation in
  progress or passed has seen the files that are there, every write discards it, and
  only a passed one lets the build stop as complete. With parallel tools a write
  falls into the validation and the theorem is false (section 3).

`LivingBriefProofs`, from the constants' assumptions alone: for any topics, values,
threads, turns and confirmations in every interleaving, with dropped requests, failing
state writes and restarts:

- `BooksKept` (the inductive invariant `Bookkeeping`) and from it `TypeCorrect`,
  `WorkIsAccounted` (`WorkAccounted`) and `ConfirmedIsFinal` (`ConfirmedFrozen`).
- `DerivedKept` (the inductive invariant `Derived`, with `Bookkeeping`) and from it
  `DecisionsKept` (`SeenDecisionsKept`), `ChangedBriefsUnaccepted`
  (`ChangeNeedsAcceptance`) and `ReadyIsAccepted` (`ReadyAccepted`).
- `NoMessageSkipped` (`NothingSkipped`), from `Bookkeeping` and `Unskipped`.

`WorkAccounted` counts: the rows in progress are as many as the handlers that will close
one (`Working`, `Answering`) and the rows `abandoned`. Each step that opens or closes a
row moves one handler into or out of these sets, and a dropped request moves it from
there to `abandoned`; the same equation keeps the counter a number. `Derived` speaks of a
handler and its snapshot only, which is why nothing has to be assumed about the others:
between proposal and write, what it will store keeps the snapshot's decisions and has no
acceptance if it differs from the snapshot. The latest version is never older than a
snapshot's, and is its successor after the handler's own write only if nobody else has
written; then the latest brief is what the handler stored, and its acceptance the one
the handler's state is made of. `Unskipped` needs both directions of the conversation:
what is behind the latest cursor, or a snapshot's, is seen or overtaken, also while it
is still being written (`Covers`), so that it stays so when it completes; and a batch,
with what it passes, covers everything from the snapshot's cursor to its end. A curator
with an old snapshot may move the cursor back, which skips nothing.

`DemoLaunchProofs`, from `NamesAssumption`, `SignalsAssumption`, `BoundAssumption`
and `PlansAssumption`, for any applications whatever their environments:

- `TypeCorrect` (`TypeOK`), `AnnouncedWhenUp` (`ReadyTogether`),
  `VerifiedByDelivery` (`DeliveredAll`), and `PromiseKept`: the detailed
  specification implements the safety part of `LaunchPromise`.

The inductive invariant adds four facts to `TypeOK`: a goroutine that waits or
verifies is that of the deployment whose containers are there (`InHand`); `met`
holds whenever they are all up (`Watched`); what is no longer missing is in the
stack under this deployment's ID (`Found`); and nothing is in the stack that was
not sent (`Sent`). `Watched` turns one listing of `docker compose ps` into a fact
about the past that no later failure takes back, and `Found` turns the partial
results of many queries into one statement about all of them, which is why telemetry
of an earlier deployment cannot slip in between two polls.

`GcxActionsProofs`, from `ReceiptAssumption` and what `GrafanaStackProofs` assumes:

- `Decided` (the inductive invariant `Decisions`, with `GcxTypeOK`), and from it
  `CommandRunsOnce` (`RunsOnce`), `ReceiptIsTrue` (`ReceiptTrue`) and
  `ReceiptIsFinal` (`ReceiptStays`), whatever the timing of the stack's goroutines.
- With `SettlesPromptly`: `CredentialsAreOwn` (`OwnCredentials`).

Every step of the composition is a step of `GrafanaStack` or leaves it alone
(`StackRefined`), so `Coordination` holds here too without a second proof.
`Decisions` says that an action is in at most one pair of hands, those of the turn
that reads or of the click that claimed it (`ReadsInStep`, `ClicksInStep`), that
these hands hold the mutation gate (`GateShared`), and what each row says of its
command (`RowsInStep`). A row is `running` while anybody has it, so a receipt
written by identifier alone finds the row it was claimed in; and a restart, which
empties the hands, leaves it `running`, where no claim takes it up again.
`OwnCredentials` adds `StackSeen`: what a turn or click read of the stack may be out
of date (`ConnectStack` may have claimed the row since), but that the stack and its
credentials exist stays true, for only a deletion takes them away and it waits.

`ContextBudgetProofs`, from `LengthAssumption` and `LimitAssumption` alone, so for
conversations of any length, sections of any size and any budget:

- `TypeCorrect` (`TypeOK`): nothing is said between the making of a packet and its
  use, so a packet is always what `Compile` makes of the thread. Every other theorem
  is a fact about `Compile`:
- `PacketsFit` (`WithinBudget` with `ManifestTrue`), `ChoiceIsBest` (`BestChoice`),
  `RequestReaches` (`RequestKept`).

The library's induction theorems take a predicate as a parameter, so `Induction`
states induction for sets of numbers, proved by counting: the numbers missing from
the set would be mapped one to one into themselves by the predecessor, but for the
least. `Recursion` derives from it that a step function has a sequence of results,
which is what the recursive function in `Taken` is (`Selection`). `Ranks` shows that
ranking a finite set by a strict order lists it, so `InOrder` and `Ascending` are
sorted lists of exactly their set. `SelectionFits` is the argument of the selection:
the first section on which a better choice would differ was tried when what is taken
so far agreed with that choice, and did not fit. `WindowKeepsRequest` is the one of
the window: what is patched over is older than all that is kept, and the request is
older still.

`BriefItemsProofs`, from `BoundAssumption`, for collections and answers of any
length and any number of IDs:

- `TopicsUnique`: `TypeOK` together with `Unique`, the inductive invariant: no two
  items of the stored collection share an ID.
- `ReconcileKeepsIdentity` (`ReconcileContract`), `LockedStay` (`LockedKept`).

The loops are recursive functions, reasoned about with the same two lemmas.
`Reconcile` keeps `Settled` at every item (`ReconcileRuns`); an unambiguous name finds
its ID taken already, takes it by its own ID, or takes it by name, and `Consistent`
is what excludes a fourth case. `LockedKept` is not inductive by itself: two confirmed
items with one ID would take each other's place, so it needs `Unique`, and putting a
locked item back keeps `Unique` (`Locks`). Then `Ensure` finds nothing to do
(`EnsureIdle`): what the curator's tool returned and what a confirmation applied is
stored as it is.

## 6. What is only model-checked

- All liveness properties (`StartResolves`, `DeleteAnswered`, `CalmVerifies`,
  `StackResolves`, `BuildEnds`, and the verdict `LaunchPromise`
  promises): they rest on fairness, which is out of TLAPS' reach.
- Everything in the runs with an assumption switched off, where the properties do not
  hold (section 3).

## 7. Hazards

`PROJECT.json` lists what is hard to test in this code, at its line, with the
properties that would catch it. Uncovered ones carry a note.

## 8. Not modelled

- The table of gcx verbs and redaction, the validators of telemetry text
  (`contract.go`, what `ValidateFoundation` looks for in source), guidance and
  prompts, HTTP encoding: tables and text without state.
- The limits of the prototype workspace (files, bytes): listed as a hazard.
- Labels of topics (`ResolveLegacyLabel`): used by one migration only.
- Observability: exports records, nothing reads them back.
- The web UI: renders what the server returns. Its busy flags are not relied on.
- Schema migrations: run once, alone, before the server listens.

## 9. Plan

1. `LocalDemo`, `DemoSlot`, `LocalDemoProofs`: done.
2. `GrafanaStack`, `GrafanaStackProofs`: done.
3. `LivingBrief`, `LivingBriefProofs`: done. Left: an abstract register of decisions
   as its specification.
4. `PrototypeBuild`, `PrototypeBuildProofs`: done. Left: a proof of `Honest` for calm
   environments.
5. `GcxActions`, `GcxActionsProofs`: done.
6. `ContextBudget`, `ContextBudgetProofs`: done.
7. `DemoLaunch`, `LaunchPromise`, `DemoLaunchProofs`: done.
8. `BriefItems`, `BriefItemsProofs`: done.
9. Left of the pure algorithms: the text order of `formatTime`, the accounting of
   the workspace, the classification of gcx commands.
