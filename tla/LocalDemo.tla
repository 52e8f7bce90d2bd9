----------------------------- MODULE LocalDemo -----------------------------
(***************************************************************************)
(* The local half of internal/application/deployment_service.go and the    *)
(* session deletion of session_delete.go, with the rows they keep in       *)
(* SQLite and the Compose projects they start.                             *)
(*                                                                         *)
(* Actors: HTTP requests (attach a deployment, configure its token), one   *)
(* startLocal goroutine per claimed deployment, one DELETE handler (they   *)
(* are serialised by the mutation gate) and a server restart.  SQLite has  *)
(* a single connection: each statement is one atomic step, and everything  *)
(* between two statements is an interleaving point.                        *)
(***************************************************************************)
EXTENDS Naturals, FiniteSets

CONSTANTS
  Sessions,     \* sessions with a complete prototype and a ready stack
  Deployments,  \* the deployment identifiers newID may hand out (a bound)
  Owner,        \* the session each deployment belongs to
  Requests,     \* concurrent mutating HTTP requests (a bound)
  StoreFaults,  \* whether a write to SQLite may fail
  None,         \* nobody: localMu is not held, no request is in progress
  Deleter       \* localMu is held by the DELETE handler

ASSUME OwnerAssumption == Owner \in [Deployments -> Sessions]
ASSUME StoreFaultsAssumption == StoreFaults \in BOOLEAN
ASSUME LockAssumption == /\ None \notin Deployments
                         /\ Deleter \notin Deployments
                         /\ None # Deleter
                         /\ None \notin Sessions

VARIABLES
  exists,   \* sessions: the row is in the table
  marker,   \* session_deletions: deletion has begun
  state,    \* sessions.state, the part written by deployments and builds
  files,    \* the session's generated files are on disk
  up,       \* the session's Compose project has containers
  status,   \* deployments.status ("absent": no row)
  error,    \* deployments.error <> ''
  lock,     \* DeploymentService.localMu
  pc,       \* where the startLocal goroutine of a deployment is
  item,     \* the goroutine's in-memory copy of its row
  todo,     \* stopActiveLocalDeployment: candidates not yet handled
  halted,   \* stopActiveLocalDeployment: stoppedSessions
  req,      \* the HTTP requests in progress
  del       \* the DELETE handler

rows   == <<exists, marker, state, status, error>>
docker == <<files, up>>
work   == <<lock, pc, item, todo, halted>>
vars   == <<exists, marker, state, files, up, status, error,
            lock, pc, item, todo, halted, req, del>>

(***************************************************************************)
(* Rows and program counters                                               *)
(***************************************************************************)
SessionState == {"Generated", "Running", "Verified"}
RowStatus == {"absent", "needs_token", "starting", "verifying", "running",
              "verified", "failed", "interrupted"}
ItemStatus == {"starting", "failed", "verifying", "running", "verified"}
HoldingStep == {"preflight", "listing", "stopping", "composing", "announce",
                "mark", "verify", "markVerified", "finish"}
WorkerStep == {"none", "waiting"} \cup HoldingStep
RequestStep == {"attach", "claim", "resolve", "save", "restore"}
CleanupStep == {"inspect", "local", "stack", "files", "config", "row"}
DeleteStep == {"waiting", "begin"} \cup CleanupStep

Item == [status : ItemStatus, error : BOOLEAN]
NoItem == [status |-> "starting", error |-> FALSE]
IdleRequest == [step |-> "idle", dep |-> None]
Request == {IdleRequest} \cup [step : RequestStep, dep : Deployments]
IdleDeletion == [step |-> "idle", ses |-> None]
Deletion == {IdleDeletion} \cup [step : DeleteStep, ses : Sessions]

TypeOK ==
  /\ exists \in [Sessions -> BOOLEAN]
  /\ marker \in [Sessions -> BOOLEAN]
  /\ state \in [Sessions -> SessionState]
  /\ files \in [Sessions -> BOOLEAN]
  /\ up \in [Sessions -> BOOLEAN]
  /\ status \in [Deployments -> RowStatus]
  /\ error \in [Deployments -> BOOLEAN]
  /\ lock \in Deployments \cup {None, Deleter}
  /\ pc \in [Deployments -> WorkerStep]
  /\ item \in [Deployments -> Item]
  /\ todo \in [Deployments -> SUBSET Deployments]
  /\ halted \in [Deployments -> SUBSET Sessions]
  /\ req \in [Requests -> Request]
  /\ del \in Deletion

Init ==
  /\ exists = [s \in Sessions |-> TRUE]
  /\ marker = [s \in Sessions |-> FALSE]
  /\ state = [s \in Sessions |-> "Generated"]
  /\ files = [s \in Sessions |-> TRUE]
  /\ up = [s \in Sessions |-> FALSE]
  /\ status = [d \in Deployments |-> "absent"]
  /\ error = [d \in Deployments |-> FALSE]
  /\ lock = None
  /\ pc = [d \in Deployments |-> "none"]
  /\ item = [d \in Deployments |-> NoItem]
  /\ todo = [d \in Deployments |-> {}]
  /\ halted = [d \in Deployments |-> {}]
  /\ req = [r \in Requests |-> IdleRequest]
  /\ del = IdleDeletion

(***************************************************************************)
(* Queries                                                                 *)
(***************************************************************************)
RowsOf(s) == {d \in Deployments : Owner[d] = s /\ status[d] # "absent"}

\* ListLocalCleanupCandidates, over every session.
Candidate(d) ==
  \/ status[d] \in {"running", "verifying", "verified", "failed"}
  \/ status[d] = "interrupted" /\ error[d]

Candidates == {d \in Deployments : Candidate(d)}

\* localCleanupPriority: rows of services that did start come first.
ActiveFirst(e, S) ==
  status[e] \in {"running", "verifying", "verified"}
    \/ \A x \in S : status[x] \notin {"running", "verifying", "verified"}

\* A mutating request passes sessionMutationGate: no DELETE holds the write
\* lock and the session is not being deleted.
Admitted(s) == del.step = "idle" /\ ~marker[s]

\* UpdateDeployment overwrites the row by identifier, whatever it holds;
\* callers log an error and go on.
Save(d, row) ==
  \/ /\ status' = [status EXCEPT ![d] = row.status]
     /\ error' = [error EXCEPT ![d] = row.error]
  \/ StoreFaults /\ UNCHANGED <<status, error>>

\* SetSessionState, whose error is dropped.
SetState(s, value) ==
  \/ state' = [state EXCEPT ![s] = value]
  \/ StoreFaults /\ UNCHANGED state

Row(value, failed) == [status |-> value, error |-> failed]

Respond(r) == req' = [req EXCEPT ![r] = IdleRequest]

-----------------------------------------------------------------------------
(***************************************************************************)
(* POST deployments: Start reads the session, then inserts a row.  The two *)
(* are separate statements under no lock.                                  *)
(***************************************************************************)
StartCheck(r, d) ==
  /\ req[r].step = "idle"
  /\ Admitted(Owner[d]) /\ exists[Owner[d]]
  /\ status[d] = "absent"
  /\ \A q \in Requests : ~(req[q].step = "attach" /\ req[q].dep = d)
  /\ \A e \in RowsOf(Owner[d]) :
       status[e] \notin {"needs_token", "starting", "verifying"}
  /\ req' = [req EXCEPT ![r] = [step |-> "attach", dep |-> d]]
  /\ UNCHANGED <<rows, docker, work, del>>

StartCreate(r) ==
  /\ req[r].step = "attach"
  /\ Save(req[r].dep, Row("needs_token", FALSE))
  /\ Respond(r)
  /\ UNCHANGED <<exists, marker, state, docker, work, del>>

(***************************************************************************)
(* POST token: ConfigureToken checks its snapshot, claims the row with a   *)
(* compare-and-set, resolves OTLP outside any lock, saves and hands over   *)
(* to a startLocal goroutine.                                              *)
(***************************************************************************)
TokenCheck(r, d) ==
  /\ req[r].step = "idle"
  /\ Admitted(Owner[d])
  /\ status[d] = "needs_token"
  /\ req' = [req EXCEPT ![r] = [step |-> "claim", dep |-> d]]
  /\ UNCHANGED <<rows, docker, work, del>>

\* ClaimDeploymentStart without its status condition (mutant).
ClaimBlindly(r) ==
  LET d == req[r].dep IN
  /\ req[r].step = "claim"
  /\ status' = [status EXCEPT ![d] = "starting"]
  /\ error' = [error EXCEPT ![d] = FALSE]
  /\ req' = [req EXCEPT ![r].step = "resolve"]
  /\ UNCHANGED <<exists, marker, state, docker, work, del>>

\* ClaimDeploymentStart: only a row that still waits for its token.
Claim(r) ==
  LET d == req[r].dep IN
  /\ req[r].step = "claim"
  /\ \/ /\ status[d] = "needs_token"
        /\ status' = [status EXCEPT ![d] = "starting"]
        /\ error' = [error EXCEPT ![d] = FALSE]
        /\ req' = [req EXCEPT ![r].step = "resolve"]
     \/ /\ status[d] # "needs_token" \/ StoreFaults
        /\ Respond(r)
        /\ UNCHANGED <<status, error>>
  /\ UNCHANGED <<exists, marker, state, docker, work, del>>

\* ResolveOTLP failed and the claim is not undone (mutant).
ResolveFailsClaimed(r) ==
  /\ req[r].step = "resolve"
  /\ Respond(r)
  /\ UNCHANGED <<rows, docker, work, del>>

\* ResolveOTLP failed: the row goes back to waiting for a token.
ResolveFails(r) ==
  /\ req[r].step = "resolve"
  /\ Save(req[r].dep, Row("needs_token", TRUE))
  /\ Respond(r)
  /\ UNCHANGED <<exists, marker, state, docker, work, del>>

Resolve(r) ==
  /\ req[r].step = "resolve"
  /\ req' = [req EXCEPT ![r].step = "save"]
  /\ UNCHANGED <<rows, docker, work, del>>

\* The connection details are saved and the goroutine is started.
Spawn(r) ==
  LET d == req[r].dep IN
  /\ req[r].step = "save"
  /\ status' = [status EXCEPT ![d] = "starting"]
  /\ error' = [error EXCEPT ![d] = FALSE]
  /\ pc' = [pc EXCEPT ![d] = "waiting"]
  /\ item' = [item EXCEPT ![d] = NoItem]
  /\ Respond(r)
  /\ UNCHANGED <<exists, marker, state, docker, lock, todo, halted, del>>

SaveFails(r) ==
  /\ StoreFaults
  /\ req[r].step = "save"
  /\ req' = [req EXCEPT ![r].step = "restore"]
  /\ UNCHANGED <<rows, docker, work, del>>

RestoreToken(r) ==
  /\ req[r].step = "restore"
  /\ Save(req[r].dep, Row("needs_token", TRUE))
  /\ Respond(r)
  /\ UNCHANGED <<exists, marker, state, docker, work, del>>

-----------------------------------------------------------------------------
(***************************************************************************)
(* startLocal, under localMu from Acquire to Finish.                       *)
(***************************************************************************)
Goto(d, step) == pc' = [pc EXCEPT ![d] = step]

\* The error branch of startLocal: the row becomes failed.
Abort(d) ==
  /\ item' = [item EXCEPT ![d] = Row("failed", TRUE)]
  /\ Save(d, Row("failed", TRUE))
  /\ Goto(d, "finish")

Acquire(d) ==
  /\ pc[d] = "waiting"
  /\ lock = None
  /\ lock' = d
  /\ Goto(d, "preflight")
  /\ UNCHANGED <<rows, docker, item, todo, halted, req, del>>

Preflight(d) ==
  /\ pc[d] = "preflight"
  /\ Goto(d, "listing")
  /\ UNCHANGED <<rows, docker, lock, item, todo, halted, req, del>>

PreflightFails(d) ==
  /\ pc[d] = "preflight"
  /\ Abort(d)
  /\ UNCHANGED <<exists, marker, state, docker, lock, todo, halted, req, del>>

\* Failed starts are not listed for clean-up (mutant).
ListRunningOnly(d) ==
  /\ pc[d] = "listing"
  /\ todo' = [todo EXCEPT ![d] =
       {e \in Candidates : status[e] \notin {"failed", "interrupted"}} \ {d}]
  /\ halted' = [halted EXCEPT ![d] = {}]
  /\ Goto(d, "stopping")
  /\ UNCHANGED <<rows, docker, lock, item, req, del>>

List(d) ==
  /\ pc[d] = "listing"
  /\ todo' = [todo EXCEPT ![d] = Candidates \ {d}]
  /\ halted' = [halted EXCEPT ![d] = {}]
  /\ Goto(d, "stopping")
  /\ UNCHANGED <<rows, docker, lock, item, req, del>>

\* StopLocal on the project of e's session: docker compose down removes the
\* containers at some point before it returns.  It runs in the prototype's
\* directory, which must exist.
DownProject(d, e) ==
  LET s == Owner[e] IN
  /\ pc[d] = "stopping"
  /\ e \in todo[d] /\ s \notin halted[d] /\ ActiveFirst(e, todo[d])
  /\ files[s] /\ up[s]
  /\ up' = [up EXCEPT ![s] = FALSE]
  /\ UNCHANGED <<rows, files, work, req, del>>

\* The command has returned; SetSessionState.
StopProject(d, e) ==
  LET s == Owner[e] IN
  /\ pc[d] = "stopping"
  /\ e \in todo[d] /\ s \notin halted[d] /\ ActiveFirst(e, todo[d])
  /\ files[s] /\ ~up[s]
  /\ state' = [state EXCEPT ![s] = "Generated"]
  /\ halted' = [halted EXCEPT ![d] = @ \cup {s}]
  /\ UNCHANGED <<exists, marker, docker, status, error, lock, pc, item, todo,
                 req, del>>

\* docker compose down fails, or the state cannot be saved: the containers
\* may be gone or not, and the new deployment is not started.
StopFails(d, e) ==
  LET s == Owner[e] IN
  /\ pc[d] = "stopping"
  /\ e \in todo[d] /\ s \notin halted[d] /\ ActiveFirst(e, todo[d])
  /\ up' \in {up, IF files[s] THEN [up EXCEPT ![s] = FALSE] ELSE up}
  /\ Abort(d)
  /\ UNCHANGED <<exists, marker, state, files, lock, todo, halted, req, del>>

RecordStopped(d, e) ==
  /\ pc[d] = "stopping"
  /\ e \in todo[d] /\ Owner[e] \in halted[d] /\ ActiveFirst(e, todo[d])
  /\ todo' = [todo EXCEPT ![d] = @ \ {e}]
  /\ status' = [status EXCEPT ![e] = "interrupted"]
  /\ error' = [error EXCEPT ![e] = FALSE]
  /\ UNCHANGED <<exists, marker, state, docker, lock, pc, item, halted, req,
                 del>>

\* The 15-minute context expires between two statements, or one of them
\* fails: the start is abandoned.
StopAbandoned(d) ==
  /\ pc[d] \in {"listing", "stopping"}
  /\ Abort(d)
  /\ UNCHANGED <<exists, marker, state, docker, lock, todo, halted, req, del>>

StopDone(d) ==
  /\ pc[d] = "stopping"
  /\ todo[d] = {}
  /\ Goto(d, "composing")
  /\ UNCHANGED <<rows, docker, lock, item, todo, halted, req, del>>

\* docker compose up creates containers at some point before it returns.
ComposeUp(d) ==
  /\ pc[d] = "composing"
  /\ ~up[Owner[d]]
  /\ up' = [up EXCEPT ![Owner[d]] = TRUE]
  /\ UNCHANGED <<rows, files, work, req, del>>

ComposeReady(d) ==
  /\ pc[d] = "composing"
  /\ up[Owner[d]]
  /\ item' = [item EXCEPT ![d] = Row("verifying", FALSE)]
  /\ Goto(d, "announce")
  /\ UNCHANGED <<rows, docker, lock, todo, halted, req, del>>

ComposeFails(d) ==
  /\ pc[d] = "composing"
  /\ Abort(d)
  /\ UNCHANGED <<exists, marker, state, docker, lock, todo, halted, req, del>>

Announce(d) ==
  /\ pc[d] = "announce"
  /\ Save(d, item[d])
  /\ Goto(d, "mark")
  /\ UNCHANGED <<exists, marker, state, docker, lock, item, todo, halted, req,
                 del>>

MarkRunning(d) ==
  /\ pc[d] = "mark"
  /\ SetState(Owner[d], "Running")
  /\ Goto(d, "verify")
  /\ UNCHANGED <<exists, marker, status, error, docker, lock, item, todo,
                 halted, req, del>>

\* VerifyTelemetry reports progress: the in-memory row is saved again.
Progress(d) ==
  /\ pc[d] = "verify"
  /\ Save(d, item[d])
  /\ UNCHANGED <<exists, marker, state, docker, work, req, del>>

\* The session is marked verified before the row says so (mutant).
VerifyUnsaved(d) ==
  /\ pc[d] = "verify"
  /\ item' = [item EXCEPT ![d] = Row("verified", FALSE)]
  /\ Goto(d, "markVerified")
  /\ UNCHANGED <<rows, docker, lock, todo, halted, req, del>>

Verify(d) ==
  /\ pc[d] = "verify"
  /\ item' = [item EXCEPT ![d] = Row("verified", FALSE)]
  /\ Save(d, Row("verified", FALSE))
  /\ Goto(d, "markVerified")
  /\ UNCHANGED <<exists, marker, state, docker, lock, todo, halted, req, del>>

VerifyFails(d) ==
  /\ pc[d] = "verify"
  /\ item' = [item EXCEPT ![d] = Row("running", TRUE)]
  /\ Save(d, Row("running", TRUE))
  /\ Goto(d, "finish")
  /\ UNCHANGED <<exists, marker, state, docker, lock, todo, halted, req, del>>

MarkVerified(d) ==
  /\ pc[d] = "markVerified"
  /\ SetState(Owner[d], "Verified")
  /\ Goto(d, "finish")
  /\ UNCHANGED <<exists, marker, status, error, docker, lock, item, todo,
                 halted, req, del>>

\* The last UpdateDeployment writes the in-memory row again and localMu is
\* released.
Finish(d) ==
  /\ pc[d] = "finish"
  /\ Save(d, item[d])
  /\ lock' = None
  /\ Goto(d, "none")
  /\ item' = [item EXCEPT ![d] = NoItem]
  /\ todo' = [todo EXCEPT ![d] = {}]
  /\ halted' = [halted EXCEPT ![d] = {}]
  /\ UNCHANGED <<exists, marker, state, docker, req, del>>

Worker(d) ==
  \/ Acquire(d) \/ Preflight(d) \/ PreflightFails(d) \/ List(d)
  \/ \E e \in Deployments :
       \/ DownProject(d, e) \/ StopProject(d, e)
       \/ StopFails(d, e) \/ RecordStopped(d, e)
  \/ StopAbandoned(d) \/ StopDone(d)
  \/ ComposeUp(d) \/ ComposeReady(d) \/ ComposeFails(d)
  \/ Announce(d) \/ MarkRunning(d) \/ Progress(d)
  \/ Verify(d) \/ VerifyFails(d)
  \/ MarkVerified(d) \/ Finish(d)

-----------------------------------------------------------------------------
(***************************************************************************)
(* DELETE session: the gate's write lock is held from DeleteRequest until  *)
(* the handler answers, localMu from DeleteAcquire.                        *)
(***************************************************************************)
DeleteRequest(s) ==
  /\ del.step = "idle"
  /\ \A r \in Requests : req[r].step = "idle"
  /\ exists[s]
  /\ del' = [step |-> "waiting", ses |-> s]
  /\ UNCHANGED <<rows, docker, work, req>>

DeleteAcquire ==
  /\ del.step = "waiting"
  /\ lock = None
  /\ lock' = Deleter
  /\ del' = [del EXCEPT !.step = "begin"]
  /\ UNCHANGED <<rows, docker, pc, item, todo, halted, req>>

\* The handler returns; the marker, if set, stays.
Answer ==
  /\ del' = IdleDeletion
  /\ lock' = None
  /\ UNCHANGED <<pc, item, todo, halted, req>>

\* BeginSessionDeletion without its conditions (mutant).
DeleteBeginBlindly ==
  /\ del.step = "begin"
  /\ marker' = [marker EXCEPT ![del.ses] = TRUE]
  /\ del' = [del EXCEPT !.step = "inspect"]
  /\ UNCHANGED <<exists, state, status, error, docker, work, req>>

\* BeginSessionDeletion: refused while a deployment of the session is being
\* started or verified.
DeleteBegin ==
  /\ del.step = "begin"
  /\ \A d \in RowsOf(del.ses) : status[d] \notin {"starting", "verifying"}
  /\ marker' = [marker EXCEPT ![del.ses] = TRUE]
  /\ del' = [del EXCEPT !.step = "inspect"]
  /\ UNCHANGED <<exists, state, status, error, docker, work, req>>

\* An early return that keeps localMu (mutant).
DeleteRefusedLocked ==
  /\ del.step = "begin"
  /\ del' = IdleDeletion
  /\ UNCHANGED <<rows, docker, work, req>>

\* Active work (here or in another component), an unexpected path or slug,
\* or an error of the store.
DeleteRefused ==
  /\ del.step = "begin"
  /\ Answer
  /\ UNCHANGED <<rows, docker>>

\* The directory of every deployed prototype is resolved.
DeleteInspect ==
  /\ del.step = "inspect"
  /\ RowsOf(del.ses) # {} => files[del.ses]
  /\ del' = [del EXCEPT !.step = "local"]
  /\ UNCHANGED <<rows, docker, work, req>>

DeleteLocal ==
  /\ del.step = "local"
  /\ up' = IF RowsOf(del.ses) = {} THEN up ELSE [up EXCEPT ![del.ses] = FALSE]
  /\ del' = [del EXCEPT !.step = "stack"]
  /\ UNCHANGED <<rows, files, work, req>>

DeleteStack ==
  /\ del.step = "stack"
  /\ del' = [del EXCEPT !.step = "files"]
  /\ UNCHANGED <<rows, docker, work, req>>

RemoveFiles ==
  /\ del.step = "files"
  /\ files' = [files EXCEPT ![del.ses] = FALSE]
  /\ del' = [del EXCEPT !.step = "config"]
  /\ UNCHANGED <<rows, up, work, req>>

RemoveConfig ==
  /\ del.step = "config"
  /\ del' = [del EXCEPT !.step = "row"]
  /\ UNCHANGED <<rows, docker, work, req>>

\* Any clean-up step may fail part-way (command, file system, the caller's
\* context cancelled or timed out before the last DELETE statement).
CleanupFails ==
  LET s == del.ses IN
  /\ del.step \in CleanupStep
  /\ up' \in {up, IF del.step = "local" /\ RowsOf(s) # {}
                  THEN [up EXCEPT ![s] = FALSE] ELSE up}
  /\ files' \in {files, IF del.step = "files"
                        THEN [files EXCEPT ![s] = FALSE] ELSE files}
  /\ Answer
  /\ UNCHANGED rows

\* DELETE FROM sessions cascades to deployments and session_deletions.
DropSession ==
  LET s == del.ses IN
  /\ del.step = "row"
  /\ exists' = [exists EXCEPT ![s] = FALSE]
  /\ marker' = [marker EXCEPT ![s] = FALSE]
  /\ status' = [d \in Deployments |->
                  IF Owner[d] = s THEN "absent" ELSE status[d]]
  /\ error' = [d \in Deployments |-> Owner[d] # s /\ error[d]]
  /\ Answer
  /\ UNCHANGED <<state, docker>>

Delete ==
  \/ DeleteAcquire \/ DeleteBegin \/ DeleteRefused \/ DeleteInspect
  \/ DeleteLocal \/ DeleteStack \/ RemoveFiles \/ RemoveConfig
  \/ CleanupFails \/ DropSession

-----------------------------------------------------------------------------
(***************************************************************************)
(* PrototypeService.run completes a newer iteration of the session.        *)
(***************************************************************************)
Rebuilt(s) ==
  /\ exists[s] /\ ~marker[s] /\ state[s] # "Generated"
  /\ state' = [state EXCEPT ![s] = "Generated"]
  /\ UNCHANGED <<exists, marker, status, error, docker, work, req, del>>

\* Recovery that does not keep the error text of an interrupted start
\* (mutant).
RestartForgetful ==
  /\ status' = [d \in Deployments |->
                  IF status[d] \in {"starting", "verifying"}
                  THEN "interrupted" ELSE status[d]]
  /\ lock' = None
  /\ pc' = [d \in Deployments |-> "none"]
  /\ item' = [d \in Deployments |-> NoItem]
  /\ todo' = [d \in Deployments |-> {}]
  /\ halted' = [d \in Deployments |-> {}]
  /\ req' = [r \in Requests |-> IdleRequest]
  /\ del' = IdleDeletion
  /\ UNCHANGED <<exists, marker, state, error, docker>>

\* The process dies at any point and migrate recovers the rows on start-up.
\* Containers and files outlive the process; goroutines and locks do not.
Restart ==
  /\ status' = [d \in Deployments |->
                  IF status[d] \in {"starting", "verifying"}
                  THEN "interrupted" ELSE status[d]]
  /\ error' = [d \in Deployments |->
                 status[d] \in {"starting", "verifying"} \/ error[d]]
  /\ lock' = None
  /\ pc' = [d \in Deployments |-> "none"]
  /\ item' = [d \in Deployments |-> NoItem]
  /\ todo' = [d \in Deployments |-> {}]
  /\ halted' = [d \in Deployments |-> {}]
  /\ req' = [r \in Requests |-> IdleRequest]
  /\ del' = IdleDeletion
  /\ UNCHANGED <<exists, marker, state, docker>>

Handle(r) ==
  \/ \E d \in Deployments : StartCheck(r, d) \/ TokenCheck(r, d)
  \/ StartCreate(r) \/ Claim(r) \/ ResolveFails(r) \/ Resolve(r)
  \/ Spawn(r) \/ SaveFails(r) \/ RestoreToken(r)

Next ==
  \/ \E r \in Requests : Handle(r)
  \/ \E d \in Deployments : Worker(d)
  \/ \E s \in Sessions : DeleteRequest(s) \/ Rebuilt(s)
  \/ Delete
  \/ Restart

Spec == Init /\ [][Next]_vars

\* Docker, gcx and the queries run under the timeouts of these handlers and
\* goroutines, so each step that has begun happens; a sync.Mutex hands itself
\* over to a waiter that has starved.
Fairness ==
  /\ \A r \in Requests : WF_vars(StartCreate(r) \/ Claim(r) \/ Resolve(r)
                                 \/ Spawn(r) \/ RestoreToken(r))
  /\ \A d \in Deployments : WF_vars(Worker(d)) /\ SF_vars(Acquire(d))
  /\ WF_vars(Delete) /\ SF_vars(DeleteAcquire)

FairSpec == Spec /\ Fairness

-----------------------------------------------------------------------------
(***************************************************************************)
(* Properties                                                              *)
(***************************************************************************)

\* startLocal runs StopLocal for every other demo before StartLocal: the
\* containers of two sessions are never up together, whatever fails or
\* crashes in between.
OneDemo == \A s, t \in Sessions : up[s] /\ up[t] => s = t

\* The goroutine between StartLocal's first container and the row that says
\* so, or the DELETE handler on its way to removing them.
InHand(s) ==
  \/ \E d \in Deployments : /\ Owner[d] = s
                            /\ lock = d
                            /\ pc[d] \in {"composing", "announce"}
                            /\ status[d] = "starting"

\* ListLocalCleanupCandidates sees every session with containers, so the
\* next start can stop them: a failed start, a restart in the middle of
\* docker compose up or a half-done clean-up never orphans a demo.
NothingOrphaned ==
  \A s \in Sessions :
    up[s] => InHand(s) \/ \E d \in Deployments : Owner[d] = s /\ Candidate(d)

\* Everyone who is working on the start of d.
Actors(d) ==
  {r \in Requests : /\ req[r].step \in {"resolve", "save", "restore"}
                    /\ req[r].dep = d}
    \cup {x \in {None} : pc[d] # "none"}

\* ClaimDeploymentStart lets one request through per waiting row: two
\* requests that read the same row never both start it.
ClaimedOnce == \A d \in Deployments : Cardinality(Actors(d)) <= 1

\* DeleteSession: "allowing retry without starting new work against
\* partially deleted resources".  From the marker on, no request claims and
\* no goroutine runs for the session, across retries and restarts.
NoWorkWhileDeleting ==
  \A s \in Sessions : marker[s] =>
    /\ \A d \in Deployments : Owner[d] = s =>
         pc[d] = "none" /\ status[d] \notin {"starting", "verifying"}
    /\ \A r \in Requests : req[r].step # "idle" => Owner[req[r].dep] # s

\* README, "Session states": Running needs a deployment whose Compose start
\* succeeded, Verified one whose telemetry was verified.  A restart may have
\* interrupted the former while it was being verified.
StateBacked ==
  \A s \in Sessions : exists[s] =>
    /\ state[s] = "Verified" =>
         \E d \in Deployments : Owner[d] = s /\ status[d] = "verified"
    /\ state[s] = "Running" =>
         \E d \in Deployments : Owner[d] = s /\ Candidate(d)

\* A row that stands for containers is only rewritten by whoever holds
\* localMu, although UpdateDeployment is unconditional: snapshots taken
\* under the lock stay current.  Recovery runs before anyone can take it.
CandidatesStable ==
  [][\A d \in Deployments :
       Candidate(d) /\ (status'[d] # status[d] \/ error'[d] # error[d])
         => lock # None \/ Restart]_vars

\* The marker is durable: it goes away with the session and not before.
MarkerDurable ==
  [][\A s \in Sessions : marker[s] /\ ~marker'[s] => ~exists'[s]]_vars

(***************************************************************************)
(* The inductive invariant behind the safety properties.  Coordination     *)
(* holds whatever the store does, Coverage when its writes succeed.        *)
(***************************************************************************)
\* Before its row stands for containers, a goroutine's row says "starting".
EarlyStep == {"waiting", "preflight", "listing", "stopping", "composing",
              "announce"}
Claimed == {"resolve", "save", "restore"}

LockHeld ==
  /\ \A d \in Deployments : pc[d] \in HoldingStep <=> lock = d
  /\ del.step \in {"begin"} \cup CleanupStep <=> lock = Deleter

\* A DELETE excludes every other mutating request.
GateHeld == del.step # "idle" => \A r \in Requests : req[r].step = "idle"

\* A request that attaches or has claimed a row has it to itself.
RequestsApart ==
  \A r \in Requests :
    /\ req[r].step = "attach" =>
         /\ status[req[r].dep] = "absent"
         /\ \A q \in Requests : req[q].step = "attach"
                                /\ req[q].dep = req[r].dep => q = r
    /\ req[r].step \in Claimed =>
         /\ status[req[r].dep] = "starting"
         /\ pc[req[r].dep] = "none"
         /\ \A q \in Requests : req[q].step \in Claimed
                                /\ req[q].dep = req[r].dep => q = r

WorkersClaimed ==
  \A d \in Deployments :
    /\ pc[d] \in EarlyStep => status[d] = "starting"
    /\ pc[d] # "none" => status[d] \notin {"absent", "needs_token"}

\* The list of stopActiveLocalDeployment is still current when it is used.
StopsCandidates ==
  \A d \in Deployments : pc[d] = "stopping" => todo[d] \subseteq Candidates

\* The clean-up runs under the marker.
CleanupMarked == del.step \in CleanupStep => marker[del.ses]

Coordination ==
  /\ TypeOK /\ LockHeld /\ GateHeld /\ RequestsApart
  /\ WorkersClaimed /\ StopsCandidates
  /\ CleanupMarked /\ NoWorkWhileDeleting

\* From the moment containers may be up the row is a clean-up candidate.
WorkersCovered ==
  \A d \in Deployments :
    /\ pc[d] \in {"announce", "mark", "verify"} =>
         item[d].status = "verifying"
    /\ pc[d] \in HoldingStep \ EarlyStep => Candidate(d)
    /\ pc[d] \in {"markVerified", "finish"} =>
         item[d].status \in {"failed", "running", "verified"}

\* Whatever stopActiveLocalDeployment has not handled yet is in todo, and
\* containers come up when nothing is left.
StopsAll ==
  \A d \in Deployments :
    /\ pc[d] = "stopping" =>
         /\ todo[d] = Candidates
         /\ \A s \in halted[d] : ~up[s]
    /\ pc[d] \in {"composing", "announce"} => Candidates = {}

CleanupStops ==
  del.step \in {"stack", "files", "config", "row"} => ~up[del.ses]

Coverage ==
  WorkersCovered /\ StopsAll /\ CleanupStops /\ NothingOrphaned /\ OneDemo

\* A session state is written next to the row that backs it: the row says so
\* before the state does, and a stopped session is Generated before the rows
\* of its containers are interrupted.
StatesInStep ==
  \A d \in Deployments :
    /\ pc[d] \in {"mark", "verify"} => status[d] = "verifying"
    /\ pc[d] = "markVerified" => item[d].status = "verified"
    /\ pc[d] \in {"markVerified", "finish"} => status[d] = item[d].status
    /\ pc[d] = "stopping" => \A s \in halted[d] : state[s] = "Generated"

Backing == StatesInStep /\ StateBacked

\* A claimed deployment leaves "starting": it waits for localMu and for
\* commands that end, whoever else starts, fails or is deleted.
StartResolves ==
  \A d \in Deployments :
    status[d] = "starting" ~> status[d] # "starting"

\* DELETE is answered, although it waits for localMu behind startLocal.
DeleteAnswered == del.step # "idle" ~> del.step = "idle"

\* deployment_service.go:81, "This session already has an active local
\* deployment": a session has at most one.
OneActivePerSession ==
  \A d, e \in Deployments :
    /\ Owner[d] = Owner[e]
    /\ status[d] \in {"needs_token", "starting", "verifying"}
    /\ status[e] \in {"needs_token", "starting", "verifying"}
    => d = e

\* session_delete.go:19-20: a failed deletion leaves the session "intact on
\* error, allowing retry": the files a retry inspects are still there.
DeletionRetryable ==
  \A s \in Sessions :
    marker[s] /\ del.step = "idle" /\ RowsOf(s) # {} => files[s]

\* LocalDemo implements the slot: the containers of at most one session are
\* up, and they are created by the holder of localMu for its own session,
\* once nothing else is up.
UpSession == IF \E s \in Sessions : up[s]
             THEN CHOOSE s \in Sessions : up[s] ELSE None

Slot == INSTANCE DemoSlot
  WITH Holders <- Deployments \cup {Deleter},
       Client <- [h \in Deployments \cup {Deleter} |->
                    IF h = Deleter THEN {} ELSE {Owner[h]}],
       slot <- UpSession,
       holder <- lock

ImplementsSlot == Slot!Spec
=============================================================================
