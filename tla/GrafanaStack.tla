---------------------------- MODULE GrafanaStack ----------------------------
(***************************************************************************)
(* The Grafana Cloud half of internal/application/deployment_service.go:   *)
(* a session's row in session_stacks, the goroutines that create the stack *)
(* and connect it through the browser, and the deletion of the session.    *)
(* Sessions share nothing here (the slug is derived from the session), so  *)
(* one session is modelled.                                                *)
(*                                                                         *)
(* Actors: HTTP requests, one goroutine per accepted request, the DELETE   *)
(* handler, a server restart, and Grafana Cloud as the gcx commands see    *)
(* it.  Each SQL statement is one step; so is each gcx command.            *)
(***************************************************************************)
EXTENDS Naturals, FiniteSets

CONSTANTS
  Requests,         \* concurrent mutating HTTP requests (a bound)
  Workers,          \* concurrent provisioning goroutines (a bound)
  StoreFaults,      \* whether a statement to SQLite may fail
  SettlesPromptly   \* whether a failed goroutine has written its failure
                    \* twice before anyone asks for a retry

ASSUME StoreFaultsAssumption == StoreFaults \in BOOLEAN
ASSUME TimingAssumption == SettlesPromptly \in BOOLEAN

VARIABLES
  exists,   \* sessions: the row is in the table
  marker,   \* session_deletions: deletion has begun
  row,      \* session_stacks: status and whether stack_url is known
  cloud,    \* the stack exists in Grafana Cloud
  config,   \* the stack's credential file is on disk
  req,      \* the HTTP requests in progress
  work,     \* the goroutines of provision and connectStack
  del       \* the DELETE handler: the step it has reached

world == <<cloud, config>>
vars  == <<exists, marker, row, cloud, config, req, work, del>>

StackStatus == {"provisioning", "ready", "failed", "awaiting_auth",
                "needs_auth"}
Stack == [status : StackStatus, url : BOOLEAN]
NoStack == [status |-> "absent", url |-> FALSE]

RequestStep == {"idle", "create", "created", "connect"}
ProvisionStep == {"regions", "lookup", "create", "poll"}
ConnectStep == {"check", "login", "verify"}
WorkerStep == {"idle", "tell", "settle", "answer"}
                \cup ProvisionStep \cup ConnectStep
DeleteStep == {"idle", "begin", "stack", "config", "row"}

IdleRequest == [step |-> "idle", seen |-> NoStack]
IdleWorker == [step |-> "idle", told |-> FALSE, item |-> NoStack]

TypeOK ==
  /\ exists \in BOOLEAN /\ marker \in BOOLEAN
  /\ row \in Stack \cup {NoStack}
  /\ cloud \in BOOLEAN /\ config \in BOOLEAN
  /\ req \in [Requests -> [step : RequestStep, seen : Stack \cup {NoStack}]]
  /\ work \in [Workers -> [step : WorkerStep, told : BOOLEAN,
                           item : Stack \cup {NoStack}]]
  /\ del \in DeleteStep

Init ==
  /\ exists = TRUE /\ marker = FALSE
  /\ row = NoStack
  /\ cloud = FALSE /\ config = FALSE
  /\ req = [r \in Requests |-> IdleRequest]
  /\ work = [w \in Workers |-> IdleWorker]
  /\ del = "idle"

-----------------------------------------------------------------------------
\* sessionMutationGate lets a mutating request through.
Admitted == del = "idle" /\ exists /\ ~marker

Ask(r, step, seen) == req' = [req EXCEPT ![r] = [step |-> step, seen |-> seen]]
Respond(r) == req' = [req EXCEPT ![r] = IdleRequest]

\* UpdateGrafanaStack overwrites the row by identifier, whatever it holds; a
\* row that is gone is ErrNotFound.
Saved(item) == row.status # "absent" /\ row' = item

Save(item) ==
  \/ Saved(item)
  \/ (row.status = "absent" \/ StoreFaults) /\ UNCHANGED row

\* A goroutine that gave up: all it has left is to write "failed", twice.
Lingers(w) == work[w].item.status = "failed"

(***************************************************************************)
(* POST stack: CreateStack checks a snapshot of the session, claims the    *)
(* row with one statement, reads it back with another and starts           *)
(* provision with what it read.                                            *)
(***************************************************************************)
CreateCheck(r) ==
  /\ req[r].step = "idle"
  /\ Admitted
  /\ row.status \in {"absent", "failed"}
  /\ Ask(r, "create", NoStack)
  /\ UNCHANGED <<exists, marker, row, world, work, del>>

\* ClaimGrafanaStack without its status condition (mutant).
CreateClaimBlindly(r) ==
  /\ req[r].step = "create"
  /\ row' = [status |-> "provisioning", url |-> row.url]
  /\ Ask(r, "created", NoStack)
  /\ UNCHANGED <<exists, marker, world, work, del>>

CreateClaim(r) ==
  /\ req[r].step = "create"
  /\ SettlesPromptly => \A w \in Workers : ~Lingers(w)
  /\ ~marker /\ row.status \in {"absent", "failed"}
  /\ row' = [status |-> "provisioning", url |-> row.url]
  /\ Ask(r, "created", NoStack)
  /\ UNCHANGED <<exists, marker, world, work, del>>

CreateRefused(r) ==
  /\ req[r].step = "create"
  /\ StoreFaults \/ marker \/ row.status \notin {"absent", "failed"}
  /\ Respond(r)
  /\ UNCHANGED <<exists, marker, row, world, work, del>>

CreateSpawn(r, w) ==
  /\ req[r].step = "created"
  /\ work[w].step = "idle"
  /\ work' = [work EXCEPT ![w] = [step |-> "regions", told |-> FALSE,
                                  item |-> row]]
  /\ Respond(r)
  /\ UNCHANGED <<exists, marker, row, world, del>>

\* The row cannot be read back: the claim stays and nobody works on it.
CreateUnread(r) ==
  /\ StoreFaults
  /\ req[r].step = "created"
  /\ Respond(r)
  /\ UNCHANGED <<exists, marker, row, world, work, del>>

(***************************************************************************)
(* POST stack/connect: ConnectStack takes its item from a snapshot and     *)
(* claims the row with another statement.                                  *)
(***************************************************************************)
ConnectCheck(r) ==
  /\ req[r].step = "idle"
  /\ Admitted
  /\ row.status # "absent"
  /\ Ask(r, "connect", row)
  /\ UNCHANGED <<exists, marker, row, world, work, del>>

Connectable == row.url /\ row.status \in {"needs_auth", "ready"} /\ ~marker

\* ClaimStackConnect that accepts a stack being connected (mutant).
ConnectClaimTwice(r, w) ==
  /\ req[r].step = "connect"
  /\ work[w].step = "idle"
  /\ row.url /\ ~marker
  /\ row' = [row EXCEPT !.status = "awaiting_auth"]
  /\ work' = [work EXCEPT ![w] =
       [step |-> "check", told |-> FALSE,
        item |-> [status |-> "awaiting_auth", url |-> req[r].seen.url]]]
  /\ Respond(r)
  /\ UNCHANGED <<exists, marker, world, del>>

ConnectClaim(r, w) ==
  /\ req[r].step = "connect"
  /\ work[w].step = "idle"
  /\ Connectable
  /\ row' = [row EXCEPT !.status = "awaiting_auth"]
  /\ work' = [work EXCEPT ![w] =
       [step |-> "check", told |-> FALSE,
        item |-> [status |-> "awaiting_auth", url |-> req[r].seen.url]]]
  /\ Respond(r)
  /\ UNCHANGED <<exists, marker, world, del>>

ConnectRefused(r) ==
  /\ req[r].step = "connect"
  /\ StoreFaults \/ ~Connectable
  /\ Respond(r)
  /\ UNCHANGED <<exists, marker, row, world, work, del>>

-----------------------------------------------------------------------------
(***************************************************************************)
(* provision and Runner.Provision.  Progress is written to the row before  *)
(* every command.                                                          *)
(***************************************************************************)
At(w, step) == work[w].step = step /\ work[w].told
Goto(w, step, item) ==
  work' = [work EXCEPT ![w] = [step |-> step, told |-> FALSE, item |-> item]]
With(w, value) == [work[w].item EXCEPT !.status = value]
Same(w) == work[w].item

\* appendProgress and ConnectStack's progress; the latter comes after the
\* check of the connection target.
Say(w) ==
  /\ work[w].step \in ProvisionStep \cup ConnectStep \cup {"tell"}
  /\ ~work[w].told
  /\ work[w].step = "check" => work[w].item.url
  /\ Save(work[w].item)
  /\ work' = [work EXCEPT ![w].told = TRUE]
  /\ UNCHANGED <<exists, marker, world, req, del>>

Regions(w) ==
  /\ At(w, "regions")
  /\ Goto(w, "lookup", Same(w))
  /\ UNCHANGED <<exists, marker, row, world, req, del>>

Lookup(w) ==
  /\ At(w, "lookup")
  /\ Goto(w, IF cloud THEN "poll" ELSE "create", Same(w))
  /\ UNCHANGED <<exists, marker, row, world, req, del>>

Create(w) ==
  /\ At(w, "create")
  /\ ~cloud
  /\ cloud' = TRUE
  /\ Goto(w, "poll", Same(w))
  /\ UNCHANGED <<exists, marker, row, config, req, del>>

Poll(w) ==
  /\ At(w, "poll")
  /\ cloud
  /\ Goto(w, "tell", [status |-> "awaiting_auth", url |-> TRUE])
  /\ UNCHANGED <<exists, marker, row, world, req, del>>

\* Any command fails or times out; gcx may have created the stack anyway.
ProvisionFails(w) ==
  /\ work[w].step \in ProvisionStep /\ work[w].told
  /\ cloud' \in {cloud, cloud \/ work[w].step = "create"}
  /\ Goto(w, "tell", With(w, "failed"))
  /\ UNCHANGED <<exists, marker, row, config, req, del>>

Told(w) ==
  /\ At(w, "tell")
  /\ Goto(w, "settle", Same(w))
  /\ UNCHANGED <<exists, marker, row, world, req, del>>

\* A stack that awaits authentication is left to the user (mutant).
SettleUnconnected(w) ==
  /\ work[w].step = "settle"
  /\ Saved(work[w].item)
  /\ Goto(w, "idle", NoStack)
  /\ UNCHANGED <<exists, marker, world, req, del>>

\* The result is written a second time; a stack that awaits authentication
\* is connected at once.
Settle(w) ==
  /\ work[w].step = "settle"
  /\ Saved(work[w].item)
  /\ IF work[w].item.status = "awaiting_auth"
     THEN Goto(w, "check", Same(w))
     ELSE Goto(w, "idle", NoStack)
  /\ UNCHANGED <<exists, marker, world, req, del>>

SettleFails(w) ==
  /\ work[w].step = "settle"
  /\ StoreFaults \/ row.status = "absent"
  /\ Goto(w, "idle", NoStack)
  /\ UNCHANGED <<exists, marker, row, world, req, del>>

(***************************************************************************)
(* connectStack and Runner.ConnectStack.                                   *)
(***************************************************************************)
\* The snapshot has no URL: refused before any progress is written.
BadTarget(w) ==
  /\ work[w].step = "check" /\ ~work[w].told
  /\ ~work[w].item.url
  /\ Goto(w, "answer", With(w, "needs_auth"))
  /\ UNCHANGED <<exists, marker, row, world, req, del>>

\* The saved credentials still work.
CheckSucceeds(w) ==
  /\ At(w, "check")
  /\ config /\ cloud
  /\ Goto(w, "answer", With(w, "ready"))
  /\ UNCHANGED <<exists, marker, row, world, req, del>>

CheckFails(w) ==
  /\ At(w, "check")
  /\ Goto(w, "login", Same(w))
  /\ UNCHANGED <<exists, marker, row, world, req, del>>

\* Browser approval writes the credential file.
Login(w) ==
  /\ At(w, "login")
  /\ cloud
  /\ config' = TRUE
  /\ Goto(w, "verify", Same(w))
  /\ UNCHANGED <<exists, marker, row, cloud, req, del>>

Verify(w) ==
  /\ At(w, "verify")
  /\ config /\ cloud
  /\ Goto(w, "answer", With(w, "ready"))
  /\ UNCHANGED <<exists, marker, row, world, req, del>>

\* The stack is reported ready without verifying the new login (mutant).
ConnectGivesUpReady(w) ==
  /\ At(w, "login") \/ At(w, "verify")
  /\ config' \in {config, config \/ work[w].step = "login"}
  /\ Goto(w, "answer", With(w, "ready"))
  /\ UNCHANGED <<exists, marker, row, cloud, req, del>>

\* Login or verification fails or times out.
ConnectFails(w) ==
  /\ At(w, "login") \/ At(w, "verify")
  /\ config' \in {config, config \/ work[w].step = "login"}
  /\ Goto(w, "answer", With(w, "needs_auth"))
  /\ UNCHANGED <<exists, marker, row, cloud, req, del>>

Answer(w) ==
  /\ work[w].step = "answer"
  /\ Save(work[w].item)
  /\ Goto(w, "idle", NoStack)
  /\ UNCHANGED <<exists, marker, world, req, del>>

Work(w) ==
  \/ Say(w) \/ Regions(w) \/ Lookup(w) \/ Create(w) \/ Poll(w)
  \/ ProvisionFails(w) \/ Told(w) \/ Settle(w) \/ SettleFails(w)
  \/ BadTarget(w) \/ CheckSucceeds(w) \/ CheckFails(w) \/ Login(w)
  \/ Verify(w) \/ ConnectFails(w) \/ Answer(w)

-----------------------------------------------------------------------------
(***************************************************************************)
(* DELETE session, as far as the stack is concerned.                       *)
(***************************************************************************)
\* The write lock waits for every other request.
DeleteRequest ==
  /\ del = "idle" /\ exists
  /\ \A r \in Requests : req[r].step = "idle"
  /\ del' = "begin"
  /\ UNCHANGED <<exists, marker, row, world, req, work>>

\* BeginSessionDeletion that ignores the stack (mutant).
DeleteBeginBlindly ==
  /\ del = "begin"
  /\ marker' = TRUE
  /\ del' = "stack"
  /\ UNCHANGED <<exists, row, world, req, work>>

DeleteBegin ==
  /\ del = "begin"
  /\ row.status \notin {"provisioning", "awaiting_auth"}
  /\ marker' = TRUE
  /\ del' = "stack"
  /\ UNCHANGED <<exists, row, world, req, work>>

\* DeleteStack: unprotect, delete and look again.
DeleteStack ==
  /\ del = "stack"
  /\ cloud' = (cloud /\ row.status = "absent")
  /\ del' = "config"
  /\ UNCHANGED <<exists, marker, row, config, req, work>>

RemoveConfig ==
  /\ del = "config"
  /\ config' = FALSE
  /\ del' = "row"
  /\ UNCHANGED <<exists, marker, row, cloud, req, work>>

DropSession ==
  /\ del = "row"
  /\ exists' = FALSE /\ marker' = FALSE
  /\ row' = NoStack
  /\ del' = "idle"
  /\ UNCHANGED <<world, req, work>>

\* Work is in progress, or a clean-up step failed, with or without effect;
\* the marker stays.
DeleteFails ==
  /\ del # "idle"
  /\ cloud' \in {cloud, cloud /\ ~(del = "stack" /\ row.status # "absent")}
  /\ del' = "idle"
  /\ UNCHANGED <<exists, marker, row, config, req, work>>

Delete == DeleteBegin \/ DeleteStack \/ RemoveConfig \/ DropSession
            \/ DeleteFails

-----------------------------------------------------------------------------
\* The process dies at any point; migrateSessionStacks recovers the row.
Restart ==
  /\ row' = CASE row.status = "provisioning" -> [row EXCEPT !.status = "failed"]
              [] row.status = "awaiting_auth" ->
                   [row EXCEPT !.status = "needs_auth"]
              [] OTHER -> row
  /\ req' = [r \in Requests |-> IdleRequest]
  /\ work' = [w \in Workers |-> IdleWorker]
  /\ del' = "idle"
  /\ UNCHANGED <<exists, marker, world>>

Handle(r) ==
  \/ CreateCheck(r) \/ CreateClaim(r) \/ CreateRefused(r) \/ CreateUnread(r)
  \/ ConnectCheck(r) \/ ConnectRefused(r)
  \/ \E w \in Workers : CreateSpawn(r, w) \/ ConnectClaim(r, w)

Next ==
  \/ \E r \in Requests : Handle(r)
  \/ \E w \in Workers : Work(w)
  \/ DeleteRequest \/ Delete
  \/ Restart

Spec == Init /\ [][Next]_vars

\* Handlers and goroutines run on; every gcx command has a timeout.
Fairness ==
  /\ \A r \in Requests :
       WF_vars(CreateClaim(r) \/ CreateRefused(r) \/ ConnectRefused(r)
               \/ \E w \in Workers : CreateSpawn(r, w) \/ ConnectClaim(r, w))
  /\ \A w \in Workers : WF_vars(Work(w))

-----------------------------------------------------------------------------
(***************************************************************************)
(* Properties                                                              *)
(***************************************************************************)
Busy(w) == work[w].step # "idle" /\ ~Lingers(w)

\* ClaimGrafanaStack and ClaimStackConnect: "serializes authentication with
\* creation and deletion".  One goroutine at a time works on the stack,
\* although its row is written by identifier and never checked again.
OneWorker == \A v, w \in Workers : Busy(v) /\ Busy(w) => v = w

\* session_delete.go:19-20, "allowing retry without starting new work
\* against partially deleted resources": from the marker on no goroutine is
\* working on the stack, across retries of the deletion and restarts.
NoWorkWhileDeleting == marker => \A w \in Workers : ~Busy(w)

\* A session that is gone leaves neither a Cloud stack (created with delete
\* protection, under a slug nobody remembers) nor its credentials behind.
NothingLeftBehind == ~exists => ~cloud /\ ~config

\* A ready stack has been reached with the credentials on disk, which is
\* what Start and the gcx tools rely on.
ReadyVerified == row.status = "ready" /\ ~marker => cloud /\ config

\* A stack leaves "ready" only when ConnectStack claims it or the session is
\* dropped: no late goroutine overwrites it.
ReadyStays ==
  [][row.status = "ready" /\ row' # row
       => row'.status \in {"awaiting_auth", "absent"}]_vars

(***************************************************************************)
(* The inductive invariant behind the safety properties.                   *)
(***************************************************************************)
InProgress == {"provisioning", "awaiting_auth"}

\* Lingering goroutines included, nobody meets anybody.
OneAtATime ==
  \A v, w \in Workers : work[v].step # "idle" /\ work[w].step # "idle" => v = w

\* A goroutine's copy of the row is the row, or the next thing to write.
WorkersInStep ==
  \A w \in Workers :
    /\ work[w].step \in ProvisionStep =>
         work[w].item.status = "provisioning" /\ row.status = "provisioning"
    /\ work[w].step \in {"tell", "settle"} =>
         \/ /\ work[w].item.status = "awaiting_auth"
            /\ row.status \in InProgress
         \/ /\ work[w].item.status = "failed"
            /\ row.status \in {"provisioning", "failed", "absent"}
    /\ work[w].step \in ConnectStep =>
         work[w].item.status = "awaiting_auth" /\ row.status = "awaiting_auth"
    /\ work[w].step = "answer" =>
         /\ row.status = "awaiting_auth"
         /\ \/ work[w].item.status = "needs_auth"
            \/ work[w].item.status = "ready" /\ cloud /\ config

\* A request that has claimed the row is the only one that will work on it.
ClaimApart ==
  \A r \in Requests : req[r].step = "created" =>
    /\ row.status = "provisioning"
    /\ \A w \in Workers : work[w].step = "idle"
    /\ \A q \in Requests : req[q].step = "created" => q = r

GateHeld ==
  del # "idle" \/ ~exists => \A r \in Requests : req[r].step = "idle"

DeletionApart ==
  /\ marker => row.status \notin InProgress
  /\ del \in {"stack", "config", "row"} => marker
  /\ ~exists => row.status = "absent" /\ del = "idle"

Emptied ==
  /\ row.status = "absent" => ~cloud /\ ~config
  /\ del \in {"config", "row"} => ~cloud
  /\ del = "row" => ~config

Coordination ==
  /\ TypeOK /\ OneAtATime /\ WorkersInStep /\ ClaimApart
  /\ GateHeld /\ DeletionApart /\ Emptied /\ ReadyVerified

\* README "Connect Grafana ... retry" and deployment_service.go:170, "Click
\* Connect Grafana to retry browser approval": the claim accepts a stack
\* that asks for it.
ConnectRetryable == row.status = "needs_auth" => row.url
=============================================================================
