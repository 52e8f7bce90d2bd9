--------------------------- MODULE PrototypeBuild ---------------------------
(***************************************************************************)
(* Prototype iterations and revision proposals of one session:             *)
(* prototype_service.go (start, run), BuildPrototype in bedrock.go with    *)
(* the workspace its tools write to, and the proposals of revision_tools.go*)
(* that a human approves through revision_handlers.go.                     *)
(*                                                                         *)
(* Files are a function from Paths to Contents.  What the model writes is  *)
(* any approved file, what the fixed checks say of the files is any        *)
(* verdict.  Progress messages only decorate a row and are left out.       *)
(***************************************************************************)
EXTENDS Naturals, FiniteSets

CONSTANTS
  Requests,       \* concurrent POST prototypes / revisions requests (a bound)
  Proposals,      \* revision proposals that may be made (a bound)
  Paths,          \* files of a prototype
  Contents,       \* what a file may say
  Tidied,         \* files that "go mod tidy" may rewrite: go.mod and go.sum
  MaxIterations,  \* bound on iterations
  MaxVersion,     \* bound on versions of the living brief
  StoreFaults,    \* whether a statement to SQLite may fail
  Disconnects,    \* whether a browser may drop its request
  Restarts,       \* whether the server may restart
  ParallelTools,  \* whether the AI SDK runs tools of one step in parallel
  None

ASSUME BoundAssumption == MaxIterations \in Nat /\ MaxVersion \in Nat \ {0}
ASSUME TidiedAssumption == Tidied \subseteq Paths
ASSUME NoneAssumption == None \notin Proposals /\ None \notin Contents
ASSUME EnvironmentAssumption ==
  /\ StoreFaults \in BOOLEAN /\ Disconnects \in BOOLEAN
  /\ Restarts \in BOOLEAN /\ ParallelTools \in BOOLEAN

VARIABLES
  version,    \* the latest version of the living brief
  offered,    \* ... contains a prototype offer
  count,      \* prototype_iterations: how many there are
  iteration,  \* ... the rows; origin is history: the proposal it was built for
  disk,       \* ... the files under their root paths
  proposal,   \* revision_proposals
  req,        \* the HTTP handlers in progress
  build,      \* the goroutine building each iteration
  generated   \* sessions.state is Generated, or has been

rows == <<count, iteration, disk>>
vars == <<version, offered, count, iteration, disk, proposal, req, build,
          generated>>

(***************************************************************************)
(* Rows, handlers and goroutines                                           *)
(***************************************************************************)
Number == 1..MaxIterations
Files == [Paths -> Contents \cup {None}]
NoFiles == [f \in Paths |-> None]

IterationStatus == {"absent", "generating", "complete", "failed"}
Iteration == [status : IterationStatus, version : 0..MaxVersion,
              operation : {"none", "running", "ended"},
              origin : Proposals \cup {None}]
NoIteration == [status |-> "absent", version |-> 0, operation |-> "none",
                origin |-> None]

ProposalStatus == {"absent", "drafted", "pending", "approved", "rejected",
                   "building", "failed"}
Proposal == [status : ProposalStatus, base : 0..MaxIterations,
             version : 0..MaxVersion, digest : Files, scope : SUBSET Paths,
             iteration : 0..MaxIterations]
NoProposal == [status |-> "absent", base |-> 0, version |-> 0,
               digest |-> NoFiles, scope |-> {}, iteration |-> 0]

\* The steps of a request between startMu.Lock and its release.
Guarded == {"source", "create", "prepare", "operate", "spawn", "abort"}
RequestStep == {"idle", "start", "receipt", "denied"} \cup Guarded
Request == [step : RequestStep, proposal : Proposals \cup {None},
            version : 0..MaxVersion, files : Files,
            number : 0..MaxIterations]
IdleRequest == [step |-> "idle", proposal |-> None, version |-> 0,
                files |-> NoFiles, number |-> 0]

Verdict == {"none", "passed", "failed"}
BuildStep == {"none", "plan", "write", "close", "state", "finish"}
Building == [step : BuildStep, proposal : Proposals \cup {None},
             base : Files, checks : Verdict, validating : BOOLEAN, checked : Files,
             changed : BOOLEAN, outcome : {"none", "complete", "failed"}]
NoBuild == [step |-> "none", proposal |-> None, base |-> NoFiles,
            checks |-> "none", validating |-> FALSE, checked |-> NoFiles, changed |-> FALSE,
            outcome |-> "none"]

TypeOK ==
  /\ version \in 0..MaxVersion /\ offered \in BOOLEAN
  /\ count \in 0..MaxIterations
  /\ iteration \in [Number -> Iteration]
  /\ disk \in [Number -> Files]
  /\ proposal \in [Proposals -> Proposal]
  /\ req \in [Requests -> Request]
  /\ build \in [Number -> Building]
  /\ generated \in BOOLEAN

Init ==
  /\ version = 0 /\ offered = FALSE
  /\ count = 0
  /\ iteration = [n \in Number |-> NoIteration]
  /\ disk = [n \in Number |-> NoFiles]
  /\ proposal = [p \in Proposals |-> NoProposal]
  /\ req = [r \in Requests |-> IdleRequest]
  /\ build = [n \in Number |-> NoBuild]
  /\ generated = FALSE

-----------------------------------------------------------------------------
Complete(n) == iteration[n].status = "complete"

Latest == IF count = 0 THEN NoIteration ELSE iteration[count]

\* Whether a statement with the request's context may fail.  Once the browser
\* is gone all of them do: the next one ends start, or leads to Abort.
Breaks == StoreFaults \/ Disconnects

Goto(r, step) == req' = [req EXCEPT ![r].step = step]
Respond(r) == req' = [req EXCEPT ![r] = IdleRequest]

\* start returns a fault: an approved proposal still gets its receipt.
Refuse(r) == IF req[r].proposal = None THEN Respond(r) ELSE Goto(r, "denied")

\* A new version of the brief: the curator, or a confirmation.
ChangeBrief ==
  /\ version < MaxVersion
  /\ version' = version + 1
  /\ offered' \in BOOLEAN
  /\ UNCHANGED <<rows, proposal, req, build, generated>>

\* The user edits the files of a finished prototype.
EditSource(n) ==
  /\ Complete(n)
  /\ \E f \in Paths, c \in Contents : disk' = [disk EXCEPT ![n][f] = c]
  /\ UNCHANGED <<version, offered, count, iteration, proposal, req, build,
                 generated>>

(***************************************************************************)
(* propose_prototype_revision: the base is read, then the row is written.  *)
(***************************************************************************)
Draft(p) ==
  /\ proposal[p].status = "absent"
  /\ version > 0
  /\ \E n \in Number, scope \in SUBSET Paths \ {{}} :
       /\ Complete(n)
       /\ proposal' = [proposal EXCEPT ![p] =
            [status |-> "drafted", base |-> n, version |-> version,
             digest |-> disk[n], scope |-> scope, iteration |-> 0]]
  /\ UNCHANGED <<version, offered, rows, req, build, generated>>

CreateRevision(p) ==
  /\ proposal[p].status = "drafted"
  /\ proposal' = [proposal EXCEPT ![p].status = "pending"]
  /\ UNCHANGED <<version, offered, rows, req, build, generated>>

(***************************************************************************)
(* decideRevision and createPrototype, up to PrototypeService.start.       *)
(***************************************************************************)
Reject(p) ==
  /\ proposal[p].status = "pending"
  /\ proposal' = [proposal EXCEPT ![p].status = "rejected"]
  /\ UNCHANGED <<version, offered, rows, req, build, generated>>

\* ClaimRevision that does not consume the proposal (mutant).
ApproveAgain(r, p) ==
  /\ req[r].step = "idle"
  /\ proposal[p].status \in {"pending", "approved"}
  /\ proposal' = [proposal EXCEPT ![p].status = "approved"]
  /\ req' = [req EXCEPT ![r].step = "start", ![r].proposal = p]
  /\ UNCHANGED <<version, offered, rows, build, generated>>

\* ClaimRevision: one statement takes a pending proposal.
Approve(r, p) ==
  /\ req[r].step = "idle"
  /\ proposal[p].status = "pending"
  /\ proposal' = [proposal EXCEPT ![p].status = "approved"]
  /\ req' = [req EXCEPT ![r].step = "start", ![r].proposal = p]
  /\ UNCHANGED <<version, offered, rows, build, generated>>

Post(r) ==
  /\ req[r].step = "idle"
  /\ Goto(r, "start")
  /\ UNCHANGED <<version, offered, rows, proposal, build, generated>>

(***************************************************************************)
(* start, under startMu.                                                   *)
(***************************************************************************)
\* What start requires of the session, and that the bound leaves room.
Acceptable(r) ==
  /\ count < MaxIterations
  /\ offered
  /\ Latest.status # "generating"
  /\ req[r].proposal # None => proposal[req[r].proposal].version = version

\* start without startMu (mutant).
LoadUnlocked(r) ==
  /\ req[r].step = "start"
  /\ \/ /\ Acceptable(r)
        /\ req' = [req EXCEPT
             ![r].step = IF req[r].proposal = None THEN "create" ELSE "source",
             ![r].version = version]
     \/ /\ Breaks \/ ~Acceptable(r)
        /\ Refuse(r)
  /\ UNCHANGED <<version, offered, rows, proposal, build, generated>>

\* GetSession and the checks on what it returns.
Load(r) ==
  /\ req[r].step = "start"
  /\ \A q \in Requests : req[q].step \notin Guarded
  /\ \/ /\ Acceptable(r)
        /\ req' = [req EXCEPT
             ![r].step = IF req[r].proposal = None THEN "create" ELSE "source",
             ![r].version = version]
     \/ /\ Breaks \/ ~Acceptable(r)
        /\ Refuse(r)
  /\ UNCHANGED <<version, offered, rows, proposal, build, generated>>

\* start that does not compare the digests (mutant).
ReadSourceUnchecked(r) ==
  LET p == proposal[req[r].proposal] IN
  /\ req[r].step = "source"
  /\ req' = [req EXCEPT ![r].step = "create", ![r].files = disk[p.base]]
  /\ UNCHANGED <<version, offered, rows, proposal, build, generated>>

\* SourceSnapshot of the base, which must be what the proposal was made on.
ReadSource(r) ==
  LET p == proposal[req[r].proposal] IN
  /\ req[r].step = "source"
  /\ IF disk[p.base] = p.digest
     THEN req' = [req EXCEPT ![r].step = "create", ![r].files = disk[p.base]]
     ELSE Refuse(r)
  /\ UNCHANGED <<version, offered, rows, proposal, build, generated>>

CreateIteration(r) ==
  LET n == count + 1 IN
  /\ req[r].step = "create"
  /\ \/ /\ count < MaxIterations
        /\ count' = n
        /\ iteration' = [iteration EXCEPT ![n] =
             [status |-> "generating", version |-> req[r].version,
              operation |-> "none", origin |-> req[r].proposal]]
        /\ req' = [req EXCEPT ![r].step = "prepare", ![r].number = n]
     \/ /\ Breaks
        /\ Refuse(r)
        /\ UNCHANGED <<count, iteration>>
  /\ UNCHANGED <<version, offered, disk, proposal, build, generated>>

\* UpdatePrototypeProgress stores the root path.
Prepare(r) ==
  /\ req[r].step = "prepare"
  /\ \/ Goto(r, "operate")
     \/ Breaks /\ Goto(r, "abort")
  /\ UNCHANGED <<version, offered, rows, proposal, build, generated>>

CreateOperation(r) ==
  /\ req[r].step = "operate"
  /\ \/ /\ iteration' = [iteration EXCEPT ![req[r].number].operation = "running"]
        /\ Goto(r, "spawn")
     \/ /\ Breaks
        /\ Goto(r, "abort")
        /\ UNCHANGED iteration
  /\ UNCHANGED <<version, offered, count, disk, proposal, build, generated>>

\* FinishPrototypeIteration with the context that just failed: it can only
\* work if it was the store that failed.  Its own failure is ignored.
Abort(r) ==
  /\ req[r].step = "abort"
  /\ \/ /\ StoreFaults
        /\ iteration' = [iteration EXCEPT ![req[r].number].status = "failed"]
     \/ UNCHANGED iteration
  /\ Refuse(r)
  /\ UNCHANGED <<version, offered, count, disk, proposal, build, generated>>

Spawn(r) ==
  /\ req[r].step = "spawn"
  /\ build' = [build EXCEPT ![req[r].number] =
       [NoBuild EXCEPT !.step = "plan", !.proposal = req[r].proposal,
                       !.base = req[r].files]]
  /\ IF req[r].proposal = None THEN Respond(r) ELSE Goto(r, "receipt")
  /\ UNCHANGED <<version, offered, rows, proposal, generated>>

\* The receipt names the latest iteration (mutant).
ReceiptLatest(r) ==
  /\ req[r].step = "receipt"
  /\ proposal' = [proposal EXCEPT ![req[r].proposal].status = "building",
                                 ![req[r].proposal].iteration = count]
  /\ Respond(r)
  /\ UNCHANGED <<version, offered, rows, build, generated>>

\* FinishRevisionApproval has a context of its own.
Receipt(r) ==
  /\ req[r].step = "receipt"
  /\ \/ proposal' = [proposal EXCEPT
          ![req[r].proposal].status = "building",
          ![req[r].proposal].iteration = req[r].number]
     \/ StoreFaults /\ UNCHANGED proposal
  /\ Respond(r)
  /\ UNCHANGED <<version, offered, rows, build, generated>>

Denied(r) ==
  /\ req[r].step = "denied"
  /\ \/ proposal' = [proposal EXCEPT ![req[r].proposal].status = "failed"]
     \/ StoreFaults /\ UNCHANGED proposal
  /\ Respond(r)
  /\ UNCHANGED <<version, offered, rows, build, generated>>

Handle(r) ==
  \/ Load(r) \/ ReadSource(r) \/ CreateIteration(r) \/ Prepare(r)
  \/ CreateOperation(r) \/ Abort(r) \/ Spawn(r) \/ Receipt(r) \/ Denied(r)

-----------------------------------------------------------------------------
(***************************************************************************)
(* run and BuildPrototype, in a goroutine of its own.                      *)
(***************************************************************************)
Origin(n) == build[n].proposal
BuildGoto(n, step) == build' = [build EXCEPT ![n].step = step]

\* The files a build may write: all, or those the human approved.
Scope(n) == IF Origin(n) = None THEN Paths ELSE proposal[Origin(n)].scope

\* The plan is made or taken from the proposal; prototype.New creates the
\* workspace, and a revision copies its base into it.
OpenWorkspace(n) ==
  /\ build[n].step = "plan"
  /\ disk' = [disk EXCEPT ![n] = build[n].base]
  /\ BuildGoto(n, "write")
  /\ UNCHANGED <<version, offered, count, iteration, proposal, req, generated>>

\* The result of the run; a failed one keeps nothing of the checks.
Ended(n, outcome) ==
  IF outcome = "complete"
  THEN [build[n] EXCEPT !.step = "close", !.changed = FALSE,
                        !.outcome = "complete"]
  ELSE [NoBuild EXCEPT !.step = "close", !.proposal = Origin(n),
                       !.base = build[n].base, !.outcome = "failed"]

\* A tool may run: the SDK waits for the tools of a step, one by one or all.
ToolFree(n) == ParallelTools \/ ~build[n].validating

\* write_demo_file without the check of the approved paths (mutant).
WriteAnywhere(n) ==
  /\ build[n].step = "write" /\ ToolFree(n)
  /\ \E f \in Paths, c \in Contents :
       /\ disk' = [disk EXCEPT ![n][f] = c]
       /\ build' = [build EXCEPT
            ![n].checks = "none",
            ![n].checked = IF build[n].validating THEN @ ELSE NoFiles,
            ![n].changed = @ \/ (Origin(n) # None /\ build[n].base[f] # c)]
  /\ UNCHANGED <<version, offered, count, iteration, proposal, req, generated>>

\* write_demo_file that keeps the checks of the files before it (mutant).
WriteKeepingChecks(n) ==
  /\ build[n].step = "write" /\ ToolFree(n)
  /\ \E f \in Scope(n), c \in Contents :
       /\ disk' = [disk EXCEPT ![n][f] = c]
       /\ build' = [build EXCEPT
            ![n].changed = @ \/ (Origin(n) # None /\ build[n].base[f] # c)]
  /\ UNCHANGED <<version, offered, count, iteration, proposal, req, generated>>

\* write_demo_file: validation must follow the final edit.
Write(n) ==
  /\ build[n].step = "write" /\ ToolFree(n)
  /\ \E f \in Scope(n), c \in Contents :
       /\ disk' = [disk EXCEPT ![n][f] = c]
       /\ build' = [build EXCEPT
            ![n].checks = "none",
            ![n].checked = IF build[n].validating THEN @ ELSE NoFiles,
            ![n].changed = @ \/ (Origin(n) # None /\ build[n].base[f] # c)]
  /\ UNCHANGED <<version, offered, count, iteration, proposal, req, generated>>

\* validate_prototype runs commands on the files it finds, one of which tidies
\* the module; its verdict is stored when they have ended.
Validate(n) ==
  /\ build[n].step = "write" /\ ~build[n].validating
  /\ \E tidy \in [Tidied -> Contents \cup {None}] :
       LET files == [f \in Paths |-> IF f \in Tidied THEN tidy[f]
                                    ELSE disk[n][f]] IN
       /\ disk' = [disk EXCEPT ![n] = files]
       /\ build' = [build EXCEPT ![n].validating = TRUE, ![n].checked = files]
  /\ UNCHANGED <<version, offered, count, iteration, proposal, req, generated>>

Validated(n) ==
  /\ build[n].step = "write" /\ build[n].validating
  /\ \E verdict \in {"passed", "failed"} :
       build' = [build EXCEPT ![n].validating = FALSE, ![n].checks = verdict]
  /\ UNCHANGED <<version, offered, rows, proposal, req, generated>>

\* The model is done or has used its 40 steps: a result without passed
\* checks, or a revision that changed nothing, has failed.
Stop(n) ==
  /\ build[n].step = "write" /\ ~build[n].validating
  /\ build' = [build EXCEPT ![n] =
       Ended(n, IF build[n].checks = "passed"
                     /\ (Origin(n) # None => build[n].changed)
                THEN "complete" ELSE "failed")]
  /\ UNCHANGED <<version, offered, rows, proposal, req, generated>>

\* Planning, copying, the model or its 15 minutes fail.
BuildFails(n) ==
  /\ build[n].step \in {"plan", "write"}
  /\ build' = [build EXCEPT ![n] = Ended(n, "failed")]
  /\ UNCHANGED <<version, offered, rows, proposal, req, generated>>

\* FinishOperation; its failure is ignored.
FinishOperation(n) ==
  /\ build[n].step = "close"
  /\ \/ iteration' = [iteration EXCEPT ![n].operation = "ended"]
     \/ StoreFaults /\ UNCHANGED iteration
  /\ BuildGoto(n, IF build[n].outcome = "complete" THEN "state" ELSE "finish")
  /\ UNCHANGED <<version, offered, count, disk, proposal, req, generated>>

\* SetSessionState before the iteration is known to be complete.
SetState(n) ==
  /\ build[n].step = "state"
  /\ \/ generated' = TRUE
     \/ StoreFaults /\ UNCHANGED generated
  /\ BuildGoto(n, "finish")
  /\ UNCHANGED <<version, offered, rows, proposal, req>>

\* The goroutine ends on a failure without storing it (mutant).
FinishSuccessOnly(n) ==
  /\ build[n].step = "finish"
  /\ iteration' = IF build[n].outcome = "complete"
                  THEN [iteration EXCEPT ![n].status = "complete"]
                  ELSE iteration
  /\ build' = [build EXCEPT ![n] = NoBuild]
  /\ UNCHANGED <<version, offered, count, disk, proposal, req, generated>>

\* FinishPrototypeIteration; when it fails the row stays as it is.
FinishIteration(n) ==
  /\ build[n].step = "finish"
  /\ \/ iteration' = [iteration EXCEPT ![n].status = build[n].outcome]
     \/ StoreFaults /\ UNCHANGED iteration
  /\ build' = [build EXCEPT ![n] = NoBuild]
  /\ UNCHANGED <<version, offered, count, disk, proposal, req, generated>>

Run(n) ==
  \/ OpenWorkspace(n) \/ Write(n) \/ Validate(n) \/ Validated(n) \/ Stop(n)
  \/ BuildFails(n) \/ FinishOperation(n) \/ SetState(n) \/ FinishIteration(n)

-----------------------------------------------------------------------------
\* The process dies at any point; migrate recovers the rows.
Restart ==
  /\ Restarts
  /\ iteration' = [n \in Number |->
       [iteration[n] EXCEPT
          !.status = IF @ = "generating" THEN "failed" ELSE @,
          !.operation = IF @ = "running" THEN "ended" ELSE @]]
  /\ generated' = (generated \/ \E n \in Number : Complete(n))
  /\ proposal' = [p \in Proposals |->
       IF proposal[p].status = "drafted" THEN NoProposal ELSE proposal[p]]
  /\ req' = [r \in Requests |-> IdleRequest]
  /\ build' = [n \in Number |-> NoBuild]
  /\ UNCHANGED <<version, offered, count, disk>>

Next ==
  \/ ChangeBrief
  \/ \E n \in Number : EditSource(n) \/ Run(n)
  \/ \E p \in Proposals : Draft(p) \/ CreateRevision(p) \/ Reject(p)
  \/ \E r \in Requests : \/ Post(r) \/ Handle(r)
                         \/ \E p \in Proposals : Approve(r, p)
  \/ Restart

Spec == Init /\ [][Next]_vars

\* Handlers run on; a build ends by itself or after 15 minutes.
Fairness ==
  /\ \A r \in Requests : WF_vars(Handle(r))
  /\ \A n \in Number :
       /\ WF_vars(OpenWorkspace(n) \/ Stop(n) \/ BuildFails(n))
       /\ WF_vars(FinishOperation(n) \/ SetState(n) \/ FinishIteration(n))

FairSpec == Spec /\ Fairness

-----------------------------------------------------------------------------
(***************************************************************************)
(* Properties                                                              *)
(***************************************************************************)
Active(n) == build[n].step # "none"

\* start refuses "A prototype iteration is already running", from a snapshot
\* and the latest row alone.  Still, builds follow one another: nobody builds
\* while another iteration is generating, whatever failed before.
OneBuild ==
  /\ \A m, n \in Number : Active(m) /\ iteration[n].status = "generating"
                            => m = n
  /\ \A m, n \in Number : iteration[m].status = "generating"
                            /\ iteration[n].status = "generating" => m = n

\* docs/chat-revisions.md: "Approval is session-bound and single-use."  One
\* approval makes one iteration at most, across clicks, failures and
\* restarts, and a rejected proposal none.
SingleUse ==
  \A p \in Proposals :
    /\ \A m, n \in Number : iteration[m].origin = p /\ iteration[n].origin = p
                              => m = n
    /\ \A n \in Number : iteration[n].origin = p
         => proposal[p].status \in {"approved", "building", "failed"}

\* "A changed brief or source invalidates the proposal": what is built for a
\* proposal is built on the brief and the files it was made on.
RevisionFresh ==
  \A n \in Number : iteration[n].origin # None =>
    LET p == proposal[iteration[n].origin] IN
    /\ p.base < n /\ Complete(p.base)
    /\ iteration[n].version = p.version
    /\ Active(n) => build[n].base = p.digest

\* "limits the write tool to approved paths": while a revision is built, the
\* files outside its approval are those of its base (but for those that
\* validation tidies), even when somebody edits the base meanwhile.
ScopeKept ==
  \A n \in Number : Active(n) /\ build[n].step # "plan" /\ Origin(n) # None
    => \/ \A f \in Paths \ (Scope(n) \cup Tidied) :
            disk[n][f] = proposal[Origin(n)].digest[f]
       \/ build[n].outcome = "failed"

\* bedrock.go: "Validation must follow the final edit."  An iteration becomes
\* complete only with the files its passed checks have seen.
ValidatedLast ==
  [][\A n \in Number : ~Complete(n) /\ Complete(n)'
       => build[n].checks = "passed" /\ build[n].checked = disk[n]]_vars

\* "Existing iterations ... stay untouched": the row of a settled iteration
\* never changes, although rows are written by number alone.
SettledStays ==
  [][\A n \in Number : iteration[n].status \in {"complete", "failed"}
       => iteration'[n].status = iteration[n].status]_vars

\* A receipt tells the truth: "building" names the iteration built for it,
\* "failed" has no build behind it.
ReceiptTrue ==
  \A p \in Proposals :
    /\ proposal[p].status = "building"
         => iteration[proposal[p].iteration].origin = p
    /\ proposal[p].status = "failed"
         => \A n \in Number : iteration[n].origin = p
              => ~Active(n) /\ ~Complete(n)

\* PLAN.md: an interrupted operation is "represented honestly".  What is
\* recorded as in progress, and blocks the next build and the deletion of the
\* session, is in somebody's hands.
Honest ==
  \A n \in Number :
    /\ iteration[n].status = "generating" =>
         \/ Active(n)
         \/ \E r \in Requests : /\ req[r].step \in {"prepare", "operate",
                                                    "spawn", "abort"}
                                /\ req[r].number = n
    /\ iteration[n].operation = "running" =>
         Active(n) \/ \E r \in Requests : req[r].step = "spawn"
                                          /\ req[r].number = n

\* README: "Generated: the latest prototype iteration passed generation
\* checks".  A session is Generated because an iteration is complete, or is
\* about to be.
GeneratedBacked ==
  generated => \E n \in Number : Complete(n) \/ build[n].step = "finish"

(***************************************************************************)
(* The invariant that is inductive together with SingleUse, RevisionFresh  *)
(* and ReceiptTrue, and gives OneBuild and SettledStays.                   *)
(***************************************************************************)
\* startMu has one holder.
LockHeld ==
  \A q, r \in Requests : req[q].step \in Guarded /\ req[r].step \in Guarded
                           => q = r

\* Rows are numbered without gaps, only the latest is being generated, and a
\* goroutine works on that one, for the proposal in its row, to an outcome.
LatestOpen ==
  \A n \in Number :
    /\ n > count => iteration[n] = NoIteration
    /\ n <= count => iteration[n].status # "absent"
    /\ iteration[n].status = "generating" => n = count
    /\ Active(n) => /\ iteration[n].status = "generating"
                    /\ Origin(n) = iteration[n].origin
    /\ build[n].step \in {"close", "state", "finish"} =>
         build[n].outcome # "none"

\* What a handler knows: before it creates a row none is being generated;
\* afterwards the latest row is its own and has no goroutine yet.
Owns(r) ==
  /\ req[r].step = "idle" => req[r].proposal = None
  /\ req[r].step \in {"source", "receipt", "denied"} => req[r].proposal # None
  /\ req[r].step \in {"source", "create"} => Latest.status # "generating"
  /\ req[r].step \in {"prepare", "operate", "spawn", "abort"} =>
       /\ req[r].number = count /\ count # 0
       /\ iteration[count].status = "generating" /\ ~Active(count)
       /\ iteration[count].version = req[r].version
  /\ req[r].step \in {"prepare", "operate", "spawn", "abort", "receipt"} =>
       /\ req[r].number \in Number
       /\ iteration[req[r].number].origin = req[r].proposal

HandlerOwns == \A r \in Requests : Owns(r)

\* An approval is in the hands of the handler that claimed it, until its
\* receipt: nothing was built for it before, and its sources are current.
Holds(r) ==
  LET p == proposal[req[r].proposal] IN
  /\ p.status = "approved"
  /\ \A q \in Requests : req[q].proposal = req[r].proposal => q = r
  /\ req[r].step \in {"start", "source", "create"} =>
       \A n \in Number : iteration[n].origin # req[r].proposal
  /\ req[r].step \in Guarded => req[r].version = p.version
  /\ req[r].step \in Guarded \ {"source"} => req[r].files = p.digest
  /\ req[r].step = "denied" =>
       \A n \in Number : iteration[n].origin = req[r].proposal
                           => ~Active(n) /\ ~Complete(n)

ApprovalHeld == \A r \in Requests : req[r].proposal # None => Holds(r)

\* A proposal is made on an iteration that stays complete, and its receipt
\* names an iteration.
ProposalBased ==
  \A p \in Proposals :
    /\ proposal[p].status # "absent" =>
         proposal[p].base \in Number /\ Complete(proposal[p].base)
    /\ proposal[p].status = "building" => proposal[p].iteration \in Number

Custody ==
  /\ TypeOK /\ LockHeld /\ LatestOpen /\ HandlerOwns /\ ApprovalHeld
  /\ ProposalBased

\* Inductive together with ScopeKept: a build that is still at work has no
\* outcome yet.
OutcomeLast ==
  \A n \in Number : build[n].step \in {"plan", "write"}
                      => build[n].outcome = "none"

\* Inductive for tools that run one by one: what the checks of a build see, or
\* have passed, are the files that are there, and only passed checks lead to a
\* complete result.
ChecksCurrent ==
  \A n \in Number : Active(n) =>
    /\ build[n].step = "plan" => build[n].checks = "none" /\ ~build[n].validating
    /\ build[n].validating \/ build[n].checks = "passed" =>
         build[n].checked = disk[n]
    /\ build[n].outcome = "complete" => build[n].checks = "passed"

\* A build comes to an end, and with it the refusal of the next one.
BuildEnds ==
  \A n \in Number : iteration[n].status = "generating"
                      ~> iteration[n].status # "generating"
=============================================================================
