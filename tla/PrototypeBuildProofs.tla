------------------------ MODULE PrototypeBuildProofs ------------------------
(* Theorems about PrototypeBuild, for any number of requests, proposals,   *)
(* files and iterations, whatever fails.                                   *)
EXTENDS PrototypeBuild, TLAPS

USE BoundAssumption, NoneAssumption DEF Number

-----------------------------------------------------------------------------
(***************************************************************************)
(* Types.                                                                  *)
(***************************************************************************)
\* What is not there is well typed.
LEMMA NothingTyped ==
  /\ NoFiles \in Files /\ NoIteration \in Iteration /\ NoProposal \in Proposal
  /\ IdleRequest \in Request /\ NoBuild \in Building
<1>1. NoFiles \in Files
  BY DEF NoFiles, Files
<1>2. NoIteration \in Iteration
  BY DEF NoIteration, Iteration, IterationStatus
<1>3. NoProposal \in Proposal
  BY <1>1 DEF NoProposal, Proposal, ProposalStatus
<1>4. IdleRequest \in Request
  BY <1>1 DEF IdleRequest, Request, RequestStep
<1>5. NoBuild \in Building
  BY <1>1 DEF NoBuild, Building, BuildStep, Verdict
<1> QED BY <1>1, <1>2, <1>3, <1>4, <1>5

\* The initial state is well typed.
LEMMA InitTyped == Init => TypeOK
<1> SUFFICES ASSUME Init PROVE TypeOK
  OBVIOUS
<1>1. 0 \in 0..MaxVersion /\ 0 \in 0..MaxIterations
  OBVIOUS
<1>2. /\ iteration \in [Number -> Iteration] /\ disk \in [Number -> Files]
      /\ proposal \in [Proposals -> Proposal]
      /\ req \in [Requests -> Request] /\ build \in [Number -> Building]
  BY NothingTyped DEF Init
<1> QED BY <1>1, <1>2 DEF Init, TypeOK

\* Rows, handlers and goroutines that are changed keep their types.
LEMMA RequestUpdates ==
  ASSUME NEW x \in Request, NEW step \in RequestStep,
         NEW number \in 0..MaxIterations, NEW v \in 0..MaxVersion,
         NEW files \in Files, NEW p \in Proposals
  PROVE  /\ [x EXCEPT !.step = step] \in Request
         /\ [x EXCEPT !.step = step, !.number = number] \in Request
         /\ [x EXCEPT !.step = step, !.version = v] \in Request
         /\ [x EXCEPT !.step = step, !.files = files] \in Request
         /\ [x EXCEPT !.step = step, !.proposal = p] \in Request
         /\ x.proposal \in Proposals \cup {None}
         /\ x.version \in 0..MaxVersion /\ x.number \in 0..MaxIterations
         /\ x.files \in Files /\ x.step \in RequestStep
  BY DEF Request

LEMMA IterationUpdates ==
  ASSUME NEW x \in Iteration, NEW status \in IterationStatus,
         NEW operation \in {"none", "running", "ended"}
  PROVE  /\ [x EXCEPT !.status = status] \in Iteration
         /\ [x EXCEPT !.operation = operation] \in Iteration
         /\ [x EXCEPT !.status = status, !.operation = operation] \in Iteration
         /\ x.status \in IterationStatus
         /\ x.operation \in {"none", "running", "ended"}
  BY DEF Iteration

LEMMA ProposalUpdates ==
  ASSUME NEW x \in Proposal, NEW status \in ProposalStatus,
         NEW number \in 0..MaxIterations
  PROVE  /\ [x EXCEPT !.status = status] \in Proposal
         /\ [x EXCEPT !.status = status, !.iteration = number] \in Proposal
         /\ x.digest \in Files /\ x.scope \subseteq Paths
  BY DEF Proposal

\* A request moves on, is answered or is refused.
LEMMA RequestMoves ==
  ASSUME TypeOK, NEW r \in Requests
  PROVE  /\ req[r] \in Request
         /\ \A step \in RequestStep : Goto(r, step)
              => req' \in [Requests -> Request]
         /\ Respond(r) => req' \in [Requests -> Request]
         /\ Refuse(r) => req' \in [Requests -> Request]
<1>1. req \in [Requests -> Request]
  BY DEF TypeOK
<1>2. \A step \in RequestStep : Goto(r, step) => req' \in [Requests -> Request]
  BY <1>1 DEF Goto, Request
<1>3. Respond(r) => req' \in [Requests -> Request]
  BY <1>1, NothingTyped DEF Respond
<1>4. "denied" \in RequestStep
  BY DEF RequestStep
<1> QED BY <1>1, <1>2, <1>3, <1>4 DEF Refuse

\* Requests keep the types.
LEMMA HandleTyped ==
  ASSUME TypeOK, HandlerOwns, NEW r \in Requests, Handle(r)
  PROVE  TypeOK'
<1>1. /\ version \in 0..MaxVersion /\ count \in 0..MaxIterations
      /\ iteration \in [Number -> Iteration] /\ disk \in [Number -> Files]
      /\ proposal \in [Proposals -> Proposal]
      /\ req \in [Requests -> Request] /\ req[r] \in Request
      /\ build \in [Number -> Building]
      /\ offered \in BOOLEAN /\ generated \in BOOLEAN
  BY RequestMoves DEF TypeOK
<1>2. {"create", "source", "prepare", "operate", "spawn", "abort", "receipt",
       "denied"} \subseteq RequestStep
  BY DEF RequestStep, Guarded
<1>3. CASE Load(r)
  <2>1. CASE Refuse(r)
    BY <1>1, <1>3, <2>1, RequestMoves DEF Load, TypeOK, rows
  <2>2. CASE ~Refuse(r)
    <3> DEFINE step == IF req[r].proposal = None THEN "create" ELSE "source"
    <3>1. /\ req' = [req EXCEPT ![r] = [req[r] EXCEPT !.step = step,
                                                      !.version = version]]
          /\ UNCHANGED <<version, offered, rows, proposal, build, generated>>
      BY <1>3, <2>2 DEF Load
    <3>2. step \in RequestStep
      BY <1>2
    <3> HIDE DEF step
    <3>3. [req[r] EXCEPT !.step = step, !.version = version] \in Request
      BY <1>1, <3>2 DEF Request
    <3> QED BY <1>1, <3>1, <3>3 DEF TypeOK, rows
  <2> QED BY <2>1, <2>2
<1>4. CASE ReadSource(r)
  <2>1. CASE Refuse(r)
    BY <1>1, <1>4, <2>1, RequestMoves DEF ReadSource, TypeOK, rows
  <2>2. CASE ~Refuse(r)
    <3>1. req[r].proposal \in Proposals
      BY <1>1, <1>4, RequestUpdates DEF ReadSource, HandlerOwns, Owns, Request
    <3> DEFINE p == proposal[req[r].proposal]
    <3>2. /\ disk[p.base] = p.digest
          /\ req' = [req EXCEPT ![r] = [req[r] EXCEPT !.step = "create",
                                                      !.files = disk[p.base]]]
          /\ UNCHANGED <<version, offered, rows, proposal, build, generated>>
      BY <1>4, <2>2 DEF ReadSource
    <3>3. p.digest \in Files
      BY <1>1, <3>1 DEF Proposal
    <3> HIDE DEF p
    <3>4. [req[r] EXCEPT !.step = "create", !.files = disk[p.base]] \in Request
      BY <1>1, <1>2, <3>2, <3>3 DEF Request
    <3> QED BY <1>1, <3>2, <3>4 DEF TypeOK, rows
  <2> QED BY <2>1, <2>2
<1>5. CASE CreateIteration(r)
  <2>1. CASE Refuse(r) /\ UNCHANGED <<count, iteration>>
    BY <1>1, <1>5, <2>1, RequestMoves DEF CreateIteration, TypeOK
  <2>2. CASE count < MaxIterations /\ count' = count + 1
    <3> DEFINE row == [status |-> "generating", version |-> req[r].version,
                       operation |-> "none", origin |-> req[r].proposal]
    <3>1. row \in Iteration
      BY <1>1 DEF Iteration, IterationStatus, Request
    <3>2. [req[r] EXCEPT !.step = "prepare", !.number = count + 1] \in Request
      <4>1. count + 1 \in 0..MaxIterations /\ "prepare" \in RequestStep
        BY <1>1, <1>2, <2>2
      <4> QED BY <1>1, <4>1 DEF Request
    <3>3. /\ iteration' = [iteration EXCEPT ![count + 1] = row]
          /\ req' = [req EXCEPT ![r] = [req[r] EXCEPT !.step = "prepare",
                                                      !.number = count + 1]]
          /\ UNCHANGED <<version, offered, disk, proposal, build, generated>>
      <4>1. count' # count
        BY <1>1, <2>2
      <4> QED BY <1>5, <4>1 DEF CreateIteration
    <3> HIDE DEF row
    <3>4. count' \in 0..MaxIterations
      BY <1>1, <2>2
    <3>5. /\ iteration' \in [Number -> Iteration]
          /\ req' \in [Requests -> Request]
      BY <1>1, <3>1, <3>2, <3>3
    <3> QED BY <1>1, <3>3, <3>4, <3>5 DEF TypeOK
  <2> QED BY <1>5, <2>1, <2>2 DEF CreateIteration
<1>6. CASE Prepare(r)
  BY <1>1, <1>2, <1>6, RequestMoves DEF Prepare, TypeOK, rows
<1>7. CASE CreateOperation(r) \/ Abort(r)
  <2>1. req' \in [Requests -> Request]
    BY <1>2, <1>7, RequestMoves DEF CreateOperation, Abort
  <2>2. \A x \in Iteration : /\ [x EXCEPT !.operation = "running"] \in Iteration
                             /\ [x EXCEPT !.status = "failed"] \in Iteration
    BY IterationUpdates DEF IterationStatus
  <2>3. iteration' \in [Number -> Iteration]
    <3>1. CASE iteration' = iteration
      BY <1>1, <3>1
    <3>2. CASE iteration' = [iteration EXCEPT ![req[r].number] =
                 [iteration[req[r].number] EXCEPT !.operation = "running"]]
      BY <1>1, <2>2, <3>2
    <3>3. CASE iteration' = [iteration EXCEPT ![req[r].number] =
                 [iteration[req[r].number] EXCEPT !.status = "failed"]]
      BY <1>1, <2>2, <3>3
    <3> QED BY <1>7, <3>1, <3>2, <3>3 DEF CreateOperation, Abort
  <2> QED BY <1>1, <1>7, <2>1, <2>3 DEF CreateOperation, Abort, TypeOK
<1>8. CASE Spawn(r)
  <2>1. req' \in [Requests -> Request]
    BY <1>2, <1>8, RequestMoves DEF Spawn
  <2>2. build' \in [Number -> Building]
    BY <1>1, <1>8, NothingTyped DEF Spawn, Building, BuildStep, Request
  <2> QED BY <1>1, <1>8, <2>1, <2>2 DEF Spawn, TypeOK, rows
<1>9. CASE Receipt(r) \/ Denied(r)
  <2>1. req' \in [Requests -> Request]
    BY <1>9, RequestMoves DEF Receipt, Denied
  <2>2. \A x \in Proposal : /\ [x EXCEPT !.status = "failed"] \in Proposal
                            /\ [x EXCEPT !.status = "building",
                                   !.iteration = req[r].number] \in Proposal
    BY <1>1, ProposalUpdates DEF ProposalStatus, Request
  <2>3. proposal' \in [Proposals -> Proposal]
    <3> DEFINE p == req[r].proposal
    <3>1. CASE proposal' = proposal
      BY <1>1, <3>1
    <3>2. CASE proposal' = [proposal EXCEPT ![p] =
                 [proposal[p] EXCEPT !.status = "building",
                                     !.iteration = req[r].number]]
      BY <1>1, <2>2, <3>2
    <3>3. CASE proposal' = [proposal EXCEPT ![p] =
                 [proposal[p] EXCEPT !.status = "failed"]]
      BY <1>1, <2>2, <3>3
    <3> QED BY <1>9, <3>1, <3>2, <3>3 DEF Receipt, Denied
  <2> QED BY <1>1, <1>9, <2>1, <2>3 DEF Receipt, Denied, TypeOK, rows
<1> QED
  BY <1>3, <1>4, <1>5, <1>6, <1>7, <1>8, <1>9 DEF Handle

\* Goroutines keep the types.
LEMMA RunTyped ==
  ASSUME TypeOK, LatestOpen, NEW n \in Number, Run(n)
  PROVE  TypeOK'
<1>1. /\ disk \in [Number -> Files] /\ iteration \in [Number -> Iteration]
      /\ build \in [Number -> Building] /\ build[n] \in Building
      /\ build[n].base \in Files /\ generated \in BOOLEAN
  BY DEF TypeOK, Building
<1>2. \A step \in BuildStep : BuildGoto(n, step)
        => build' \in [Number -> Building]
  <2>1. \A step \in BuildStep : [build[n] EXCEPT !.step = step] \in Building
    BY <1>1 DEF Building
  <2> QED BY <1>1, <2>1 DEF BuildGoto
<1>3. {"plan", "write", "close", "state", "finish"} \subseteq BuildStep
  BY DEF BuildStep
<1>4. CASE OpenWorkspace(n)
  <2>1. disk' \in [Number -> Files] /\ build' \in [Number -> Building]
    BY <1>1, <1>2, <1>3, <1>4 DEF OpenWorkspace
  <2> QED BY <1>4, <2>1 DEF OpenWorkspace, TypeOK
<1>5. CASE Write(n)
  <2>1. PICK f \in Scope(n), c \in Contents :
          /\ disk' = [disk EXCEPT ![n][f] = c]
          /\ build' = [build EXCEPT
               ![n].checks = "none",
               ![n].checked = IF build[n].validating THEN @ ELSE NoFiles,
               ![n].changed = @ \/ (Origin(n) # None /\ build[n].base[f] # c)]
    BY <1>5 DEF Write
  <2>2. disk' \in [Number -> Files]
    BY <1>1, <2>1 DEF Files
  <2>3. build' \in [Number -> Building]
    <3> DEFINE files == IF build[n].validating THEN build[n].checked ELSE NoFiles
               changed == build[n].changed
                            \/ (Origin(n) # None /\ build[n].base[f] # c)
    <3>1. files \in Files /\ changed \in BOOLEAN /\ "none" \in Verdict
      BY <1>1, NothingTyped DEF Building, Verdict
    <3>2. build' = [build EXCEPT ![n] = [build[n] EXCEPT
                      !.checks = "none", !.checked = files, !.changed = changed]]
      BY <2>1
    <3> HIDE DEF files, changed
    <3>3. [build[n] EXCEPT !.checks = "none", !.checked = files,
                           !.changed = changed] \in Building
      BY <1>1, <3>1 DEF Building
    <3> QED BY <1>1, <3>2, <3>3
  <2> QED BY <1>5, <2>2, <2>3 DEF Write, TypeOK
<1>6. CASE Validate(n)
  <2>1. PICK tidy \in [Tidied -> Contents \cup {None}] :
          LET files == [f \in Paths |-> IF f \in Tidied THEN tidy[f]
                                        ELSE disk[n][f]] IN
          /\ disk' = [disk EXCEPT ![n] = files]
          /\ build' = [build EXCEPT ![n].validating = TRUE, ![n].checked = files]
    BY <1>6 DEF Validate
  <2> DEFINE files == [f \in Paths |-> IF f \in Tidied THEN tidy[f]
                                       ELSE disk[n][f]]
  <2>2. files \in Files
    BY <1>1 DEF Files
  <2>3. /\ disk' = [disk EXCEPT ![n] = files]
        /\ build' = [build EXCEPT ![n] = [build[n] EXCEPT !.validating = TRUE,
                                                        !.checked = files]]
    BY <2>1
  <2> HIDE DEF files
  <2>4. [build[n] EXCEPT !.validating = TRUE, !.checked = files] \in Building
    BY <1>1, <2>2 DEF Building
  <2> QED BY <1>1, <1>6, <2>2, <2>3, <2>4 DEF Validate, TypeOK
<1>7. CASE Validated(n)
  <2>1. build' \in [Number -> Building]
    <3>1. \A verdict \in {"passed", "failed"} :
            [build[n] EXCEPT !.validating = FALSE, !.checks = verdict] \in Building
      BY <1>1 DEF Building, Verdict
    <3> QED BY <1>1, <1>7, <3>1 DEF Validated
  <2> QED BY <1>7, <2>1 DEF Validated, TypeOK, rows
<1>8. CASE Stop(n) \/ BuildFails(n)
  <2>1. \A outcome \in {"complete", "failed"} : Ended(n, outcome) \in Building
    BY <1>1, <1>3, NothingTyped DEF Ended, Origin, NoBuild, Building, Verdict
  <2>2. build' \in [Number -> Building]
    BY <1>1, <1>8, <2>1 DEF Stop, BuildFails
  <2> QED BY <1>8, <2>2 DEF Stop, BuildFails, TypeOK, rows
<1>9. CASE FinishOperation(n)
  <2>1. build' \in [Number -> Building]
    BY <1>2, <1>3, <1>9 DEF FinishOperation
  <2>2. iteration' \in [Number -> Iteration]
    <3>1. [iteration[n] EXCEPT !.operation = "ended"] \in Iteration
      BY <1>1 DEF Iteration
    <3> QED BY <1>1, <1>9, <3>1 DEF FinishOperation
  <2> QED BY <1>9, <2>1, <2>2 DEF FinishOperation, TypeOK
<1>10. CASE SetState(n)
  <2>1. build' \in [Number -> Building]
    BY <1>2, <1>3, <1>10 DEF SetState
  <2> QED BY <1>10, <2>1 DEF SetState, TypeOK, rows
<1>11. CASE FinishIteration(n)
  <2>1. build' \in [Number -> Building]
    BY <1>1, <1>11, NothingTyped DEF FinishIteration
  <2>2. iteration' \in [Number -> Iteration]
    <3>1. build[n].outcome \in IterationStatus
      BY <1>1, <1>11 DEF FinishIteration, LatestOpen, Building, IterationStatus
    <3>2. [iteration[n] EXCEPT !.status = build[n].outcome] \in Iteration
      BY <1>1, <3>1 DEF Iteration
    <3> QED BY <1>1, <1>11, <3>2 DEF FinishIteration
  <2> QED BY <1>11, <2>1, <2>2 DEF FinishIteration, TypeOK
<1> QED
  BY <1>4, <1>5, <1>6, <1>7, <1>8, <1>9, <1>10, <1>11 DEF Run

\* Proposals, and what happens around them, keep the types.
LEMMA ProposalTyped ==
  ASSUME TypeOK, NEW p \in Proposals,
         \/ Draft(p) \/ CreateRevision(p) \/ Reject(p)
         \/ \E r \in Requests : Approve(r, p)
  PROVE  TypeOK'
<1>1. /\ proposal \in [Proposals -> Proposal] /\ req \in [Requests -> Request]
      /\ version \in 0..MaxVersion /\ disk \in [Number -> Files]
  BY DEF TypeOK
<1>2. \A x \in Proposal, status \in {"pending", "approved", "rejected"} :
        [x EXCEPT !.status = status] \in Proposal
  BY DEF Proposal, ProposalStatus
<1>3. CASE Draft(p)
  <2>1. PICK n \in Number, scope \in SUBSET Paths \ {{}} :
          proposal' = [proposal EXCEPT ![p] =
            [status |-> "drafted", base |-> n, version |-> version,
             digest |-> disk[n], scope |-> scope, iteration |-> 0]]
    BY <1>3 DEF Draft
  <2>2. [status |-> "drafted", base |-> n, version |-> version,
         digest |-> disk[n], scope |-> scope, iteration |-> 0] \in Proposal
    BY <1>1 DEF Proposal, ProposalStatus
  <2>3. proposal' \in [Proposals -> Proposal]
    BY <1>1, <2>1, <2>2
  <2> QED BY <1>3, <2>3 DEF Draft, TypeOK, rows
<1>4. CASE CreateRevision(p) \/ Reject(p)
  <2>1. proposal' \in [Proposals -> Proposal]
    <3>1. /\ [proposal[p] EXCEPT !.status = "pending"] \in Proposal
          /\ [proposal[p] EXCEPT !.status = "rejected"] \in Proposal
      BY <1>1, <1>2
    <3> QED BY <1>1, <1>4, <3>1 DEF CreateRevision, Reject
  <2> QED BY <1>4, <2>1 DEF CreateRevision, Reject, TypeOK, rows
<1>5. ASSUME NEW r \in Requests, Approve(r, p) PROVE TypeOK'
  <2>1. proposal' \in [Proposals -> Proposal]
    BY <1>1, <1>2, <1>5 DEF Approve
  <2>2. [req[r] EXCEPT !.step = "start", !.proposal = p] \in Request
    BY <1>1 DEF Request, RequestStep
  <2>3. req' \in [Requests -> Request]
    BY <1>1, <1>5, <2>2 DEF Approve
  <2> QED BY <1>5, <2>1, <2>3 DEF Approve, TypeOK, rows
<1> QED BY <1>3, <1>4, <1>5

\* So do the curator, editors, browsers and recovery.
LEMMA WorldTyped ==
  ASSUME TypeOK, \/ ChangeBrief \/ Restart
                 \/ \E n \in Number : EditSource(n)
                 \/ \E r \in Requests : Post(r)
  PROVE  TypeOK'
<1>1. CASE ChangeBrief
  BY <1>1 DEF ChangeBrief, TypeOK, rows
<1>2. ASSUME NEW n \in Number, EditSource(n) PROVE TypeOK'
  <2>1. disk' \in [Number -> Files]
    BY <1>2 DEF EditSource, TypeOK, Files
  <2> QED BY <1>2, <2>1 DEF EditSource, TypeOK
<1>3. ASSUME NEW r \in Requests, Post(r) PROVE TypeOK'
  <2>1. "start" \in RequestStep
    BY DEF RequestStep
  <2> QED BY <1>3, <2>1, RequestMoves DEF Post, TypeOK, rows
<1>4. CASE Restart
  <2>1. iteration' \in [Number -> Iteration]
    <3>1. \A x \in Iteration :
            [x EXCEPT !.status = IF @ = "generating" THEN "failed" ELSE @,
                      !.operation = IF @ = "running" THEN "ended" ELSE @]
              \in Iteration
      BY DEF Iteration, IterationStatus
    <3>2. \A n \in Number : iteration[n] \in Iteration
      BY DEF TypeOK
    <3> QED BY <1>4, <3>1, <3>2 DEF Restart
  <2>2. proposal' \in [Proposals -> Proposal]
    BY <1>4, NothingTyped DEF Restart, TypeOK
  <2>3. req' \in [Requests -> Request] /\ build' \in [Number -> Building]
    BY <1>4, NothingTyped DEF Restart
  <2>4. generated' \in BOOLEAN /\ UNCHANGED <<version, offered, count, disk>>
    BY <1>4 DEF Restart
  <2> QED BY <2>1, <2>2, <2>3, <2>4 DEF TypeOK
<1> QED BY <1>1, <1>2, <1>3, <1>4

LEMMA NextTyped ==
  ASSUME TypeOK, LatestOpen, HandlerOwns, [Next]_vars
  PROVE  TypeOK'
<1>1. CASE UNCHANGED vars
  BY <1>1 DEF vars, rows, TypeOK
<1> QED
  BY <1>1, HandleTyped, RunTyped, ProposalTyped, WorldTyped DEF Next

-----------------------------------------------------------------------------
(***************************************************************************)
(* The inductive invariant.                                                *)
(***************************************************************************)
\* What the invariant says beyond types.
Held ==
  /\ LockHeld /\ LatestOpen /\ HandlerOwns /\ ApprovalHeld
  /\ ProposalBased /\ SingleUse /\ RevisionFresh /\ ReceiptTrue

LEMMA InitHeld == Init => Held
<1> SUFFICES ASSUME Init PROVE Held
  OBVIOUS
<1>1. /\ \A r \in Requests : req[r] = IdleRequest
      /\ \A n \in Number : iteration[n] = NoIteration /\ build[n] = NoBuild
      /\ \A p \in Proposals : proposal[p] = NoProposal
      /\ count = 0
  BY DEF Init
<1>2. LockHeld /\ HandlerOwns /\ ApprovalHeld
  BY <1>1 DEF LockHeld, HandlerOwns, Owns, ApprovalHeld, IdleRequest, Guarded
<1>3. LatestOpen
  BY <1>1 DEF LatestOpen, Active, Origin, NoIteration, NoBuild
<1>4. ProposalBased /\ SingleUse /\ RevisionFresh /\ ReceiptTrue
  BY <1>1 DEF ProposalBased, SingleUse, RevisionFresh, ReceiptTrue,
              NoProposal, NoIteration
<1> QED BY <1>2, <1>3, <1>4 DEF Held

\* Where rows, requests, approvals and who builds what stay, the rest may
\* change as it likes.
LEMMA Frame ==
  ASSUME TypeOK, Held, UNCHANGED <<count, req, proposal>>,
         \A n \in Number :
           /\ iteration'[n].status = iteration[n].status
           /\ iteration'[n].version = iteration[n].version
           /\ iteration'[n].origin = iteration[n].origin
           /\ n > count => iteration'[n] = iteration[n]
           /\ Active(n)' = Active(n) /\ Origin(n)' = Origin(n)
           /\ build'[n].base = build[n].base
           /\ build'[n].step \in {"close", "state", "finish"} =>
                build'[n].outcome # "none"
  PROVE  Held'
<1>a. /\ LockHeld /\ LatestOpen /\ HandlerOwns /\ ApprovalHeld
      /\ ProposalBased /\ SingleUse /\ RevisionFresh /\ ReceiptTrue
  BY DEF Held
<1>b. /\ iteration \in [Number -> Iteration] /\ count \in 0..MaxIterations
      /\ \A n \in Number : iteration[n].origin \in Proposals \cup {None}
  BY DEF TypeOK, Iteration
<1>1. \A n \in Number : Complete(n)' = Complete(n)
  BY DEF Complete
<1>2. Latest'.status = Latest.status
  BY <1>b DEF Latest
<1>3. LockHeld'
  BY <1>a DEF LockHeld
<1>4. LatestOpen'
  BY <1>a, <1>b DEF LatestOpen
<1>5. HandlerOwns'
  <2> SUFFICES ASSUME NEW r \in Requests PROVE Owns(r)'
    BY DEF HandlerOwns
  <2>1. Owns(r)
    BY <1>a DEF HandlerOwns
  <2>2. count # 0 => count \in Number
    BY <1>b
  <2> QED BY <1>2, <2>1, <2>2 DEF Owns
<1>6. ApprovalHeld'
  <2> SUFFICES ASSUME NEW r \in Requests, req[r].proposal # None PROVE Holds(r)'
    BY DEF ApprovalHeld
  <2>1. Holds(r)
    BY <1>a DEF ApprovalHeld
  <2> QED BY <1>1, <2>1 DEF Holds
<1>7. ProposalBased'
  BY <1>1, <1>a DEF ProposalBased
<1>8. SingleUse'
  BY <1>a DEF SingleUse
<1>9. RevisionFresh'
  <2>1. \A n \in Number : iteration[n].origin # None
          => proposal[iteration[n].origin].base \in Number
    BY <1>a, <1>b DEF ProposalBased, SingleUse
  <2> QED BY <1>1, <1>a, <2>1 DEF RevisionFresh
<1>10. ReceiptTrue'
  BY <1>1, <1>a DEF ReceiptTrue, ProposalBased
<1> QED BY <1>3, <1>4, <1>5, <1>6, <1>7, <1>8, <1>9, <1>10 DEF Held

\* A row that changes for nobody but the handler whose turn it is.
Quiet(r, n) ==
  /\ iteration'[n].version = iteration[n].version
  /\ iteration'[n].origin = iteration[n].origin
  /\ n > count => iteration'[n] = iteration[n]
  /\ \/ iteration'[n].status = iteration[n].status
     \/ /\ iteration[n].status = "generating" /\ ~Active(n)
        /\ iteration'[n].status = "failed"
        /\ \A q \in Requests \ {r} : req[q].step \notin Guarded

\* A handler takes a step that changes itself, and may give up its row.
LEMMA HandlerFrame ==
  ASSUME TypeOK, Held, NEW r \in Requests, NEW x \in Request,
         req' = [req EXCEPT ![r] = x], UNCHANGED <<count, proposal, build>>,
         \A n \in Number : Quiet(r, n),
         x.proposal \in {req[r].proposal, None},
         x.step \in Guarded => \A q \in Requests \ {r} : req[q].step \notin Guarded,
         Owns(r)', x.proposal # None => Holds(r)'
  PROVE  Held'
<1>a. /\ LockHeld /\ LatestOpen /\ HandlerOwns /\ ApprovalHeld
      /\ ProposalBased /\ SingleUse /\ RevisionFresh /\ ReceiptTrue
  BY DEF Held
<1>b. /\ iteration \in [Number -> Iteration] /\ count \in 0..MaxIterations
      /\ \A n \in Number : iteration[n].origin \in Proposals \cup {None}
      /\ req \in [Requests -> Request]
  BY DEF TypeOK, Iteration
<1>c. /\ req'[r] = x
      /\ \A q \in Requests : q # r => req'[q] = req[q]
  BY <1>b
<1>1. /\ \A n \in Number : Complete(n)' = Complete(n) /\ Active(n)' = Active(n)
                          /\ Origin(n)' = Origin(n)
      /\ Latest.status # "generating" => Latest'.status # "generating"
  BY <1>b DEF Complete, Active, Origin, Latest, Quiet
<1>3. LockHeld'
  BY <1>a, <1>c DEF LockHeld
<1>4. LatestOpen'
  BY <1>1, <1>a, <1>b DEF LatestOpen, Quiet
<1>5. HandlerOwns'
  <2> SUFFICES ASSUME NEW q \in Requests, q # r PROVE Owns(q)'
    BY DEF HandlerOwns
  <2>1. Owns(q) /\ req'[q] = req[q]
    BY <1>a, <1>c DEF HandlerOwns
  <2>2. count # 0 => count \in Number
    BY <1>b
  <2>3. q # r /\ Owns(q) => q \in Requests \ {r}
    OBVIOUS
  <2> QED BY <1>1, <2>1, <2>2, <2>3 DEF Owns, Quiet, Guarded
<1>6. ApprovalHeld'
  <2> SUFFICES ASSUME NEW q \in Requests, q # r, req[q].proposal # None
               PROVE  Holds(q)'
    BY <1>c DEF ApprovalHeld
  <2>1. Holds(q) /\ req'[q] = req[q]
    BY <1>a, <1>c DEF ApprovalHeld
  <2>2. \A s \in Requests : req'[s].proposal = req[q].proposal => s = q
    BY <1>c, <2>1 DEF Holds
  <2> QED BY <1>1, <2>1, <2>2 DEF Holds, Quiet
<1>7. ProposalBased'
  BY <1>1, <1>a DEF ProposalBased
<1>8. SingleUse'
  BY <1>a DEF SingleUse, Quiet
<1>9. RevisionFresh'
  <2>1. \A n \in Number : iteration[n].origin # None
          => proposal[iteration[n].origin].base \in Number
    BY <1>a, <1>b DEF ProposalBased, SingleUse
  <2> QED BY <1>1, <1>a, <2>1 DEF RevisionFresh, Quiet
<1>10. ReceiptTrue'
  BY <1>1, <1>a DEF ReceiptTrue, ProposalBased, Quiet
<1> QED BY <1>3, <1>4, <1>5, <1>6, <1>7, <1>8, <1>9, <1>10 DEF Held

\* A handler that has built nothing is answered, or goes to its receipt.
LEMMA RefusedHeld ==
  ASSUME TypeOK, Held, NEW r \in Requests, Refuse(r),
         UNCHANGED <<count, proposal, build>>, \A n \in Number : Quiet(r, n),
         req[r].step \in {"start", "source", "create", "abort"},
         req[r].proposal # None =>
           \A n \in Number : iteration[n].origin = req[r].proposal
                               => ~Active(n) /\ ~Complete(n)
  PROVE  Held'
<1>1. req[r] \in Request /\ req \in [Requests -> Request]
  BY DEF TypeOK
<1>2. "denied" \notin Guarded /\ "idle" \notin Guarded
  BY DEF Guarded
<1>3. CASE req[r].proposal = None
  <2>1. req' = [req EXCEPT ![r] = IdleRequest]
    BY <1>3 DEF Refuse, Respond
  <2>2. Owns(r)'
    BY <1>1, <2>1 DEF Owns, IdleRequest
  <2> QED
    BY <1>2, <1>3, <2>1, <2>2, HandlerFrame, NothingTyped DEF IdleRequest
<1>4. CASE req[r].proposal # None
  <2> DEFINE x == [req[r] EXCEPT !.step = "denied"]
  <2>1. req' = [req EXCEPT ![r] = x] /\ x \in Request
    BY <1>1, <1>4 DEF Refuse, Goto, Request, RequestStep
  <2>2. x.step = "denied" /\ x.proposal = req[r].proposal
    BY <1>1 DEF Request
  <2>3. req'[r] = x
    BY <1>1, <2>1
  <2> HIDE DEF x
  <2>4. Owns(r)'
    BY <1>4, <2>2, <2>3 DEF Owns
  <2>5. Holds(r)'
    <3>1. Holds(r)
      BY <1>4 DEF Held, ApprovalHeld
    <3>2. \A q \in Requests : req'[q].proposal = req[q].proposal
      BY <1>1, <2>1, <2>2
    <3> QED
      BY <1>2, <1>4, <2>2, <2>3, <3>1, <3>2
      DEF Holds, Active, Complete, Quiet
  <2> QED BY <1>2, <2>1, <2>2, <2>4, <2>5, HandlerFrame
<1> QED BY <1>3, <1>4

\* What is known of a handler and of an approval in its hands.
LEMMA HandlerKnows ==
  ASSUME TypeOK, Held, NEW r \in Requests
  PROVE  /\ req[r] \in Request /\ req \in [Requests -> Request]
         /\ req[r].proposal \in Proposals \cup {None}
         /\ Owns(r) /\ (req[r].proposal # None => Holds(r))
         /\ iteration \in [Number -> Iteration] /\ count \in 0..MaxIterations
         /\ count # 0 => count \in Number
  BY DEF TypeOK, Held, HandlerOwns, ApprovalHeld, Request

\* GetSession and its checks.
LEMMA LoadHeld ==
  ASSUME TypeOK, Held, NEW r \in Requests, Load(r)
  PROVE  Held'
<1>1. /\ req[r] \in Request /\ req \in [Requests -> Request] /\ Owns(r)
      /\ req[r].proposal # None => Holds(r)
      /\ count \in 0..MaxIterations
  BY HandlerKnows
<1>2. UNCHANGED <<count, iteration, proposal, build>> /\ req[r].step = "start"
  BY DEF Load, rows
<1>3. CASE Refuse(r)
  BY <1>1, <1>2, <1>3, RefusedHeld DEF Holds, Quiet
<1>4. CASE ~Refuse(r)
  <2> DEFINE step == IF req[r].proposal = None THEN "create" ELSE "source"
             x == [req[r] EXCEPT !.step = step, !.version = version]
  <2>1. /\ req' = [req EXCEPT ![r] = x] /\ Acceptable(r)
        /\ \A q \in Requests : req[q].step \notin Guarded
    BY <1>4 DEF Load
  <2>2. /\ x \in Request /\ x.step = step /\ x.proposal = req[r].proposal
        /\ x.version = version
    BY <1>1 DEF Request, RequestStep, Guarded, TypeOK
  <2>3. req'[r] = x
    BY <1>1, <2>1
  <2>4. step \in {"create", "source"} /\ (req[r].proposal = None <=> step = "create")
    OBVIOUS
  <2> HIDE DEF x, step
  <2>5. Latest' = Latest /\ Latest.status # "generating"
    BY <1>2, <2>1 DEF Latest, Acceptable
  <2>6. Owns(r)'
    BY <2>2, <2>3, <2>4, <2>5 DEF Owns
  <2>7. x.proposal # None => Holds(r)'
    <3> SUFFICES ASSUME req[r].proposal # None PROVE Holds(r)'
      BY <2>2
    <3>1. \A q \in Requests : req'[q].proposal = req[q].proposal
      BY <1>1, <2>1, <2>2
    <3>2. proposal[req[r].proposal].version = version
      BY <2>1 DEF Acceptable
    <3> QED
      BY <1>1, <1>2, <2>2, <2>3, <2>4, <3>1, <3>2 DEF Holds
  <2> QED BY <1>2, <2>1, <2>2, <2>6, <2>7, HandlerFrame DEF Quiet
<1> QED BY <1>3, <1>4

\* SourceSnapshot: the digests agree.
LEMMA SourceHeld ==
  ASSUME TypeOK, Held, NEW r \in Requests, ReadSource(r)
  PROVE  Held'
<1>1. /\ req[r] \in Request /\ req \in [Requests -> Request] /\ Owns(r)
      /\ req[r].proposal \in Proposals /\ Holds(r)
  BY HandlerKnows DEF ReadSource, Owns
<1>2. UNCHANGED <<count, iteration, proposal, build>> /\ req[r].step = "source"
  BY DEF ReadSource, rows
<1>3. CASE Refuse(r)
  BY <1>1, <1>2, <1>3, RefusedHeld DEF Holds, Quiet
<1>4. CASE ~Refuse(r)
  <2> DEFINE p == proposal[req[r].proposal]
             x == [req[r] EXCEPT !.step = "create", !.files = p.digest]
  <2>1. req' = [req EXCEPT ![r] = x]
    BY <1>4 DEF ReadSource
  <2>2. p.digest \in Files
    BY <1>1 DEF TypeOK, Proposal
  <2>3. /\ x \in Request /\ x.step = "create" /\ x.proposal = req[r].proposal
        /\ x.version = req[r].version /\ x.files = p.digest
    BY <1>1, <2>2 DEF Request, RequestStep, Guarded
  <2>4. req'[r] = x
    BY <1>1, <2>1
  <2> HIDE DEF x
  <2>5. Owns(r)'
    BY <1>1, <1>2, <2>3, <2>4 DEF Owns, Latest
  <2>6. Holds(r)'
    <3>1. \A q \in Requests : req'[q].proposal = req[q].proposal
      BY <1>1, <2>1, <2>3
    <3>2. "source" \in Guarded
      BY DEF Guarded
    <3> QED BY <1>1, <1>2, <2>3, <2>4, <3>1, <3>2 DEF Holds
  <2>7. \A q \in Requests \ {r} : req[q].step \notin Guarded
    BY <1>2 DEF Held, LockHeld, Guarded
  <2> QED BY <1>2, <2>1, <2>3, <2>5, <2>6, <2>7, HandlerFrame DEF Quiet
<1> QED BY <1>3, <1>4

\* UpdatePrototypeProgress and CreateOperation: the row is on its way.
LEMMA PreparedHeld ==
  ASSUME TypeOK, Held, NEW r \in Requests, Prepare(r) \/ CreateOperation(r)
  PROVE  Held'
<1>1. /\ req[r] \in Request /\ req \in [Requests -> Request] /\ Owns(r)
      /\ req[r].proposal # None => Holds(r)
      /\ iteration \in [Number -> Iteration]
  BY HandlerKnows
<1>2. UNCHANGED <<count, proposal, build>> /\ req[r].step \in {"prepare", "operate"}
  BY DEF Prepare, CreateOperation, rows
<1>3. PICK step \in {"operate", "abort", "spawn"} : Goto(r, step)
  BY DEF Prepare, CreateOperation
<1>4. count \in Number /\ req[r].number = count
  BY <1>1, <1>2, HandlerKnows DEF Owns
<1>5. \A n \in Number :
        /\ iteration'[n].status = iteration[n].status
        /\ iteration'[n].version = iteration[n].version
        /\ iteration'[n].origin = iteration[n].origin
        /\ n > count => iteration'[n] = iteration[n]
  <2>1. \/ iteration' = iteration
        \/ iteration' = [iteration EXCEPT ![count] =
                           [iteration[count] EXCEPT !.operation = "running"]]
    BY <1>4 DEF Prepare, CreateOperation, rows
  <2>2. iteration[count] \in Iteration
    BY <1>1, <1>4
  <2> QED BY <1>1, <1>4, <2>1, <2>2 DEF Iteration
<1> DEFINE x == [req[r] EXCEPT !.step = step]
<1>6. /\ x \in Request /\ x.step = step /\ x.proposal = req[r].proposal
      /\ x.version = req[r].version /\ x.files = req[r].files
      /\ x.number = req[r].number
  BY <1>1 DEF Request, RequestStep, Guarded
<1>7. req' = [req EXCEPT ![r] = x] /\ req'[r] = x
  BY <1>1, <1>3 DEF Goto
<1> HIDE DEF x
<1>8. Owns(r)'
  BY <1>1, <1>2, <1>4, <1>5, <1>6, <1>7 DEF Owns, Active
<1>9. x.proposal # None => Holds(r)'
  <2>1. \A q \in Requests : req'[q].proposal = req[q].proposal
    BY <1>1, <1>6, <1>7
  <2>2. {"prepare", "operate"} \subseteq Guarded
    BY DEF Guarded
  <2> QED BY <1>1, <1>2, <1>6, <1>7, <2>1, <2>2 DEF Holds
<1>10. \A q \in Requests \ {r} : req[q].step \notin Guarded
  BY <1>2 DEF Held, LockHeld, Guarded
<1> QED BY <1>2, <1>5, <1>6, <1>7, <1>8, <1>9, <1>10, HandlerFrame DEF Quiet

\* CreatePrototypeIteration: a row of the handler's own, the first one for
\* its approval.
LEMMA CreateHeld ==
  ASSUME TypeOK, Held, NEW r \in Requests, CreateIteration(r)
  PROVE  Held'
<1>a. /\ LockHeld /\ LatestOpen /\ HandlerOwns /\ ApprovalHeld
      /\ ProposalBased /\ SingleUse /\ RevisionFresh /\ ReceiptTrue
  BY DEF Held
<1>1. /\ req[r] \in Request /\ req \in [Requests -> Request] /\ Owns(r)
      /\ req[r].proposal \in Proposals \cup {None}
      /\ req[r].proposal # None => Holds(r)
      /\ iteration \in [Number -> Iteration] /\ count \in 0..MaxIterations
  BY HandlerKnows
<1>2. UNCHANGED <<proposal, build>> /\ req[r].step = "create"
  BY DEF CreateIteration
<1>3. CASE Refuse(r) /\ UNCHANGED <<count, iteration>>
  BY <1>1, <1>2, <1>3, RefusedHeld DEF Holds, Quiet
<1>4. CASE ~(Refuse(r) /\ UNCHANGED <<count, iteration>>)
  <2> DEFINE k == count + 1
             row == [status |-> "generating", version |-> req[r].version,
                     operation |-> "none", origin |-> req[r].proposal]
             x == [req[r] EXCEPT !.step = "prepare", !.number = k]
  <2>1. /\ count' = k /\ iteration' = [iteration EXCEPT ![k] = row]
        /\ req' = [req EXCEPT ![r] = x] /\ count < MaxIterations
    BY <1>4 DEF CreateIteration
  <2>2. k \in Number /\ k # 0 /\ k > count
    BY <1>1, <2>1
  <2>3. /\ x.step = "prepare" /\ x.proposal = req[r].proposal
        /\ x.version = req[r].version /\ x.files = req[r].files /\ x.number = k
    BY <1>1 DEF Request
  <2>4. /\ row.status = "generating" /\ row.version = req[r].version
        /\ row.origin = req[r].proposal
    OBVIOUS
  <2>5. /\ req'[r] = x /\ iteration'[k] = row
        /\ \A q \in Requests : q # r => req'[q] = req[q]
        /\ \A n \in Number : n # k => iteration'[n] = iteration[n]
    BY <1>1, <2>1, <2>2
  <2> HIDE DEF x, row
  <2>6. iteration[k].status = "absent" /\ ~Active(k) /\ iteration[k].origin = None
    BY <1>a, <2>2 DEF LatestOpen, NoIteration
  <2>7. \A n \in Number : iteration[n].status # "generating" /\ ~Active(n)
    <3>1. count # 0 => iteration[count].status # "generating"
      BY <1>1, <1>2 DEF Owns, Latest
    <3> QED BY <1>a, <3>1 DEF LatestOpen
  <2>8. \A q \in Requests : q # r => req[q].step \notin Guarded
    BY <1>a, <1>2 DEF LockHeld, Guarded
  <2>9. /\ \A n \in Number : Active(n)' = Active(n) /\ Origin(n)' = Origin(n)
        /\ \A n \in Number : n # k => Complete(n)' = Complete(n)
        /\ ~Complete(k) /\ iteration'[k].status # "complete"
    BY <1>2, <2>4, <2>5, <2>6 DEF Active, Origin, Complete
  <2>10. \A q \in Requests : req'[q].proposal = req[q].proposal
    BY <2>3, <2>5
  <2>11. LockHeld'
    BY <1>a, <1>2, <2>3, <2>5, <2>8 DEF LockHeld
  <2>12. LatestOpen'
    <3> SUFFICES ASSUME NEW n \in Number
                 PROVE  /\ n > count' => iteration'[n] = NoIteration
                        /\ n <= count' => iteration'[n].status # "absent"
                        /\ iteration'[n].status = "generating" => n = count'
                        /\ ~Active(n)'
                        /\ build'[n].step \in {"close", "state", "finish"}
                             => build'[n].outcome # "none"
      BY DEF LatestOpen
    <3>1. /\ n > count => iteration[n] = NoIteration
          /\ n <= count => iteration[n].status # "absent"
          /\ build[n].step \in {"close", "state", "finish"}
               => build[n].outcome # "none"
      BY <1>a DEF LatestOpen
    <3> QED
      BY <1>1, <1>2, <2>1, <2>4, <2>5, <2>7, <2>9, <3>1
  <2>13. HandlerOwns'
    <3> SUFFICES ASSUME NEW q \in Requests PROVE Owns(q)'
      BY DEF HandlerOwns
    <3>1. CASE q = r
      BY <2>1, <2>2, <2>3, <2>4, <2>5, <2>7, <2>9, <3>1 DEF Owns
    <3>2. CASE q # r
      <4>1. Owns(q) /\ req'[q] = req[q] /\ req[q].step \notin Guarded
        BY <1>a, <2>5, <2>8, <3>2 DEF HandlerOwns
      <4>2. req[q].step = "receipt" => req[q].proposal # None
        BY <4>1 DEF Owns
      <4>3. req[q].step = "receipt" => req[q].number # k
        BY <2>6, <4>1, <4>2 DEF Owns
      <4> QED BY <2>5, <4>1, <4>3 DEF Owns, Guarded
    <3> QED BY <3>1, <3>2
  <2>14. ApprovalHeld'
    <3> SUFFICES ASSUME NEW q \in Requests, req[q].proposal # None
                 PROVE  Holds(q)'
      BY <2>10 DEF ApprovalHeld
    <3>1. Holds(q)
      BY <1>a DEF ApprovalHeld
    <3>2. CASE q = r
      BY <1>2, <2>3, <2>5, <2>10, <3>1, <3>2 DEF Holds, Guarded
    <3>3. CASE q # r
      <4>1. req'[q] = req[q] /\ req[q].step \notin Guarded
        BY <2>5, <2>8, <3>3
      <4>2. req[r].proposal # req[q].proposal
        BY <3>1, <3>3 DEF Holds
      <4>3. \A n \in Number : iteration'[n].origin = req[q].proposal
              => n # k /\ iteration'[n] = iteration[n]
        BY <2>4, <2>5, <4>2
      <4> QED BY <1>2, <2>9, <2>10, <3>1, <4>1, <4>3 DEF Holds
    <3> QED BY <3>2, <3>3
  <2>15. ProposalBased'
    BY <1>2, <1>a, <2>9 DEF ProposalBased
  <2>16. SingleUse'
    <3> SUFFICES ASSUME NEW p \in Proposals
                 PROVE  /\ \A m, n \in Number :
                             iteration'[m].origin = p /\ iteration'[n].origin = p
                               => m = n
                        /\ \A n \in Number : iteration'[n].origin = p
                             => proposal[p].status \in {"approved", "building",
                                                        "failed"}
      BY <1>2 DEF SingleUse
    <3>1. CASE p = req[r].proposal
      <4>1. Holds(r)
        BY <1>1, <3>1
      <4>2. \A n \in Number : iteration[n].origin # p
        BY <1>2, <3>1, <4>1 DEF Holds
      <4> QED BY <2>4, <2>5, <3>1, <4>1, <4>2 DEF Holds
    <3>2. CASE p # req[r].proposal
      BY <1>a, <2>4, <2>5, <3>2 DEF SingleUse
    <3> QED BY <3>1, <3>2
  <2>17. RevisionFresh'
    <3> SUFFICES ASSUME NEW n \in Number, iteration'[n].origin # None
                 PROVE  LET p == proposal[iteration'[n].origin] IN
                        /\ p.base < n /\ iteration'[p.base].status = "complete"
                        /\ iteration'[n].version = p.version
                        /\ Active(n)' => build[n].base = p.digest
      BY <1>2 DEF RevisionFresh, Complete
    <3>1. CASE n = k
      <4> DEFINE p == proposal[req[r].proposal]
      <4>1. req[r].proposal # None /\ Holds(r) /\ req[r].proposal \in Proposals
        BY <1>1, <2>4, <2>5, <3>1
      <4>2. p.base \in Number /\ Complete(p.base)
        BY <1>a, <4>1 DEF ProposalBased, Holds
      <4>3. p.base <= count
        BY <1>1, <1>a, <4>2 DEF LatestOpen, Complete, NoIteration
      <4>4. p.base < k /\ p.base # k
        BY <1>1, <4>2, <4>3
      <4>5. req[r].version = p.version
        BY <1>2, <4>1 DEF Holds, Guarded
      <4>6. iteration'[p.base].status = "complete"
        BY <2>5, <4>2, <4>4 DEF Complete
      <4> QED BY <2>4, <2>5, <2>7, <2>9, <3>1, <4>4, <4>5, <4>6
    <3>2. CASE n # k
      <4> DEFINE p == proposal[iteration[n].origin]
      <4>1. iteration'[n] = iteration[n]
        BY <2>5, <3>2
      <4>2. iteration[n].origin \in Proposals
        BY <1>1, <4>1 DEF Iteration
      <4>3. p.base \in Number
        BY <1>a, <4>2 DEF SingleUse, ProposalBased
      <4>4. /\ p.base < n /\ Complete(p.base) /\ iteration[n].version = p.version
        BY <1>a, <4>1 DEF RevisionFresh
      <4>5. p.base # k /\ iteration'[p.base].status = "complete"
        BY <2>5, <2>9, <4>3, <4>4 DEF Complete
      <4> QED BY <2>7, <2>9, <4>1, <4>4, <4>5
    <3> QED BY <3>1, <3>2
  <2>18. ReceiptTrue'
    <3> SUFFICES ASSUME NEW p \in Proposals
                 PROVE  /\ proposal[p].status = "building"
                             => iteration'[proposal[p].iteration].origin = p
                        /\ proposal[p].status = "failed"
                             => \A n \in Number : iteration'[n].origin = p
                                  => ~Active(n)' /\ ~Complete(n)'
      BY <1>2 DEF ReceiptTrue
    <3>1. proposal[p].status = "building" =>
            /\ iteration[proposal[p].iteration].origin = p
            /\ proposal[p].iteration \in Number
      BY <1>a DEF ReceiptTrue, ProposalBased
    <3>2. proposal[p].status = "building" => proposal[p].iteration # k
      BY <2>6, <3>1
    <3>3. proposal[p].status = "failed"
            => \A n \in Number : iteration[n].origin = p
                 => ~Active(n) /\ ~Complete(n)
      BY <1>a DEF ReceiptTrue
    <3> QED BY <2>5, <2>7, <2>9, <3>1, <3>2, <3>3 DEF Complete
  <2> QED
    BY <2>11, <2>12, <2>13, <2>14, <2>15, <2>16, <2>17, <2>18 DEF Held
<1> QED BY <1>3, <1>4

\* What start gives up on is no iteration anybody works on.
LEMMA AbortHeld ==
  ASSUME TypeOK, Held, NEW r \in Requests, Abort(r)
  PROVE  Held'
<1>1. /\ req[r] \in Request /\ Owns(r)
      /\ req[r].proposal \in Proposals \cup {None}
      /\ iteration \in [Number -> Iteration]
      /\ count # 0 => count \in Number
  BY HandlerKnows
<1>2. /\ UNCHANGED <<count, proposal, build>> /\ req[r].step = "abort" /\ Refuse(r)
  BY DEF Abort
<1>3. /\ count \in Number /\ req[r].number = count
      /\ iteration[count].status = "generating" /\ ~Active(count)
      /\ iteration[count].origin = req[r].proposal
  BY <1>1, <1>2 DEF Owns
<1>4. \A q \in Requests \ {r} : req[q].step \notin Guarded
  BY <1>2 DEF Held, LockHeld, Guarded
<1>5. \A n \in Number : Quiet(r, n)
  <2>1. \/ iteration' = iteration
        \/ iteration' = [iteration EXCEPT ![count] =
                           [iteration[count] EXCEPT !.status = "failed"]]
    BY <1>3 DEF Abort
  <2>2. iteration[count] \in Iteration
    BY <1>1, <1>3
  <2>3. CASE iteration' = iteration
    BY <2>3 DEF Quiet
  <2>4. CASE iteration' = [iteration EXCEPT ![count] =
                            [iteration[count] EXCEPT !.status = "failed"]]
    BY <1>1, <1>3, <1>4, <2>2, <2>4 DEF Quiet, Iteration
  <2> QED BY <2>1, <2>3, <2>4
<1>6. req[r].proposal # None =>
        \A n \in Number : iteration[n].origin = req[r].proposal
                            => ~Active(n) /\ ~Complete(n)
  BY <1>1, <1>3 DEF Held, SingleUse, Complete
<1> QED BY <1>2, <1>5, <1>6, RefusedHeld

\* The goroutine starts on the latest row, with what was approved for it.
LEMMA SpawnHeld ==
  ASSUME TypeOK, Held, NEW r \in Requests, Spawn(r)
  PROVE  Held'
<1>a. /\ LockHeld /\ LatestOpen /\ HandlerOwns /\ ApprovalHeld
      /\ ProposalBased /\ SingleUse /\ RevisionFresh /\ ReceiptTrue
  BY DEF Held
<1>1. /\ req[r] \in Request /\ req \in [Requests -> Request] /\ Owns(r)
      /\ req[r].proposal \in Proposals \cup {None}
      /\ req[r].proposal # None => Holds(r)
      /\ iteration \in [Number -> Iteration]
      /\ count # 0 => count \in Number
  BY HandlerKnows
<1>2. UNCHANGED <<count, iteration, proposal>> /\ req[r].step = "spawn"
  BY DEF Spawn, rows
<1>3. /\ count \in Number /\ req[r].number = count
      /\ iteration[count].status = "generating" /\ ~Active(count)
      /\ iteration[count].origin = req[r].proposal
      /\ iteration[count].version = req[r].version
  BY <1>1, <1>2 DEF Owns
<1>4. /\ build'[count].step = "plan" /\ build'[count].proposal = req[r].proposal
      /\ build'[count].base = req[r].files
      /\ \A n \in Number : n # count => build'[n] = build[n]
  BY <1>3 DEF Spawn, NoBuild, TypeOK
<1>5. /\ req'[r].step \in {"idle", "receipt"}
      /\ req'[r].step = "idle" => req'[r].proposal = None
      /\ req'[r].step = "receipt" => /\ req'[r].proposal = req[r].proposal
                                     /\ req[r].proposal # None
                                     /\ req'[r].number = count
      /\ \A q \in Requests : q # r => req'[q] = req[q]
  <2>1. CASE req[r].proposal = None
    BY <1>1, <2>1 DEF Spawn, Respond, IdleRequest
  <2>2. CASE req[r].proposal # None
    BY <1>1, <1>3, <2>2 DEF Spawn, Goto, Request
  <2> QED BY <2>1, <2>2
<1>6. \A q \in Requests : q # r => req[q].step \notin Guarded
  BY <1>a, <1>2 DEF LockHeld, Guarded
<1>7. \A n \in Number : /\ Complete(n)' = Complete(n)
                        /\ n # count => Active(n)' = Active(n) /\ Origin(n)' = Origin(n)
  BY <1>2, <1>4 DEF Complete, Active, Origin
<1>8. LockHeld'
  BY <1>5, <1>6 DEF LockHeld, Guarded
<1>9. LatestOpen'
  BY <1>a, <1>2, <1>3, <1>4 DEF LatestOpen, Active, Origin
<1>10. HandlerOwns'
  <2> SUFFICES ASSUME NEW q \in Requests PROVE Owns(q)'
    BY DEF HandlerOwns
  <2>1. CASE q = r
    BY <1>2, <1>3, <1>5, <2>1 DEF Owns
  <2>2. CASE q # r
    <3>1. Owns(q) /\ req'[q] = req[q] /\ req[q].step \notin Guarded
      BY <1>a, <1>5, <1>6, <2>2 DEF HandlerOwns
    <3> QED BY <1>2, <3>1 DEF Owns, Guarded
  <2> QED BY <2>1, <2>2
<1>11. ApprovalHeld'
  <2> SUFFICES ASSUME NEW q \in Requests, req'[q].proposal # None
               PROVE  Holds(q)'
    BY DEF ApprovalHeld
  <2>1. req'[q].proposal = req[q].proposal /\ Holds(q)
    BY <1>a, <1>5 DEF ApprovalHeld
  <2>2. \A s \in Requests : req'[s].proposal = req'[q].proposal => s = q
    BY <1>5, <2>1 DEF Holds
  <2>3. CASE q = r
    BY <1>2, <1>5, <2>1, <2>2, <2>3 DEF Holds, Guarded
  <2>4. CASE q # r
    <3>1. req'[q] = req[q] /\ req[q].step \notin Guarded
      BY <1>5, <1>6, <2>4
    <3>2. iteration[count].origin # req[q].proposal
      BY <1>3, <2>1, <2>4 DEF Holds
    <3> QED BY <1>2, <1>7, <2>1, <2>2, <3>1, <3>2 DEF Holds
  <2> QED BY <2>3, <2>4
<1>12. ProposalBased' /\ SingleUse'
  BY <1>a, <1>2, <1>7 DEF ProposalBased, SingleUse
<1>13. RevisionFresh'
  <2> SUFFICES ASSUME NEW n \in Number, iteration[n].origin # None
               PROVE  LET p == proposal[iteration[n].origin] IN
                      /\ p.base < n /\ Complete(p.base)
                      /\ iteration[n].version = p.version
                      /\ Active(n)' => build'[n].base = p.digest
    BY <1>2 DEF RevisionFresh, Complete
  <2>1. CASE n # count
    BY <1>a, <1>4, <1>7, <2>1 DEF RevisionFresh
  <2>2. CASE n = count
    BY <1>a, <1>1, <1>2, <1>3, <1>4, <2>2 DEF RevisionFresh, Holds, Guarded
  <2> QED BY <2>1, <2>2
<1>14. ReceiptTrue'
  <2>1. req[r].proposal # None => proposal[req[r].proposal].status = "approved"
    BY <1>1 DEF Holds
  <2> QED BY <1>a, <1>2, <1>3, <1>7, <2>1 DEF ReceiptTrue
<1> QED BY <1>8, <1>9, <1>10, <1>11, <1>12, <1>13, <1>14 DEF Held

\* FinishRevisionApproval: the approval leaves the handler's hands.
LEMMA ReceiptHeld ==
  ASSUME TypeOK, Held, NEW r \in Requests, Receipt(r) \/ Denied(r)
  PROVE  Held'
<1>a. /\ LockHeld /\ LatestOpen /\ HandlerOwns /\ ApprovalHeld
      /\ ProposalBased /\ SingleUse /\ RevisionFresh /\ ReceiptTrue
  BY DEF Held
<1> DEFINE p == req[r].proposal
<1>1. /\ req \in [Requests -> Request] /\ Owns(r)
      /\ p \in Proposals /\ Holds(r) /\ proposal \in [Proposals -> Proposal]
      /\ iteration \in [Number -> Iteration]
  BY HandlerKnows DEF Receipt, Denied, Owns, TypeOK
<1>2. /\ UNCHANGED <<count, iteration, build>>
      /\ req' = [req EXCEPT ![r] = IdleRequest]
  BY DEF Receipt, Denied, Respond, rows
<1>3. /\ req'[r].step = "idle" /\ req'[r].proposal = None
      /\ \A q \in Requests : q # r => req'[q] = req[q]
  BY <1>1, <1>2 DEF IdleRequest
<1>4. /\ \A o \in Proposals : o # p => proposal'[o] = proposal[o]
      /\ proposal'[p].base = proposal[p].base
      /\ proposal'[p].version = proposal[p].version
      /\ proposal'[p].digest = proposal[p].digest
      /\ \/ proposal'[p] = proposal[p]
         \/ /\ req[r].step = "receipt" /\ proposal'[p].status = "building"
            /\ proposal'[p].iteration = req[r].number
         \/ /\ req[r].step = "denied" /\ proposal'[p].status = "failed"
  <2>1. \/ proposal' = proposal
        \/ /\ req[r].step = "receipt"
           /\ proposal' = [proposal EXCEPT ![p] =
                [proposal[p] EXCEPT !.status = "building",
                                    !.iteration = req[r].number]]
        \/ /\ req[r].step = "denied"
           /\ proposal' = [proposal EXCEPT ![p] =
                [proposal[p] EXCEPT !.status = "failed"]]
    BY DEF Receipt, Denied
  <2>2. proposal[p] \in Proposal
    BY <1>1
  <2> HIDE DEF p
  <2>3. CASE proposal' = proposal
    BY <2>3
  <2>4. CASE /\ req[r].step = "receipt"
             /\ proposal' = [proposal EXCEPT ![p] =
                  [proposal[p] EXCEPT !.status = "building",
                                      !.iteration = req[r].number]]
    BY <1>1, <2>2, <2>4 DEF Proposal
  <2>5. CASE /\ req[r].step = "denied"
             /\ proposal' = [proposal EXCEPT ![p] =
                  [proposal[p] EXCEPT !.status = "failed"]]
    BY <1>1, <2>2, <2>5 DEF Proposal
  <2> QED BY <2>1, <2>3, <2>4, <2>5
<1>5. /\ proposal[p].status = "approved"
      /\ req[r].step = "receipt" => /\ req[r].number \in Number
                                    /\ iteration[req[r].number].origin = p
      /\ req[r].step = "denied" =>
           \A n \in Number : iteration[n].origin = p => ~Active(n) /\ ~Complete(n)
      /\ \A q \in Requests : req[q].proposal = p => q = r
  BY <1>1 DEF Holds, Owns
<1>6. \A n \in Number : Complete(n)' = Complete(n) /\ Active(n)' = Active(n)
                        /\ Origin(n)' = Origin(n)
  BY <1>2 DEF Complete, Active, Origin
<1> HIDE DEF p
<1>7. LockHeld' /\ LatestOpen'
  BY <1>a, <1>2, <1>3, <1>6 DEF LockHeld, LatestOpen, Guarded
<1>8. HandlerOwns'
  <2> SUFFICES ASSUME NEW q \in Requests PROVE Owns(q)'
    BY DEF HandlerOwns
  <2>1. CASE q = r
    BY <1>3, <2>1 DEF Owns
  <2>2. CASE q # r
    BY <1>a, <1>2, <1>3, <2>2 DEF HandlerOwns, Owns, Latest, Active
  <2> QED BY <2>1, <2>2
<1>9. ApprovalHeld'
  <2> SUFFICES ASSUME NEW q \in Requests, req'[q].proposal # None
               PROVE  Holds(q)'
    BY DEF ApprovalHeld
  <2>1. q # r /\ req'[q] = req[q] /\ Holds(q)
    BY <1>a, <1>3 DEF ApprovalHeld
  <2>2. req[q].proposal \in Proposals /\ req[q].proposal # p
    BY <1>1, <1>5, <2>1, HandlerKnows
  <2>3. \A s \in Requests : req'[s].proposal = req'[q].proposal => s = q
    BY <1>3, <2>1 DEF Holds
  <2> QED BY <1>2, <1>4, <1>6, <2>1, <2>2, <2>3 DEF Holds
<1>10. ProposalBased'
  BY <1>a, <1>1, <1>4, <1>5, <1>6 DEF ProposalBased, Complete
<1>11. SingleUse'
  <2>1. \A o \in Proposals : proposal'[o].status = proposal[o].status
          \/ proposal'[o].status \in {"approved", "building", "failed"}
    BY <1>4
  <2> QED BY <1>a, <1>2, <2>1 DEF SingleUse
<1>12. RevisionFresh'
  <2>1. \A n \in Number : iteration[n].origin # None
          => iteration[n].origin \in Proposals
    BY <1>1 DEF Iteration
  <2>2. \A o \in Proposals : /\ proposal'[o].base = proposal[o].base
                             /\ proposal'[o].version = proposal[o].version
                             /\ proposal'[o].digest = proposal[o].digest
    BY <1>4
  <2> QED BY <1>a, <1>2, <1>6, <2>1, <2>2 DEF RevisionFresh, Complete
<1>13. ReceiptTrue'
  BY <1>a, <1>2, <1>4, <1>5, <1>6 DEF ReceiptTrue
<1> QED BY <1>7, <1>8, <1>9, <1>10, <1>11, <1>12, <1>13 DEF Held

\* A request without an approval begins.
LEMMA PostHeld ==
  ASSUME TypeOK, Held, NEW r \in Requests, Post(r)
  PROVE  Held'
<1> DEFINE x == [req[r] EXCEPT !.step = "start"]
<1>1. req[r] \in Request /\ req \in [Requests -> Request] /\ Owns(r)
  BY HandlerKnows
<1>2. /\ UNCHANGED <<count, iteration, proposal, build>> /\ req[r].step = "idle"
      /\ req' = [req EXCEPT ![r] = x]
  BY DEF Post, Goto, rows
<1>3. x \in Request /\ x.step = "start" /\ x.proposal = None
  BY <1>1, <1>2 DEF Request, RequestStep, Owns
<1>4. req'[r] = x
  BY <1>1, <1>2
<1> HIDE DEF x
<1>5. Owns(r)'
  BY <1>3, <1>4 DEF Owns
<1>6. "start" \notin Guarded
  BY DEF Guarded
<1> QED BY <1>2, <1>3, <1>5, <1>6, HandlerFrame DEF Quiet

\* ClaimRevision: the approval was in nobody's hands and nothing was built
\* for it.
LEMMA ApproveHeld ==
  ASSUME TypeOK, Held, NEW r \in Requests, NEW p \in Proposals, Approve(r, p)
  PROVE  Held'
<1>a. /\ LockHeld /\ LatestOpen /\ HandlerOwns /\ ApprovalHeld
      /\ ProposalBased /\ SingleUse /\ RevisionFresh /\ ReceiptTrue
  BY DEF Held
<1> DEFINE x == [req[r] EXCEPT !.step = "start", !.proposal = p]
<1>1. /\ req[r] \in Request /\ req \in [Requests -> Request]
      /\ proposal \in [Proposals -> Proposal]
      /\ iteration \in [Number -> Iteration]
  BY HandlerKnows DEF TypeOK
<1>2. /\ UNCHANGED <<count, iteration, build>>
      /\ req' = [req EXCEPT ![r] = x]
      /\ proposal' = [proposal EXCEPT ![p] =
                        [proposal[p] EXCEPT !.status = "approved"]]
      /\ req[r].step = "idle" /\ proposal[p].status = "pending"
  BY DEF Approve, rows
<1>3. x.step = "start" /\ x.proposal = p
  BY <1>1 DEF Request
<1>4. req'[r] = x /\ \A q \in Requests : q # r => req'[q] = req[q]
  BY <1>1, <1>2
<1> HIDE DEF x
<1>5. /\ \A o \in Proposals : o # p => proposal'[o] = proposal[o]
      /\ \A o \in Proposals : /\ proposal'[o].base = proposal[o].base
                              /\ proposal'[o].version = proposal[o].version
                              /\ proposal'[o].digest = proposal[o].digest
      /\ proposal'[p].status = "approved"
  <2>1. proposal[p] \in Proposal
    BY <1>1
  <2> QED BY <1>1, <1>2, <2>1 DEF Proposal
<1>6. \A n \in Number : Complete(n)' = Complete(n) /\ Active(n)' = Active(n)
                        /\ Origin(n)' = Origin(n)
  BY <1>2 DEF Complete, Active, Origin
<1>7. /\ \A q \in Requests : req[q].proposal # p
      /\ \A n \in Number : iteration[n].origin # p
      /\ p # None
  BY <1>a, <1>2 DEF ApprovalHeld, Holds, SingleUse
<1>8. LockHeld' /\ LatestOpen'
  BY <1>a, <1>2, <1>3, <1>4, <1>6 DEF LockHeld, LatestOpen, Guarded
<1>9. HandlerOwns'
  <2> SUFFICES ASSUME NEW q \in Requests PROVE Owns(q)'
    BY DEF HandlerOwns
  <2>1. CASE q = r
    BY <1>3, <1>4, <2>1 DEF Owns
  <2>2. CASE q # r
    BY <1>a, <1>2, <1>4, <2>2 DEF HandlerOwns, Owns, Latest, Active
  <2> QED BY <2>1, <2>2
<1>10. ApprovalHeld'
  <2> SUFFICES ASSUME NEW q \in Requests, req'[q].proposal # None
               PROVE  Holds(q)'
    BY DEF ApprovalHeld
  <2>1. CASE q = r
    BY <1>2, <1>3, <1>4, <1>5, <1>7, <2>1 DEF Holds, Guarded
  <2>2. CASE q # r
    <3>1. req'[q] = req[q] /\ Holds(q)
      BY <1>a, <1>4, <2>2 DEF ApprovalHeld
    <3>2. req[q].proposal \in Proposals /\ req[q].proposal # p
      BY <1>7, <3>1, HandlerKnows
    <3>3. \A s \in Requests : req'[s].proposal = req'[q].proposal => s = q
      BY <1>3, <1>4, <3>1, <3>2 DEF Holds
    <3> QED BY <1>2, <1>5, <1>6, <3>1, <3>2, <3>3 DEF Holds
  <2> QED BY <2>1, <2>2
<1>11. ProposalBased'
  BY <1>a, <1>2, <1>5, <1>6 DEF ProposalBased, Complete
<1>12. SingleUse'
  BY <1>a, <1>2, <1>5 DEF SingleUse
<1>13. RevisionFresh'
  <2>1. \A n \in Number : iteration[n].origin # None
          => iteration[n].origin \in Proposals
    BY <1>1 DEF Iteration
  <2> QED BY <1>a, <1>2, <1>5, <1>6, <2>1 DEF RevisionFresh, Complete
<1>14. ReceiptTrue'
  BY <1>a, <1>2, <1>5, <1>6 DEF ReceiptTrue
<1> QED
  BY <1>8, <1>9, <1>10, <1>11, <1>12, <1>13, <1>14 DEF Held

\* Proposals that nobody has approved come, wait and go.
LEMMA ProposalHeld ==
  ASSUME TypeOK, Held, NEW p \in Proposals,
         Draft(p) \/ CreateRevision(p) \/ Reject(p)
  PROVE  Held'
<1>a. /\ LockHeld /\ LatestOpen /\ HandlerOwns /\ ApprovalHeld
      /\ ProposalBased /\ SingleUse /\ RevisionFresh /\ ReceiptTrue
  BY DEF Held
<1>1. /\ proposal \in [Proposals -> Proposal]
      /\ iteration \in [Number -> Iteration]
  BY DEF TypeOK
<1>2. UNCHANGED <<count, iteration, req, build>>
  BY DEF Draft, CreateRevision, Reject, rows
<1>3. /\ \A o \in Proposals : o # p => proposal'[o] = proposal[o]
      /\ proposal[p].status \in {"absent", "drafted", "pending"}
      /\ proposal'[p].status \in {"drafted", "pending", "rejected"}
      /\ proposal'[p].base \in Number /\ Complete(proposal'[p].base)
  <2>1. CASE Draft(p)
    BY <1>1, <2>1 DEF Draft
  <2>2. CASE CreateRevision(p) \/ Reject(p)
    <3>1. proposal[p] \in Proposal
      BY <1>1
    <3>2. /\ proposal' = [proposal EXCEPT ![p] =
               [proposal[p] EXCEPT !.status = proposal'[p].status]]
          /\ proposal[p].status \in {"drafted", "pending"}
          /\ proposal'[p].status \in {"pending", "rejected"}
      BY <1>1, <2>2, <3>1 DEF CreateRevision, Reject, Proposal
    <3>3. proposal'[p].base = proposal[p].base
      BY <1>1, <2>2, <3>1 DEF CreateRevision, Reject, Proposal
    <3> QED BY <1>a, <1>1, <3>2, <3>3 DEF ProposalBased
  <2> QED BY <2>1, <2>2
<1>4. \A n \in Number : Complete(n)' = Complete(n) /\ Active(n)' = Active(n)
                        /\ Origin(n)' = Origin(n) /\ iteration[n].origin # p
  BY <1>a, <1>2, <1>3 DEF Complete, Active, Origin, SingleUse
<1>5. \A q \in Requests : req[q].proposal # p
  BY <1>a, <1>3 DEF ApprovalHeld, Holds
<1>6. LockHeld' /\ LatestOpen'
  BY <1>a, <1>2, <1>4 DEF LockHeld, LatestOpen
<1>7. HandlerOwns'
  BY <1>a, <1>2 DEF HandlerOwns, Owns, Latest, Active
<1>8. ApprovalHeld'
  <2> SUFFICES ASSUME NEW q \in Requests, req[q].proposal # None
               PROVE  Holds(q)'
    BY <1>2 DEF ApprovalHeld
  <2>1. Holds(q) /\ req[q].proposal \in Proposals
    BY <1>a, HandlerKnows DEF ApprovalHeld
  <2>2. proposal'[req[q].proposal] = proposal[req[q].proposal]
    BY <1>3, <1>5, <2>1
  <2> QED BY <1>2, <1>4, <2>1, <2>2 DEF Holds
<1>9. ProposalBased'
  <2>1. Complete(proposal'[p].base)
    BY <1>3
  <2>2. \A o \in Proposals :
          /\ proposal'[o].status # "absent" =>
               /\ proposal'[o].base \in Number
               /\ iteration[proposal'[o].base].status = "complete"
          /\ proposal'[o].status = "building" => proposal'[o].iteration \in Number
    BY <1>a, <1>3, <2>1 DEF ProposalBased, Complete
  <2> QED BY <1>2, <2>2 DEF ProposalBased, Complete
<1>10. SingleUse'
  BY <1>a, <1>2, <1>3, <1>4 DEF SingleUse
<1>11. RevisionFresh'
  <2>1. \A n \in Number : iteration[n].origin # None
          => proposal'[iteration[n].origin] = proposal[iteration[n].origin]
    BY <1>1, <1>3, <1>4 DEF Iteration
  <2> QED BY <1>a, <1>2, <1>4, <2>1 DEF RevisionFresh, Complete
<1>12. ReceiptTrue'
  BY <1>a, <1>2, <1>3, <1>4 DEF ReceiptTrue
<1> QED BY <1>6, <1>7, <1>8, <1>9, <1>10, <1>11, <1>12 DEF Held

\* The builder and its tools change files; the row waits for the end.
LEMMA BuildHeld ==
  ASSUME TypeOK, Held, NEW n \in Number,
         \/ OpenWorkspace(n) \/ Write(n) \/ Validate(n) \/ Validated(n)
         \/ Stop(n) \/ BuildFails(n) \/ FinishOperation(n) \/ SetState(n)
  PROVE  Held'
<1>1. /\ build \in [Number -> Building] /\ build[n] \in Building
      /\ iteration \in [Number -> Iteration] /\ iteration[n] \in Iteration
      /\ count \in 0..MaxIterations
  BY DEF TypeOK
<1>2. UNCHANGED <<count, req, proposal>>
  BY DEF OpenWorkspace, Write, Validate, Validated, Stop, BuildFails,
         FinishOperation, SetState, rows
<1>3. /\ build[n].step = "write" => build[n].step # "none"
      /\ build[n].step \in {"close", "state", "finish"}
           => build[n].outcome # "none"
      /\ iteration[n].status = "generating" => n = count
      /\ Active(n) => iteration[n].status = "generating"
  BY DEF Held, LatestOpen
<1>4. /\ \A m \in Number : m # n => build'[m] = build[m]
      /\ Active(n) /\ build'[n].step # "none"
      /\ build'[n].proposal = build[n].proposal
      /\ build'[n].base = build[n].base
      /\ build'[n].step \in {"close", "state", "finish"}
           => build'[n].outcome # "none"
  <2>1. CASE OpenWorkspace(n)
    BY <1>1, <2>1 DEF OpenWorkspace, BuildGoto, Active, Building
  <2>2. CASE Write(n)
    <3>1. PICK f \in Scope(n), c \in Contents :
            build' = [build EXCEPT
              ![n].checks = "none",
              ![n].checked = IF build[n].validating THEN @ ELSE NoFiles,
              ![n].changed = @ \/ (Origin(n) # None /\ build[n].base[f] # c)]
      BY <2>2 DEF Write
    <3> DEFINE files == IF build[n].validating THEN build[n].checked ELSE NoFiles
               changed == build[n].changed
                            \/ (Origin(n) # None /\ build[n].base[f] # c)
    <3>2. build' = [build EXCEPT ![n] = [build[n] EXCEPT
                      !.checks = "none", !.checked = files, !.changed = changed]]
      BY <3>1
    <3> HIDE DEF files, changed
    <3> QED BY <1>1, <2>2, <3>2 DEF Write, Active, Building
  <2>3. CASE Validate(n)
    <3>1. PICK files :
            build' = [build EXCEPT ![n] = [build[n] EXCEPT
                        !.validating = TRUE, !.checked = files]]
      BY <2>3 DEF Validate
    <3> QED BY <1>1, <2>3, <3>1 DEF Validate, Active, Building
  <2>4. CASE Stop(n) \/ BuildFails(n)
    <3>1. PICK outcome \in {"complete", "failed"} :
            build' = [build EXCEPT ![n] = Ended(n, outcome)]
      BY <2>4 DEF Stop, BuildFails
    <3>2. /\ Ended(n, outcome).step = "close"
          /\ Ended(n, outcome).outcome # "none"
          /\ Ended(n, outcome).proposal = build[n].proposal
          /\ Ended(n, outcome).base = build[n].base
      BY <1>1 DEF Ended, Origin, NoBuild, Building
    <3> QED BY <1>1, <2>4, <3>1, <3>2 DEF Stop, BuildFails, Active
  <2>5. CASE FinishOperation(n) \/ SetState(n)
    <3>1. PICK step \in {"state", "finish"} :
            build' = [build EXCEPT ![n] = [build[n] EXCEPT !.step = step]]
      BY <2>5 DEF FinishOperation, SetState, BuildGoto
    <3> QED
      BY <1>1, <1>3, <2>5, <3>1 DEF FinishOperation, SetState, Active, Building
  <2>6. CASE Validated(n)
    <3>1. PICK verdict \in {"passed", "failed"} :
            build' = [build EXCEPT ![n] = [build[n] EXCEPT
                        !.validating = FALSE, !.checks = verdict]]
      BY <2>6 DEF Validated
    <3> QED BY <1>1, <2>6, <3>1 DEF Validated, Active, Building
  <2> QED BY <2>1, <2>2, <2>3, <2>4, <2>5, <2>6
<1>5. \A m \in Number : /\ Active(m)' = Active(m) /\ Origin(m)' = Origin(m)
                        /\ build'[m].base = build[m].base
  BY <1>4 DEF Active, Origin
<1>6. \A m \in Number :
        /\ iteration'[m].status = iteration[m].status
        /\ iteration'[m].version = iteration[m].version
        /\ iteration'[m].origin = iteration[m].origin
        /\ m > count => iteration'[m] = iteration[m]
  <2>1. \/ iteration' = iteration
        \/ iteration' = [iteration EXCEPT ![n] =
                           [iteration[n] EXCEPT !.operation = "ended"]]
    BY DEF OpenWorkspace, Write, Validate, Validated, Stop, BuildFails,
           FinishOperation, SetState, rows
  <2>2. n <= count
    BY <1>1, <1>3, <1>4
  <2>3. CASE iteration' = iteration
    BY <2>3
  <2>4. CASE iteration' = [iteration EXCEPT ![n] =
                            [iteration[n] EXCEPT !.operation = "ended"]]
    BY <1>1, <2>2, <2>4 DEF Iteration
  <2> QED BY <2>1, <2>3, <2>4
<1>7. \A m \in Number : build'[m].step \in {"close", "state", "finish"}
                          => build'[m].outcome # "none"
  BY <1>4 DEF Held, LatestOpen
<1> QED BY <1>2, <1>5, <1>6, <1>7, Frame

\* FinishPrototypeIteration: nobody works on the latest iteration any more,
\* and its row says how it ended, or still that it is being generated.
LEMMA FinishHeld ==
  ASSUME TypeOK, Held, NEW n \in Number, FinishIteration(n)
  PROVE  Held'
<1>a. /\ LockHeld /\ LatestOpen /\ HandlerOwns /\ ApprovalHeld
      /\ ProposalBased /\ SingleUse /\ RevisionFresh /\ ReceiptTrue
  BY DEF Held
<1>1. /\ build \in [Number -> Building] /\ build[n] \in Building
      /\ iteration \in [Number -> Iteration] /\ iteration[n] \in Iteration
      /\ count \in 0..MaxIterations /\ (count # 0 => count \in Number)
  BY DEF TypeOK
<1>2. /\ UNCHANGED <<count, req, proposal>> /\ build[n].step = "finish"
      /\ build' = [build EXCEPT ![n] = NoBuild]
  BY DEF FinishIteration
<1>3. /\ Active(n) /\ n = count /\ iteration[n].status = "generating"
      /\ build[n].outcome \in {"complete", "failed"}
  BY <1>a, <1>1, <1>2 DEF LatestOpen, Active, Building
<1>4. /\ \A m \in Number : m # n => iteration'[m] = iteration[m]
      /\ iteration'[n].version = iteration[n].version
      /\ iteration'[n].origin = iteration[n].origin
      /\ iteration'[n].status \in {"generating", "complete", "failed"}
  <2>1. \/ iteration' = iteration
        \/ iteration' = [iteration EXCEPT ![n] =
                           [iteration[n] EXCEPT !.status = build[n].outcome]]
    BY DEF FinishIteration
  <2>2. CASE iteration' = iteration
    BY <1>3, <2>2
  <2>3. CASE iteration' = [iteration EXCEPT ![n] =
                            [iteration[n] EXCEPT !.status = build[n].outcome]]
    BY <1>1, <1>3, <2>3 DEF Iteration
  <2> QED BY <2>1, <2>2, <2>3
<1>5. /\ ~Active(n)'
      /\ \A m \in Number : m # n => Active(m)' = Active(m) /\ build'[m] = build[m]
      /\ \A m \in Number : m # n => Complete(m)' = Complete(m)
      /\ ~Complete(n)
  BY <1>1, <1>2, <1>3, <1>4 DEF Active, Complete, NoBuild
<1>6. \A m \in Number : iteration'[m].origin = iteration[m].origin
                        /\ iteration'[m].version = iteration[m].version
                        /\ (Complete(m) => Complete(m)')
  BY <1>4, <1>5
<1>7. LockHeld'
  BY <1>a, <1>2 DEF LockHeld
<1>8. LatestOpen'
  BY <1>a, <1>2, <1>3, <1>4, <1>5 DEF LatestOpen, Active, Origin, NoBuild
<1>9. HandlerOwns'
  <2> SUFFICES ASSUME NEW q \in Requests PROVE Owns(q)'
    BY DEF HandlerOwns
  <2>1. Owns(q)
    BY <1>a DEF HandlerOwns
  <2>2. Latest = iteration[n]
    BY <1>3 DEF Latest
  <2>3. req[q].step \notin {"source", "create", "prepare", "operate", "spawn",
                           "abort"}
    BY <1>3, <2>1, <2>2 DEF Owns
  <2> QED BY <1>2, <1>6, <2>1, <2>3 DEF Owns
<1>10. ApprovalHeld'
  <2> SUFFICES ASSUME NEW q \in Requests, req[q].proposal # None
               PROVE  Holds(q)'
    BY <1>2 DEF ApprovalHeld
  <2>1. Holds(q)
    BY <1>a DEF ApprovalHeld
  <2>2. req[q].step = "denied" => iteration[n].origin # req[q].proposal
    BY <1>3, <2>1 DEF Holds
  <2> QED BY <1>2, <1>5, <1>6, <2>1, <2>2 DEF Holds
<1>11. ProposalBased' /\ SingleUse'
  BY <1>a, <1>2, <1>6 DEF ProposalBased, SingleUse
<1>12. RevisionFresh'
  <2>1. \A m \in Number : iteration[m].origin # None
          => proposal[iteration[m].origin].base \in Number
    BY <1>a, <1>1 DEF ProposalBased, SingleUse, Iteration
  <2> QED BY <1>a, <1>2, <1>5, <1>6, <2>1 DEF RevisionFresh
<1>13. ReceiptTrue'
  <2>1. \A p \in Proposals : proposal[p].status = "failed"
          => iteration[n].origin # p
    BY <1>a, <1>3 DEF ReceiptTrue
  <2> QED BY <1>a, <1>2, <1>5, <1>6, <2>1 DEF ReceiptTrue, ProposalBased
<1> QED BY <1>7, <1>8, <1>9, <1>10, <1>11, <1>12, <1>13 DEF Held

\* Recovery: handlers and goroutines are gone, approvals stay as they are.
LEMMA RestartHeld ==
  ASSUME TypeOK, Held, Restart
  PROVE  Held'
<1>a. /\ LatestOpen /\ ProposalBased /\ SingleUse /\ RevisionFresh /\ ReceiptTrue
  BY DEF Held
<1>1. /\ iteration \in [Number -> Iteration] /\ proposal \in [Proposals -> Proposal]
      /\ \A n \in Number : iteration[n].origin \in Proposals \cup {None}
  BY DEF TypeOK, Iteration
<1>2. /\ count' = count
      /\ \A r \in Requests : req'[r] = IdleRequest
      /\ \A n \in Number : build'[n] = NoBuild
  BY DEF Restart
<1>3. \A n \in Number :
        /\ iteration'[n].version = iteration[n].version
        /\ iteration'[n].origin = iteration[n].origin
        /\ iteration'[n].status = IF iteration[n].status = "generating"
                                  THEN "failed" ELSE iteration[n].status
        /\ iteration[n] = NoIteration => iteration'[n] = NoIteration
  <2> SUFFICES ASSUME NEW n \in Number
               PROVE  /\ iteration'[n].version = iteration[n].version
                      /\ iteration'[n].origin = iteration[n].origin
                      /\ iteration'[n].status =
                           IF iteration[n].status = "generating"
                           THEN "failed" ELSE iteration[n].status
                      /\ iteration[n] = NoIteration
                           => iteration'[n] = NoIteration
    OBVIOUS
  <2> DEFINE status == IF iteration[n].status = "generating" THEN "failed"
                       ELSE iteration[n].status
             operation == IF iteration[n].operation = "running" THEN "ended"
                          ELSE iteration[n].operation
  <2>1. iteration'[n] = [iteration[n] EXCEPT !.status = status,
                                             !.operation = operation]
    BY DEF Restart
  <2>2. iteration[n] = [status |-> iteration[n].status,
                        version |-> iteration[n].version,
                        operation |-> iteration[n].operation,
                        origin |-> iteration[n].origin]
    BY <1>1 DEF Iteration
  <2>3. iteration[n] = NoIteration
          => iteration[n].status = "absent" /\ iteration[n].operation = "none"
    BY DEF NoIteration
  <2>4. iteration[n] = NoIteration
          => status = iteration[n].status /\ operation = iteration[n].operation
    BY <2>3
  <2> HIDE DEF operation
  <2>5. /\ iteration'[n].version = iteration[n].version
        /\ iteration'[n].origin = iteration[n].origin
        /\ iteration'[n].status = status
    BY <2>1, <2>2
  <2> HIDE DEF status
  <2>6. status = iteration[n].status /\ operation = iteration[n].operation
          => iteration'[n] = iteration[n]
    BY <2>1, <2>2
  <2> QED BY <2>4, <2>5, <2>6 DEF status
<1>4. \A p \in Proposals :
        proposal'[p] = proposal[p]
        \/ (proposal[p].status = "drafted" /\ proposal'[p] = NoProposal)
  BY DEF Restart
<1>5. \A n \in Number : ~Active(n)' /\ Complete(n)' = Complete(n)
  BY <1>2, <1>3 DEF Active, Complete, NoBuild
<1>6. LockHeld' /\ HandlerOwns' /\ ApprovalHeld'
  BY <1>2 DEF LockHeld, HandlerOwns, Owns, ApprovalHeld, IdleRequest, Guarded
<1>7. LatestOpen'
  BY <1>a, <1>2, <1>3, <1>5 DEF LatestOpen, NoBuild
<1>8. ProposalBased'
  BY <1>a, <1>4, <1>5 DEF ProposalBased, NoProposal
<1>9. SingleUse'
  BY <1>a, <1>3, <1>4 DEF SingleUse
<1>10. RevisionFresh'
  <2>1. \A n \in Number : iteration[n].origin # None
          => /\ proposal'[iteration[n].origin] = proposal[iteration[n].origin]
             /\ proposal[iteration[n].origin].base \in Number
    BY <1>a, <1>1, <1>4 DEF SingleUse, ProposalBased
  <2> QED BY <1>a, <1>3, <1>5, <2>1 DEF RevisionFresh
<1>11. ReceiptTrue'
  BY <1>a, <1>3, <1>4, <1>5 DEF ReceiptTrue, ProposalBased, NoProposal
<1> QED BY <1>6, <1>7, <1>8, <1>9, <1>10, <1>11 DEF Held

\* The curator and editors touch none of this.
LEMMA WorldHeld ==
  ASSUME TypeOK, Held, ChangeBrief \/ \E n \in Number : EditSource(n)
  PROVE  Held'
<1>1. UNCHANGED <<count, iteration, req, proposal, build>>
  BY DEF ChangeBrief, EditSource, rows
<1>2. \A n \in Number : build[n].step \in {"close", "state", "finish"}
                          => build[n].outcome # "none"
  BY DEF Held, LatestOpen
<1> QED BY <1>1, <1>2, Frame DEF Active, Origin

LEMMA NextHeld ==
  ASSUME TypeOK, Held, [Next]_vars
  PROVE  Held'
<1>1. CASE UNCHANGED vars
  <2>1. UNCHANGED <<count, iteration, req, proposal, build>>
    BY <1>1 DEF vars, rows
  <2>2. \A n \in Number : build[n].step \in {"close", "state", "finish"}
                            => build[n].outcome # "none"
    BY DEF Held, LatestOpen
  <2> QED BY <2>1, <2>2, Frame DEF Active, Origin
<1>2. ASSUME NEW n \in Number, Run(n) PROVE Held'
  BY <1>2, BuildHeld, FinishHeld DEF Run
<1>3. ASSUME NEW r \in Requests, Handle(r) PROVE Held'
  BY <1>3, LoadHeld, SourceHeld, CreateHeld, PreparedHeld, AbortHeld,
     SpawnHeld, ReceiptHeld DEF Handle
<1> QED
  BY <1>1, <1>2, <1>3, WorldHeld, ProposalHeld, PostHeld, ApproveHeld,
     RestartHeld DEF Next

-----------------------------------------------------------------------------
(***************************************************************************)
(* Theorems.                                                               *)
(***************************************************************************)
\* startMu, the latest row and the claim on a proposal keep handlers and
\* builds apart, whatever fails: Custody holds, and with it what follows.
LEMMA Invariant == Spec => [](TypeOK /\ Held)
<1>1. Init => TypeOK /\ Held
  BY InitTyped, InitHeld
<1>2. TypeOK /\ Held /\ [Next]_vars => (TypeOK /\ Held)'
  BY NextTyped, NextHeld DEF Held
<1> QED BY <1>1, <1>2, PTL DEF Spec

\* Rows, handlers and goroutines are in step with each other.
THEOREM InCustody == Spec => []Custody
<1>1. TypeOK /\ Held => Custody
  BY DEF Custody, Held
<1> QED BY <1>1, Invariant, PTL

\* PrototypeService.start and run never build two iterations side by side,
\* not even after a row could not be written or the server restarted.
THEOREM OneBuildAtATime == Spec => []OneBuild
<1>1. Held => OneBuild
  BY DEF Held, LatestOpen, OneBuild
<1> QED BY <1>1, Invariant, PTL

\* ClaimRevision: an approval leads to one iteration at most.
THEOREM ApprovedOnce == Spec => []SingleUse
<1>1. Held => SingleUse
  BY DEF Held
<1> QED BY <1>1, Invariant, PTL

\* What is built for a proposal is built on its brief and its source.
THEOREM BuiltAsApproved == Spec => []RevisionFresh
<1>1. Held => RevisionFresh
  BY DEF Held
<1> QED BY <1>1, Invariant, PTL

\* FinishRevisionApproval writes a receipt that is true and stays true.
THEOREM ReceiptsAreTrue == Spec => []ReceiptTrue
<1>1. Held => ReceiptTrue
  BY DEF Held
<1> QED BY <1>1, Invariant, PTL

\* FinishPrototypeIteration and migrate leave settled iterations alone.
THEOREM IterationsSettle == Spec => SettledStays
<1> DEFINE Stays == \A n \in Number :
      iteration[n].status \in {"complete", "failed"}
        => iteration'[n].status = iteration[n].status
<1>1. ASSUME TypeOK, Held, [Next]_vars PROVE Stays
  <2>1. LatestOpen /\ HandlerOwns
    BY <1>1 DEF Held
  <2>2. iteration \in [Number -> Iteration] /\ count \in 0..MaxIterations
    BY <1>1 DEF TypeOK
  <2>3. CASE UNCHANGED iteration
    BY <2>3
  <2>4. ASSUME NEW r \in Requests, CreateIteration(r) PROVE Stays
    <3>1. iteration' = iteration
          \/ /\ count + 1 \in Number
             /\ \A n \in Number : n # count + 1 => iteration'[n] = iteration[n]
      BY <2>2, <2>4, BoundAssumption DEF CreateIteration, Number
    <3>2. count + 1 \in Number => iteration[count + 1].status = "absent"
      BY <2>1, <2>2, BoundAssumption DEF LatestOpen, NoIteration, Number
    <3> QED BY <3>1, <3>2
  <2>5. ASSUME NEW r \in Requests, CreateOperation(r) PROVE Stays
    BY <2>2, <2>5 DEF CreateOperation, Iteration
  <2>6. ASSUME NEW r \in Requests, Abort(r) PROVE Stays
    <3>1. /\ req[r].number = count /\ iteration[count].status = "generating"
          /\ \A n \in Number : n # req[r].number
                               => iteration'[n] = iteration[n]
      BY <2>1, <2>2, <2>6 DEF Abort, HandlerOwns, Owns
    <3> QED BY <3>1
  <2>7. ASSUME NEW m \in Number, FinishOperation(m) PROVE Stays
    BY <2>2, <2>7 DEF FinishOperation, Iteration
  <2>8. ASSUME NEW m \in Number, FinishIteration(m) PROVE Stays
    <3>1. /\ iteration[m].status = "generating"
          /\ \A n \in Number : n # m => iteration'[n] = iteration[n]
      BY <2>1, <2>2, <2>8 DEF FinishIteration, LatestOpen, Active
    <3> QED BY <3>1
  <2>9. ASSUME Restart PROVE Stays
    BY <2>2, <2>9 DEF Restart, Iteration
  <2>10. ASSUME NEW r \in Requests, Handle(r) PROVE Stays
    <3>1. CreateIteration(r) \/ CreateOperation(r) \/ Abort(r)
          \/ UNCHANGED iteration
      BY <2>10 DEF Handle, Load, ReadSource, Prepare, Spawn, Receipt, Denied,
                   rows
    <3> QED BY <2>3, <2>4, <2>5, <2>6, <3>1
  <2>11. ASSUME NEW m \in Number, Run(m) PROVE Stays
    <3>1. FinishOperation(m) \/ FinishIteration(m) \/ UNCHANGED iteration
      BY <2>11 DEF Run, OpenWorkspace, Write, Validate, Validated, Stop,
                   BuildFails, SetState, rows
    <3> QED BY <2>3, <2>7, <2>8, <3>1
  <2>12. Restart \/ (\E r \in Requests : Handle(r)) \/ (\E m \in Number : Run(m))
         \/ UNCHANGED iteration
    BY <1>1 DEF Next, vars, rows, ChangeBrief, EditSource, Draft,
                CreateRevision, Reject, Post, Approve
  <2> QED BY <2>3, <2>9, <2>10, <2>11, <2>12
<1>2. TypeOK /\ Held /\ [Next]_vars => Stays
  BY <1>1
<1> QED BY <1>2, Invariant, PTL DEF Spec, SettledStays

-----------------------------------------------------------------------------
(***************************************************************************)
(* The files of a build: what a revision may write, what was validated.    *)
(***************************************************************************)
\* A goroutine that has not done anything yet.
Begun(n) ==
  /\ build[n].step = "plan" /\ build[n].outcome = "none"
  /\ build[n].checks = "none" /\ ~build[n].validating

\* A build and its files change by its own steps alone, once it has begun.
LEMMA BuildersOwn ==
  ASSUME TypeOK, Held, [Next]_vars, NEW n \in Number
  PROVE  \/ Run(n)
         \/ build'[n] = NoBuild
         \/ Begun(n)'
         \/ build'[n] = build[n] /\ (Active(n) => disk'[n] = disk[n])
<1>1. /\ build \in [Number -> Building] /\ disk \in [Number -> Files]
      /\ \A r \in Requests : req[r].proposal \in Proposals \cup {None}
                             /\ req[r].files \in Files
  BY DEF TypeOK, Request
<1>2. CASE UNCHANGED <<build, disk>>
  BY <1>2
<1>3. ASSUME NEW m \in Number, Run(m), m # n
      PROVE  build'[n] = build[n] /\ disk'[n] = disk[n]
  <2>1. CASE OpenWorkspace(m) \/ Write(m)
    BY <1>1, <1>3, <2>1 DEF OpenWorkspace, Write, BuildGoto
  <2>2. CASE Validate(m) \/ Validated(m)
    BY <1>1, <1>3, <2>2 DEF Validate, Validated, rows
  <2>3. CASE Stop(m) \/ BuildFails(m) \/ FinishOperation(m) \/ SetState(m)
             \/ FinishIteration(m)
    BY <1>1, <1>3, <2>3 DEF Stop, BuildFails, FinishOperation, SetState,
                            FinishIteration, BuildGoto, rows
  <2> QED BY <1>3, <2>1, <2>2, <2>3 DEF Run
<1>4. ASSUME NEW m \in Number, EditSource(m)
      PROVE  build'[n] = build[n] /\ (Active(n) => disk'[n] = disk[n])
  <2>1. build' = build /\ \E f \in Paths, c \in Contents :
                            disk' = [disk EXCEPT ![m][f] = c]
    BY <1>4 DEF EditSource
  <2>2. Active(n) => m # n
    BY <1>4 DEF EditSource, Complete, Held, LatestOpen
  <2> QED BY <1>1, <2>1, <2>2
<1>5. ASSUME NEW r \in Requests, Spawn(r), req[r].number = n
      PROVE  Begun(n)'
  <2> DEFINE new == [NoBuild EXCEPT !.step = "plan", !.proposal = req[r].proposal,
                                    !.base = req[r].files]
  <2>1. build' = [build EXCEPT ![n] = new]
    BY <1>5 DEF Spawn
  <2>2. /\ new.step = "plan" /\ new.outcome = "none"
        /\ new.checks = "none" /\ ~new.validating
    BY DEF NoBuild
  <2> HIDE DEF new
  <2> QED BY <1>1, <2>1, <2>2 DEF Begun
<1>6. ASSUME NEW r \in Requests, Spawn(r), req[r].number # n
      PROVE  build'[n] = build[n] /\ disk'[n] = disk[n]
  BY <1>1, <1>6 DEF Spawn, rows
<1>7. ASSUME NEW r \in Requests, Handle(r)
      PROVE  Spawn(r) \/ UNCHANGED <<build, disk>>
  BY <1>7 DEF Handle, Load, ReadSource, CreateIteration, Prepare,
              CreateOperation, Abort, Receipt, Denied, rows
<1>8. CASE Restart
  BY <1>8 DEF Restart
<1>9. \/ UNCHANGED <<build, disk>> \/ Restart
      \/ \E r \in Requests : Handle(r)
      \/ \E m \in Number : EditSource(m) \/ Run(m)
  BY DEF Next, vars, rows, ChangeBrief, Draft, CreateRevision, Reject, Post,
         Approve
<1> QED
  BY <1>2, <1>3, <1>4, <1>5, <1>6, <1>7, <1>8, <1>9

\* What a human approved does not change while it is built.
LEMMA ApprovalStays ==
  ASSUME TypeOK, Held, [Next]_vars, NEW n \in Number, Active(n),
         Origin(n) # None
  PROVE  /\ proposal'[Origin(n)].digest = proposal[Origin(n)].digest
         /\ proposal'[Origin(n)].scope = proposal[Origin(n)].scope
         /\ Origin(n) \in Proposals
         /\ build[n].base = proposal[Origin(n)].digest
<1> DEFINE p == Origin(n)
<1>1. /\ proposal \in [Proposals -> Proposal]
      /\ build[n] \in Building
      /\ p \in Proposals
  BY DEF TypeOK, Building, Origin
<1>2. /\ iteration[n].origin = p
      /\ proposal[p].status \in {"approved", "building", "failed"}
      /\ build[n].base = proposal[p].digest
  BY <1>1 DEF Held, LatestOpen, SingleUse, RevisionFresh
<1> HIDE DEF p
<1>3. ASSUME proposal' = proposal
      PROVE  /\ proposal'[p].digest = proposal[p].digest
             /\ proposal'[p].scope = proposal[p].scope
  BY <1>3
<1>4. ASSUME NEW q \in Proposals, Draft(q)
      PROVE  proposal'[p] = proposal[p]
  <2>1. q # p
    BY <1>2, <1>4 DEF Draft
  <2> QED BY <1>1, <1>4, <2>1 DEF Draft
<1>5. ASSUME NEW q \in Proposals, NEW status,
             proposal' = [proposal EXCEPT ![q].status = status]
      PROVE  /\ proposal'[p].digest = proposal[p].digest
             /\ proposal'[p].scope = proposal[p].scope
  BY <1>1, <1>5 DEF Proposal
<1>6. ASSUME NEW q \in Proposals, CreateRevision(q) \/ Reject(q)
      PROVE  /\ proposal'[p].digest = proposal[p].digest
             /\ proposal'[p].scope = proposal[p].scope
  BY <1>5, <1>6 DEF CreateRevision, Reject
<1>7. ASSUME NEW r \in Requests, NEW q \in Proposals, Approve(r, q)
      PROVE  /\ proposal'[p].digest = proposal[p].digest
             /\ proposal'[p].scope = proposal[p].scope
  BY <1>5, <1>7 DEF Approve
<1>8. ASSUME NEW r \in Requests, Denied(r) \/ Receipt(r)
      PROVE  /\ proposal'[p].digest = proposal[p].digest
             /\ proposal'[p].scope = proposal[p].scope
  <2>1. req[r].proposal \in Proposals
    BY <1>8, HandlerKnows DEF Denied, Receipt, Owns
  <2>2. CASE Denied(r)
    BY <1>3, <1>5, <2>1, <2>2 DEF Denied
  <2>3. CASE Receipt(r)
    <3> DEFINE q == req[r].proposal
               y == [proposal[q] EXCEPT !.status = "building",
                                        !.iteration = req[r].number]
    <3>1. proposal' = proposal \/ proposal' = [proposal EXCEPT ![q] = y]
      BY <2>3 DEF Receipt
    <3>2. y.digest = proposal[q].digest /\ y.scope = proposal[q].scope
      BY <1>1, <2>1 DEF Proposal
    <3> HIDE DEF y
    <3> QED BY <1>1, <2>1, <3>1, <3>2
  <2> QED BY <1>8, <2>2, <2>3
<1>9. ASSUME NEW r \in Requests, Handle(r)
      PROVE  Denied(r) \/ Receipt(r) \/ proposal' = proposal
  BY <1>9 DEF Handle, Load, ReadSource, CreateIteration, Prepare,
              CreateOperation, Abort, Spawn
<1>10. ASSUME Restart
       PROVE  proposal'[p] = proposal[p]
  BY <1>1, <1>2, <1>10 DEF Restart
<1>11. ASSUME NEW m \in Number, EditSource(m) \/ Run(m)
       PROVE  proposal' = proposal
  BY <1>11 DEF EditSource, Run, OpenWorkspace, Write, Validate, Validated,
               Stop, BuildFails, FinishOperation, SetState, FinishIteration
<1>12. /\ proposal'[p].digest = proposal[p].digest
       /\ proposal'[p].scope = proposal[p].scope
  BY <1>3, <1>4, <1>6, <1>7, <1>8, <1>9, <1>10, <1>11
  DEF Next, vars, ChangeBrief, Post
<1> QED
  BY <1>1, <1>2, <1>12 DEF p

\* write_demo_file changes one approved file and forgets the checks.
LEMMA Written ==
  ASSUME TypeOK, NEW n \in Number, Write(n)
  PROVE  /\ \E f \in Scope(n), c \in Contents :
              disk'[n] = [disk[n] EXCEPT ![f] = c]
         /\ build'[n].checks = "none" /\ build'[n].step = build[n].step
         /\ build'[n].proposal = build[n].proposal
         /\ build'[n].outcome = build[n].outcome
         /\ build'[n].validating = build[n].validating
<1>1. /\ build \in [Number -> Building] /\ build[n] \in Building
      /\ disk \in [Number -> Files]
  BY DEF TypeOK
<1>2. PICK f \in Scope(n), c \in Contents :
        /\ disk' = [disk EXCEPT ![n][f] = c]
        /\ build' = [build EXCEPT
             ![n].checks = "none",
             ![n].checked = IF build[n].validating THEN @ ELSE NoFiles,
             ![n].changed = @ \/ (Origin(n) # None /\ build[n].base[f] # c)]
  BY DEF Write
<1> DEFINE files == IF build[n].validating THEN build[n].checked ELSE NoFiles
           changed == build[n].changed
                        \/ (Origin(n) # None /\ build[n].base[f] # c)
           new == [build[n] EXCEPT !.checks = "none", !.checked = files,
                                   !.changed = changed]
<1>3. build' = [build EXCEPT ![n] = new]
  BY <1>2
<1>4. disk' = [disk EXCEPT ![n] = [disk[n] EXCEPT ![f] = c]]
  BY <1>1, <1>2
<1>5. disk'[n] = [disk[n] EXCEPT ![f] = c]
  BY <1>1, <1>4
<1>6. /\ new.checks = "none" /\ new.step = build[n].step
      /\ new.proposal = build[n].proposal /\ new.outcome = build[n].outcome
      /\ new.validating = build[n].validating
  BY <1>1 DEF Building
<1> HIDE DEF new, files, changed
<1>7. build'[n] = new
  BY <1>1, <1>3
<1> QED
  BY <1>2, <1>5, <1>6, <1>7

\* A step of the builder leaves what it builds for alone, or ends the build.
LEMMA BuildersTask ==
  ASSUME TypeOK, Held, NEW n \in Number, Run(n)
  PROVE  /\ Active(n)
         /\ Active(n)' => Origin(n)' = Origin(n)
         /\ UNCHANGED proposal
<1>1. /\ build \in [Number -> Building] /\ build[n] \in Building
      /\ Active(n) /\ UNCHANGED proposal
  BY DEF TypeOK, Run, OpenWorkspace, Write, Validate, Validated, Stop,
         BuildFails, FinishOperation, SetState, FinishIteration, Active
<1>2. CASE FinishIteration(n)
  <2>1. build'[n] = NoBuild
    BY <1>1, <1>2 DEF FinishIteration
  <2> QED BY <1>1, <2>1 DEF Active, NoBuild
<1>3. CASE OpenWorkspace(n) \/ FinishOperation(n) \/ SetState(n)
  BY <1>1, <1>3 DEF OpenWorkspace, FinishOperation, SetState, BuildGoto,
                    Origin, Building
<1>4. CASE Stop(n) \/ BuildFails(n)
  <2>1. PICK outcome \in {"complete", "failed"} :
          build' = [build EXCEPT ![n] = Ended(n, outcome)]
    BY <1>4 DEF Stop, BuildFails
  <2>2. Ended(n, outcome).proposal = build[n].proposal
    BY <1>1 DEF Ended, Origin, NoBuild, Building
  <2> QED BY <1>1, <2>1, <2>2 DEF Origin
<1>5. CASE Write(n)
  BY <1>1, <1>5, Written DEF Origin
<1>6. CASE Validate(n)
  <2>1. PICK files : build' = [build EXCEPT ![n] =
          [build[n] EXCEPT !.validating = TRUE, !.checked = files]]
    BY <1>6 DEF Validate
  <2> QED BY <1>1, <2>1 DEF Origin, Building
<1>7. CASE Validated(n)
  <2>1. PICK verdict : build' = [build EXCEPT ![n] =
          [build[n] EXCEPT !.validating = FALSE, !.checks = verdict]]
    BY <1>7 DEF Validated
  <2> QED BY <1>1, <2>1 DEF Origin, Building
<1> QED
  BY <1>1, <1>2, <1>3, <1>4, <1>5, <1>6, <1>7 DEF Run

\* What a step of the builder does to the files and to the checks.
LEMMA BuildersFiles ==
  ASSUME TypeOK, NEW n \in Number, Run(n)
  PROVE  \/ ~Active(n)'
         \/ /\ OpenWorkspace(n)
            /\ disk'[n] = build[n].base
            /\ build'[n] = [build[n] EXCEPT !.step = "write"]
         \/ Write(n)
         \/ /\ Validate(n)
            /\ \A f \in Paths \ Tidied : disk'[n][f] = disk[n][f]
            /\ build'[n] = [build[n] EXCEPT !.validating = TRUE,
                                            !.checked = disk'[n]]
         \/ /\ Validated(n) /\ disk'[n] = disk[n]
            /\ \E verdict \in {"passed", "failed"} :
                 build'[n] = [build[n] EXCEPT !.validating = FALSE,
                                              !.checks = verdict]
         \/ /\ build[n].step = "write" /\ ~build[n].validating
            /\ build[n].checks = "passed"
            /\ disk'[n] = disk[n]
            /\ build'[n] = [build[n] EXCEPT !.step = "close",
                              !.changed = FALSE, !.outcome = "complete"]
         \/ disk'[n] = disk[n] /\ build'[n] = Ended(n, "failed")
         \/ /\ build[n].step \in {"close", "state"} /\ disk'[n] = disk[n]
            /\ \E step \in {"state", "finish"} :
                 build'[n] = [build[n] EXCEPT !.step = step]
<1>1. /\ build \in [Number -> Building] /\ build[n] \in Building
      /\ disk \in [Number -> Files]
  BY DEF TypeOK
<1>2. CASE FinishIteration(n)
  <2>1. build'[n] = NoBuild
    BY <1>1, <1>2 DEF FinishIteration
  <2> QED BY <2>1 DEF Active, NoBuild
<1>3. CASE OpenWorkspace(n)
  BY <1>1, <1>3 DEF OpenWorkspace, BuildGoto
<1>4. CASE Validate(n)
  <2>1. PICK tidy \in [Tidied -> Contents \cup {None}] :
          LET files == [f \in Paths |-> IF f \in Tidied THEN tidy[f]
                                        ELSE disk[n][f]] IN
          /\ disk' = [disk EXCEPT ![n] = files]
          /\ build' = [build EXCEPT ![n].validating = TRUE, ![n].checked = files]
    BY <1>4 DEF Validate
  <2> DEFINE files == [f \in Paths |-> IF f \in Tidied THEN tidy[f]
                                       ELSE disk[n][f]]
  <2>2. \A f \in Paths \ Tidied : files[f] = disk[n][f]
    OBVIOUS
  <2>3. /\ disk' = [disk EXCEPT ![n] = files]
        /\ build' = [build EXCEPT ![n] = [build[n] EXCEPT !.validating = TRUE,
                                                          !.checked = files]]
    BY <2>1
  <2> HIDE DEF files
  <2>4. /\ disk'[n] = files
        /\ build'[n] = [build[n] EXCEPT !.validating = TRUE, !.checked = files]
    BY <1>1, <2>3
  <2> QED BY <1>4, <2>2, <2>4
<1>5. CASE Validated(n)
  BY <1>1, <1>5 DEF Validated, rows
<1>6. CASE Stop(n)
  <2>1. /\ build[n].step = "write" /\ ~build[n].validating /\ disk' = disk
        /\ \/ build' = [build EXCEPT ![n] = Ended(n, "failed")]
           \/ /\ build' = [build EXCEPT ![n] = Ended(n, "complete")]
              /\ build[n].checks = "passed"
    BY <1>6 DEF Stop, rows
  <2>2. Ended(n, "complete") = [build[n] EXCEPT !.step = "close",
                                  !.changed = FALSE, !.outcome = "complete"]
    BY DEF Ended
  <2> QED BY <1>1, <2>1, <2>2
<1>7. CASE BuildFails(n)
  BY <1>1, <1>7 DEF BuildFails, rows
<1>8. CASE FinishOperation(n) \/ SetState(n)
  BY <1>1, <1>8 DEF FinishOperation, SetState, BuildGoto, rows
<1> QED
  BY <1>2, <1>3, <1>4, <1>5, <1>6, <1>7, <1>8 DEF Run

\* The parts of OutcomeLast, ScopeKept and ChecksCurrent about one iteration.
Undecided(n) == build[n].step \in {"plan", "write"} => build[n].outcome = "none"

Scoped(n) ==
  Active(n) /\ build[n].step # "plan" /\ Origin(n) # None
    => \/ \A f \in Paths \ (Scope(n) \cup Tidied) :
            disk[n][f] = proposal[Origin(n)].digest[f]
       \/ build[n].outcome = "failed"

Checked(n) ==
  Active(n) =>
    /\ build[n].step = "plan" => build[n].checks = "none" /\ ~build[n].validating
    /\ build[n].validating \/ build[n].checks = "passed" =>
         build[n].checked = disk[n]
    /\ build[n].outcome = "complete" => build[n].checks = "passed"

\* The result of a build that failed.
LEMMA FailedBuild ==
  ASSUME NEW n \in Number
  PROVE  /\ Ended(n, "failed").outcome = "failed"
         /\ Ended(n, "failed").checks = "none"
         /\ ~Ended(n, "failed").validating
         /\ Ended(n, "failed").step = "close"
  BY DEF Ended, NoBuild

\* A build begins, or is gone, with nothing written.
LEMMA NothingWritten ==
  ASSUME NEW n \in Number, build'[n] = NoBuild \/ Begun(n)'
  PROVE  Undecided(n)' /\ Scoped(n)' /\ Checked(n)'
<1>1. CASE build'[n] = NoBuild
  <2>1. ~Active(n)' /\ build'[n].step = "none"
    BY <1>1 DEF Active, NoBuild
  <2> QED BY <2>1 DEF Undecided, Scoped, Checked
<1>2. CASE Begun(n)'
  BY <1>2 DEF Begun, Undecided, Scoped, Checked
<1> QED BY <1>1, <1>2

\* A build has an outcome only when it stops writing.
LEMMA UndecidedStep ==
  ASSUME TypeOK, Held, [Next]_vars, NEW n \in Number, Undecided(n)
  PROVE  Undecided(n)'
<1>1. build \in [Number -> Building] /\ build[n] \in Building
  BY DEF TypeOK
<1>2. CASE build'[n] = NoBuild \/ Begun(n)'
  BY <1>2, NothingWritten
<1>3. CASE build'[n] = build[n]
  BY <1>3 DEF Undecided
<1>4. CASE Run(n)
  <2>1. CASE ~Active(n)'
    BY <2>1 DEF Active, Undecided
  <2>2. CASE OpenWorkspace(n)
             /\ build'[n] = [build[n] EXCEPT !.step = "write"]
    <3>1. build[n].step = "plan" /\ build'[n].outcome = build[n].outcome
      BY <1>1, <2>2 DEF OpenWorkspace, Building
    <3> QED BY <3>1 DEF Undecided
  <2>3. CASE Write(n)
    BY <2>3, Written DEF Undecided
  <2>4. CASE build'[n] = [build[n] EXCEPT !.validating = TRUE,
                                          !.checked = disk'[n]]
    BY <1>1, <2>4 DEF Undecided, Building
  <2>5. CASE \E verdict \in {"passed", "failed"} :
               build'[n] = [build[n] EXCEPT !.validating = FALSE,
                                            !.checks = verdict]
    BY <1>1, <2>5 DEF Undecided, Building
  <2>6. CASE build'[n] = [build[n] EXCEPT !.step = "close",
                            !.changed = FALSE, !.outcome = "complete"]
    BY <1>1, <2>6 DEF Undecided, Building
  <2>7. CASE build'[n] = Ended(n, "failed")
    BY <2>7, FailedBuild DEF Undecided
  <2>8. CASE \E step \in {"state", "finish"} :
               build'[n] = [build[n] EXCEPT !.step = step]
    BY <1>1, <2>8 DEF Undecided, Building
  <2> QED BY <1>4, <2>1, <2>2, <2>3, <2>4, <2>5, <2>6, <2>7, <2>8,
             BuildersFiles
<1> QED
  BY <1>2, <1>3, <1>4, BuildersOwn

\* A revision writes only the files the human approved: prototype.New copies
\* the base, write_demo_file checks the path, validation tidies the module.
LEMMA ScopedStep ==
  ASSUME TypeOK, Held, [Next]_vars, NEW n \in Number, Undecided(n), Scoped(n)
  PROVE  Scoped(n)'
<1>1. /\ build \in [Number -> Building] /\ build[n] \in Building
      /\ disk \in [Number -> Files] /\ disk[n] \in [Paths -> Contents \cup {None}]
  BY DEF TypeOK, Files
<1>2. CASE build'[n] = NoBuild \/ Begun(n)'
  BY <1>2, NothingWritten
<1>3. CASE build'[n] = build[n] /\ (Active(n) => disk'[n] = disk[n])
  <2> SUFFICES ASSUME Active(n)', build'[n].step # "plan", Origin(n)' # None
               PROVE  \/ \A f \in Paths \ (Scope(n)' \cup Tidied) :
                           disk'[n][f] = proposal'[Origin(n)'].digest[f]
                      \/ build'[n].outcome = "failed"
    BY DEF Scoped
  <2>1. /\ Active(n) /\ build[n].step # "plan" /\ Origin(n) # None
        /\ Origin(n)' = Origin(n) /\ disk'[n] = disk[n]
    BY <1>3 DEF Active, Origin
  <2>2. /\ Scope(n)' = Scope(n)
        /\ proposal'[Origin(n)'].digest = proposal[Origin(n)].digest
    BY <2>1, ApprovalStays DEF Scope
  <2> QED BY <1>3, <2>1, <2>2 DEF Scoped
<1>4. CASE Run(n)
  <2> SUFFICES ASSUME Active(n)', build'[n].step # "plan", Origin(n)' # None
               PROVE  \/ \A f \in Paths \ (Scope(n) \cup Tidied) :
                           disk'[n][f] = proposal[Origin(n)].digest[f]
                      \/ build'[n].outcome = "failed"
    <3>1. Active(n)' => Origin(n)' = Origin(n)
      BY <1>4, BuildersTask
    <3>2. UNCHANGED proposal
      BY <1>4, BuildersTask
    <3> QED BY <3>1, <3>2 DEF Scoped, Scope
  <2>1. Active(n) /\ Origin(n) # None
    BY <1>4, BuildersTask
  <2>2. CASE OpenWorkspace(n) /\ disk'[n] = build[n].base
    BY <2>1, <2>2, ApprovalStays
  <2>3. CASE Write(n)
    <3>1. PICK f \in Scope(n), c \in Contents :
            disk'[n] = [disk[n] EXCEPT ![f] = c]
      BY <2>3, Written
    <3>2. build[n].step = "write" /\ build'[n].outcome = build[n].outcome
      BY <2>3, Written DEF Write
    <3>3. \A g \in Paths \ Scope(n) : disk'[n][g] = disk[n][g]
      BY <1>1, <3>1
    <3> QED BY <2>1, <3>2, <3>3 DEF Scoped
  <2>4. CASE /\ Validate(n)
             /\ \A f \in Paths \ Tidied : disk'[n][f] = disk[n][f]
             /\ build'[n] = [build[n] EXCEPT !.validating = TRUE,
                                             !.checked = disk'[n]]
    <3>1. build[n].step = "write" /\ build'[n].outcome = build[n].outcome
      BY <1>1, <2>4 DEF Validate, Building
    <3> QED BY <2>1, <2>4, <3>1 DEF Scoped
  <2>5. CASE /\ disk'[n] = disk[n] /\ build[n].step # "plan"
             /\ build'[n].outcome = build[n].outcome
    BY <2>1, <2>5 DEF Scoped
  <2>6. CASE Validated(n) /\ disk'[n] = disk[n]
    <3>1. PICK verdict : build'[n] = [build[n] EXCEPT !.validating = FALSE,
                                                      !.checks = verdict]
      BY <1>1, <2>6 DEF Validated
    <3>2. build[n].step = "write" /\ build'[n].outcome = build[n].outcome
      BY <1>1, <2>6, <3>1 DEF Validated, Building
    <3> QED BY <2>5, <2>6, <3>2
  <2>7. CASE /\ build[n].step = "write" /\ disk'[n] = disk[n]
             /\ build'[n] = [build[n] EXCEPT !.step = "close",
                               !.changed = FALSE, !.outcome = "complete"]
    BY <2>1, <2>7 DEF Scoped, Undecided
  <2>8. CASE build'[n] = Ended(n, "failed")
    BY <2>8, FailedBuild
  <2>9. CASE /\ build[n].step \in {"close", "state"} /\ disk'[n] = disk[n]
             /\ \E step \in {"state", "finish"} :
                  build'[n] = [build[n] EXCEPT !.step = step]
    <3>1. build'[n].outcome = build[n].outcome
      BY <1>1, <2>9 DEF Building
    <3> QED BY <2>5, <2>9, <3>1
  <2> QED BY <1>4, <2>2, <2>3, <2>4, <2>6, <2>7, <2>8, <2>9, BuildersFiles
<1> QED
  BY <1>2, <1>3, <1>4, BuildersOwn

\* While no tool runs beside validation, files that have been validated do
\* not change without the checks being forgotten.
LEMMA CheckedStep ==
  ASSUME ~ParallelTools, TypeOK, Held, [Next]_vars, NEW n \in Number,
         Undecided(n), Checked(n)
  PROVE  Checked(n)'
<1>1. build \in [Number -> Building] /\ build[n] \in Building
  BY DEF TypeOK
<1>2. CASE build'[n] = NoBuild \/ Begun(n)'
  BY <1>2, NothingWritten
<1>3. CASE build'[n] = build[n] /\ (Active(n) => disk'[n] = disk[n])
  BY <1>3 DEF Checked, Active
<1>4. CASE Run(n)
  <2>1. Active(n)
    BY <1>4, BuildersTask
  <2>2. CASE /\ OpenWorkspace(n)
             /\ build'[n] = [build[n] EXCEPT !.step = "write"]
    <3>1. /\ build[n].step = "plan" /\ build'[n].step = "write"
          /\ build'[n].checks = build[n].checks
          /\ build'[n].validating = build[n].validating
          /\ build'[n].outcome = build[n].outcome
      BY <1>1, <2>2 DEF OpenWorkspace, Building
    <3> QED BY <2>1, <3>1 DEF Checked
  <2>3. CASE Write(n)
    <3>1. /\ ~build[n].validating /\ build[n].step = "write"
          /\ build[n].outcome # "complete"
      BY <2>3 DEF Write, ToolFree, Undecided
    <3>2. /\ build'[n].checks = "none" /\ build'[n].step = "write"
          /\ ~build'[n].validating /\ build'[n].outcome # "complete"
      BY <2>3, <3>1, Written
    <3> QED BY <3>2 DEF Checked
  <2>4. CASE /\ Validate(n)
             /\ build'[n] = [build[n] EXCEPT !.validating = TRUE,
                                             !.checked = disk'[n]]
    <3>1. /\ build[n].step = "write" /\ build'[n].step = "write"
          /\ build'[n].checked = disk'[n]
          /\ build'[n].outcome = build[n].outcome
      BY <1>1, <2>4 DEF Validate, Building
    <3>2. build'[n].outcome = "none"
      BY <3>1 DEF Undecided
    <3> QED BY <3>1, <3>2 DEF Checked
  <2>5. CASE /\ Validated(n) /\ disk'[n] = disk[n]
             /\ \E verdict \in {"passed", "failed"} :
                  build'[n] = [build[n] EXCEPT !.validating = FALSE,
                                               !.checks = verdict]
    <3>1. /\ build[n].step = "write" /\ build'[n].step = "write"
          /\ build[n].validating
          /\ build'[n].checked = build[n].checked
          /\ build'[n].outcome = build[n].outcome
      BY <1>1, <2>5 DEF Validated, Building
    <3>2. build'[n].outcome = "none"
      BY <3>1 DEF Undecided
    <3> QED BY <2>1, <2>5, <3>1, <3>2 DEF Checked
  <2>6. CASE /\ build[n].step = "write" /\ ~build[n].validating
             /\ build[n].checks = "passed" /\ disk'[n] = disk[n]
             /\ build'[n] = [build[n] EXCEPT !.step = "close",
                               !.changed = FALSE, !.outcome = "complete"]
    <3>1. /\ build'[n].step = "close"
          /\ build'[n].checks = build[n].checks
          /\ build'[n].validating = build[n].validating
          /\ build'[n].checked = build[n].checked
      BY <1>1, <2>6 DEF Building
    <3> QED BY <2>1, <2>6, <3>1 DEF Checked
  <2>7. CASE build'[n] = Ended(n, "failed")
    BY <2>7, FailedBuild DEF Checked
  <2>8. CASE /\ build[n].step \in {"close", "state"} /\ disk'[n] = disk[n]
             /\ \E step \in {"state", "finish"} :
                  build'[n] = [build[n] EXCEPT !.step = step]
    <3>1. /\ build'[n].step # "plan"
          /\ build'[n].checks = build[n].checks
          /\ build'[n].validating = build[n].validating
          /\ build'[n].checked = build[n].checked
          /\ build'[n].outcome = build[n].outcome
      BY <1>1, <2>8 DEF Building
    <3> QED BY <2>1, <2>8, <3>1 DEF Checked
  <2>9. CASE ~Active(n)'
    BY <2>9 DEF Checked
  <2> QED BY <1>4, <2>2, <2>3, <2>4, <2>5, <2>6, <2>7, <2>8, <2>9,
             BuildersFiles
<1> QED
  BY <1>2, <1>3, <1>4, BuildersOwn

\* What is built stays within what was approved, and what a build has passed
\* is what is there.
LEMMA FilesInvariant ==
  /\ Spec => [](OutcomeLast /\ ScopeKept)
  /\ ~ParallelTools => (Spec => []ChecksCurrent)
<1>1. /\ OutcomeLast <=> \A n \in Number : Undecided(n)
      /\ ScopeKept <=> \A n \in Number : Scoped(n)
      /\ ChecksCurrent <=> \A n \in Number : Checked(n)
  BY DEF OutcomeLast, Undecided, ScopeKept, Scoped, ChecksCurrent, Checked
<1>2. Init => OutcomeLast /\ ScopeKept /\ ChecksCurrent
  <2> SUFFICES ASSUME Init PROVE OutcomeLast /\ ScopeKept /\ ChecksCurrent
    OBVIOUS
  <2>1. \A n \in Number : build[n].step = "none"
    BY DEF Init, NoBuild
  <2> QED BY <2>1 DEF OutcomeLast, ScopeKept, ChecksCurrent, Active
<1>3. TypeOK /\ Held /\ OutcomeLast /\ [Next]_vars => OutcomeLast'
  BY <1>1, UndecidedStep DEF OutcomeLast, Undecided
<1>4. TypeOK /\ Held /\ OutcomeLast /\ ScopeKept /\ [Next]_vars => ScopeKept'
  BY <1>1, ScopedStep DEF ScopeKept, Scoped
<1>5. ASSUME ~ParallelTools
      PROVE  TypeOK /\ Held /\ OutcomeLast /\ ChecksCurrent /\ [Next]_vars
               => ChecksCurrent'
  BY <1>1, <1>5, CheckedStep DEF ChecksCurrent, Checked
<1>6. Spec => [](OutcomeLast /\ ScopeKept)
  BY <1>2, <1>3, <1>4, Invariant, PTL DEF Spec
<1>7. ASSUME ~ParallelTools PROVE Spec => []ChecksCurrent
  BY <1>2, <1>5, <1>6, <1>7, Invariant, PTL DEF Spec
<1> QED BY <1>6, <1>7

\* ScopeKept: in a revision the files outside the approved paths are those of
\* the source it was approved on, whatever its user edits meanwhile.
THEOREM OnlyApprovedFiles == Spec => []ScopeKept
  BY FilesInvariant, PTL

\* ValidatedLast: while the SDK runs the tools of a step one by one, an
\* iteration becomes complete only with the files its checks have passed.
THEOREM CompleteIsValidated ==
  ASSUME ~ParallelTools
  PROVE  Spec => ValidatedLast
<1> DEFINE Seen ==
      \A n \in Number : ~Complete(n) /\ Complete(n)'
        => build[n].checks = "passed" /\ build[n].checked = disk[n]
<1>1. ASSUME TypeOK, Held, ChecksCurrent, [Next]_vars PROVE Seen
  <2> SUFFICES ASSUME NEW n \in Number, ~Complete(n), Complete(n)'
               PROVE  build[n].checks = "passed" /\ build[n].checked = disk[n]
    OBVIOUS
  <2>1. /\ iteration \in [Number -> Iteration] /\ count \in 0..MaxIterations
        /\ build \in [Number -> Building]
    BY <1>1 DEF TypeOK
  <2>2. ~(UNCHANGED iteration)
    BY DEF Complete
  <2>3. ASSUME NEW m \in Number, FinishIteration(m)
        PROVE  build[n].checks = "passed" /\ build[n].checked = disk[n]
    <3>1. /\ m = n /\ build[n].step = "finish"
          /\ build[n].outcome = "complete"
      BY <2>1, <2>3 DEF FinishIteration, Complete, Iteration
    <3> QED BY <1>1, <3>1 DEF ChecksCurrent, Active
  <2>4. ASSUME NEW m \in Number, FinishOperation(m) PROVE FALSE
    BY <2>1, <2>4 DEF FinishOperation, Complete, Iteration
  <2>5. ASSUME NEW r \in Requests, Handle(r) PROVE FALSE
    <3>1. CASE CreateIteration(r)
      BY <2>1, <3>1 DEF CreateIteration, Complete
    <3>2. CASE CreateOperation(r) \/ Abort(r)
      <4> DEFINE m == req[r].number
      <4>1. \/ iteration' = iteration
            \/ iteration' = [iteration EXCEPT ![m] =
                               [iteration[m] EXCEPT !.operation = "running"]]
            \/ iteration' = [iteration EXCEPT ![m] =
                               [iteration[m] EXCEPT !.status = "failed"]]
        BY <3>2 DEF CreateOperation, Abort
      <4> HIDE DEF m
      <4>2. \/ iteration'[n] = iteration[n]
            \/ iteration'[n] = [iteration[n] EXCEPT !.operation = "running"]
            \/ iteration'[n] = [iteration[n] EXCEPT !.status = "failed"]
        BY <2>1, <4>1
      <4>3. iteration[n] \in Iteration
        BY <2>1
      <4>4. iteration[n].status # "complete" /\ iteration'[n].status = "complete"
        BY DEF Complete
      <4> QED BY <4>2, <4>3, <4>4 DEF Iteration
    <3>3. CreateIteration(r) \/ CreateOperation(r) \/ Abort(r)
      BY <2>2, <2>5 DEF Handle, Load, ReadSource, Prepare, Spawn, Receipt,
                        Denied, rows
    <3> QED BY <3>1, <3>2, <3>3
  <2>6. ~Restart
    <3>1. ASSUME Restart PROVE FALSE
      BY <2>1, <3>1 DEF Restart, Complete, Iteration
    <3> QED BY <3>1
  <2>7. ASSUME NEW m \in Number, Run(m)
        PROVE  FinishOperation(m) \/ FinishIteration(m)
    BY <2>2, <2>7 DEF Run, OpenWorkspace, Write, Validate, Validated, Stop,
                      BuildFails, SetState, rows
  <2>8. \/ \E r \in Requests : Handle(r)
        \/ \E m \in Number : Run(m)
    BY <1>1, <2>2, <2>6 DEF Next, vars, rows, ChangeBrief, EditSource, Draft,
                            CreateRevision, Reject, Post, Approve
  <2> QED BY <2>3, <2>4, <2>5, <2>7, <2>8
<1>2. ASSUME TypeOK, Held, ChecksCurrent, [Next]_vars PROVE [Seen]_vars
  BY <1>1, <1>2
<1>3. Spec => []ChecksCurrent
  BY FilesInvariant
<1>4. Spec => [][Seen]_vars
  BY <1>2, <1>3, Invariant, PTL DEF Spec
<1> QED BY <1>4 DEF ValidatedLast
=============================================================================
