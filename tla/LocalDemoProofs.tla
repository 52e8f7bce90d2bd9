-------------------------- MODULE LocalDemoProofs --------------------------
(* Theorems about LocalDemo, for any sets of sessions, deployments and     *)
(* requests.                                                               *)
EXTENDS LocalDemo, FiniteSetTheorems, TLAPS

USE DEF rows, docker, work

\* The initial state is well typed.
LEMMA InitTyped == Init => TypeOK
  BY OwnerAssumption
  DEF Init, TypeOK, SessionState, RowStatus, WorkerStep, Item, NoItem,
      ItemStatus, Request, IdleRequest, Deletion, IdleDeletion

RowTyped == /\ status' \in [Deployments -> RowStatus]
            /\ error' \in [Deployments -> BOOLEAN]

\* A row is overwritten or left alone.
LEMMA SaveTyped ==
  ASSUME TypeOK, NEW d \in Deployments, NEW v \in RowStatus,
         NEW e \in BOOLEAN, Save(d, Row(v, e))
  PROVE  RowTyped
  BY DEF TypeOK, Save, Row, RowTyped

\* The same for the in-memory copy of a row.
LEMMA SaveItemTyped ==
  ASSUME TypeOK, NEW d \in Deployments, Save(d, item[d])
  PROVE  RowTyped
<1>1. /\ item[d].status \in RowStatus
      /\ item[d].error \in BOOLEAN
  BY DEF TypeOK, Item, ItemStatus, RowStatus
<1> QED
  BY <1>1 DEF TypeOK, Save, RowTyped

\* The error branch of startLocal.
LEMMA AbortTyped ==
  ASSUME TypeOK, NEW d \in Deployments, Abort(d)
  PROVE  /\ RowTyped
         /\ item' \in [Deployments -> Item]
         /\ pc' \in [Deployments -> WorkerStep]
<1>1. RowTyped
  BY SaveTyped DEF Abort, RowStatus
<1>2. Row("failed", TRUE) \in Item
  BY DEF Row, Item, ItemStatus
<1> QED
  BY <1>1, <1>2 DEF Abort, TypeOK, Goto, WorkerStep, HoldingStep

\* Requests keep the types.
LEMMA HandleTyped ==
  ASSUME TypeOK, NEW r \in Requests, Handle(r)
  PROVE  TypeOK'
<1> USE OwnerAssumption DEF TypeOK
<1>1. ASSUME NEW d \in Deployments, StartCheck(r, d) PROVE TypeOK'
  BY <1>1 DEF StartCheck, Request, RequestStep
<1>2. ASSUME NEW d \in Deployments, TokenCheck(r, d) PROVE TypeOK'
  BY <1>2 DEF TokenCheck, Request, RequestStep
<1>3. ASSUME req[r].step \in RequestStep
      PROVE  /\ req[r] \in [step : RequestStep, dep : Deployments]
             /\ req[r].dep \in Deployments
  BY <1>3 DEF Request, IdleRequest, RequestStep
<1>4. ASSUME Respond(r) PROVE req' \in [Requests -> Request]
  BY <1>4 DEF Respond, Request
<1>5. ASSUME req[r].step \in RequestStep, NEW step \in RequestStep,
             req' = [req EXCEPT ![r].step = step]
      PROVE  req' \in [Requests -> Request]
  BY <1>3, <1>5 DEF Request
<1>6. CASE StartCreate(r)
  <2>1. RowTyped
    BY <1>6, <1>3, SaveTyped DEF StartCreate, RowStatus, RequestStep
  <2> QED BY <1>6, <1>4, <2>1 DEF StartCreate, RowTyped
<1>7. CASE Claim(r)
  <2>1. req[r].dep \in Deployments
    BY <1>7, <1>3 DEF Claim, RequestStep
  <2>2. req' \in [Requests -> Request]
    <3>1. req[r].step \in RequestStep /\ "resolve" \in RequestStep
      BY <1>7 DEF Claim, RequestStep
    <3>2. CASE req' = [req EXCEPT ![r].step = "resolve"]
      BY <3>1, <3>2, <1>5
    <3>3. CASE Respond(r)
      BY <3>3, <1>4
    <3> QED BY <1>7, <3>2, <3>3 DEF Claim
  <2>3. RowTyped
    BY <1>7, <2>1 DEF Claim, RowTyped, RowStatus
  <2> QED BY <1>7, <2>2, <2>3 DEF Claim, RowTyped
<1>8. CASE ResolveFails(r) \/ RestoreToken(r)
  <2>1. RowTyped
    BY <1>8, <1>3, SaveTyped DEF ResolveFails, RestoreToken, RowStatus,
                                 RequestStep
  <2> QED BY <1>8, <1>4, <2>1 DEF ResolveFails, RestoreToken, RowTyped
<1>9. CASE Resolve(r) \/ SaveFails(r)
  BY <1>9, <1>5 DEF Resolve, SaveFails, RequestStep
<1>10. CASE Spawn(r)
  <2>1. req[r].dep \in Deployments
    BY <1>10, <1>3 DEF Spawn, RequestStep
  <2>2. /\ RowTyped
        /\ pc' \in [Deployments -> WorkerStep]
        /\ item' \in [Deployments -> Item]
    BY <1>10, <2>1 DEF Spawn, RowTyped, RowStatus, WorkerStep, Item, NoItem,
                       ItemStatus
  <2> QED BY <1>10, <1>4, <2>2 DEF Spawn, RowTyped
<1> QED
  BY <1>1, <1>2, <1>6, <1>7, <1>8, <1>9, <1>10 DEF Handle

\* Goroutines keep the types.
LEMMA WorkerTyped ==
  ASSUME TypeOK, NEW d \in Deployments, Worker(d)
  PROVE  TypeOK'
<1> USE OwnerAssumption DEF TypeOK
<1>1. ASSUME NEW step \in WorkerStep, Goto(d, step)
      PROVE  pc' \in [Deployments -> WorkerStep]
  BY <1>1 DEF Goto
<1>2. CASE \/ PreflightFails(d) \/ StopAbandoned(d) \/ ComposeFails(d)
           \/ \E e \in Deployments : StopFails(d, e)
  <2>1. /\ RowTyped
        /\ item' \in [Deployments -> Item]
        /\ pc' \in [Deployments -> WorkerStep]
    BY <1>2, AbortTyped DEF PreflightFails, StopAbandoned, ComposeFails,
                            StopFails
  <2>2. up' \in [Sessions -> BOOLEAN]
    BY <1>2 DEF PreflightFails, StopAbandoned, ComposeFails, StopFails
  <2> QED BY <1>2, <2>1, <2>2 DEF PreflightFails, StopAbandoned, ComposeFails,
                                  StopFails, RowTyped
<1>3. CASE Acquire(d) \/ Preflight(d) \/ List(d) \/ StopDone(d)
  BY <1>3 DEF Acquire, Preflight, List, Candidates, StopDone, Goto,
              WorkerStep, HoldingStep
<1>4. ASSUME NEW e \in Deployments, DownProject(d, e) \/ StopProject(d, e)
      PROVE  TypeOK'
  <2>1. CASE DownProject(d, e)
    BY <2>1 DEF DownProject
  <2>2. CASE StopProject(d, e)
    BY <2>2 DEF StopProject, SessionState
  <2> QED BY <1>4, <2>1, <2>2
<1>5. ASSUME NEW e \in Deployments, RecordStopped(d, e) PROVE TypeOK'
  BY <1>5 DEF RecordStopped, RowStatus
<1>6. CASE ComposeUp(d)
  BY <1>6 DEF ComposeUp
<1>7. CASE ComposeReady(d)
  <2>1. Row("verifying", FALSE) \in Item
    BY DEF Row, Item, ItemStatus
  <2> QED BY <1>7, <2>1 DEF ComposeReady, Goto, WorkerStep, HoldingStep
<1>8. CASE Announce(d) \/ Progress(d)
  <2>1. RowTyped
    BY <1>8, SaveItemTyped DEF Announce, Progress
  <2> QED BY <1>8, <2>1 DEF Announce, Progress, RowTyped, Goto, WorkerStep,
                            HoldingStep
<1>9. CASE Verify(d) \/ VerifyFails(d)
  <2>1. RowTyped
    BY <1>9, SaveTyped DEF Verify, VerifyFails, RowStatus
  <2>2. Row("verified", FALSE) \in Item /\ Row("running", TRUE) \in Item
    BY DEF Row, Item, ItemStatus
  <2>3. item' \in [Deployments -> Item]
    BY <1>9, <2>2 DEF Verify, VerifyFails
  <2>4. pc' \in [Deployments -> WorkerStep]
    BY <1>9 DEF Verify, VerifyFails, Goto, WorkerStep, HoldingStep
  <2> QED BY <1>9, <2>1, <2>3, <2>4 DEF Verify, VerifyFails, RowTyped
<1>10. CASE MarkRunning(d) \/ MarkVerified(d)
  BY <1>10 DEF MarkRunning, MarkVerified, SetState, SessionState, Goto,
               WorkerStep, HoldingStep
<1>11. CASE Finish(d)
  <2>1. RowTyped
    BY <1>11, SaveItemTyped DEF Finish
  <2>2. NoItem \in Item
    BY DEF NoItem, Item, ItemStatus
  <2> QED BY <1>11, <2>1, <2>2 DEF Finish, RowTyped, Goto, WorkerStep
<1> QED
  BY <1>2, <1>3, <1>4, <1>5, <1>6, <1>7, <1>8, <1>9, <1>10, <1>11 DEF Worker

\* The DELETE handler keeps the types.
LEMMA DeleteTyped ==
  ASSUME TypeOK, Delete
  PROVE  TypeOK'
<1> USE OwnerAssumption DEF TypeOK, DeleteStep, CleanupStep, IdleDeletion,
                            Deletion
<1>1. del.step # "idle" => del.ses \in Sessions
  OBVIOUS
<1>2. del.step # "idle"
  BY DEF Delete, DeleteAcquire, DeleteBegin, DeleteRefused, DeleteInspect,
         DeleteLocal, DeleteStack, RemoveFiles, RemoveConfig, CleanupFails,
         DropSession
<1>3. CASE DeleteAcquire \/ DeleteBegin \/ DeleteRefused \/ DeleteInspect
  BY <1>1, <1>2, <1>3 DEF DeleteAcquire, DeleteBegin, DeleteRefused,
                          DeleteInspect, Answer
<1>4. CASE DeleteLocal \/ DeleteStack \/ RemoveFiles \/ RemoveConfig
  BY <1>1, <1>2, <1>4 DEF DeleteLocal, DeleteStack, RemoveFiles, RemoveConfig
<1>5. CASE CleanupFails
  <2>1. up' \in [Sessions -> BOOLEAN]
    BY <1>5 DEF CleanupFails
  <2>2. files' \in [Sessions -> BOOLEAN]
    BY <1>5 DEF CleanupFails
  <2> QED BY <1>5, <2>1, <2>2 DEF CleanupFails, Answer
<1>6. CASE DropSession
  BY <1>1, <1>2, <1>6 DEF DropSession, Answer, RowStatus
<1> QED
  BY <1>3, <1>4, <1>5, <1>6 DEF Delete

\* Every step keeps the types.
LEMMA NextTyped == TypeOK /\ [Next]_vars => TypeOK'
<1> SUFFICES ASSUME TypeOK, [Next]_vars PROVE TypeOK'
  OBVIOUS
<1>1. ASSUME NEW r \in Requests, Handle(r) PROVE TypeOK'
  BY <1>1, HandleTyped
<1>2. ASSUME NEW d \in Deployments, Worker(d) PROVE TypeOK'
  BY <1>2, WorkerTyped
<1>3. ASSUME NEW s \in Sessions, DeleteRequest(s) \/ Rebuilt(s)
      PROVE  TypeOK'
  BY <1>3 DEF DeleteRequest, Rebuilt, TypeOK, Deletion, DeleteStep,
              SessionState
<1>4. CASE Delete
  BY <1>4, DeleteTyped
<1>5. CASE Restart
  BY <1>5 DEF Restart, TypeOK, RowStatus, WorkerStep, Item, NoItem,
              ItemStatus, Request, Deletion
<1>6. CASE UNCHANGED vars
  BY <1>6 DEF vars, TypeOK
<1> QED
  BY <1>1, <1>2, <1>3, <1>4, <1>5, <1>6 DEF Next

\* TypeOK holds in every reachable state.
THEOREM TypeCorrect == Spec => []TypeOK
  BY InitTyped, NextTyped, PTL DEF Spec

-----------------------------------------------------------------------------
(***************************************************************************)
(* Coordination: the lock, the gate and the claims, with or without store  *)
(* faults.                                                                 *)
(***************************************************************************)

\* The initial state is coordinated.
LEMMA InitCoordinated == Init => Coordination
  BY InitTyped, LockAssumption
  DEF Init, Coordination, CleanupMarked, StopsCandidates, LockHeld, GateHeld, RequestsApart,
      WorkersClaimed, NoWorkWhileDeleting, HoldingStep, CleanupStep, Claimed,
      EarlyStep, IdleRequest, IdleDeletion

\* What a request in progress is about.
LEMMA BusyRequest ==
  ASSUME TypeOK, NEW r \in Requests, req[r].step # "idle"
  PROVE  req[r].step \in RequestStep /\ req[r].dep \in Deployments
  BY DEF TypeOK, Request, IdleRequest

\* While a request is in progress there is no DELETE.
LEMMA BusyNoDelete ==
  ASSUME GateHeld, NEW r \in Requests, req[r].step # "idle"
  PROVE  del.step = "idle"
  BY DEF GateHeld

\* A request that has its row to itself answers: the others are unaffected.
LEMMA RespondApart ==
  ASSUME TypeOK, RequestsApart, NEW r \in Requests,
         req[r].step \in {"attach"} \cup Claimed, Respond(r),
         \A d \in Deployments \ {req[r].dep} :
           status'[d] = status[d] /\ pc'[d] = pc[d]
  PROVE  RequestsApart'
<1>1. \A q \in Requests : req'[q] = IF q = r THEN IdleRequest ELSE req[q]
  BY DEF Respond, TypeOK
<1>2. ASSUME NEW q \in Requests \ {r},
             req[q].step \in {"attach"} \cup Claimed
      PROVE  req[q].dep \in Deployments \ {req[r].dep}
  <2>1. req[q].step # "idle"
    BY <1>2 DEF Claimed
  <2>2. req[q].dep \in Deployments
    BY <1>2, <2>1, BusyRequest
  <2> QED BY <1>2, <2>2 DEF RequestsApart, Claimed
<1>3. IdleRequest.step \notin {"attach"} \cup Claimed
  BY DEF IdleRequest, Claimed
<1>4. SUFFICES ASSUME NEW q \in Requests,
                      req'[q].step \in {"attach"} \cup Claimed
               PROVE  RequestsApart!(q)'
  BY DEF RequestsApart
<1>5. q # r /\ req'[q] = req[q]
  BY <1>1, <1>3, <1>4
<1>6. /\ status'[req[q].dep] = status[req[q].dep]
      /\ pc'[req[q].dep] = pc[req[q].dep]
  BY <1>2, <1>4, <1>5
<1> QED
  BY <1>1, <1>3, <1>5, <1>6 DEF RequestsApart

\* A request that has claimed its row goes on.
LEMMA AdvanceApart ==
  ASSUME TypeOK, RequestsApart, NEW r \in Requests, req[r].step \in Claimed,
         NEW step \in Claimed, req' = [req EXCEPT ![r].step = step],
         UNCHANGED <<status, pc>>
  PROVE  /\ \A q \in Requests : /\ req'[q].dep = req[q].dep
                                /\ q # r => req'[q] = req[q]
         /\ req'[r].step = step
         /\ RequestsApart'
<1>1. req[r] \in [step : RequestStep, dep : Deployments]
  BY DEF TypeOK, Request, IdleRequest, Claimed
<1>2. /\ \A q \in Requests : q # r => req'[q] = req[q]
      /\ req'[r].step = step
      /\ req'[r].dep = req[r].dep
  BY <1>1 DEF TypeOK
<1>3. step # "attach" /\ req[r].step # "attach"
  BY DEF Claimed
<1> QED
  BY <1>2, <1>3 DEF RequestsApart

\* A row is saved: the others stay.
LEMMA SaveElsewhere ==
  ASSUME TypeOK, NEW d \in Deployments, NEW v \in RowStatus,
         NEW e \in BOOLEAN, Save(d, Row(v, e))
  PROVE  /\ \A x \in Deployments \ {d} : status'[x] = status[x]
         /\ status'[d] \in {v, status[d]}
  BY DEF TypeOK, Save, Row

\* A request only rewrites a row that is absent, waiting or claimed.
LEMMA HandleKeeps ==
  ASSUME TypeOK, RequestsApart, NEW r \in Requests, Handle(r),
         NEW d \in Deployments, Candidate(d)
  PROVE  status'[d] = status[d] /\ error'[d] = error[d]
<1>1. ASSUME req[r].step \in {"attach"} \cup Claimed
      PROVE  req[r].dep # d
  BY <1>1 DEF RequestsApart, Candidate
<1>2. CASE StartCreate(r) \/ ResolveFails(r) \/ RestoreToken(r) \/ Spawn(r)
  <2>1. req[r].dep # d
    BY <1>1, <1>2 DEF StartCreate, ResolveFails, RestoreToken, Spawn, Claimed
  <2> QED BY <1>2, <2>1 DEF StartCreate, ResolveFails, RestoreToken, Spawn,
                            Save, Row, TypeOK
<1>3. CASE Claim(r)
  BY <1>3 DEF Claim, Candidate, TypeOK
<1>4. CASE \/ \E e \in Deployments : StartCheck(r, e) \/ TokenCheck(r, e)
           \/ Resolve(r) \/ SaveFails(r)
  BY <1>4 DEF StartCheck, TokenCheck, Resolve, SaveFails
<1> QED
  BY <1>2, <1>3, <1>4 DEF Handle

\* Requests stay coordinated.
LEMMA HandleCoordinated ==
  ASSUME Coordination, NEW r \in Requests, Handle(r)
  PROVE  Coordination'
<1>1. /\ TypeOK /\ TypeOK'
      /\ LockHeld /\ GateHeld /\ RequestsApart /\ WorkersClaimed
      /\ StopsCandidates /\ NoWorkWhileDeleting /\ CleanupMarked
  BY HandleTyped DEF Coordination
<1>9. StopsCandidates'
  <2>1. ASSUME NEW d \in Deployments, Candidate(d) PROVE Candidate(d)'
    BY <1>1, <2>1, HandleKeeps DEF Candidate
  <2>2. /\ todo' = todo
        /\ \A d \in Deployments : pc'[d] = "stopping" => pc[d] = "stopping"
    BY <1>1 DEF Handle, StartCheck, TokenCheck, StartCreate, Claim,
       ResolveFails, Resolve, Spawn, SaveFails, RestoreToken, TypeOK
  <2> QED BY <1>1, <2>1, <2>2 DEF StopsCandidates, Candidates
<1> USE OwnerAssumption
<1>2. ASSUME NEW d \in Deployments, StartCheck(r, d) PROVE Coordination'
  <2>1. LockHeld' /\ WorkersClaimed' /\ CleanupMarked'
    BY <1>1, <1>2 DEF StartCheck, LockHeld, WorkersClaimed, CleanupMarked
  <2>2. GateHeld'
    BY <1>1, <1>2 DEF StartCheck, GateHeld, Admitted
  <2>3. RequestsApart'
    BY <1>1, <1>2 DEF StartCheck, RequestsApart, TypeOK, Claimed
  <2>4. NoWorkWhileDeleting'
    BY <1>1, <1>2 DEF StartCheck, NoWorkWhileDeleting, TypeOK, Admitted
  <2> QED BY <1>1, <1>9, <2>1, <2>2, <2>3, <2>4 DEF Coordination
<1>3. ASSUME NEW d \in Deployments, TokenCheck(r, d) PROVE Coordination'
  <2>1. LockHeld' /\ WorkersClaimed' /\ CleanupMarked'
    BY <1>1, <1>3 DEF TokenCheck, LockHeld, WorkersClaimed, CleanupMarked
  <2>2. GateHeld'
    BY <1>1, <1>3 DEF TokenCheck, GateHeld, Admitted
  <2>3. RequestsApart'
    BY <1>1, <1>3 DEF TokenCheck, RequestsApart, TypeOK, Claimed
  <2>4. NoWorkWhileDeleting'
    BY <1>1, <1>3 DEF TokenCheck, NoWorkWhileDeleting, TypeOK, Admitted
  <2> QED BY <1>1, <1>9, <2>1, <2>2, <2>3, <2>4 DEF Coordination
<1>4. CASE StartCreate(r)
  <2>1. LockHeld' /\ CleanupMarked'
    BY <1>1, <1>4 DEF StartCreate, LockHeld, CleanupMarked
  <2>2. req[r].dep \in Deployments /\ del.step = "idle"
    BY <1>1, <1>4, BusyRequest, BusyNoDelete DEF StartCreate
  <2>3. GateHeld'
    BY <1>1, <1>4, <2>2 DEF StartCreate, GateHeld
  <2>4. RequestsApart'
    BY <1>1, <1>4, <2>2, SaveElsewhere, RespondApart
    DEF StartCreate, RowStatus
  <2>5. WorkersClaimed'
    BY <1>1, <1>4, <2>2 DEF StartCreate, WorkersClaimed, RequestsApart,
                            TypeOK, Save, Row
  <2>6. NoWorkWhileDeleting'
    BY <1>1, <1>4, <2>2 DEF StartCreate, NoWorkWhileDeleting, TypeOK, Save,
                            Row, Respond, IdleRequest
  <2> QED BY <1>1, <1>9, <2>1, <2>3, <2>4, <2>5, <2>6 DEF Coordination
<1>5. CASE Claim(r)
  <2>1. LockHeld' /\ CleanupMarked'
    BY <1>1, <1>5 DEF Claim, LockHeld, CleanupMarked
  <2>2. req[r].dep \in Deployments /\ del.step = "idle"
    BY <1>1, <1>5, BusyRequest, BusyNoDelete DEF Claim
  <2>3. GateHeld'
    BY <1>1, <1>5, <2>2 DEF Claim, GateHeld
  <2>4. CASE Respond(r) /\ UNCHANGED status
    <3>1. WorkersClaimed'
      BY <1>1, <1>5, <2>4 DEF Claim, WorkersClaimed
    <3>2. RequestsApart'
      BY <1>1, <1>5, <2>2, <2>4 DEF Claim, RequestsApart, TypeOK, Claimed,
                                    Respond, IdleRequest
    <3>3. NoWorkWhileDeleting'
      BY <1>1, <1>5, <2>2, <2>4 DEF Claim, NoWorkWhileDeleting, TypeOK,
                                    Respond, IdleRequest
    <3> QED BY <1>1, <1>9, <2>1, <2>3, <3>1, <3>2, <3>3 DEF Coordination
  <2>5. CASE /\ status[req[r].dep] = "needs_token"
             /\ status' = [status EXCEPT ![req[r].dep] = "starting"]
             /\ req' = [req EXCEPT ![r].step = "resolve"]
    <3>1. WorkersClaimed'
      BY <1>1, <1>5, <2>2, <2>5 DEF Claim, WorkersClaimed, TypeOK
    <3>2. pc[req[r].dep] = "none"
      BY <1>1, <2>2, <2>5 DEF WorkersClaimed
    <3>3. RequestsApart'
      BY <1>1, <1>5, <2>2, <2>5, <3>2 DEF Claim, RequestsApart, TypeOK,
                                          Claimed
    <3>4. NoWorkWhileDeleting'
      BY <1>1, <1>5, <2>2, <2>5 DEF Claim, NoWorkWhileDeleting, TypeOK
    <3> QED BY <1>1, <1>9, <2>1, <2>3, <3>1, <3>3, <3>4 DEF Coordination
  <2> QED BY <1>5, <2>4, <2>5 DEF Claim
<1>6. CASE ResolveFails(r) \/ RestoreToken(r)
  <2>1. LockHeld' /\ CleanupMarked'
    BY <1>1, <1>6 DEF ResolveFails, RestoreToken, LockHeld, CleanupMarked
  <2>2. /\ req[r].dep \in Deployments /\ del.step = "idle"
        /\ req[r].step \in Claimed
    BY <1>1, <1>6, BusyRequest, BusyNoDelete DEF ResolveFails, RestoreToken,
                                                 Claimed
  <2>3. GateHeld'
    BY <1>1, <1>6, <2>2 DEF ResolveFails, RestoreToken, GateHeld
  <2>4. RequestsApart'
    BY <1>1, <1>6, <2>2, SaveElsewhere, RespondApart
    DEF ResolveFails, RestoreToken, RowStatus
  <2>5. WorkersClaimed'
    BY <1>1, <1>6, <2>2 DEF ResolveFails, RestoreToken, WorkersClaimed,
                            RequestsApart, TypeOK, Save, Row, EarlyStep
  <2>6. NoWorkWhileDeleting'
    <3>1. \A x \in Deployments :
            status'[x] \in {status[x], "needs_token"} /\ pc'[x] = pc[x]
      BY <1>1, <1>6, <2>2, SaveElsewhere
      DEF ResolveFails, RestoreToken, RowStatus
    <3>2. \A q \in Requests : req'[q] \in {req[q], IdleRequest}
      BY <1>1, <1>6 DEF ResolveFails, RestoreToken, Respond, TypeOK
    <3>3. UNCHANGED marker
      BY <1>6 DEF ResolveFails, RestoreToken
    <3> QED BY <1>1, <3>1, <3>2, <3>3 DEF NoWorkWhileDeleting, IdleRequest
  <2> QED BY <1>1, <1>9, <2>1, <2>3, <2>4, <2>5, <2>6 DEF Coordination
<1>7. CASE Resolve(r) \/ SaveFails(r)
  <2>1. LockHeld' /\ CleanupMarked' /\ WorkersClaimed'
    BY <1>1, <1>7 DEF Resolve, SaveFails, LockHeld, CleanupMarked,
                      WorkersClaimed
  <2>2. /\ req[r].dep \in Deployments /\ del.step = "idle"
        /\ req[r].step \in Claimed
    BY <1>1, <1>7, BusyRequest, BusyNoDelete DEF Resolve, SaveFails, Claimed
  <2>3. GateHeld'
    BY <1>1, <1>7, <2>2 DEF Resolve, SaveFails, GateHeld
  <2>4. /\ RequestsApart'
        /\ \A q \in Requests : /\ req'[q].dep = req[q].dep
                               /\ q # r => req'[q] = req[q]
    BY <1>1, <1>7, <2>2, AdvanceApart DEF Resolve, SaveFails, Claimed
  <2>5. NoWorkWhileDeleting'
    BY <1>1, <1>7, <2>2, <2>4 DEF Resolve, SaveFails, NoWorkWhileDeleting,
                                  Claimed
  <2> QED BY <1>1, <1>9, <2>1, <2>3, <2>4, <2>5 DEF Coordination
<1>8. CASE Spawn(r)
  <2>1. CleanupMarked'
    BY <1>1, <1>8 DEF Spawn, CleanupMarked
  <2>2. /\ req[r].dep \in Deployments /\ del.step = "idle"
        /\ req[r].step \in Claimed
    BY <1>1, <1>8, BusyRequest, BusyNoDelete DEF Spawn, Claimed
  <2>3. GateHeld'
    BY <1>1, <1>8, <2>2 DEF Spawn, GateHeld
  <2>4. RequestsApart'
    BY <1>1, <1>8, <2>2 DEF Spawn, RequestsApart, TypeOK, Claimed, Respond,
                            IdleRequest
  <2>5. WorkersClaimed'
    BY <1>1, <1>8, <2>2 DEF Spawn, WorkersClaimed, TypeOK
  <2>6. LockHeld'
    BY <1>1, <1>8, <2>2 DEF Spawn, LockHeld, RequestsApart, TypeOK,
                            HoldingStep
  <2>7. NoWorkWhileDeleting'
    BY <1>1, <1>8, <2>2 DEF Spawn, NoWorkWhileDeleting, TypeOK, Respond,
                            IdleRequest, Claimed
  <2> QED BY <1>1, <1>9, <2>1, <2>3, <2>4, <2>5, <2>6, <2>7 DEF Coordination
<1> QED
  BY <1>2, <1>3, <1>4, <1>5, <1>6, <1>7, <1>8 DEF Handle

\* What a step of the goroutine of d must show: it takes, holds or releases
\* localMu, and it touches another row only to record that it was stopped.
LEMMA WorkerKeeps ==
  ASSUME Coordination, TypeOK', NEW d \in Deployments,
         UNCHANGED <<req, del, marker>>,
         \/ pc[d] \in HoldingStep
         \/ pc[d] = "waiting" /\ lock = None,
         lock' = IF pc'[d] \in HoldingStep THEN d ELSE None,
         \A x \in Deployments \ {d} :
           /\ pc'[x] = pc[x]
           /\ \/ status'[x] = status[x]
              \/ Candidate(x) /\ status'[x] = "interrupted",
         pc'[d] \in EarlyStep => status'[d] = "starting",
         status'[d] \notin {"absent", "needs_token"},
         pc'[d] = "stopping" => \A e \in todo'[d] : Candidate(e)'
  PROVE  Coordination'
<1>1. /\ TypeOK
      /\ LockHeld /\ GateHeld /\ RequestsApart /\ WorkersClaimed
      /\ StopsCandidates /\ NoWorkWhileDeleting /\ CleanupMarked
  BY DEF Coordination
<1>2. lock \in {d, None}
  BY <1>1 DEF LockHeld
<1>3. pc[d] # "none"
  BY DEF HoldingStep
<1>4. \A x \in Deployments \ {d} : pc'[x] \notin HoldingStep
  BY <1>1, <1>2, LockAssumption DEF LockHeld
<1>5. LockHeld'
  BY <1>1, <1>2, <1>4, LockAssumption DEF LockHeld
<1>6. GateHeld' /\ CleanupMarked'
  BY <1>1 DEF GateHeld, CleanupMarked
<1>7. StopsCandidates'
  <2>1. "stopping" \in HoldingStep
    BY DEF HoldingStep
  <2>2. ASSUME NEW x \in Deployments, pc'[x] = "stopping" PROVE x = d
    BY <1>4, <2>1, <2>2
  <2>3. todo'[d] \subseteq Deployments
    BY DEF TypeOK
  <2> QED BY <2>2, <2>3 DEF StopsCandidates, Candidates
<1>8. RequestsApart'
  <2>1. ASSUME NEW x \in Deployments, status[x] = "absent"
        PROVE  status'[x] = status[x]
    BY <1>1, <1>3, <2>1 DEF WorkersClaimed, Candidate
  <2>2. ASSUME NEW x \in Deployments, status[x] = "starting",
               pc[x] = "none"
        PROVE  status'[x] = status[x] /\ pc'[x] = pc[x]
    BY <1>3, <2>2 DEF Candidate
  <2>3. ASSUME NEW q \in Requests,
               req[q].step \in {"attach"} \cup Claimed
        PROVE  req[q].dep \in Deployments
    BY <1>1, <2>3, BusyRequest DEF Claimed
  <2> QED BY <1>1, <2>1, <2>2, <2>3 DEF RequestsApart
<1>9. WorkersClaimed'
  BY <1>1, <1>3 DEF WorkersClaimed, Candidate, EarlyStep
<1>10. NoWorkWhileDeleting'
  BY <1>1, <1>3 DEF NoWorkWhileDeleting
<1> QED
  BY <1>1, <1>5, <1>6, <1>7, <1>8, <1>9, <1>10 DEF Coordination

\* Goroutines stay coordinated.
LEMMA WorkerCoordinated ==
  ASSUME Coordination, NEW d \in Deployments, Worker(d)
  PROVE  Coordination'
<1>1. /\ TypeOK /\ TypeOK' /\ LockHeld /\ WorkersClaimed /\ StopsCandidates
      /\ pc[d] \in HoldingStep => lock = d
  BY WorkerTyped DEF Coordination, LockHeld
<1>2. /\ pc[d] # "none" => status[d] \notin {"absent", "needs_token"}
      /\ pc[d] \in EarlyStep => status[d] = "starting"
  BY <1>1 DEF WorkersClaimed
<1> USE DEF TypeOK, HoldingStep, EarlyStep, Goto
<1>3. CASE \/ PreflightFails(d) \/ StopAbandoned(d) \/ ComposeFails(d)
           \/ \E e \in Deployments : StopFails(d, e)
  <2>1. /\ pc' = [pc EXCEPT ![d] = "finish"]
        /\ Save(d, Row("failed", TRUE))
        /\ pc[d] \in HoldingStep
        /\ UNCHANGED <<req, del, marker, lock>>
    BY <1>3 DEF PreflightFails, StopAbandoned, ComposeFails, StopFails, Abort
  <2>2. /\ \A x \in Deployments \ {d} : status'[x] = status[x]
        /\ status'[d] \in {"failed", status[d]}
    BY <1>1, <2>1, SaveElsewhere DEF RowStatus
  <2> QED BY <1>1, <1>2, <2>1, <2>2, WorkerKeeps
<1>4. CASE Acquire(d) \/ Preflight(d) \/ StopDone(d)
  BY <1>1, <1>2, <1>4, WorkerKeeps DEF Acquire, Preflight, StopDone
<1>5. CASE List(d)
  BY <1>1, <1>2, <1>5, WorkerKeeps DEF List, Candidates, Candidate
<1>6. ASSUME NEW e \in Deployments, DownProject(d, e) \/ StopProject(d, e)
      PROVE  Coordination'
  <2>1. /\ pc[d] = "stopping"
        /\ UNCHANGED <<status, error, pc, lock, todo, req, del, marker>>
    BY <1>6 DEF DownProject, StopProject
  <2> QED BY <1>1, <1>2, <2>1, WorkerKeeps DEF StopsCandidates, Candidates,
                                               Candidate
<1>7. ASSUME NEW e \in Deployments, RecordStopped(d, e) PROVE Coordination'
  <2>1. Candidate(e) /\ \A x \in todo[d] : Candidate(x)
    BY <1>1, <1>7 DEF RecordStopped, StopsCandidates, Candidates
  <2>2. e # d
    BY <1>2, <1>7, <2>1 DEF RecordStopped, Candidate
  <2> QED BY <1>1, <1>2, <1>7, <2>1, <2>2, WorkerKeeps DEF RecordStopped,
                                                           Candidate
<1>8. CASE ComposeUp(d) \/ ComposeReady(d)
  <2>1. CASE ComposeUp(d)
    BY <1>1, <1>2, <2>1, WorkerKeeps DEF ComposeUp
  <2>2. CASE ComposeReady(d)
    BY <1>1, <1>2, <2>2, WorkerKeeps DEF ComposeReady
  <2> QED BY <1>8, <2>1, <2>2
<1>9. CASE Announce(d) \/ Progress(d) \/ Finish(d)
  <2>1. item[d].status \notin {"absent", "needs_token"}
    BY <1>1 DEF Item, ItemStatus
  <2>2. /\ \A x \in Deployments \ {d} : status'[x] = status[x]
        /\ status'[d] \notin {"absent", "needs_token"}
    BY <1>1, <1>2, <1>9, <2>1 DEF Announce, Progress, Finish, Save
  <2> QED BY <1>1, <1>2, <1>9, <2>2, WorkerKeeps DEF Announce, Progress,
                                                     Finish, work
<1>10. CASE MarkRunning(d) \/ MarkVerified(d)
  BY <1>1, <1>2, <1>10, WorkerKeeps DEF MarkRunning, MarkVerified
<1>11. CASE Verify(d) \/ VerifyFails(d)
  <2>1. /\ \A x \in Deployments \ {d} : status'[x] = status[x]
        /\ status'[d] \in {"verified", "running", status[d]}
    BY <1>1, <1>11, SaveElsewhere DEF Verify, VerifyFails, RowStatus
  <2>2. /\ pc[d] = "verify"
        /\ pc' = [pc EXCEPT ![d] = IF Verify(d) THEN "markVerified"
                                               ELSE "finish"]
        /\ UNCHANGED <<req, del, marker, lock>>
    BY <1>11 DEF Verify, VerifyFails
  <2> QED BY <1>1, <1>2, <2>1, <2>2, WorkerKeeps
<1> QED
  BY <1>3, <1>4, <1>5, <1>6, <1>7, <1>8, <1>9, <1>10, <1>11 DEF Worker

\* The DELETE handler stays coordinated.
LEMMA DeleteCoordinated ==
  ASSUME Coordination, Delete
  PROVE  Coordination'
<1>1. /\ TypeOK /\ TypeOK'
      /\ LockHeld /\ GateHeld /\ RequestsApart /\ WorkersClaimed
      /\ StopsCandidates /\ NoWorkWhileDeleting /\ CleanupMarked
  BY DeleteTyped DEF Coordination
<1> USE OwnerAssumption, LockAssumption DEF CleanupStep
<1>2. del.step \in DeleteStep /\ del.ses \in Sessions
  BY <1>1 DEF Delete, DeleteAcquire, DeleteBegin, DeleteRefused,
     DeleteInspect, DeleteLocal, DeleteStack, RemoveFiles, RemoveConfig,
     CleanupFails, DropSession, TypeOK, Deletion, IdleDeletion, DeleteStep
<1>3. del.step # "idle" /\ \A r \in Requests : req[r].step = "idle"
  BY <1>1, <1>2 DEF GateHeld, DeleteStep
<1>4. UNCHANGED <<req, pc, todo>>
  BY DEF Delete, DeleteAcquire, DeleteBegin, DeleteRefused, DeleteInspect,
     DeleteLocal, DeleteStack, RemoveFiles, RemoveConfig, CleanupFails,
     DropSession, Answer
<1>5. RequestsApart' /\ GateHeld'
  BY <1>3, <1>4 DEF RequestsApart, GateHeld, Claimed
<1>6. \A d \in Deployments : pc[d] \notin HoldingStep
  BY <1>1 DEF LockHeld, Delete, DeleteAcquire, DeleteBegin, DeleteRefused,
     DeleteInspect, DeleteLocal, DeleteStack, RemoveFiles, RemoveConfig,
     CleanupFails, DropSession
<1>7. StopsCandidates'
  BY <1>4, <1>6 DEF StopsCandidates, HoldingStep
<1>8. CASE UNCHANGED <<status, marker>>
  <2>1. NoWorkWhileDeleting' /\ WorkersClaimed'
    BY <1>1, <1>4, <1>8 DEF NoWorkWhileDeleting, WorkersClaimed
  <2>2. \/ /\ del' = [del EXCEPT !.step = "begin"]
           /\ lock' = Deleter
        \/ /\ del.step \in CleanupStep /\ lock' = lock
           /\ \E step \in CleanupStep : del' = [del EXCEPT !.step = step]
        \/ Answer
        \/ DeleteBegin
    BY <1>8 DEF Delete, DeleteAcquire, DeleteRefused, DeleteInspect,
       DeleteLocal, DeleteStack, RemoveFiles, RemoveConfig, CleanupFails,
       DropSession
  <2>3. CASE DeleteBegin
    <3>1. marker[del.ses]
      BY <1>1, <1>2, <1>8, <2>3 DEF DeleteBegin, TypeOK
    <3>2. del.step = "begin" /\ del' = [del EXCEPT !.step = "inspect"]
          /\ lock' = lock
      BY <2>3 DEF DeleteBegin
    <3>3. del'.step = "inspect" /\ del'.ses = del.ses
      BY <1>1, <1>2, <3>2 DEF TypeOK, Deletion, IdleDeletion
    <3>4. LockHeld' /\ CleanupMarked'
      BY <1>1, <1>4, <1>6, <1>8, <3>1, <3>2, <3>3 DEF LockHeld, CleanupMarked
    <3> QED BY <1>1, <1>5, <1>7, <2>1, <3>4 DEF Coordination
  <2>4. CASE Answer
    BY <1>1, <1>4, <1>5, <1>6, <1>7, <2>1, <2>4
    DEF Answer, IdleDeletion, LockHeld, CleanupMarked, Coordination
  <2>5. CASE del' = [del EXCEPT !.step = "begin"] /\ lock' = Deleter
    <3>1. del'.step = "begin"
      BY <1>1, <1>2, <2>5 DEF TypeOK, Deletion, IdleDeletion
    <3>2. LockHeld' /\ CleanupMarked'
      BY <1>1, <1>4, <1>6, <2>5, <3>1 DEF LockHeld, CleanupMarked
    <3> QED BY <1>1, <1>5, <1>7, <2>1, <3>2 DEF Coordination
  <2>6. ASSUME del.step \in CleanupStep, lock' = lock,
               NEW step \in CleanupStep, del' = [del EXCEPT !.step = step]
        PROVE  Coordination'
    <3>1. del'.step = step /\ del'.ses = del.ses
      BY <1>1, <1>2, <2>6 DEF TypeOK, Deletion, IdleDeletion
    <3>2. LockHeld' /\ CleanupMarked'
      BY <1>1, <1>4, <1>6, <1>8, <2>6, <3>1 DEF LockHeld, CleanupMarked
    <3> QED BY <1>1, <1>5, <1>7, <2>1, <3>2 DEF Coordination
  <2> QED BY <2>2, <2>3, <2>4, <2>5, <2>6
<1>9. CASE DeleteBegin
  <2>1. /\ marker' = [marker EXCEPT ![del.ses] = TRUE]
        /\ UNCHANGED <<status, lock>>
        /\ del.step = "begin" /\ del' = [del EXCEPT !.step = "inspect"]
        /\ \A d \in RowsOf(del.ses) : status[d] \notin {"starting", "verifying"}
    BY <1>9 DEF DeleteBegin
  <2>2. del'.step = "inspect" /\ del'.ses = del.ses
    BY <1>1, <1>2, <2>1 DEF TypeOK, Deletion, IdleDeletion
  <2>3. LockHeld' /\ CleanupMarked' /\ WorkersClaimed'
    BY <1>1, <1>2, <1>4, <1>6, <2>1, <2>2 DEF LockHeld, CleanupMarked, TypeOK,
                                             WorkersClaimed
  <2>4. ASSUME NEW d \in Deployments, Owner[d] = del.ses
        PROVE  status[d] \notin {"starting", "verifying"} /\ pc[d] = "none"
    <3>1. status[d] \notin {"starting", "verifying"}
      BY <2>1, <2>4 DEF RowsOf
    <3>2. pc[d] \notin EarlyStep
      BY <1>1, <3>1 DEF WorkersClaimed
    <3> QED BY <1>1, <1>6, <3>1, <3>2 DEF TypeOK, WorkerStep, EarlyStep
  <2>5. NoWorkWhileDeleting'
    BY <1>1, <1>2, <1>3, <1>4, <2>1, <2>4 DEF NoWorkWhileDeleting, TypeOK
  <2> QED BY <1>1, <1>5, <1>7, <2>3, <2>5 DEF Coordination
<1>10. CASE DropSession
  <2>1. marker[del.ses]
    BY <1>1, <1>10 DEF DropSession, CleanupMarked
  <2>2. \A d \in Deployments : Owner[d] = del.ses => pc[d] = "none"
    BY <1>1, <1>2, <2>1 DEF NoWorkWhileDeleting
  <2>3. \A d \in Deployments :
          status'[d] = IF Owner[d] = del.ses THEN "absent" ELSE status[d]
    BY <1>10 DEF DropSession
  <2>4. WorkersClaimed'
    BY <1>1, <1>4, <2>2, <2>3 DEF WorkersClaimed, EarlyStep
  <2>5. NoWorkWhileDeleting'
    BY <1>1, <1>2, <1>4, <1>10, <2>3 DEF DropSession, NoWorkWhileDeleting,
                                         TypeOK
  <2>6. LockHeld' /\ CleanupMarked'
    BY <1>4, <1>6, <1>10 DEF DropSession, Answer, IdleDeletion, LockHeld,
                             CleanupMarked
  <2> QED BY <1>1, <1>5, <1>7, <2>4, <2>5, <2>6 DEF Coordination
<1> QED
  BY <1>8, <1>9, <1>10 DEF Delete, DeleteAcquire, DeleteRefused,
     DeleteInspect, DeleteLocal, DeleteStack, RemoveFiles, RemoveConfig,
     CleanupFails

\* Every step keeps the coordination of requests, goroutines and DELETE.
LEMMA NextCoordinated == Coordination /\ [Next]_vars => Coordination'
<1> SUFFICES ASSUME Coordination, [Next]_vars PROVE Coordination'
  OBVIOUS
<1>1. ASSUME NEW r \in Requests, Handle(r) PROVE Coordination'
  BY <1>1, HandleCoordinated
<1>2. ASSUME NEW d \in Deployments, Worker(d) PROVE Coordination'
  BY <1>2, WorkerCoordinated
<1>3. CASE Delete
  BY <1>3, DeleteCoordinated
<1>4. TypeOK /\ TypeOK'
  BY NextTyped DEF Coordination
<1>5. ASSUME NEW s \in Sessions, DeleteRequest(s) PROVE Coordination'
  BY <1>4, <1>5 DEF DeleteRequest, Coordination, LockHeld, GateHeld,
     RequestsApart, WorkersClaimed, StopsCandidates, Candidates, Candidate,
     CleanupMarked, CleanupStep, NoWorkWhileDeleting
<1>6. CASE UNCHANGED vars \/ \E s \in Sessions : Rebuilt(s)
  BY <1>4, <1>6 DEF Rebuilt, vars, Coordination, LockHeld, GateHeld,
     RequestsApart, WorkersClaimed, StopsCandidates, Candidates, Candidate,
     CleanupMarked, NoWorkWhileDeleting
<1>7. CASE Restart
  <2>1. /\ LockHeld' /\ GateHeld' /\ RequestsApart' /\ StopsCandidates'
        /\ WorkersClaimed' /\ CleanupMarked'
    BY <1>7, LockAssumption
    DEF Restart, LockHeld, GateHeld, RequestsApart, WorkersClaimed,
        StopsCandidates, CleanupMarked, CleanupStep, HoldingStep, EarlyStep,
        Claimed, IdleRequest, IdleDeletion
  <2>2. NoWorkWhileDeleting'
    BY <1>4, <1>7 DEF Restart, NoWorkWhileDeleting, IdleRequest
  <2> QED BY <1>4, <2>1, <2>2 DEF Coordination
<1> QED
  BY <1>1, <1>2, <1>3, <1>5, <1>6, <1>7 DEF Next

\* Requests, goroutines and the DELETE handler are coordinated by the lock,
\* the gate and the claims, whatever the store does.
THEOREM Coordinated == Spec => []Coordination
  BY InitCoordinated, NextCoordinated, PTL DEF Spec

\* NoWorkWhileDeleting: the deletion marker keeps every start out.
THEOREM DeletionExcludesWork == Spec => []NoWorkWhileDeleting
<1>1. Coordination => NoWorkWhileDeleting
  BY DEF Coordination
<1> QED
  BY <1>1, Coordinated, PTL

\* ClaimedOnce: a waiting deployment is started by one request at a time.
THEOREM OneClaim == Spec => []ClaimedOnce
<1>1. Coordination => ClaimedOnce
  <2> SUFFICES ASSUME Coordination, NEW d \in Deployments
               PROVE  Cardinality(Actors(d)) <= 1
    BY DEF ClaimedOnce
  <2>1. RequestsApart
    BY DEF Coordination
  <2>2. Actors(d) = {} \/ \E x : Actors(d) = {x}
    <3>1. CASE pc[d] # "none"
      BY <2>1, <3>1 DEF Actors, RequestsApart, Claimed
    <3>2. CASE pc[d] = "none"
      <4> DEFINE Claiming(r) == req[r].step \in Claimed /\ req[r].dep = d
      <4>1. Actors(d) = {r \in Requests : Claiming(r)}
        BY <3>2 DEF Actors, Claimed
      <4>2. \A r, q \in Requests : Claiming(r) /\ Claiming(q) => q = r
        BY <2>1 DEF RequestsApart
      <4> HIDE DEF Claiming
      <4>3. CASE \E r \in Requests : Claiming(r)
        <5>1. PICK r \in Requests : Claiming(r)
          BY <4>3
        <5>2. Actors(d) = {r}
          BY <4>1, <4>2, <5>1
        <5> QED BY <5>2
      <4> QED BY <4>1, <4>3
    <3> QED BY <3>1, <3>2
  <2> QED BY <2>2, FS_EmptySet, FS_Singleton
<1> QED
  BY <1>1, Coordinated, PTL

-----------------------------------------------------------------------------
(***************************************************************************)
(* Coverage: what stopActiveLocalDeployment can see, provided the writes   *)
(* of the store succeed.                                                   *)
(***************************************************************************)
Reliable == StoreFaults = FALSE

IInv == Coordination /\ Coverage

\* Nothing is up initially.
LEMMA InitCovered == Init => Coverage
  BY LockAssumption
  DEF Init, Coverage, WorkersCovered, StopsAll, CleanupStops, NothingOrphaned,
      OneDemo, HoldingStep, IdleDeletion

\* What a step of the goroutine of d must show: it leaves the candidates of
\* other sessions alone unless nothing is up, keeps its own row visible
\* once containers may be up, and brings them up only while composing.
LEMMA WorkerCovers ==
  ASSUME Coordination, Coverage, TypeOK', NEW d \in Deployments,
         del' = del,
         \/ pc[d] \in HoldingStep
         \/ pc[d] = "waiting" /\ lock = None,
         \A x \in Deployments \ {d} :
           /\ pc'[x] = pc[x]
           /\ Candidate(x) => Candidate(x)' \/ ~up[Owner[x]],
         \A s \in Sessions : up'[s] =>
           up[s] \/ (s = Owner[d] /\ pc[d] = "composing"),
         pc'[d] \in {"announce", "mark", "verify"} =>
           item'[d].status = "verifying",
         pc'[d] \in HoldingStep \ EarlyStep => Candidate(d)',
         pc'[d] \in {"markVerified", "finish"} =>
           item'[d].status \in {"failed", "running", "verified"},
         pc'[d] = "stopping" => /\ todo'[d] = Candidates'
                                /\ \A s \in halted'[d] : ~up'[s],
         pc'[d] \in {"composing", "announce"} => Candidates' = {},
         pc[d] \in HoldingStep \ {"preflight", "listing", "stopping"} =>
           \/ Candidate(d)'
           \/ /\ lock' = d /\ pc'[d] \in {"composing", "announce"}
              /\ status'[d] = "starting"
  PROVE  Coverage'
<1>1. /\ TypeOK /\ LockHeld /\ WorkersClaimed
      /\ WorkersCovered /\ StopsAll /\ CleanupStops /\ NothingOrphaned
      /\ OneDemo
  BY DEF Coordination, Coverage
<1>2. lock \in {d, None}
  BY <1>1 DEF LockHeld
<1>3. \A x \in Deployments \ {d} : pc[x] \notin HoldingStep
                                   /\ pc'[x] \notin HoldingStep
  BY <1>1, <1>2, LockAssumption DEF LockHeld
<1>4. WorkersCovered' /\ StopsAll'
  BY <1>3 DEF WorkersCovered, StopsAll, HoldingStep
<1>5. CleanupStops'
  BY <1>1, <1>2, LockAssumption DEF CleanupStops, LockHeld, CleanupStep
<1>6. \A s \in Sessions : InHand(s) =>
        s = Owner[d] /\ pc[d] \in {"composing", "announce"}
  BY <1>1, <1>2, LockAssumption DEF InHand
<1>7. NothingOrphaned'
  <2> SUFFICES ASSUME NEW s \in Sessions, up'[s]
               PROVE  InHand(s)' \/ \E x \in Deployments :
                                     Owner[x] = s /\ Candidate(x)'
    BY DEF NothingOrphaned
  <2>1. CASE /\ s = Owner[d]
             /\ pc[d] \in HoldingStep \ {"preflight", "listing", "stopping"}
    BY <2>1 DEF InHand
  <2>2. CASE up[s] /\ ~(/\ s = Owner[d]
                        /\ pc[d] \in HoldingStep \
                                    {"preflight", "listing", "stopping"})
    <3>1. PICK x \in Deployments : Owner[x] = s /\ Candidate(x)
      BY <1>1, <1>6, <2>2 DEF NothingOrphaned, HoldingStep
    <3>2. x # d
      BY <1>1, <2>2, <3>1 DEF WorkersClaimed, Candidate, EarlyStep,
                              HoldingStep
    <3> QED BY <2>2, <3>1, <3>2
  <2> QED BY <2>1, <2>2 DEF HoldingStep
<1>8. OneDemo'
  <2>1. CASE pc[d] = "composing"
    <3>1. \A s \in Sessions : up[s] => s = Owner[d]
      BY <1>1, <1>6, <2>1 DEF NothingOrphaned, StopsAll, Candidates
    <3> QED BY <3>1 DEF OneDemo
  <2>2. CASE pc[d] # "composing"
    BY <1>1, <2>2 DEF OneDemo
  <2> QED BY <2>1, <2>2
<1> QED
  BY <1>4, <1>5, <1>7, <1>8 DEF Coverage

\* Goroutines keep every demo covered.
LEMMA WorkerCovered ==
  ASSUME Reliable, Coordination, Coverage, NEW d \in Deployments, Worker(d)
  PROVE  Coverage'
<1>1. /\ TypeOK /\ TypeOK' /\ LockHeld /\ WorkersClaimed
      /\ WorkersCovered /\ StopsAll
      /\ pc[d] \in HoldingStep => lock = d
  BY WorkerTyped DEF Coordination, Coverage, LockHeld
<1>2. /\ pc[d] \in EarlyStep => status[d] = "starting"
      /\ pc[d] \in HoldingStep \ EarlyStep => Candidate(d)
  BY <1>1 DEF WorkersClaimed, WorkersCovered
<1>12. /\ pc \in [Deployments -> WorkerStep]
      /\ item \in [Deployments -> Item]
      /\ todo \in [Deployments -> SUBSET Deployments]
      /\ halted \in [Deployments -> SUBSET Sessions]
      /\ up \in [Sessions -> BOOLEAN]
      /\ status \in [Deployments -> RowStatus]
      /\ error \in [Deployments -> BOOLEAN]
      /\ Owner \in [Deployments -> Sessions]
  BY <1>1, OwnerAssumption DEF TypeOK
<1>3. ASSUME NEW e \in Deployments, NEW v, NEW b, Save(e, Row(v, b))
      PROVE  /\ status' = [status EXCEPT ![e] = v]
             /\ error' = [error EXCEPT ![e] = b]
  BY <1>12, <1>3 DEF Save, Row, Reliable
<1> USE DEF HoldingStep, EarlyStep, Goto
<1>4. CASE \/ PreflightFails(d) \/ StopAbandoned(d) \/ ComposeFails(d)
           \/ \E e \in Deployments : StopFails(d, e)
  <2>1. /\ pc' = [pc EXCEPT ![d] = "finish"]
        /\ Save(d, Row("failed", TRUE))
        /\ item' = [item EXCEPT ![d] = Row("failed", TRUE)]
        /\ pc[d] \in HoldingStep /\ del' = del
        /\ \A s \in Sessions : up'[s] => up[s]
    BY <1>12, <1>4 DEF PreflightFails, StopAbandoned, ComposeFails, StopFails, Abort
  <2>2. /\ status' = [status EXCEPT ![d] = "failed"]
        /\ error' = [error EXCEPT ![d] = TRUE]
    BY <1>12, <1>3, <2>1
  <2>3. \A x \in Deployments \ {d} : Candidate(x)' <=> Candidate(x)
    BY <1>12, <2>2 DEF Candidate
  <2>4. Candidate(d)'
    BY <1>12, <2>2 DEF Candidate
  <2>5. item'[d].status = "failed" /\ pc'[d] = "finish"
    BY <1>12, <1>1, <2>1 DEF Row
  <2>6. \A x \in Deployments \ {d} : pc'[x] = pc[x]
    BY <1>12, <1>1, <2>1 DEF TypeOK
  <2> QED BY <1>12, <1>1, <2>1, <2>3, <2>4, <2>5, <2>6, WorkerCovers
<1>5. CASE Acquire(d) \/ Preflight(d)
  <2>1. \A x \in Deployments : Candidate(x)' <=> Candidate(x)
    BY <1>12, <1>5 DEF Acquire, Preflight, Candidate
  <2> QED BY <1>12, <1>1, <1>5, <2>1, WorkerCovers DEF Acquire, Preflight
<1>6. CASE List(d)
  <2>1. Candidates' = Candidates /\ ~Candidate(d)
    BY <1>12, <1>2, <1>6 DEF List, Candidates, Candidate
  <2>2. todo'[d] = Candidates'
    BY <1>12, <1>1, <1>6, <2>1 DEF List, Candidates
  <2>3. \A x \in Deployments : Candidate(x)' <=> Candidate(x)
    BY <1>12, <1>6 DEF List, Candidate
  <2> QED BY <1>12, <1>1, <1>6, <2>2, <2>3, WorkerCovers DEF List
<1>7. ASSUME NEW e \in Deployments, DownProject(d, e) \/ StopProject(d, e)
      PROVE  Coverage'
  <2>1. /\ pc[d] = "stopping"
        /\ UNCHANGED <<status, error, pc, lock, todo, del>>
        /\ \A s \in Sessions : up'[s] => up[s]
    BY <1>12, <1>7 DEF DownProject, StopProject
  <2>2. /\ Candidates' = Candidates
        /\ \A x \in Deployments : Candidate(x)' <=> Candidate(x)
    BY <2>1 DEF Candidates, Candidate
  <2>3. todo'[d] = Candidates'
    BY <1>1, <2>1, <2>2 DEF StopsAll
  <2>4. \A s \in halted'[d] : ~up'[s]
    <3>1. \A s \in halted[d] : ~up[s] /\ s \in Sessions
      BY <1>1, <1>12, <2>1 DEF StopsAll
    <3> QED BY <1>12, <1>7, <2>1, <3>1 DEF DownProject, StopProject
  <2> QED BY <1>1, <2>1, <2>2, <2>3, <2>4, WorkerCovers
<1>8. ASSUME NEW e \in Deployments, RecordStopped(d, e) PROVE Coverage'
  <2>1. /\ pc[d] = "stopping" /\ todo[d] = Candidates
        /\ e \in Candidates /\ ~up[Owner[e]]
        /\ \A s \in halted[d] : ~up[s]
    BY <1>12, <1>1, <1>8 DEF RecordStopped, StopsAll
  <2>2. /\ status' = [status EXCEPT ![e] = "interrupted"]
        /\ error' = [error EXCEPT ![e] = FALSE]
        /\ todo' = [todo EXCEPT ![d] = todo[d] \ {e}]
        /\ UNCHANGED <<pc, up, lock, halted, del>>
    BY <1>12, <1>8 DEF RecordStopped
  <2>3. /\ ~Candidate(e)'
        /\ \A x \in Deployments \ {e} : Candidate(x)' <=> Candidate(x)
    BY <1>12, <1>1, <2>2 DEF Candidate
  <2>4. Candidates' = Candidates \ {e}
    BY <1>12, <2>3 DEF Candidates
  <2>5. todo'[d] = Candidates'
    BY <1>12, <1>1, <2>1, <2>2, <2>4
  <2> QED BY <1>12, <1>1, <2>1, <2>2, <2>3, <2>5, WorkerCovers
<1>9. CASE StopDone(d)
  <2>1. Candidates' = Candidates /\ Candidates = {}
    BY <1>12, <1>1, <1>9 DEF StopDone, Candidates, Candidate, StopsAll
  <2>2. \A x \in Deployments : Candidate(x)' <=> Candidate(x)
    BY <1>12, <1>9 DEF StopDone, Candidate
  <2> QED BY <1>12, <1>1, <1>9, <2>1, <2>2, WorkerCovers DEF StopDone
<1>10. CASE ComposeUp(d) \/ ComposeReady(d)
  <2>1. /\ Candidates' = Candidates /\ Candidates = {}
        /\ \A x \in Deployments : Candidate(x)' <=> Candidate(x)
    <3>1. pc[d] = "composing" /\ UNCHANGED <<status, error>>
      BY <1>10 DEF ComposeUp, ComposeReady
    <3>2. Candidates = {}
      BY <1>1, <3>1 DEF StopsAll
    <3> QED BY <3>1, <3>2 DEF Candidates, Candidate
  <2>2. /\ pc[d] = "composing" /\ del' = del /\ lock' = d
        /\ \A x \in Deployments \ {d} : pc'[x] = pc[x]
        /\ pc'[d] \in {"composing", "announce"}
        /\ status'[d] = "starting"
        /\ \A s \in Sessions : up'[s] => up[s] \/ s = Owner[d]
    BY <1>12, <1>1, <1>2, <1>10 DEF ComposeUp, ComposeReady
  <2>3. pc'[d] = "announce" => item'[d].status = "verifying"
    BY <1>12, <1>1, <1>10 DEF ComposeUp, ComposeReady, Row
  <2> QED BY <1>12, <1>1, <2>1, <2>2, <2>3, WorkerCovers
<1>11. CASE \/ Announce(d) \/ Progress(d) \/ Finish(d)
            \/ Verify(d) \/ VerifyFails(d)
            \/ MarkRunning(d) \/ MarkVerified(d)
  <2>1. /\ \A x \in Deployments \ {d} :
             status'[x] = status[x] /\ error'[x] = error[x]
        /\ \/ status'[d] \in {"verifying", "running", "verified", "failed"}
           \/ /\ status'[d] = status[d] /\ error'[d] = error[d]
              /\ MarkRunning(d) \/ MarkVerified(d)
    <3>1. CASE Announce(d) \/ Progress(d) \/ Finish(d)
      <4>1. item[d].status \in {"verifying", "running", "verified", "failed"}
        BY <1>12, <1>1, <3>1 DEF Announce, Progress, Finish, WorkersCovered
      <4> QED BY <1>12, <1>1, <3>1, <4>1 DEF Announce, Progress, Finish, Save,
                                      Reliable
    <3>2. CASE Verify(d) \/ VerifyFails(d)
      <4>1. \E v \in {"verified", "running"}, b \in BOOLEAN : Save(d, Row(v, b))
        BY <3>2 DEF Verify, VerifyFails
      <4>2. PICK v \in {"verified", "running"}, b \in BOOLEAN :
                 /\ status' = [status EXCEPT ![d] = v]
                 /\ error' = [error EXCEPT ![d] = b]
        BY <1>3, <4>1
      <4> QED BY <1>12, <4>2
    <3>3. CASE MarkRunning(d) \/ MarkVerified(d)
      BY <1>12, <3>3 DEF MarkRunning, MarkVerified
    <3> QED BY <1>12, <1>11, <3>1, <3>2, <3>3
  <2>2. pc[d] # "waiting" /\ pc[d] \in HoldingStep
    BY <1>12, <1>11 DEF Announce, Progress, Finish, Verify, VerifyFails, MarkRunning,
                 MarkVerified
  <2>3. \A x \in Deployments : Candidate(x) => Candidate(x)'
    BY <1>12, <2>1 DEF Candidate
  <2>4. Candidate(d)'
    BY <1>12, <1>2, <2>1, <2>3 DEF Candidate, MarkRunning, MarkVerified
  <2>5. /\ UNCHANGED <<up, del>>
        /\ \A x \in Deployments \ {d} : pc'[x] = pc[x]
        /\ pc'[d] \in {"none", "mark", "verify", "markVerified", "finish"}
    BY <1>12, <1>1, <1>11 DEF Announce, Progress, Finish, Verify, VerifyFails,
                       MarkRunning, MarkVerified
  <2>6. /\ pc'[d] \in {"mark", "verify"} => item'[d].status = "verifying"
        /\ pc'[d] \in {"markVerified", "finish"} =>
             item'[d].status \in {"failed", "running", "verified"}
    <3>1. CASE Verify(d) \/ VerifyFails(d)
      BY <1>12, <1>1, <3>1 DEF Verify, VerifyFails, Row
    <3>2. CASE Announce(d) \/ Progress(d) \/ Finish(d) \/ MarkRunning(d)
      BY <1>12, <1>1, <3>2 DEF Announce, Progress, Finish, MarkRunning,
                        WorkersCovered
    <3>3. CASE MarkVerified(d)
      BY <1>12, <1>1, <3>3 DEF MarkVerified, WorkersCovered
    <3> QED BY <1>12, <1>11, <3>1, <3>2, <3>3
  <2> QED BY <1>12, <1>1, <2>2, <2>3, <2>4, <2>5, <2>6, WorkerCovers
<1> QED
  BY <1>12, <1>4, <1>5, <1>6, <1>7, <1>8, <1>9, <1>10, <1>11 DEF Worker

\* A step that leaves containers, candidates and the goroutines that hold
\* localMu alone keeps every demo covered.
LEMMA OthersCover ==
  ASSUME Coverage, TypeOK, TypeOK',
         UNCHANGED <<up, lock, item, todo, halted, del>>,
         \A d \in Deployments :
           /\ Candidate(d)' <=> Candidate(d)
           /\ pc'[d] \in HoldingStep \/ pc[d] \in HoldingStep =>
                pc'[d] = pc[d] /\ status'[d] = status[d]
  PROVE  Coverage'
<1>1. Candidates' = Candidates
  BY DEF Candidates
<1>2. WorkersCovered'
  BY DEF Coverage, WorkersCovered, HoldingStep
<1>3. StopsAll'
  BY <1>1 DEF Coverage, StopsAll, HoldingStep
<1>4. NothingOrphaned'
  <2>1. \A s \in Sessions : InHand(s) => InHand(s)'
    BY DEF InHand, HoldingStep
  <2> QED BY <2>1 DEF Coverage, NothingOrphaned
<1> QED
  BY <1>2, <1>3, <1>4 DEF Coverage, CleanupStops, OneDemo

\* Requests keep every demo covered.
LEMMA HandleCovered ==
  ASSUME Coordination, Coverage, NEW r \in Requests, Handle(r)
  PROVE  Coverage'
<1>1. /\ TypeOK /\ TypeOK' /\ RequestsApart /\ WorkersClaimed
  BY HandleTyped DEF Coordination
<1>2. UNCHANGED <<up, lock, todo, halted, del>>
  BY DEF Handle, StartCheck, TokenCheck, StartCreate, Claim, ResolveFails,
     Resolve, Spawn, SaveFails, RestoreToken
<1>3. ASSUME NEW d \in Deployments
      PROVE  status'[d] \in {status[d], "needs_token", "starting"}
  <2>1. CASE StartCreate(r) \/ ResolveFails(r) \/ RestoreToken(r)
    BY <1>1, <2>1 DEF StartCreate, ResolveFails, RestoreToken, Save, Row,
                      TypeOK
  <2>2. CASE Claim(r) \/ Spawn(r)
    BY <1>1, <2>2 DEF Claim, Spawn, TypeOK
  <2>3. CASE \/ \E e \in Deployments : StartCheck(r, e) \/ TokenCheck(r, e)
             \/ Resolve(r) \/ SaveFails(r)
    BY <2>3 DEF StartCheck, TokenCheck, Resolve, SaveFails
  <2> QED BY <2>1, <2>2, <2>3 DEF Handle
<1>4. ASSUME NEW d \in Deployments, status'[d] = status[d]
      PROVE  error'[d] = error[d] \/ status[d] \in {"absent", "needs_token", "starting"}
  <2>1. CASE StartCreate(r) \/ ResolveFails(r) \/ RestoreToken(r)
    BY <1>1, <1>4, <2>1 DEF StartCreate, ResolveFails, RestoreToken, Save,
                            Row, TypeOK, RowStatus
  <2>2. CASE Claim(r) \/ Spawn(r)
    BY <1>1, <1>4, <2>2 DEF Claim, Spawn, TypeOK
  <2>3. CASE \/ \E e \in Deployments : StartCheck(r, e) \/ TokenCheck(r, e)
             \/ Resolve(r) \/ SaveFails(r)
    BY <2>3 DEF StartCheck, TokenCheck, Resolve, SaveFails
  <2> QED BY <2>1, <2>2, <2>3 DEF Handle
<1>5. ASSUME NEW d \in Deployments PROVE Candidate(d)' <=> Candidate(d)
  BY <1>1, <1>3, <1>4, HandleKeeps DEF Candidate
<1>6. CASE Spawn(r)
  <2>1. /\ req[r].dep \in Deployments /\ pc[req[r].dep] = "none"
    BY <1>1, <1>6, BusyRequest DEF Spawn, RequestsApart, Claimed
  <2>2. /\ \A d \in Deployments \ {req[r].dep} :
             pc'[d] = pc[d] /\ status'[d] = status[d]
        /\ pc'[req[r].dep] = "waiting"
    BY <1>1, <1>6, <2>1 DEF Spawn, TypeOK
  <2> DEFINE kept == [item EXCEPT ![req[r].dep] = NoItem]
  <2>3. item' = kept
    BY <1>6 DEF Spawn
  <2>4. \A d \in Deployments : pc'[d] \in HoldingStep \/ pc[d] \in HoldingStep
                                => item'[d] = item[d]
    BY <1>1, <2>1, <2>2, <2>3 DEF HoldingStep, TypeOK
  <2>5. Candidates' = Candidates
    BY <1>5 DEF Candidates
  <2> HIDE DEF kept
  <2>6. \A d \in Deployments : pc'[d] \in HoldingStep \/ pc[d] \in HoldingStep
                                => pc'[d] = pc[d] /\ status'[d] = status[d]
    BY <2>1, <2>2 DEF HoldingStep
  <2>7. WorkersCovered'
    BY <1>5, <2>4, <2>6 DEF Coverage, WorkersCovered, HoldingStep
  <2>8. StopsAll'
    BY <1>2, <2>5, <2>6 DEF Coverage, StopsAll, HoldingStep
  <2>9. \A s \in Sessions : InHand(s) => InHand(s)'
    BY <1>2, <2>6 DEF InHand, HoldingStep
  <2>10. NothingOrphaned'
    BY <1>2, <1>5, <2>9 DEF Coverage, NothingOrphaned
  <2> QED BY <1>2, <2>7, <2>8, <2>10 DEF Coverage, CleanupStops, OneDemo
<1>7. CASE ~Spawn(r)
  <2>1. UNCHANGED <<pc, item>>
    BY <1>7 DEF Handle, StartCheck, TokenCheck, StartCreate, Claim,
       ResolveFails, Resolve, SaveFails, RestoreToken
  <2>2. ASSUME NEW d \in Deployments, pc[d] \in HoldingStep
        PROVE  status'[d] = status[d]
    <3>1. pc[d] # "none" /\ status[d] \notin {"absent", "needs_token"}
      BY <1>1, <2>2 DEF HoldingStep, WorkersClaimed
    <3>2. req[r].step \in {"attach"} \cup Claimed => req[r].dep # d
      BY <1>1, <3>1 DEF RequestsApart
    <3>3. CASE StartCreate(r) \/ ResolveFails(r) \/ RestoreToken(r)
      BY <1>1, <3>2, <3>3 DEF StartCreate, ResolveFails, RestoreToken, Save,
                              Row, TypeOK, Claimed
    <3>4. CASE Claim(r)
      BY <1>1, <3>1, <3>4 DEF Claim, TypeOK
    <3>5. CASE \/ \E e \in Deployments : StartCheck(r, e) \/ TokenCheck(r, e)
               \/ Resolve(r) \/ SaveFails(r)
      BY <3>5 DEF StartCheck, TokenCheck, Resolve, SaveFails
    <3> QED BY <1>7, <3>3, <3>4, <3>5 DEF Handle
  <2> QED BY <1>1, <1>2, <1>5, <2>1, <2>2, OthersCover
<1> QED
  BY <1>6, <1>7

\* The DELETE handler keeps every demo covered: it stops its own and leaves
\* the others alone.
LEMMA DeleteCovered ==
  ASSUME Coordination, Coverage, Delete
  PROVE  Coverage'
<1>1. /\ TypeOK /\ TypeOK' /\ LockHeld
      /\ CleanupStops /\ NothingOrphaned /\ OneDemo
  BY DeleteTyped DEF Coordination, Coverage
<1> USE OwnerAssumption, LockAssumption DEF CleanupStep
<1>2. del.step \in DeleteStep /\ del.ses \in Sessions
  BY <1>1 DEF Delete, DeleteAcquire, DeleteBegin, DeleteRefused,
     DeleteInspect, DeleteLocal, DeleteStack, RemoveFiles, RemoveConfig,
     CleanupFails, DropSession, TypeOK, Deletion, IdleDeletion, DeleteStep
<1>3. \A d \in Deployments : pc[d] \notin HoldingStep /\ lock # d
  BY <1>1 DEF LockHeld, Delete, DeleteAcquire, DeleteBegin, DeleteRefused,
     DeleteInspect, DeleteLocal, DeleteStack, RemoveFiles, RemoveConfig,
     CleanupFails, DropSession
<1>4. /\ pc' = pc
      /\ \A s \in Sessions : up'[s] => up[s]
  BY <1>1, <1>2 DEF Delete, DeleteAcquire, DeleteBegin, DeleteRefused,
     DeleteInspect, DeleteLocal, DeleteStack, RemoveFiles, RemoveConfig,
     CleanupFails, DropSession, Answer, TypeOK
<1>5. WorkersCovered' /\ StopsAll'
  BY <1>3, <1>4 DEF WorkersCovered, StopsAll, HoldingStep
<1>6. OneDemo'
  BY <1>1, <1>4 DEF OneDemo
<1>7. \A s \in Sessions :
        up[s] => \E d \in Deployments : Owner[d] = s /\ Candidate(d)
  BY <1>1, <1>3 DEF NothingOrphaned, InHand
<1>8. NothingOrphaned'
  <2>1. CASE UNCHANGED <<status, error>>
    BY <1>4, <1>7, <2>1 DEF NothingOrphaned, Candidate
  <2>2. CASE DropSession
    <3>1. ~up[del.ses]
      BY <1>1, <2>2 DEF DropSession, CleanupStops
    <3>2. \A d \in Deployments : Owner[d] # del.ses =>
            status'[d] = status[d] /\ (error'[d] <=> error[d])
      BY <2>2 DEF DropSession
    <3> QED BY <1>4, <1>7, <3>1, <3>2 DEF NothingOrphaned, Candidate
  <2> QED BY <2>1, <2>2 DEF Delete, DeleteAcquire, DeleteBegin,
     DeleteRefused, DeleteInspect, DeleteLocal, DeleteStack, RemoveFiles,
     RemoveConfig, CleanupFails
<1>9. CleanupStops'
  <2>1. CASE Answer
    BY <2>1 DEF Answer, IdleDeletion, CleanupStops
  <2>2. CASE DeleteLocal
    <3>1. ~up'[del.ses]
      <4>1. CASE RowsOf(del.ses) = {}
        <5>1. \A d \in Deployments : Owner[d] = del.ses => ~Candidate(d)
          BY <4>1 DEF RowsOf, Candidate
        <5> QED BY <1>2, <1>4, <1>7, <5>1
      <4>2. CASE RowsOf(del.ses) # {}
        BY <1>1, <1>2, <2>2, <4>2 DEF DeleteLocal, TypeOK
      <4> QED BY <4>1, <4>2
    <3>2. del'.ses = del.ses
      BY <1>1, <1>2, <2>2 DEF DeleteLocal, TypeOK, Deletion, IdleDeletion
    <3> QED BY <3>1, <3>2 DEF CleanupStops
  <2>3. CASE DeleteAcquire \/ DeleteBegin \/ DeleteInspect
    <3>1. del'.step \notin {"stack", "files", "config", "row"}
      BY <1>1, <1>2, <2>3 DEF DeleteAcquire, DeleteBegin, DeleteInspect,
                              TypeOK, Deletion, IdleDeletion
    <3> QED BY <3>1 DEF CleanupStops
  <2>4. CASE DeleteStack \/ RemoveFiles \/ RemoveConfig
    <3>1. /\ del.step \in {"stack", "files", "config", "row"}
          /\ \E step \in CleanupStep : del' = [del EXCEPT !.step = step]
      BY <2>4 DEF DeleteStack, RemoveFiles, RemoveConfig
    <3>2. del'.ses = del.ses
      BY <1>1, <1>2, <3>1 DEF TypeOK, Deletion, IdleDeletion
    <3> QED BY <1>1, <1>2, <1>4, <3>1, <3>2 DEF CleanupStops
  <2> QED BY <2>1, <2>2, <2>3, <2>4 DEF Delete, DeleteRefused, CleanupFails,
                                        DropSession
<1> QED
  BY <1>5, <1>6, <1>8, <1>9 DEF Coverage

\* Every step keeps the inductive invariant.
LEMMA NextCovered ==
  ASSUME Reliable, IInv, [Next]_vars
  PROVE  IInv'
<1>1. Coordination /\ Coverage /\ Coordination'
  BY NextCoordinated DEF IInv
<1>2. TypeOK /\ TypeOK'
  BY <1>1 DEF Coordination
<1> SUFFICES Coverage'
  BY <1>1 DEF IInv
<1>3. ASSUME NEW r \in Requests, Handle(r) PROVE Coverage'
  BY <1>1, <1>3, HandleCovered
<1>4. ASSUME NEW d \in Deployments, Worker(d) PROVE Coverage'
  BY <1>1, <1>4, WorkerCovered
<1>5. CASE Delete
  BY <1>1, <1>5, DeleteCovered
<1>6. CASE UNCHANGED vars \/ \E s \in Sessions : Rebuilt(s)
  BY <1>1, <1>2, <1>6, OthersCover DEF vars, Rebuilt, Candidate
<1>7. ASSUME NEW s \in Sessions, DeleteRequest(s) PROVE Coverage'
  <2>1. Candidates' = Candidates
    BY <1>7 DEF DeleteRequest, Candidates, Candidate
  <2> QED BY <1>1, <1>7, <2>1
    DEF DeleteRequest, Coverage, WorkersCovered, StopsAll, CleanupStops,
        NothingOrphaned, InHand, OneDemo, Candidate
<1>8. CASE Restart
  <2>1. WorkersCovered' /\ StopsAll' /\ CleanupStops' /\ OneDemo'
    BY <1>1, <1>8 DEF Restart, Coverage, WorkersCovered, StopsAll,
                      CleanupStops, OneDemo, HoldingStep, IdleDeletion
  <2>2. \A d \in Deployments :
          Candidate(d) \/ status[d] = "starting" => Candidate(d)'
    BY <1>2, <1>8 DEF Restart, Candidate, TypeOK
  <2>3. UNCHANGED up
    BY <1>8 DEF Restart
  <2>4. NothingOrphaned'
    BY <1>1, <2>2, <2>3 DEF Coverage, NothingOrphaned, InHand
  <2> QED BY <2>1, <2>4 DEF Coverage
<1> QED
  BY <1>3, <1>4, <1>5, <1>6, <1>7, <1>8 DEF Next

\* The inductive invariant holds when the writes of the store succeed.
THEOREM Covered ==
  ASSUME Reliable
  PROVE  Spec => []IInv
<1>1. Init => IInv
  BY InitCoordinated, InitCovered DEF IInv
<1>2. IInv /\ [Next]_vars => IInv'
  BY NextCovered
<1> QED
  BY <1>1, <1>2, PTL DEF Spec

\* OneDemo: the containers of two sessions are never up together.
THEOREM OneDemoAtATime ==
  ASSUME Reliable
  PROVE  Spec => []OneDemo
<1>1. IInv => OneDemo
  BY DEF IInv, Coverage
<1> QED
  BY <1>1, Covered, PTL

\* NothingOrphaned: the next start can stop every demo that is up.
THEOREM DemosAreListed ==
  ASSUME Reliable
  PROVE  Spec => []NothingOrphaned
<1>1. IInv => NothingOrphaned
  BY DEF IInv, Coverage
<1> QED
  BY <1>1, Covered, PTL

-----------------------------------------------------------------------------
(***************************************************************************)
(* Action properties: who may rewrite a row that stands for containers,    *)
(* and when the deletion marker goes away.                                 *)
(***************************************************************************)

\* MarkerDurable: the marker is only removed with its session, by the
\* cascade of the last DELETE statement.
THEOREM MarkerStays == Spec => MarkerDurable
<1> DEFINE Stays == \A s \in Sessions : marker[s] /\ ~marker'[s] => ~exists'[s]
<1>1. ASSUME TypeOK, [Next]_vars PROVE Stays
  <2> USE <1>1
  <2>1. /\ marker \in [Sessions -> BOOLEAN]
        /\ exists \in [Sessions -> BOOLEAN]
        /\ del.step # "idle" => del.ses \in Sessions
    BY DEF TypeOK, Deletion, IdleDeletion
  <2>2. CASE DropSession
    BY <2>1, <2>2 DEF DropSession
  <2>3. CASE DeleteBegin
    BY <2>1, <2>3 DEF DeleteBegin
  <2>4. CASE Delete /\ ~DropSession /\ ~DeleteBegin
    BY <2>4 DEF Delete, DeleteAcquire, DeleteRefused, DeleteInspect,
       DeleteLocal, DeleteStack, RemoveFiles, RemoveConfig, CleanupFails
  <2>5. ASSUME NEW r \in Requests, Handle(r) PROVE marker' = marker
    BY <2>5 DEF Handle, StartCheck, TokenCheck, StartCreate, Claim,
       ResolveFails, Resolve, Spawn, SaveFails, RestoreToken
  <2>6. ASSUME NEW d \in Deployments, Worker(d) PROVE marker' = marker
    BY <2>6 DEF Worker, Acquire, Preflight, PreflightFails, List, DownProject,
       StopProject, StopFails, RecordStopped, StopAbandoned, StopDone,
       ComposeUp, ComposeReady, ComposeFails, Announce, MarkRunning, Progress,
       Verify, VerifyFails, MarkVerified, Finish
  <2>7. CASE \/ \E s \in Sessions : DeleteRequest(s) \/ Rebuilt(s)
             \/ Restart \/ UNCHANGED vars
    BY <2>7 DEF DeleteRequest, Rebuilt, Restart, vars
  <2> QED BY <2>2, <2>3, <2>4, <2>5, <2>6, <2>7 DEF Next
<1>2. ASSUME TypeOK, [Next]_vars PROVE [Stays]_vars
  BY <1>1, <1>2
<1>3. Spec => [][Stays]_vars
  BY <1>2, TypeCorrect, PTL DEF Spec
<1> QED BY <1>3 DEF MarkerDurable

\* CandidatesStable: the list that stopActiveLocalDeployment reads under
\* localMu is not rewritten behind its back.
THEOREM CandidatesKept == Spec => CandidatesStable
<1> DEFINE Kept == \A d \in Deployments :
             Candidate(d) /\ (status'[d] # status[d] \/ error'[d] # error[d])
               => lock # None \/ Restart
<1>1. ASSUME Coordination, [Next]_vars PROVE Kept
  <2> USE <1>1
  <2>1. /\ TypeOK /\ LockHeld /\ RequestsApart
        /\ UNCHANGED <<status, error>> => Kept
    BY DEF Coordination
  <2>2. ASSUME NEW r \in Requests, Handle(r) PROVE Kept
    BY <2>1, <2>2, HandleKeeps
  <2>3. ASSUME NEW d \in Deployments, Worker(d) PROVE Kept
    <3>1. CASE Acquire(d)
      BY <2>1, <3>1 DEF Acquire
    <3>2. CASE ~Acquire(d)
      <4>1. pc[d] \in HoldingStep
        BY <2>3, <3>2 DEF Worker, Preflight, PreflightFails, List,
           DownProject, StopProject, StopFails, RecordStopped, StopAbandoned,
           StopDone, ComposeUp, ComposeReady, ComposeFails, Announce,
           MarkRunning, Progress, Verify, VerifyFails, MarkVerified, Finish,
           HoldingStep
      <4> QED BY <2>1, <4>1, LockAssumption DEF LockHeld
    <3> QED BY <3>1, <3>2
  <2>4. CASE Delete
    <3>1. CASE DropSession
      BY <2>1, <3>1, LockAssumption DEF DropSession, LockHeld, CleanupStep
    <3>2. CASE ~DropSession
      BY <2>1, <2>4, <3>2 DEF Delete, DeleteAcquire, DeleteBegin,
         DeleteRefused, DeleteInspect, DeleteLocal, DeleteStack, RemoveFiles,
         RemoveConfig, CleanupFails
    <3> QED BY <3>1, <3>2
  <2>5. CASE \/ \E s \in Sessions : DeleteRequest(s) \/ Rebuilt(s)
             \/ UNCHANGED vars
    BY <2>1, <2>5 DEF DeleteRequest, Rebuilt, vars
  <2>6. CASE Restart
    BY <2>6
  <2> QED BY <2>2, <2>3, <2>4, <2>5, <2>6 DEF Next
<1>2. ASSUME Coordination, [Next]_vars PROVE [Kept]_vars
  BY <1>1, <1>2
<1>3. Spec => [][Kept]_vars
  BY <1>2, Coordinated, PTL DEF Spec
<1> QED BY <1>3 DEF CandidatesStable

-----------------------------------------------------------------------------
(***************************************************************************)
(* StateBacked: the state of a session and the row that stands behind it   *)
(* are written by separate statements, in an order that never shows a      *)
(* state without its row.                                                  *)
(***************************************************************************)

\* Nothing runs initially.
LEMMA InitBacked == Init => Backing
  BY DEF Init, Backing, StatesInStep, StateBacked

\* What a step of the goroutine of d must show: other rows that back a state
\* stay, or their session is Generated; its own row backs the state that it
\* writes.
LEMMA WorkerBacks ==
  ASSUME Coordination, Backing, TypeOK', NEW d \in Deployments,
         exists' = exists,
         \/ pc[d] \in HoldingStep
         \/ pc[d] = "waiting" /\ lock = None,
         \A x \in Deployments \ {d} : pc'[x] = pc[x],
         \A x \in Deployments :
           \/ /\ Candidate(x) => Candidate(x)'
              /\ status[x] = "verified" => status'[x] = "verified"
           \/ state[Owner[x]] = "Generated" /\ state'[Owner[x]] = "Generated",
         \A s \in Sessions :
           \/ state'[s] \in {state[s], "Generated"}
           \/ /\ s = Owner[d] /\ state'[s] = "Running" /\ Candidate(d)'
           \/ /\ s = Owner[d] /\ state'[s] = "Verified"
              /\ status'[d] = "verified",
         pc'[d] \in {"mark", "verify"} => status'[d] = "verifying",
         pc'[d] = "markVerified" => item'[d].status = "verified",
         pc'[d] \in {"markVerified", "finish"} =>
           status'[d] = item'[d].status,
         pc'[d] = "stopping" =>
           \A s \in halted'[d] : state'[s] = "Generated"
  PROVE  Backing'
<1>1. /\ TypeOK /\ LockHeld /\ StatesInStep /\ StateBacked
  BY DEF Coordination, Backing
<1>2. lock \in {d, None}
  BY <1>1 DEF LockHeld
<1>3. \A x \in Deployments \ {d} : pc[x] \notin HoldingStep
                                   /\ pc'[x] \notin HoldingStep
  BY <1>1, <1>2, LockAssumption DEF LockHeld
<1>4. StatesInStep'
  BY <1>3 DEF StatesInStep, HoldingStep
<1>5. /\ state \in [Sessions -> SessionState]
      /\ state' \in [Sessions -> SessionState]
      /\ Owner \in [Deployments -> Sessions]
  BY <1>1, OwnerAssumption DEF TypeOK
<1>6. ASSUME NEW s \in Sessions, exists'[s], state'[s] = "Verified"
      PROVE  \E x \in Deployments : Owner[x] = s /\ status'[x] = "verified"
  <2>1. CASE state'[s] = state[s]
    <3>1. PICK x \in Deployments : Owner[x] = s /\ status[x] = "verified"
      BY <1>1, <1>6, <2>1 DEF StateBacked
    <3>2. status'[x] = "verified"
      BY <1>6, <3>1
    <3> QED BY <3>1, <3>2
  <2>2. CASE state'[s] # state[s]
    BY <1>6, <2>2
  <2> QED BY <2>1, <2>2
<1>7. ASSUME NEW s \in Sessions, exists'[s], state'[s] = "Running"
      PROVE  \E x \in Deployments : Owner[x] = s /\ Candidate(x)'
  <2>1. CASE state'[s] = state[s]
    <3>1. PICK x \in Deployments : Owner[x] = s /\ Candidate(x)
      BY <1>1, <1>7, <2>1 DEF StateBacked
    <3>2. Candidate(x)'
      BY <1>7, <3>1
    <3> QED BY <3>1, <3>2
  <2>2. CASE state'[s] # state[s]
    BY <1>7, <2>2
  <2> QED BY <2>1, <2>2
<1>8. StateBacked'
  BY <1>6, <1>7 DEF StateBacked
<1> QED BY <1>4, <1>8 DEF Backing

\* Goroutines keep the states backed.
LEMMA WorkerBacked ==
  ASSUME Reliable, IInv, Backing, NEW d \in Deployments, Worker(d)
  PROVE  Backing'
<1>1. /\ Coordination /\ TypeOK /\ TypeOK' /\ LockHeld /\ WorkersClaimed
      /\ WorkersCovered /\ StopsAll /\ StatesInStep
  BY WorkerTyped DEF IInv, Coordination, Coverage, Backing
<1>2. /\ pc[d] \in EarlyStep => status[d] = "starting"
      /\ pc[d] \in {"announce", "mark", "verify"} =>
           item[d].status = "verifying"
  BY <1>1 DEF WorkersClaimed, WorkersCovered
<1>3. /\ pc[d] \in {"mark", "verify"} => status[d] = "verifying"
      /\ pc[d] = "markVerified" => item[d].status = "verified"
      /\ pc[d] \in {"markVerified", "finish"} => status[d] = item[d].status
      /\ pc[d] = "stopping" => \A s \in halted[d] : state[s] = "Generated"
  BY <1>1 DEF StatesInStep
<1>4. /\ pc \in [Deployments -> WorkerStep]
      /\ item \in [Deployments -> Item]
      /\ todo \in [Deployments -> SUBSET Deployments]
      /\ halted \in [Deployments -> SUBSET Sessions]
      /\ state \in [Sessions -> SessionState]
      /\ status \in [Deployments -> RowStatus]
      /\ error \in [Deployments -> BOOLEAN]
      /\ Owner \in [Deployments -> Sessions]
  BY <1>1, OwnerAssumption DEF TypeOK
<1>5. ASSUME NEW e \in Deployments, NEW v, NEW b, Save(e, Row(v, b))
      PROVE  /\ status' = [status EXCEPT ![e] = v]
             /\ error' = [error EXCEPT ![e] = b]
  BY <1>5 DEF Save, Row, Reliable
<1> USE DEF HoldingStep, EarlyStep, Goto
<1>6. CASE \/ PreflightFails(d) \/ StopAbandoned(d) \/ ComposeFails(d)
           \/ \E e \in Deployments : StopFails(d, e)
  <2>1. /\ pc' = [pc EXCEPT ![d] = "finish"]
        /\ Save(d, Row("failed", TRUE))
        /\ item' = [item EXCEPT ![d] = Row("failed", TRUE)]
        /\ pc[d] \in {"preflight", "listing", "stopping", "composing"}
        /\ UNCHANGED <<state, exists>>
    BY <1>6 DEF PreflightFails, StopAbandoned, ComposeFails, StopFails, Abort
  <2>2. /\ status' = [status EXCEPT ![d] = "failed"]
        /\ error' = [error EXCEPT ![d] = TRUE]
    BY <1>5, <2>1
  <2>3. \A x \in Deployments : /\ Candidate(x) => Candidate(x)'
                               /\ status[x] = "verified" =>
                                    status'[x] = "verified"
    BY <1>2, <1>4, <2>1, <2>2 DEF Candidate
  <2>4. /\ item'[d].status = "failed" /\ pc'[d] = "finish"
        /\ status'[d] = "failed"
        /\ \A x \in Deployments \ {d} : pc'[x] = pc[x]
    BY <1>4, <2>1, <2>2 DEF Row
  <2> QED BY <1>1, <2>1, <2>3, <2>4, WorkerBacks
<1>7. CASE \/ Acquire(d) \/ Preflight(d) \/ List(d) \/ StopDone(d)
           \/ ComposeUp(d) \/ ComposeReady(d)
  <2>1. /\ UNCHANGED <<status, error, state, exists>>
        /\ \/ pc[d] \in HoldingStep
           \/ pc[d] = "waiting" /\ lock = None
        /\ \A x \in Deployments \ {d} : pc'[x] = pc[x]
        /\ pc'[d] \in {"preflight", "listing", "stopping", "composing",
                       "announce"}
    BY <1>4, <1>7 DEF Acquire, Preflight, List, StopDone, ComposeUp,
                      ComposeReady
  <2>2. pc'[d] = "stopping" => halted'[d] = {}
    BY <1>4, <1>7 DEF Acquire, Preflight, List, StopDone, ComposeUp,
                      ComposeReady
  <2>3. \A x \in Deployments : Candidate(x)' <=> Candidate(x)
    BY <2>1 DEF Candidate
  <2> QED BY <1>1, <2>1, <2>2, <2>3, WorkerBacks
<1>8. ASSUME NEW e \in Deployments, DownProject(d, e) \/ StopProject(d, e)
      PROVE  Backing'
  <2>1. /\ pc[d] = "stopping" /\ UNCHANGED <<status, error, exists, pc>>
        /\ \A s \in Sessions : state'[s] \in {state[s], "Generated"}
    BY <1>4, <1>8 DEF DownProject, StopProject
  <2>2. \A s \in halted'[d] : state'[s] = "Generated"
    BY <1>3, <1>4, <1>8 DEF DownProject, StopProject
  <2>3. \A x \in Deployments : Candidate(x)' <=> Candidate(x)
    BY <2>1 DEF Candidate
  <2> QED BY <1>1, <2>1, <2>2, <2>3, WorkerBacks
<1>9. ASSUME NEW e \in Deployments, RecordStopped(d, e) PROVE Backing'
  <2>1. /\ pc[d] = "stopping" /\ UNCHANGED <<state, exists, pc, halted>>
        /\ state[Owner[e]] = "Generated"
        /\ \A x \in Deployments \ {e} :
             status'[x] = status[x] /\ error'[x] = error[x]
    BY <1>3, <1>4, <1>9 DEF RecordStopped
  <2>2. \A x \in Deployments \ {e} : Candidate(x)' <=> Candidate(x)
    BY <2>1 DEF Candidate
  <2> QED BY <1>1, <1>3, <2>1, <2>2, WorkerBacks
<1>10. CASE Announce(d) \/ Progress(d)
  <2>1. /\ pc[d] \in {"announce", "verify"} /\ UNCHANGED <<state, exists, item>>
        /\ Save(d, item[d]) /\ item[d].status = "verifying"
        /\ pc'[d] \in {"mark", "verify"}
        /\ \A x \in Deployments \ {d} : pc'[x] = pc[x]
    BY <1>2, <1>4, <1>10 DEF Announce, Progress
  <2>2. /\ status' = [status EXCEPT ![d] = "verifying"]
        /\ \A x \in Deployments \ {d} : error'[x] = error[x]
    BY <1>4, <2>1 DEF Save, Reliable
  <2>3. status[d] # "verified"
    BY <1>2, <1>3, <2>1
  <2>4. \A x \in Deployments : /\ Candidate(x) => Candidate(x)'
                               /\ status[x] = "verified" =>
                                    status'[x] = "verified"
    BY <1>4, <2>2, <2>3 DEF Candidate
  <2>5. status'[d] = "verifying"
    BY <1>4, <2>2
  <2> QED BY <1>1, <2>1, <2>4, <2>5, WorkerBacks
<1>11. CASE MarkRunning(d) \/ MarkVerified(d)
  <2>1. /\ UNCHANGED <<status, error, item, exists>>
        /\ pc[d] \in HoldingStep
        /\ \A x \in Deployments \ {d} : pc'[x] = pc[x]
        /\ \A x \in Deployments : Candidate(x)' <=> Candidate(x)
    BY <1>4, <1>11 DEF MarkRunning, MarkVerified, Candidate
  <2>2. CASE MarkRunning(d)
    <3>1. /\ status[d] = "verifying" /\ pc'[d] = "verify"
          /\ \A s \in Sessions : \/ state'[s] = state[s]
                                 \/ s = Owner[d] /\ state'[s] = "Running"
      BY <1>3, <1>4, <2>2 DEF MarkRunning, SetState
    <3>2. Candidate(d)'
      BY <2>1, <3>1 DEF Candidate
    <3> QED BY <1>1, <2>1, <3>1, <3>2, WorkerBacks
  <2>3. CASE MarkVerified(d)
    <3>1. /\ status[d] = "verified" /\ item[d].status = "verified"
          /\ pc'[d] = "finish"
          /\ \A s \in Sessions : \/ state'[s] = state[s]
                                 \/ s = Owner[d] /\ state'[s] = "Verified"
      BY <1>3, <1>4, <2>3 DEF MarkVerified, SetState
    <3> QED BY <1>1, <2>1, <3>1, WorkerBacks
  <2> QED BY <1>11, <2>2, <2>3
<1>12. CASE Verify(d) \/ VerifyFails(d)
  <2>1. PICK v \in {"verified", "running"}, b \in BOOLEAN :
             /\ item' = [item EXCEPT ![d] = Row(v, b)]
             /\ Save(d, Row(v, b))
             /\ pc'[d] \in {"markVerified", "finish"}
             /\ pc'[d] = "markVerified" => v = "verified"
    BY <1>4, <1>12 DEF Verify, VerifyFails
  <2>2. /\ pc[d] = "verify" /\ UNCHANGED <<state, exists>>
        /\ \A x \in Deployments \ {d} : pc'[x] = pc[x]
    BY <1>4, <1>12 DEF Verify, VerifyFails
  <2>3. /\ status' = [status EXCEPT ![d] = v]
        /\ error' = [error EXCEPT ![d] = b]
    BY <1>5, <2>1
  <2>4. status'[d] = v /\ item'[d].status = v
    BY <1>4, <2>1, <2>3 DEF Row
  <2>5. \A x \in Deployments : /\ Candidate(x) => Candidate(x)'
                               /\ status[x] = "verified" =>
                                    status'[x] = "verified"
    BY <1>3, <1>4, <2>2, <2>3, <2>4 DEF Candidate
  <2> QED BY <1>1, <2>1, <2>2, <2>4, <2>5, WorkerBacks
<1>13. CASE Finish(d)
  <2>1. /\ pc[d] = "finish" /\ pc'[d] = "none" /\ UNCHANGED <<state, exists>>
        /\ \A x \in Deployments \ {d} : pc'[x] = pc[x]
        /\ status[d] = item[d].status
        /\ item[d].status \in {"failed", "running", "verified"}
    BY <1>1, <1>3, <1>4, <1>13 DEF Finish, WorkersCovered
  <2>2. /\ \A x \in Deployments : status'[x] = status[x]
        /\ \A x \in Deployments \ {d} : error'[x] = error[x]
    BY <1>4, <1>13, <2>1 DEF Finish, Save
  <2>3. \A x \in Deployments : Candidate(x) => Candidate(x)'
    BY <2>1, <2>2 DEF Candidate
  <2> QED BY <1>1, <2>1, <2>2, <2>3, WorkerBacks
<1> QED
  BY <1>6, <1>7, <1>8, <1>9, <1>10, <1>11, <1>12, <1>13 DEF Worker

\* A step that keeps the rows of existing sessions that back a state, and
\* leaves the goroutines that hold localMu alone, keeps the states backed.
LEMMA OthersBack ==
  ASSUME Backing, TypeOK, TypeOK',
         \A s \in Sessions : exists'[s] => exists[s],
         \A s \in Sessions : exists'[s] => state'[s] \in {state[s], "Generated"},
         \A x \in Deployments : exists'[Owner[x]] =>
           /\ Candidate(x) => Candidate(x)'
           /\ status[x] = "verified" => status'[x] = "verified",
         StatesInStep'
  PROVE  Backing'
<1>1. Owner \in [Deployments -> Sessions]
  BY OwnerAssumption
<1>2. ASSUME NEW s \in Sessions, exists'[s], state'[s] = "Verified"
      PROVE  \E x \in Deployments : Owner[x] = s /\ status'[x] = "verified"
  <2>1. PICK x \in Deployments : Owner[x] = s /\ status[x] = "verified"
    BY <1>2 DEF Backing, StateBacked
  <2> QED BY <1>2, <2>1
<1>3. ASSUME NEW s \in Sessions, exists'[s], state'[s] = "Running"
      PROVE  \E x \in Deployments : Owner[x] = s /\ Candidate(x)'
  <2>1. PICK x \in Deployments : Owner[x] = s /\ Candidate(x)
    BY <1>3 DEF Backing, StateBacked
  <2> QED BY <1>3, <2>1
<1> QED BY <1>2, <1>3 DEF Backing, StateBacked

\* Every step keeps the states backed.
LEMMA NextBacked ==
  ASSUME Reliable, IInv, Backing, [Next]_vars
  PROVE  Backing'
<1>1. /\ Coordination /\ Coverage /\ TypeOK /\ TypeOK' /\ LockHeld
      /\ RequestsApart /\ WorkersClaimed /\ StatesInStep
  BY NextTyped DEF IInv, Coordination, Backing
<1>2. ASSUME NEW d \in Deployments, Worker(d) PROVE Backing'
  BY <1>2, WorkerBacked
<1>3. ASSUME NEW r \in Requests, Handle(r) PROVE Backing'
  <2>1. /\ UNCHANGED <<exists, state, halted>>
        /\ \A d \in Deployments : Candidate(d) =>
             status'[d] = status[d] /\ error'[d] = error[d]
    BY <1>1, <1>3, HandleKeeps
    DEF Handle, StartCheck, TokenCheck, StartCreate, Claim, ResolveFails,
        Resolve, Spawn, SaveFails, RestoreToken
  <2>2. \A d \in Deployments : pc'[d] \in HoldingStep =>
          pc'[d] = pc[d] /\ item'[d] = item[d]
    <3>1. CASE Spawn(r)
      <4>1. req[r].dep \in Deployments /\ pc[req[r].dep] = "none"
        BY <1>1, <3>1, BusyRequest DEF Spawn, RequestsApart, Claimed
      <4>2. \A d \in Deployments \ {req[r].dep} :
              pc'[d] = pc[d] /\ item'[d] = item[d]
        BY <1>1, <3>1, <4>1 DEF Spawn, TypeOK
      <4>3. pc'[req[r].dep] = "waiting"
        BY <1>1, <3>1, <4>1 DEF Spawn, TypeOK
      <4> QED BY <4>2, <4>3 DEF HoldingStep
    <3>2. CASE ~Spawn(r)
      BY <1>3, <3>2 DEF Handle, StartCheck, TokenCheck, StartCreate, Claim,
         ResolveFails, Resolve, SaveFails, RestoreToken
    <3> QED BY <3>1, <3>2
  <2>3. \A d \in Deployments : pc[d] \in HoldingStep \ EarlyStep => Candidate(d)
    BY <1>1 DEF Coverage, WorkersCovered
  <2>4. StatesInStep'
    BY <1>1, <2>1, <2>2, <2>3 DEF StatesInStep, HoldingStep, EarlyStep
  <2> QED BY <1>1, <2>1, <2>4, OthersBack DEF Candidate
<1>4. CASE Delete
  <2>1. UNCHANGED <<state, pc, item, halted>>
    BY <1>4 DEF Delete, DeleteAcquire, DeleteBegin, DeleteRefused,
       DeleteInspect, DeleteLocal, DeleteStack, RemoveFiles, RemoveConfig,
       CleanupFails, DropSession, Answer
  <2>2. \A d \in Deployments : pc[d] \notin HoldingStep
    BY <1>1, <1>4, LockAssumption
    DEF LockHeld, Delete, DeleteAcquire, DeleteBegin, DeleteRefused,
        DeleteInspect, DeleteLocal, DeleteStack, RemoveFiles, RemoveConfig,
        CleanupFails, DropSession, CleanupStep
  <2>3. StatesInStep'
    BY <2>1, <2>2 DEF StatesInStep, HoldingStep
  <2>4. CASE DropSession
    <3>1. /\ \A s \in Sessions : exists'[s] => exists[s] /\ s # del.ses
          /\ \A d \in Deployments : Owner[d] # del.ses =>
               status'[d] = status[d] /\ (error'[d] <=> error[d])
      BY <1>1, <2>4 DEF DropSession, TypeOK
    <3>2. \A x \in Deployments : exists'[Owner[x]] =>
            /\ Candidate(x) => Candidate(x)'
            /\ status[x] = "verified" => status'[x] = "verified"
      BY <3>1, OwnerAssumption DEF Candidate
    <3> QED BY <1>1, <2>1, <2>3, <3>1, <3>2, OthersBack
  <2>5. CASE ~DropSession
    <3>1. UNCHANGED <<exists, status, error>>
      BY <1>4, <2>5 DEF Delete, DeleteAcquire, DeleteBegin, DeleteRefused,
         DeleteInspect, DeleteLocal, DeleteStack, RemoveFiles, RemoveConfig,
         CleanupFails
    <3> QED BY <1>1, <2>1, <2>3, <3>1, OthersBack DEF Candidate
  <2> QED BY <2>4, <2>5
<1>5. ASSUME NEW s \in Sessions, Rebuilt(s) PROVE Backing'
  <2>1. /\ UNCHANGED <<exists, status, error, pc, item, halted>>
        /\ \A t \in Sessions : state'[t] \in {state[t], "Generated"}
    BY <1>1, <1>5 DEF Rebuilt, TypeOK
  <2>2. StatesInStep'
    BY <1>1, <2>1 DEF StatesInStep, TypeOK, HoldingStep
  <2> QED BY <1>1, <2>1, <2>2, OthersBack DEF Candidate
<1>6. CASE UNCHANGED vars \/ \E s \in Sessions : DeleteRequest(s)
  BY <1>1, <1>6 DEF vars, DeleteRequest, Backing, StatesInStep, StateBacked,
                    Candidate
<1>7. CASE Restart
  <2>1. StatesInStep'
    BY <1>7 DEF Restart, StatesInStep
  <2>2. /\ UNCHANGED <<exists, state>>
        /\ \A d \in Deployments :
             /\ Candidate(d) => Candidate(d)'
             /\ status[d] = "verified" => status'[d] = "verified"
    BY <1>1, <1>7 DEF Restart, Candidate, TypeOK
  <2> QED BY <1>1, <2>1, <2>2, OthersBack
<1> QED
  BY <1>2, <1>3, <1>4, <1>5, <1>6, <1>7 DEF Next

\* StateBacked: a session is only Running or Verified next to a row that
\* says so.
THEOREM StatesAreBacked ==
  ASSUME Reliable
  PROVE  Spec => []StateBacked
<1>1. Init => IInv /\ Backing
  BY InitCoordinated, InitCovered, InitBacked DEF IInv
<1>2. (IInv /\ Backing) /\ [Next]_vars => (IInv /\ Backing)'
  BY NextCovered, NextBacked
<1>3. Backing => StateBacked
  BY DEF Backing
<1> QED
  BY <1>1, <1>2, <1>3, PTL DEF Spec

-----------------------------------------------------------------------------
(***************************************************************************)
(* ImplementsSlot: LocalDemo refines DemoSlot.  The containers that are up *)
(* are the slot, localMu is its holder.                                    *)
(***************************************************************************)

\* Nothing is up: the slot is empty.
LEMMA SlotEmpty ==
  ASSUME \A s \in Sessions : ~up[s]
  PROVE  UpSession = None
  BY DEF UpSession

\* One session's containers are up: it is in the slot.
LEMMA SlotTaken ==
  ASSUME OneDemo, NEW s \in Sessions, up[s]
  PROVE  UpSession = s
  BY DEF UpSession, OneDemo

\* StopLocal empties the slot, or had nothing to stop.
LEMMA SlotStopped ==
  ASSUME OneDemo, up \in [Sessions -> BOOLEAN], NEW s \in Sessions,
         up' \in {up, [up EXCEPT ![s] = FALSE]}
  PROVE  UpSession' = UpSession \/ UpSession' = None
<1>1. CASE up' = up
  BY <1>1 DEF UpSession
<1>2. CASE up[s] /\ up' = [up EXCEPT ![s] = FALSE]
  <2>1. \A t \in Sessions : ~up'[t]
    BY <1>2 DEF OneDemo
  <2> QED BY <2>1 DEF UpSession
<1>3. CASE ~up[s] /\ up' = [up EXCEPT ![s] = FALSE]
  <2>1. up' = up
    BY <1>3
  <2> QED BY <2>1 DEF UpSession
<1> QED BY <1>1, <1>2, <1>3

\* The slot starts empty and free.
LEMMA SlotInit == Init => Slot!Init
  BY SlotEmpty DEF Init, Slot!Init

\* A goroutine takes the slot with localMu, clears it while it stops the
\* other demos, launches its own session and leaves.
LEMMA WorkerSlots ==
  ASSUME IInv, NEW d \in Deployments, Worker(d)
  PROVE  Slot!Next \/ UNCHANGED <<UpSession, lock>>
<1>1. /\ TypeOK /\ LockHeld /\ StopsAll /\ NothingOrphaned /\ OneDemo
  BY DEF IInv, Coordination, Coverage
<1>2. /\ up \in [Sessions -> BOOLEAN]
      /\ todo \in [Deployments -> SUBSET Deployments]
      /\ Owner \in [Deployments -> Sessions]
      /\ pc[d] \in HoldingStep => lock = d /\ lock # None
  BY <1>1, OwnerAssumption, LockAssumption DEF TypeOK, LockHeld
<1>3. CASE Acquire(d)
  <2>1. lock = None /\ lock' = d /\ UpSession' = UpSession
    BY <1>3 DEF Acquire, UpSession
  <2> QED BY <2>1 DEF Slot!Next, Slot!Take
<1>4. ASSUME NEW e \in Deployments, DownProject(d, e) \/ StopFails(d, e)
      PROVE  Slot!Next \/ UNCHANGED <<UpSession, lock>>
  <2>1. /\ lock' = lock /\ lock # None
        /\ up' \in {up, [up EXCEPT ![Owner[e]] = FALSE]}
    BY <1>2, <1>4 DEF DownProject, StopFails, HoldingStep
  <2>2. UpSession' = UpSession \/ UpSession' = None
    BY <1>1, <1>2, <2>1, SlotStopped
  <2> QED BY <2>1, <2>2 DEF Slot!Next, Slot!Clear
<1>5. CASE ComposeUp(d)
  <2>1. /\ pc[d] = "composing" /\ lock = d /\ lock' = d
        /\ ~up[Owner[d]] /\ up' = [up EXCEPT ![Owner[d]] = TRUE]
    BY <1>2, <1>5 DEF ComposeUp, HoldingStep
  <2>2. \A s \in Sessions : ~up[s]
    BY <1>1, <2>1 DEF NothingOrphaned, StopsAll, Candidates, InHand
  <2>3. UpSession = None
    BY <2>2, SlotEmpty
  <2>4. UpSession' = Owner[d]
    BY <1>2, <2>1, <2>2 DEF UpSession
  <2>5. d # Deleter /\ d # None
    BY LockAssumption
  <2>6. Slot!Launch(Owner[d])
    BY <1>2, <2>1, <2>3, <2>4, <2>5 DEF Slot!Launch
  <2> QED BY <1>2, <2>6 DEF Slot!Next
<1>6. CASE Finish(d)
  BY <1>6 DEF Finish, UpSession, Slot!Next, Slot!Leave
<1>7. CASE \/ Preflight(d) \/ PreflightFails(d) \/ List(d)
           \/ \E e \in Deployments : StopProject(d, e) \/ RecordStopped(d, e)
           \/ StopAbandoned(d) \/ StopDone(d)
           \/ ComposeReady(d) \/ ComposeFails(d)
           \/ Announce(d) \/ MarkRunning(d) \/ Progress(d)
           \/ Verify(d) \/ VerifyFails(d) \/ MarkVerified(d)
  BY <1>7 DEF Preflight, PreflightFails, List, StopProject, RecordStopped,
     StopAbandoned, StopDone, ComposeReady, ComposeFails, Announce,
     MarkRunning, Progress, Verify, VerifyFails, MarkVerified, UpSession
<1> QED
  BY <1>3, <1>4, <1>5, <1>6, <1>7 DEF Worker

\* The DELETE handler takes the slot, may clear it and leaves; it launches
\* nothing.
LEMMA DeleteSlots ==
  ASSUME IInv, Delete
  PROVE  Slot!Next \/ UNCHANGED <<UpSession, lock>>
<1>1. /\ TypeOK /\ LockHeld /\ OneDemo
      /\ up \in [Sessions -> BOOLEAN]
  BY DEF IInv, Coordination, Coverage, TypeOK
<1>2. del.step \in CleanupStep => lock # None /\ del.ses \in Sessions
  BY <1>1, LockAssumption DEF LockHeld, TypeOK, Deletion, IdleDeletion,
                              CleanupStep
<1>3. CASE DeleteAcquire
  <2>1. lock = None /\ lock' = Deleter /\ UpSession' = UpSession
    BY <1>3 DEF DeleteAcquire, UpSession
  <2> QED BY <2>1 DEF Slot!Next, Slot!Take
<1>4. CASE DeleteLocal
  <2>1. /\ lock' = lock /\ lock # None
        /\ up' \in {up, [up EXCEPT ![del.ses] = FALSE]}
    BY <1>2, <1>4 DEF DeleteLocal, CleanupStep
  <2>2. UpSession' = UpSession \/ UpSession' = None
    BY <1>1, <1>2, <1>4, <2>1, SlotStopped DEF DeleteLocal, CleanupStep
  <2> QED BY <2>1, <2>2 DEF Slot!Next, Slot!Clear
<1>5. CASE CleanupFails
  <2>1. /\ lock # None /\ lock' = None /\ del.ses \in Sessions
        /\ up' \in {up, [up EXCEPT ![del.ses] = FALSE]}
    BY <1>2, <1>5 DEF CleanupFails, Answer
  <2>2. UpSession' = UpSession \/ UpSession' = None
    BY <1>1, <2>1, SlotStopped
  <2> QED BY <2>1, <2>2 DEF Slot!Next, Slot!ClearAndLeave, Slot!Leave
<1>6. CASE DeleteRefused \/ DropSession
  BY <1>6 DEF DeleteRefused, DropSession, Answer, UpSession, Slot!Next,
              Slot!Leave
<1>7. CASE DeleteBegin \/ DeleteInspect \/ DeleteStack \/ RemoveFiles
           \/ RemoveConfig
  BY <1>7 DEF DeleteBegin, DeleteInspect, DeleteStack, RemoveFiles,
              RemoveConfig, UpSession
<1> QED
  BY <1>3, <1>4, <1>5, <1>6, <1>7 DEF Delete

\* Every step is a step of the slot, or none.
LEMMA SlotStep ==
  ASSUME IInv, [Next]_vars
  PROVE  [Slot!Next]_<<UpSession, lock>>
<1>1. ASSUME NEW d \in Deployments, Worker(d)
      PROVE  Slot!Next \/ UNCHANGED <<UpSession, lock>>
  BY <1>1, WorkerSlots
<1>2. CASE Delete
  BY <1>2, DeleteSlots
<1>3. ASSUME NEW r \in Requests, Handle(r)
      PROVE  UNCHANGED <<UpSession, lock>>
  BY <1>3 DEF Handle, StartCheck, TokenCheck, StartCreate, Claim,
     ResolveFails, Resolve, Spawn, SaveFails, RestoreToken, UpSession
<1>4. CASE UNCHANGED vars \/ \E s \in Sessions : DeleteRequest(s) \/ Rebuilt(s)
  BY <1>4 DEF vars, DeleteRequest, Rebuilt, UpSession
<1>5. CASE Restart
  BY <1>5 DEF Restart, UpSession, Slot!Next, Slot!Leave
<1> QED
  BY <1>1, <1>2, <1>3, <1>4, <1>5 DEF Next

\* ImplementsSlot: LocalDemo is an implementation of the slot: one demo at a
\* time, started by the holder of localMu for its own session.
THEOREM SlotImplemented ==
  ASSUME Reliable
  PROVE  Spec => ImplementsSlot
<1>1. Init => Slot!Init
  BY SlotInit
<1>2. IInv /\ [Next]_vars => [Slot!Next]_<<UpSession, lock>>
  BY SlotStep
<1> QED
  BY <1>1, <1>2, Covered, PTL DEF Spec, ImplementsSlot, Slot!Spec
=============================================================================
