------------------------- MODULE GrafanaStackProofs -------------------------
(* Theorems about GrafanaStack, for any number of requests and goroutines. *)
EXTENDS GrafanaStack, TLAPS

Row == Stack \cup {NoStack}
RequestRow == [step : RequestStep, seen : Row]
WorkerRow == [step : WorkerStep, told : BOOLEAN, item : Row]

\* A row may take any status.
LEMMA RowUpdates ==
  ASSUME NEW x \in Row, NEW value \in StackStatus
  PROVE  /\ x.url \in BOOLEAN
         /\ [status |-> value, url |-> x.url] \in Stack
         /\ [x EXCEPT !.status = value] \in Stack
<1>1. CASE x \in Stack
  BY <1>1 DEF Stack
<1>2. CASE x = NoStack
  BY <1>2 DEF Stack, NoStack
<1> QED BY <1>1, <1>2 DEF Row

\* Nothing in progress is well typed.
LEMMA IdleTyped == IdleRequest \in RequestRow /\ IdleWorker \in WorkerRow
  BY DEF IdleRequest, IdleWorker, RequestRow, WorkerRow, Row, RequestStep,
         WorkerStep

\* The initial state is well typed.
LEMMA InitTyped == Init => TypeOK
<1> QED
  BY IdleTyped DEF Init, TypeOK, RequestRow, WorkerRow, Row, DeleteStep

\* A request moves on with a snapshot, or is answered.
LEMMA RequestMoves ==
  ASSUME TypeOK, NEW r \in Requests
  PROVE  /\ \A step \in RequestStep, seen \in Row :
              Ask(r, step, seen) => req' \in [Requests -> RequestRow]
         /\ Respond(r) => req' \in [Requests -> RequestRow]
<1>1. IdleRequest \in RequestRow
  BY IdleTyped
<1> QED
  BY <1>1 DEF TypeOK, Ask, Respond, RequestRow, Row

\* A goroutine moves on with its copy of the row.
LEMMA WorkerMoves ==
  ASSUME TypeOK, NEW w \in Workers
  PROVE  /\ \A step \in WorkerStep, item \in Row :
              Goto(w, step, item) => work' \in [Workers -> WorkerRow]
         /\ work[w] \in WorkerRow /\ work[w].item \in Row
         /\ Save(work[w].item) => row' \in Row
<1>1. work[w] \in WorkerRow
  BY DEF TypeOK, WorkerRow, Row
<1>2. work[w].item \in Row
  BY <1>1 DEF WorkerRow
<1>3. \A step \in WorkerStep, item \in Row :
        [step |-> step, told |-> FALSE, item |-> item] \in WorkerRow
  BY DEF WorkerRow
<1>4. \A step \in WorkerStep, item \in Row :
        Goto(w, step, item) => work' \in [Workers -> WorkerRow]
  BY <1>3 DEF TypeOK, Goto, WorkerRow, Row
<1>5. Save(work[w].item) => row' \in Row
  BY <1>2 DEF TypeOK, Save, Saved, Row
<1> QED
  BY <1>1, <1>2, <1>4, <1>5

\* Requests keep the types.
LEMMA HandleTyped ==
  ASSUME TypeOK, NEW r \in Requests, Handle(r)
  PROVE  TypeOK'
<1> USE DEF TypeOK, world
<1>1. row \in Row /\ NoStack \in Row
  BY DEF Row
<1>2. CASE \/ CreateCheck(r) \/ CreateRefused(r) \/ CreateUnread(r)
           \/ ConnectCheck(r) \/ ConnectRefused(r)
  <2>1. req' \in [Requests -> RequestRow]
    BY <1>1, <1>2, RequestMoves
    DEF CreateCheck, CreateRefused, CreateUnread, ConnectCheck,
        ConnectRefused, RequestStep
  <2> QED
    BY <1>2, <2>1
    DEF CreateCheck, CreateRefused, CreateUnread, ConnectCheck,
        ConnectRefused, RequestRow, Row
<1>3. CASE CreateClaim(r)
  <2>1. req' \in [Requests -> RequestRow]
    BY <1>1, <1>3, RequestMoves DEF CreateClaim, RequestStep
  <2>2. row' \in Row
    <3>1. "provisioning" \in StackStatus
      BY DEF StackStatus
    <3> QED BY <1>1, <1>3, <3>1, RowUpdates DEF CreateClaim, Row
  <2> QED BY <1>3, <2>1, <2>2 DEF CreateClaim, RequestRow, Row
<1>4. ASSUME NEW w \in Workers, CreateSpawn(r, w) PROVE TypeOK'
  <2>1. req' \in [Requests -> RequestRow]
    BY <1>4, RequestMoves DEF CreateSpawn
  <2>2. [step |-> "regions", told |-> FALSE, item |-> row] \in WorkerRow
    BY <1>1 DEF WorkerRow, WorkerStep, ProvisionStep
  <2> QED BY <1>4, <2>1, <2>2 DEF CreateSpawn, RequestRow, WorkerRow, Row
<1>5. ASSUME NEW w \in Workers, ConnectClaim(r, w) PROVE TypeOK'
  <2>1. req' \in [Requests -> RequestRow]
    BY <1>5, RequestMoves DEF ConnectClaim
  <2>2. "awaiting_auth" \in StackStatus /\ req[r].seen \in Row
    BY DEF StackStatus, Row
  <2>3. [step |-> "check", told |-> FALSE,
         item |-> [status |-> "awaiting_auth", url |-> req[r].seen.url]]
           \in WorkerRow
    <3>1. [status |-> "awaiting_auth", url |-> req[r].seen.url] \in Row
      BY <2>2, RowUpdates DEF Row
    <3> QED BY <3>1 DEF WorkerRow, WorkerStep, ConnectStep
  <2>4. row' \in Row
    BY <1>1, <1>5, <2>2, RowUpdates DEF ConnectClaim, Row
  <2> QED
    BY <1>5, <2>1, <2>3, <2>4 DEF ConnectClaim, RequestRow, WorkerRow, Row
<1> QED
  BY <1>2, <1>3, <1>4, <1>5 DEF Handle

\* Goroutines keep the types.
LEMMA WorkTyped ==
  ASSUME TypeOK, NEW w \in Workers, Work(w)
  PROVE  TypeOK'
<1> USE DEF TypeOK, world
<1>1. /\ work[w].item \in Row /\ NoStack \in Row
      /\ \A value \in StackStatus : With(w, value) \in Row
  BY WorkerMoves, RowUpdates DEF Row, With
<1>2. CASE Say(w)
  <2>1. row' \in Row
    BY <1>2, WorkerMoves DEF Say
  <2>2. work' \in [Workers -> WorkerRow]
    BY <1>2, WorkerMoves DEF Say, WorkerRow, Row
  <2> QED BY <1>2, <2>1, <2>2 DEF Say, WorkerRow, Row
<1>3. CASE Regions(w) \/ Lookup(w) \/ Create(w) \/ Told(w) \/ CheckFails(w)
           \/ Login(w)
  <2>1. work' \in [Workers -> WorkerRow]
    BY <1>1, <1>3, WorkerMoves
    DEF Regions, Lookup, Create, Told, CheckFails, Login, Same, WorkerStep,
        ProvisionStep, ConnectStep
  <2> QED
    BY <1>3, <2>1
    DEF Regions, Lookup, Create, Told, CheckFails, Login, WorkerRow, Row
<1>4. CASE Poll(w)
  <2>1. [status |-> "awaiting_auth", url |-> TRUE] \in Row
    BY DEF Row, Stack, StackStatus
  <2>2. work' \in [Workers -> WorkerRow]
    BY <1>4, <2>1, WorkerMoves DEF Poll, WorkerStep
  <2> QED BY <1>4, <2>2 DEF Poll, WorkerRow, Row
<1>5. CASE ProvisionFails(w) \/ BadTarget(w) \/ CheckSucceeds(w) \/ Verify(w)
           \/ ConnectFails(w)
  <2>1. work' \in [Workers -> WorkerRow]
    BY <1>1, <1>5, WorkerMoves
    DEF ProvisionFails, BadTarget, CheckSucceeds, Verify, ConnectFails,
        WorkerStep, StackStatus
  <2> QED
    BY <1>5, <2>1
    DEF ProvisionFails, BadTarget, CheckSucceeds, Verify, ConnectFails,
        WorkerRow, Row
<1>6. CASE Settle(w) \/ SettleFails(w) \/ Answer(w)
  <2>1. row' \in Row
    BY <1>6, WorkerMoves
    DEF Settle, SettleFails, Answer, Saved, Save, Row
  <2>2. work' \in [Workers -> WorkerRow]
    BY <1>1, <1>6, WorkerMoves
    DEF Settle, SettleFails, Answer, Same, WorkerStep, ConnectStep
  <2> QED
    BY <1>6, <2>1, <2>2 DEF Settle, SettleFails, Answer, WorkerRow, Row
<1> QED
  BY <1>2, <1>3, <1>4, <1>5, <1>6 DEF Work

\* Deletion keeps the types.
LEMMA DeleteTyped == TypeOK /\ (DeleteRequest \/ Delete) => TypeOK'
  BY DEF TypeOK, DeleteRequest, Delete, DeleteBegin, DeleteStack,
         RemoveConfig, DropSession, DeleteFails, DeleteStep, world

\* Recovery keeps the types.
LEMMA RestartTyped == TypeOK /\ Restart => TypeOK'
<1> SUFFICES ASSUME TypeOK, Restart PROVE TypeOK'
  OBVIOUS
<1>1. row' \in Stack \cup {NoStack}
  BY DEF TypeOK, Restart, Stack, NoStack, StackStatus
<1>2. IdleRequest \in RequestRow /\ IdleWorker \in WorkerRow
  BY IdleTyped
<1> QED
  BY <1>1, <1>2 DEF TypeOK, Restart, world, RequestRow, WorkerRow, Row,
                    DeleteStep

LEMMA NextTyped == TypeOK /\ [Next]_vars => TypeOK'
  BY HandleTyped, WorkTyped, DeleteTyped, RestartTyped
  DEF Next, vars, TypeOK

\* The rows, the requests and the goroutines are what the code's types say.
THEOREM TypeCorrect == Spec => []TypeOK
  BY InitTyped, NextTyped, PTL DEF Spec

-----------------------------------------------------------------------------
(***************************************************************************)
(* The inductive invariant.                                                *)
(***************************************************************************)
LEMMA InitCoordinated == Init => Coordination
  BY InitTyped
  DEF Init, Coordination, OneAtATime, WorkersInStep, ClaimApart, GateHeld,
      DeletionApart, Emptied, ReadyVerified, InProgress, IdleRequest,
      IdleWorker, NoStack, ProvisionStep, ConnectStep

\* A goroutine that is at work, or lingers, shows in the row.
LEMMA WorkShows ==
  ASSUME Coordination, NEW w \in Workers, work[w].step # "idle"
  PROVE  \/ row.status \in InProgress
         \/ /\ Lingers(w)
            /\ work[w].step \in {"tell", "settle"}
            /\ row.status \in {"failed", "absent"}
<1>1. work[w].step \in WorkerStep
  BY DEF Coordination, TypeOK
<1> QED
  BY <1>1 DEF Coordination, WorkersInStep, WorkerStep, InProgress, Lingers

\* Where a goroutine is after Goto, and that the others stay.
LEMMA GotoMoves ==
  ASSUME TypeOK, NEW w \in Workers, NEW step, NEW item, Goto(w, step, item)
  PROVE  /\ work'[w].step = step /\ work'[w].item = item
         /\ \A v \in Workers \ {w} : work'[v] = work[v]
  BY DEF TypeOK, Goto

\* Nobody but a goroutine at work moves: the others stay idle.
LEMMA OthersIdle ==
  ASSUME Coordination, NEW w \in Workers, work[w].step # "idle"
  PROVE  \A v \in Workers \ {w} : work[v].step = "idle"
  BY DEF Coordination, OneAtATime

\* Requests keep the invariant.
LEMMA HandleCoordinated ==
  ASSUME Coordination, SettlesPromptly, NEW r \in Requests, Handle(r)
  PROVE  Coordination'
<1>1. TypeOK'
  BY HandleTyped DEF Coordination
<1> USE DEF world
<1>2. CASE \/ CreateCheck(r) \/ CreateRefused(r) \/ CreateUnread(r)
           \/ ConnectCheck(r) \/ ConnectRefused(r)
  <2>1. /\ \A q \in Requests \ {r} : req'[q] = req[q]
        /\ req'[r].step # "created"
        /\ del # "idle" \/ ~exists => req'[r].step = "idle"
    BY <1>2
    DEF CreateCheck, CreateRefused, CreateUnread, ConnectCheck,
        ConnectRefused, Ask, Respond, IdleRequest, Coordination, TypeOK,
        Admitted
  <2>2. UNCHANGED <<exists, marker, row, cloud, config, work, del>>
    BY <1>2 DEF CreateCheck, CreateRefused, CreateUnread, ConnectCheck,
                ConnectRefused
  <2> QED
    BY <1>1, <2>1, <2>2
    DEF Coordination, OneAtATime, WorkersInStep, ClaimApart, GateHeld,
        DeletionApart, Emptied, ReadyVerified
<1>3. CASE CreateClaim(r)
  <2>1. \A w \in Workers : work[w].step = "idle"
    BY <1>3, WorkShows DEF CreateClaim, InProgress
  <2>2. /\ \A q \in Requests \ {r} : req'[q] = req[q]
        /\ \A q \in Requests : req[q].step # "created"
        /\ del = "idle" /\ exists
    BY <1>3 DEF CreateClaim, Ask, Coordination, TypeOK, ClaimApart, GateHeld
  <2> QED
    BY <1>1, <1>3, <2>1, <2>2
    DEF CreateClaim, Coordination, OneAtATime, WorkersInStep, ClaimApart,
        GateHeld, DeletionApart, Emptied, ReadyVerified, InProgress,
        ProvisionStep, ConnectStep
<1>4. ASSUME NEW w \in Workers, CreateSpawn(r, w) PROVE Coordination'
  <2>1. /\ row.status = "provisioning"
        /\ \A v \in Workers : work[v].step = "idle"
        /\ \A q \in Requests \ {r} : req[q].step # "created"
    BY <1>4 DEF CreateSpawn, Coordination, ClaimApart
  <2>2. /\ work'[w].step = "regions" /\ work'[w].item = row
        /\ \A v \in Workers \ {w} : work'[v] = work[v]
        /\ \A q \in Requests \ {r} : req'[q] = req[q]
        /\ req'[r].step = "idle"
    BY <1>4 DEF CreateSpawn, Respond, IdleRequest, Coordination, TypeOK
  <2> QED
    BY <1>1, <1>4, <2>1, <2>2
    DEF CreateSpawn, Coordination, OneAtATime, WorkersInStep, ClaimApart,
        GateHeld, DeletionApart, Emptied, ReadyVerified, ProvisionStep,
        ConnectStep
<1>5. ASSUME NEW w \in Workers, ConnectClaim(r, w) PROVE Coordination'
  <2>1. /\ \A v \in Workers : work[v].step = "idle"
        /\ \A q \in Requests : req[q].step # "created"
        /\ del = "idle" /\ exists
    BY <1>5, WorkShows
    DEF ConnectClaim, Connectable, InProgress, Coordination, ClaimApart,
        GateHeld
  <2>2. /\ work'[w].step = "check"
        /\ work'[w].item.status = "awaiting_auth"
        /\ row'.status = "awaiting_auth"
        /\ \A v \in Workers \ {w} : work'[v] = work[v]
        /\ \A q \in Requests \ {r} : req'[q] = req[q]
        /\ req'[r].step = "idle"
    BY <1>5
    DEF ConnectClaim, Respond, IdleRequest, Coordination, TypeOK, Stack,
        NoStack
  <2> QED
    BY <1>1, <1>5, <2>1, <2>2
    DEF ConnectClaim, Connectable, Coordination, OneAtATime, WorkersInStep,
        ClaimApart, GateHeld, DeletionApart, Emptied, ReadyVerified,
        InProgress, ProvisionStep, ConnectStep
<1> QED
  BY <1>2, <1>3, <1>4, <1>5 DEF Handle

\* Deletion keeps the invariant.
LEMMA DeleteCoordinated ==
  ASSUME Coordination, DeleteRequest \/ Delete
  PROVE  Coordination'
<1>1. TypeOK'
  BY DeleteTyped DEF Coordination
<1>2. UNCHANGED <<req, work>>
  BY DEF DeleteRequest, Delete, DeleteBegin, DeleteStack, RemoveConfig,
         DropSession, DeleteFails
<1>3. OneAtATime' /\ (UNCHANGED row => ClaimApart')
  BY <1>2 DEF Coordination, OneAtATime, ClaimApart
<1> USE DEF world
<1>4. CASE DeleteRequest \/ DeleteBegin \/ DeleteFails
  <2>1. UNCHANGED <<exists, row, config>>
    BY <1>4 DEF DeleteRequest, DeleteBegin, DeleteFails
  <2>2. (cloud' => cloud) /\ (UNCHANGED cloud \/ marker)
    <3>1. CASE DeleteRequest \/ DeleteBegin
      BY <3>1 DEF DeleteRequest, DeleteBegin
    <3>2. CASE DeleteFails
      <4>1. cloud' = cloud \/ (cloud' = FALSE /\ del = "stack")
        BY <3>2 DEF DeleteFails, Coordination, TypeOK
      <4> QED BY <4>1 DEF Coordination, DeletionApart
    <3> QED BY <1>4, <3>1, <3>2
  <2>3. /\ marker' = marker \/ (marker' /\ row.status \notin InProgress)
        /\ del' \in {"idle", "begin"} \/ (del' = "stack" /\ marker')
        /\ ~exists => del' = "idle"
    BY <1>4 DEF DeleteRequest, DeleteBegin, DeleteFails, Coordination,
                DeletionApart, InProgress
  <2>4. WorkersInStep'
    BY <1>2, <2>1, <2>2 DEF Coordination, WorkersInStep, DeletionApart,
                            InProgress
  <2>5. GateHeld'
    BY <1>2, <1>4, <2>1
    DEF DeleteRequest, DeleteBegin, DeleteFails, Coordination, GateHeld
  <2>6. DeletionApart'
    BY <2>1, <2>3 DEF Coordination, DeletionApart
  <2>7. Emptied' /\ ReadyVerified'
    BY <2>1, <2>2, <2>3 DEF Coordination, Emptied, ReadyVerified
  <2> QED
    BY <1>1, <1>3, <2>1, <2>4, <2>5, <2>6, <2>7 DEF Coordination
<1>5. CASE DeleteStack \/ RemoveConfig
  <2>1. /\ UNCHANGED <<exists, marker, row>> /\ marker
        /\ exists /\ del # "idle" /\ del' \in {"config", "row"}
    BY <1>5 DEF DeleteStack, RemoveConfig, Coordination, DeletionApart
  <2>2. WorkersInStep'
    BY <1>2, <2>1 DEF Coordination, WorkersInStep, DeletionApart, InProgress
  <2>3. GateHeld' /\ DeletionApart'
    BY <1>2, <2>1 DEF Coordination, GateHeld, DeletionApart
  <2>4. CASE DeleteStack
    <3>1. ~cloud' /\ UNCHANGED config /\ del' = "config"
      BY <2>4 DEF DeleteStack, Coordination, Emptied
    <3> QED
      BY <1>1, <1>3, <2>1, <2>2, <2>3, <3>1
      DEF Coordination, Emptied, ReadyVerified
  <2>5. CASE RemoveConfig
    <3>1. ~config' /\ UNCHANGED cloud /\ ~cloud
      BY <2>5 DEF RemoveConfig, Coordination, Emptied
    <3> QED
      BY <1>1, <1>3, <2>1, <2>2, <2>3, <3>1
      DEF Coordination, Emptied, ReadyVerified
  <2> QED BY <1>5, <2>4, <2>5
<1>6. CASE DropSession
  <2>1. \A w \in Workers : work[w].step # "idle" =>
          Lingers(w) /\ work[w].step \in {"tell", "settle"}
    BY <1>6, WorkShows DEF DropSession, Coordination, DeletionApart
  <2>2. WorkersInStep'
    BY <1>2, <1>6, <2>1
    DEF DropSession, WorkersInStep, Lingers, NoStack, ProvisionStep,
        ConnectStep
  <2> QED
    BY <1>1, <1>2, <1>3, <1>6, <2>2
    DEF DropSession, Coordination, ClaimApart, GateHeld, DeletionApart,
        Emptied, ReadyVerified, InProgress, NoStack
<1> QED
  BY <1>4, <1>5, <1>6 DEF Delete

\* Recovery keeps the invariant.
LEMMA RestartCoordinated ==
  ASSUME Coordination, Restart
  PROVE  Coordination'
<1>1. TypeOK'
  BY RestartTyped DEF Coordination
<1>2. /\ \A w \in Workers : work'[w].step = "idle"
      /\ \A r \in Requests : req'[r].step = "idle"
      /\ del' = "idle"
  <2>1. IdleWorker.step = "idle" /\ IdleRequest.step = "idle"
    BY DEF IdleWorker, IdleRequest
  <2> QED BY <2>1 DEF Restart
<1>3. /\ row'.status \notin InProgress
      /\ row'.status = "ready" <=> row.status = "ready"
      /\ row'.status = "absent" <=> row.status = "absent"
  <2>1. CASE row = NoStack
    BY <2>1 DEF Restart, NoStack, InProgress
  <2>2. CASE row \in Stack
    BY <2>2 DEF Restart, Stack, InProgress
  <2> QED BY <2>1, <2>2 DEF Coordination, TypeOK
<1> QED
  BY <1>1, <1>2, <1>3
  DEF Restart, world, Coordination, OneAtATime, WorkersInStep, ClaimApart,
      GateHeld, DeletionApart, Emptied, ReadyVerified, ProvisionStep,
      ConnectStep

\* What a step of a goroutine may touch.
LEMMA WorkFrame ==
  ASSUME Coordination, NEW w \in Workers, Work(w)
  PROVE  /\ UNCHANGED <<exists, marker, req, del>>
         /\ work[w].step # "idle"
         /\ \A v \in Workers \ {w} : work'[v] = work[v]
         /\ row' = row \/ (row.status # "absent" /\ row' = work[w].item)
         /\ UNCHANGED cloud \/ (cloud' = TRUE /\ work[w].step = "create")
         /\ UNCHANGED config \/ (config' = TRUE /\ work[w].step = "login")
<1> USE DEF world
<1>1. TypeOK
  BY DEF Coordination
<1>2. CASE Say(w)
  BY <1>1, <1>2 DEF Say, Save, Saved, TypeOK, ProvisionStep, ConnectStep
<1>3. CASE Regions(w) \/ Lookup(w) \/ Create(w) \/ Poll(w) \/ Told(w)
  BY <1>1, <1>3, GotoMoves DEF Regions, Lookup, Create, Poll, Told, At
<1>4. CASE ProvisionFails(w)
  <2>1. UNCHANGED cloud \/ (cloud' = TRUE /\ work[w].step = "create")
    BY <1>1, <1>4 DEF ProvisionFails, TypeOK
  <2> QED
    BY <1>1, <1>4, <2>1, GotoMoves DEF ProvisionFails, ProvisionStep
<1>5. CASE Settle(w) \/ SettleFails(w) \/ Answer(w)
  BY <1>1, <1>5, GotoMoves DEF Settle, SettleFails, Answer, Save, Saved
<1>6. CASE BadTarget(w) \/ CheckSucceeds(w) \/ CheckFails(w) \/ Login(w)
           \/ Verify(w)
  BY <1>1, <1>6, GotoMoves
  DEF BadTarget, CheckSucceeds, CheckFails, Login, Verify, At
<1>7. CASE ConnectFails(w)
  <2>1. UNCHANGED config \/ (config' = TRUE /\ work[w].step = "login")
    BY <1>1, <1>7 DEF ConnectFails, TypeOK
  <2> QED BY <1>1, <1>7, <2>1, GotoMoves DEF ConnectFails, At
<1> QED
  BY <1>2, <1>3, <1>4, <1>5, <1>6, <1>7 DEF Work

\* So it keeps what is not about the goroutine itself.
LEMMA WorkShared ==
  ASSUME Coordination, NEW w \in Workers, Work(w)
  PROVE  /\ OneAtATime' /\ ClaimApart' /\ GateHeld'
         /\ DeletionApart' /\ Emptied' /\ ReadyVerified'
<1>1. /\ work[w].step # "idle" /\ work[w].step \in WorkerStep
      /\ UNCHANGED <<exists, marker, req, del>>
      /\ \A v \in Workers \ {w} : work'[v].step = "idle"
      /\ \A r \in Requests : req[r].step # "created"
  BY WorkFrame, OthersIdle DEF Coordination, TypeOK, ClaimApart
<1>2. OneAtATime' /\ ClaimApart' /\ GateHeld'
  BY <1>1 DEF Coordination, OneAtATime, ClaimApart, GateHeld
<1>3. /\ work[w].item.status # "absent"
      /\ work[w].item.status = "ready" => cloud /\ config
  BY <1>1 DEF Coordination, WorkersInStep, WorkerStep
<1>4. row'.status = "absent" <=> row.status = "absent"
  BY <1>3, WorkFrame
<1>5. ASSUME row.status \notin InProgress
      PROVE  /\ row'.status \notin InProgress
             /\ UNCHANGED <<cloud, config>>
  BY <1>1, <1>5, WorkFrame, WorkShows DEF Lingers, InProgress
<1>6. (cloud => cloud') /\ (config => config')
  BY WorkFrame
<1>7. DeletionApart'
  BY <1>1, <1>4, <1>5 DEF Coordination, DeletionApart
<1>8. Emptied'
  BY <1>1, <1>4, <1>5
  DEF Coordination, DeletionApart, Emptied, InProgress
<1>9. ReadyVerified'
  <2>1. row.status # "ready"
    BY <1>1, WorkShows DEF InProgress
  <2> QED BY <1>3, <1>6, <2>1, WorkFrame DEF ReadyVerified
<1> QED BY <1>2, <1>7, <1>8, <1>9

\* And the goroutine itself stays in step with the row.
LEMMA WorkInStep ==
  ASSUME Coordination, NEW w \in Workers, Work(w)
  PROVE  WorkersInStep'
<1>1. TypeOK /\ \A v \in Workers \ {w} : work'[v].step = "idle"
  BY WorkFrame, OthersIdle DEF Coordination
<1> DEFINE Mine ==
      /\ work[w].step \in ProvisionStep =>
           work[w].item.status = "provisioning" /\ row.status = "provisioning"
      /\ work[w].step \in {"tell", "settle"} =>
           \/ /\ work[w].item.status = "awaiting_auth"
              /\ row.status \in InProgress
           \/ /\ work[w].item.status = "failed"
              /\ row.status \in {"provisioning", "failed", "absent"}
      /\ work[w].step \in ConnectStep =>
           work[w].item.status = "awaiting_auth" /\ row.status = "awaiting_auth"
      /\ work[w].step = "answer" =>
           /\ row.status = "awaiting_auth"
           /\ \/ work[w].item.status = "needs_auth"
              \/ work[w].item.status = "ready" /\ cloud /\ config
<1>2. Mine
  BY DEF Coordination, WorkersInStep
<1>3. SUFFICES Mine'
  BY <1>1 DEF WorkersInStep, ProvisionStep, ConnectStep
<1>4. \A value \in StackStatus : With(w, value).status = value
  BY <1>1 DEF TypeOK, With, Stack, NoStack
<1> USE DEF world, ProvisionStep, ConnectStep, At, Same, InProgress
<1>5. CASE Say(w)
  <2>1. /\ work'[w].step = work[w].step /\ work'[w].item = work[w].item
        /\ work[w].step # "answer"
        /\ row' = row \/ row' = work[w].item
    BY <1>1, <1>5 DEF Say, Save, Saved, TypeOK
  <2> QED BY <1>2, <2>1
<1>6. CASE Regions(w) \/ Lookup(w) \/ Create(w) \/ Told(w)
  BY <1>1, <1>2, <1>6, GotoMoves DEF Regions, Lookup, Create, Told
<1>7. CASE Poll(w)
  BY <1>1, <1>2, <1>7, GotoMoves DEF Poll
<1>8. CASE ProvisionFails(w)
  <2>1. /\ work'[w].step = "tell" /\ work'[w].item.status = "failed"
        /\ UNCHANGED row
    BY <1>1, <1>4, <1>8, GotoMoves DEF ProvisionFails, StackStatus
  <2> QED BY <1>2, <1>8, <2>1 DEF ProvisionFails
<1>9. CASE Settle(w)
  <2>1. CASE work[w].item.status = "awaiting_auth"
    BY <1>1, <1>9, <2>1, GotoMoves DEF Settle, Saved
  <2>2. CASE work[w].item.status # "awaiting_auth"
    BY <1>1, <1>9, <2>2, GotoMoves DEF Settle
  <2> QED BY <2>1, <2>2
<1>10. CASE SettleFails(w) \/ Answer(w)
  BY <1>1, <1>10, GotoMoves DEF SettleFails, Answer
<1>11. CASE BadTarget(w) \/ CheckSucceeds(w) \/ Verify(w) \/ ConnectFails(w)
  <2>1. /\ work'[w].step = "answer" /\ UNCHANGED row
        /\ work[w].step \in ConnectStep
        /\ \/ work'[w].item.status = "needs_auth"
           \/ work'[w].item.status = "ready" /\ cloud' /\ config'
    BY <1>1, <1>4, <1>11, GotoMoves
    DEF BadTarget, CheckSucceeds, Verify, ConnectFails, StackStatus
  <2> QED BY <1>2, <2>1
<1>12. CASE CheckFails(w) \/ Login(w)
  BY <1>1, <1>2, <1>12, GotoMoves DEF CheckFails, Login
<1> QED
  BY <1>5, <1>6, <1>7, <1>8, <1>9, <1>10, <1>11, <1>12 DEF Work

LEMMA NextCoordinated ==
  SettlesPromptly /\ Coordination /\ [Next]_vars => Coordination'
<1> SUFFICES ASSUME SettlesPromptly, Coordination, [Next]_vars
             PROVE  Coordination'
  OBVIOUS
<1>1. ASSUME NEW w \in Workers, Work(w) PROVE Coordination'
  BY <1>1, WorkTyped, WorkShared, WorkInStep DEF Coordination
<1>2. CASE UNCHANGED vars
  BY <1>2
  DEF vars, Coordination, TypeOK, OneAtATime, WorkersInStep, ClaimApart,
      GateHeld, DeletionApart, Emptied, ReadyVerified
<1> QED
  BY <1>1, <1>2, HandleCoordinated, DeleteCoordinated, RestartCoordinated
  DEF Next

-----------------------------------------------------------------------------
(***************************************************************************)
(* The properties.                                                         *)
(***************************************************************************)
\* The inductive invariant: the row, the goroutines' copies of it, the
\* requests and the deletion of CreateStack, ConnectStack and DeleteSession
\* agree, if a failure is written before its retry.
THEOREM Coordinated == ASSUME SettlesPromptly PROVE Spec => []Coordination
  BY InitCoordinated, NextCoordinated, PTL DEF Spec

\* ClaimGrafanaStack and ClaimStackConnect let one goroutine at a time work
\* on the stack.
THEOREM OneWorkerAtATime == ASSUME SettlesPromptly PROVE Spec => []OneWorker
<1>1. Coordination => OneWorker
  BY DEF Coordination, OneAtATime, OneWorker, Busy
<1> QED BY <1>1, Coordinated, PTL

\* BeginSessionDeletion and the claims keep goroutines off a session from its
\* marker on.
THEOREM DeletionExcludesWork ==
  ASSUME SettlesPromptly PROVE Spec => []NoWorkWhileDeleting
<1>1. Coordination => NoWorkWhileDeleting
  BY WorkShows DEF Coordination, DeletionApart, NoWorkWhileDeleting, Busy
<1> QED BY <1>1, Coordinated, PTL

\* DeleteSession leaves neither a stack nor credentials behind, whatever
\* failed and was tried again.
THEOREM CloudIsEmptied ==
  ASSUME SettlesPromptly PROVE Spec => []NothingLeftBehind
<1>1. Coordination => NothingLeftBehind
  BY DEF Coordination, DeletionApart, Emptied, NothingLeftBehind
<1> QED BY <1>1, Coordinated, PTL

\* A stack whose row says "ready" exists and has its credentials on disk.
THEOREM ReadyIsVerified == ASSUME SettlesPromptly PROVE Spec => []ReadyVerified
<1>1. Coordination => ReadyVerified
  BY DEF Coordination
<1> QED BY <1>1, Coordinated, PTL

\* UpdateGrafanaStack is unconditional, yet no goroutine takes "ready" back.
THEOREM ReadyIsKept == ASSUME SettlesPromptly PROVE Spec => ReadyStays
<1> DEFINE Kept == row.status = "ready" /\ row' # row
                     => row'.status \in {"awaiting_auth", "absent"}
<1>1. ASSUME Coordination, [Next]_vars PROVE Kept
  <2> SUFFICES ASSUME row.status = "ready", row' # row
               PROVE  row'.status \in {"awaiting_auth", "absent"}
    OBVIOUS
  <2>1. ASSUME NEW w \in Workers, Work(w) PROVE FALSE
    BY <1>1, <2>1, WorkFrame, WorkShows DEF InProgress
  <2>2. ASSUME NEW r \in Requests, Handle(r)
        PROVE  row'.status = "awaiting_auth"
    <3>1. row \in Stack
      BY <1>1 DEF Coordination, TypeOK, NoStack
    <3>2. PICK w \in Workers : ConnectClaim(r, w)
      BY <2>2
      DEF Handle, CreateCheck, CreateClaim, CreateRefused, CreateUnread,
          ConnectCheck, ConnectRefused, CreateSpawn
    <3> QED BY <3>1, <3>2 DEF ConnectClaim, Stack
  <2>3. CASE DeleteRequest \/ Delete
    BY <2>3
    DEF DeleteRequest, Delete, DeleteBegin, DeleteStack, RemoveConfig,
        DropSession, DeleteFails, NoStack
  <2>4. ~Restart /\ ~UNCHANGED vars
    BY DEF Restart, vars
  <2> QED BY <1>1, <2>1, <2>2, <2>3, <2>4 DEF Next
<1> QED BY <1>1, Coordinated, PTL DEF Spec, ReadyStays
=============================================================================
