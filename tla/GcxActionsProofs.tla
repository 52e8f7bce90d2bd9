-------------------------- MODULE GcxActionsProofs --------------------------
(***************************************************************************)
(* Theorems about GcxActions, for any number of actions, clicks, requests  *)
(* and goroutines.  What is said of the stack comes from the inductive     *)
(* invariant of GrafanaStack: every step of GcxNext is one of its steps,   *)
(* or leaves the stack alone.                                              *)
(***************************************************************************)
EXTENDS GcxActions, GrafanaStackProofs

ActionRow == [status : ActionStatus, stack : BOOLEAN]
ClickRow == [step : ClickStep, action : Actions, seen : BOOLEAN]

-----------------------------------------------------------------------------
(***************************************************************************)
(* The stack, seen from the composition.                                   *)
(***************************************************************************)
\* The commands do not touch the variables of the stack.
LEMMA AgentApart == AgentStep => UNCHANGED vars
  BY DEF AgentStep, StartTurn, EndTurn, Call, Propose, ReadStart, ReadExecute,
         ReadFinish, Click, ClickLoad, Approve, Reject, ClickRefused,
         ClickCheck, ClickExecute, ClickFinish

\* A step of the composition is a step of the stack or none.
LEMMA StackRefined == [GcxNext]_allVars => [Next]_vars
  BY AgentApart DEF GcxNext, StackStep, Next, allVars

\* The rows of the stack keep their types beside the commands.
LEMMA StackTyped == GcxSpec => []TypeOK
<1>1. GcxInit => TypeOK
  BY InitTyped DEF GcxInit
<1>2. TypeOK /\ [GcxNext]_allVars => TypeOK'
  BY StackRefined, NextTyped
<1> QED BY <1>1, <1>2, PTL DEF GcxSpec

\* And so do the row, the goroutines, the requests and the deletion.
LEMMA StackCoordinated ==
  ASSUME SettlesPromptly PROVE GcxSpec => []Coordination
<1>1. GcxInit => Coordination
  BY InitCoordinated DEF GcxInit
<1>2. Coordination /\ [GcxNext]_allVars => Coordination'
  BY StackRefined, NextCoordinated
<1> QED BY <1>1, <1>2, PTL DEF GcxSpec

-----------------------------------------------------------------------------
(***************************************************************************)
(* The invariant of the commands.                                          *)
(***************************************************************************)
\* Nothing has been asked yet.
LEMMA InitDecided == GcxInit => Decisions
<1> SUFFICES ASSUME GcxInit PROVE Decisions
  OBVIOUS
<1>1. \A c \in Clicks : click[c] \in ClickRow /\ click[c].step = "idle"
  <2>1. \A a \in Actions :
          IdleClick(a) \in ClickRow /\ IdleClick(a).step = "idle"
    BY DEF IdleClick, ClickRow, ClickStep
  <2>2. \A c \in Clicks : \E a \in Actions : click[c] = IdleClick(a)
    BY Zenon DEF GcxInit
  <2> QED BY <2>1, <2>2, Zenon
<1>2. GcxTypeOK
  <2>1. click \in [Clicks -> ClickRow]
    BY <1>1, Zenon DEF GcxInit
  <2>2. /\ action = [a \in Actions |-> NoAction]
        /\ ran = [a \in Actions |-> 0]
        /\ turn = NoTurn
        /\ tool = [a \in Actions |-> "none"]
        /\ lost = FALSE
    BY Zenon DEF GcxInit
  <2>3. action \in [Actions -> ActionRow]
    BY <2>2 DEF NoAction, ActionRow, ActionStatus
  <2>4. ran \in [Actions -> 0..2]
    BY <2>2
  <2>5. turn \in [on : BOOLEAN, seen : BOOLEAN]
    BY <2>2 DEF NoTurn
  <2>6. tool \in [Actions -> Execution] /\ lost \in BOOLEAN
    BY <2>2 DEF Execution
  <2> QED
    BY <2>1, <2>3, <2>4, <2>5, <2>6 DEF GcxTypeOK, ActionRow, ClickRow
<1> QED
  BY <1>1, <1>2
  DEF GcxInit, Decisions, GateShared, Quiet, ReadsInStep, ClicksInStep,
      RowsInStep, Deciding, NoAction, NoTurn

\* Recording a status changes that and nothing else.
LEMMA Recorded ==
  ASSUME GcxTypeOK, NEW a \in Actions, NEW status \in ActionStatus,
         Record(a, status)
  PROVE  /\ action' \in [Actions -> ActionRow]
         /\ action'[a].status = status /\ action'[a].stack = action[a].stack
         /\ \A b \in Actions \ {a} : action'[b] = action[b]
  BY DEF GcxTypeOK, Record, ActionRow

\* A result is stored, or the row is left as it was.
LEMMA FinishRecords ==
  ASSUME GcxTypeOK, NEW a \in Actions, NEW status \in ActionStatus,
         Finished(a, status)
  PROVE  /\ action' \in [Actions -> ActionRow]
         /\ action'[a].status \in {status, action[a].status}
         /\ action'[a].stack = action[a].stack
         /\ \A b \in Actions \ {a} : action'[b] = action[b]
<1>1. PICK result \in {status, action[a].status} : Record(a, result)
  BY DEF Finished
<1>2. result \in ActionStatus
  BY <1>1 DEF GcxTypeOK
<1> QED BY <1>1, <1>2, Recorded

\* A command that has not run runs once or not at all, and is only complete
\* when it did.
LEMMA ExecutedOnce ==
  ASSUME GcxTypeOK, NEW a \in Actions, ran[a] = 0,
         NEW outcome \in {"complete", "failed"}, Executed(a, outcome)
  PROVE  /\ ran' \in [Actions -> 0..2]
         /\ ran'[a] \in {0, 1}
         /\ outcome = "complete" => ran'[a] = 1
         /\ \A b \in Actions \ {a} : ran'[b] = ran[b]
  BY DEF GcxTypeOK, Executed

\* A click goes to another step of the same decision.
LEMMA ClickMoves ==
  ASSUME GcxTypeOK, NEW c \in Clicks, NEW step \in ClickStep, ClickGoto(c, step)
  PROVE  /\ click' \in [Clicks -> ClickRow]
         /\ click'[c].step = step
         /\ click'[c].action = click[c].action
         /\ click'[c].seen = click[c].seen
         /\ \A d \in Clicks \ {c} : click'[d] = click[d]
  BY DEF GcxTypeOK, ClickGoto, ClickRow

\* A turn begins behind the gate and ends when its reads are over.
LEMMA TurnDecided ==
  ASSUME Decisions, StartTurn \/ EndTurn, UNCHANGED lost
  PROVE  Decisions'
<1>1. UNCHANGED <<exists, marker, del, action, ran, tool, click, lost>>
  BY DEF StartTurn, EndTurn, vars
<1>2. CASE StartTurn
  <2>1. ~turn.on /\ Admitted /\ turn' = [on |-> TRUE, seen |-> SessionStack]
    BY <1>2 DEF StartTurn
  <2>2. turn' \in [on : BOOLEAN, seen : BOOLEAN]
    BY <2>1 DEF SessionStack
  <2>3. GcxTypeOK'
    BY <1>1, <2>2 DEF Decisions, GcxTypeOK
  <2>4. \A a \in Actions : tool[a] = "none"
    BY <2>1 DEF Decisions, ReadsInStep
  <2>5. ReadsInStep' /\ ClicksInStep' /\ RowsInStep'
    BY <1>1, <2>4
    DEF Decisions, ReadsInStep, ClicksInStep, RowsInStep, Deciding
  <2>6. GateShared'
    BY <1>1, <2>1 DEF GateShared, Admitted
  <2> QED BY <2>3, <2>5, <2>6 DEF Decisions
<1>3. CASE EndTurn
  <2>1. turn' = NoTurn /\ \A a \in Actions : tool[a] = "none"
    BY <1>3 DEF EndTurn
  <2>2. GcxTypeOK'
    BY <1>1, <2>1 DEF Decisions, GcxTypeOK, NoTurn
  <2>3. ReadsInStep' /\ ClicksInStep' /\ RowsInStep'
    BY <1>1, <2>1
    DEF Decisions, ReadsInStep, ClicksInStep, RowsInStep, Deciding
  <2>4. Quiet => Quiet'
    BY <1>1, <2>1 DEF Quiet, NoTurn
  <2>5. GateShared'
    BY <1>1, <2>4 DEF Decisions, GateShared
  <2> QED BY <2>2, <2>3, <2>5 DEF Decisions
<1> QED BY <1>2, <1>3

\* run_gcx keeps the invariant: a row it makes is new, and a read is the
\* turn's until it is finished.
LEMMA CallDecided ==
  ASSUME Decisions, NEW a \in Actions, Call(a), UNCHANGED lost
  PROVE  Decisions'
<1>1. UNCHANGED <<exists, marker, del, turn, click, lost>>
  BY DEF Call, Propose, ReadStart, ReadExecute, ReadFinish, vars
<1>2. GcxTypeOK /\ GateShared'
  BY <1>1 DEF Decisions, GateShared, Quiet
<1>3. turn.on => exists
  BY DEF Decisions, GateShared, Quiet
<1>4. CASE Propose(a)
  <2>1. /\ turn.on /\ action[a].status = "absent"
        /\ action' = [action EXCEPT ![a] = [status |-> "pending", stack |-> TRUE]]
        /\ UNCHANGED <<ran, tool>>
    BY <1>4 DEF Propose
  <2>2. tool[a] = "none" /\ ran[a] = 0
    BY <1>3, <2>1 DEF Decisions, ReadsInStep, RowsInStep
  <2>3. \A c \in Clicks : Deciding(c) => click[c].action # a
    BY <2>1 DEF Decisions, ClicksInStep
  <2>4. /\ action'[a].status = "pending" /\ action'[a].stack
        /\ \A b \in Actions \ {a} : action'[b] = action[b]
    BY <1>2, <2>1 DEF GcxTypeOK
  <2>5. GcxTypeOK'
    BY <1>1, <1>2, <2>1 DEF GcxTypeOK, ActionStatus
  <2>6. ReadsInStep' /\ RowsInStep'
    BY <1>1, <2>1, <2>2, <2>4 DEF Decisions, ReadsInStep, RowsInStep
  <2>7. ClicksInStep'
    BY <1>1, <1>2, <2>1, <2>3, <2>4
    DEF Decisions, ClicksInStep, Deciding, GcxTypeOK
  <2> QED BY <1>2, <2>5, <2>6, <2>7 DEF Decisions
<1>5. CASE ReadStart(a)
  <2>1. /\ turn.on /\ action[a].status = "absent"
        /\ action' = [action EXCEPT ![a] = [status |-> "running",
                                            stack |-> turn.seen]]
        /\ tool' = [tool EXCEPT ![a] = "execute"]
        /\ UNCHANGED ran
    BY <1>5 DEF ReadStart
  <2>2. ran[a] = 0
    BY <1>3, <2>1 DEF Decisions, RowsInStep
  <2>3. \A c \in Clicks : Deciding(c) => click[c].action # a
    BY <2>1 DEF Decisions, ClicksInStep
  <2>4. /\ action'[a].status = "running" /\ action'[a].stack = turn.seen
        /\ tool'[a] = "execute"
        /\ \A b \in Actions \ {a} :
             action'[b] = action[b] /\ tool'[b] = tool[b]
    BY <1>2, <2>1 DEF GcxTypeOK
  <2>5. GcxTypeOK'
    BY <1>1, <1>2, <2>1 DEF GcxTypeOK, ActionStatus, Execution
  <2>6. ReadsInStep' /\ RowsInStep'
    BY <1>1, <2>1, <2>2, <2>4 DEF Decisions, ReadsInStep, RowsInStep
  <2>7. ClicksInStep'
    BY <1>1, <1>2, <2>1, <2>3, <2>4
    DEF Decisions, ClicksInStep, Deciding, GcxTypeOK
  <2> QED BY <1>2, <2>5, <2>6, <2>7 DEF Decisions
<1>6. CASE ReadExecute(a)
  <2>1. PICK outcome \in {"complete", "failed"} :
          /\ tool[a] = "execute" /\ Executed(a, outcome)
          /\ tool' = [tool EXCEPT ![a] = outcome]
          /\ UNCHANGED action
    BY <1>6 DEF ReadExecute
  <2>2. ran[a] = 0 /\ action[a].status = "running"
    BY <2>1 DEF Decisions, ReadsInStep
  <2>3. /\ ran' \in [Actions -> 0..2]
        /\ ran'[a] \in {0, 1}
        /\ outcome = "complete" => ran'[a] = 1
        /\ \A b \in Actions \ {a} : ran'[b] = ran[b]
    BY <1>2, <2>1, <2>2, ExecutedOnce
  <2>4. tool'[a] = outcome /\ \A b \in Actions \ {a} : tool'[b] = tool[b]
    BY <1>2, <2>1 DEF GcxTypeOK
  <2>5. \A c \in Clicks : Deciding(c) => click[c].action # a
    BY <2>1 DEF Decisions, ClicksInStep
  <2>6. GcxTypeOK'
    BY <1>1, <1>2, <2>1, <2>3 DEF GcxTypeOK, Execution
  <2>7. ReadsInStep' /\ RowsInStep'
    BY <1>1, <2>1, <2>2, <2>3, <2>4 DEF Decisions, ReadsInStep, RowsInStep
  <2>8. ClicksInStep'
    BY <1>1, <1>2, <2>1, <2>3, <2>4, <2>5
    DEF Decisions, ClicksInStep, Deciding, GcxTypeOK
  <2> QED BY <1>2, <2>6, <2>7, <2>8 DEF Decisions
<1>7. CASE ReadFinish(a)
  <2>1. /\ tool[a] \in {"complete", "failed"} /\ Finished(a, tool[a])
        /\ tool' = [tool EXCEPT ![a] = "none"]
        /\ UNCHANGED ran
    BY <1>7 DEF ReadFinish
  <2>2. action[a].status = "running" /\ (tool[a] = "complete" => ran[a] = 1)
    BY <2>1 DEF Decisions, ReadsInStep
  <2>3. /\ action' \in [Actions -> ActionRow]
        /\ action'[a].status \in {"complete", "failed", "running"}
        /\ action'[a].status = "complete" => ran[a] = 1
        /\ \A b \in Actions \ {a} : action'[b] = action[b]
    BY <1>2, <2>1, <2>2, FinishRecords DEF ActionStatus
  <2>4. tool'[a] = "none" /\ \A b \in Actions \ {a} : tool'[b] = tool[b]
    BY <1>2, <2>1 DEF GcxTypeOK
  <2>5. \A c \in Clicks : Deciding(c) => click[c].action # a
    BY <2>1 DEF Decisions, ClicksInStep
  <2>6. GcxTypeOK'
    BY <1>1, <1>2, <2>1, <2>3 DEF GcxTypeOK, Execution, ActionRow
  <2>7. ReadsInStep' /\ RowsInStep'
    BY <1>1, <2>1, <2>3, <2>4 DEF Decisions, ReadsInStep, RowsInStep
  <2>8. ClicksInStep'
    BY <1>1, <1>2, <2>1, <2>3, <2>4, <2>5
    DEF Decisions, ClicksInStep, Deciding, GcxTypeOK
  <2> QED BY <1>2, <2>6, <2>7, <2>8 DEF Decisions
<1> QED BY <1>4, <1>5, <1>6, <1>7 DEF Call

\* decideGCXAction keeps the invariant: ClaimGCXAction gives the action to
\* one click, which keeps it until its result is recorded.
LEMMA ClickDecided ==
  ASSUME Decisions, NEW c \in Clicks, Click(c), UNCHANGED lost
  PROVE  Decisions'
<1>1. UNCHANGED <<exists, marker, del, turn, tool, lost>>
  BY DEF Click, ClickLoad, Approve, Reject, ClickRefused, ClickCheck,
         ClickExecute, ClickFinish, vars
<1>2. GcxTypeOK /\ click[c].action \in Actions
  BY DEF Decisions, GcxTypeOK
<1> DEFINE a == click[c].action
<1>3. GateShared'
  <2>1. CASE ClickLoad(c)
    BY <1>1, <2>1 DEF ClickLoad, GateShared, Admitted
  <2>2. CASE ~ClickLoad(c)
    <3>1. click[c].step # "idle"
      BY <2>2 DEF Click, Approve, Reject, ClickRefused, ClickCheck,
                  ClickExecute, ClickFinish
    <3> QED BY <1>1, <3>1 DEF Decisions, GateShared, Quiet
  <2> QED BY <2>1, <2>2
<1>4. CASE ClickLoad(c) \/ ClickRefused(c)
  <2>1. /\ UNCHANGED <<action, ran>>
        /\ click' \in [Clicks -> ClickRow]
        /\ ~Deciding(c) /\ click'[c].step \in {"idle", "claim"}
        /\ \A d \in Clicks \ {c} : click'[d] = click[d]
    <3>1. CASE ClickLoad(c)
      BY <1>2, <3>1
      DEF ClickLoad, GcxTypeOK, ClickRow, ClickStep, SessionStack, Deciding
    <3>2. CASE ClickRefused(c)
      BY <1>2, <3>2, ClickMoves DEF ClickRefused, ClickStep, Deciding
    <3> QED BY <1>4, <3>1, <3>2
  <2>2. GcxTypeOK'
    BY <1>1, <1>2, <2>1 DEF GcxTypeOK, ClickRow
  <2>3. ReadsInStep' /\ RowsInStep'
    BY <1>1, <2>1 DEF Decisions, ReadsInStep, RowsInStep
  <2>4. ClicksInStep'
    BY <1>1, <2>1 DEF Decisions, ClicksInStep, Deciding
  <2> QED BY <1>3, <2>2, <2>3, <2>4 DEF Decisions
<1>5. CASE Approve(c) \/ Reject(c)
  <2>1. PICK status \in {"running", "rejected"} :
          /\ action[a].status = "pending" /\ Record(a, status)
          /\ ClickGoto(c, IF status = "running" THEN "check" ELSE "idle")
          /\ UNCHANGED ran
    BY <1>5 DEF Approve, Reject
  <2>2. action[a].stack /\ ran[a] = 0 /\ tool[a] = "none"
    BY <1>2, <2>1 DEF Decisions, RowsInStep, ReadsInStep
  <2>3. \A d \in Clicks : Deciding(d) => click[d].action # a
    BY <2>1 DEF Decisions, ClicksInStep
  <2>4. /\ action' \in [Actions -> ActionRow]
        /\ action'[a].status = status /\ action'[a].stack
        /\ \A b \in Actions \ {a} : action'[b] = action[b]
    BY <1>2, <2>1, <2>2, Recorded DEF ActionStatus
  <2>5. /\ click' \in [Clicks -> ClickRow]
        /\ click'[c].step = IF status = "running" THEN "check" ELSE "idle"
        /\ click'[c].action = a
        /\ \A d \in Clicks \ {c} : click'[d] = click[d]
    BY <1>2, <2>1, ClickMoves DEF ClickStep
  <2>6. GcxTypeOK'
    BY <1>1, <1>2, <2>1, <2>4, <2>5 DEF GcxTypeOK, ActionRow, ClickRow
  <2>7. ReadsInStep' /\ RowsInStep'
    BY <1>1, <2>1, <2>2, <2>4 DEF Decisions, ReadsInStep, RowsInStep
  <2>8. ClicksInStep'
    <3>1. \A d \in Clicks \ {c} :
            /\ Deciding(d)' <=> Deciding(d)
            /\ Deciding(d) => click[d].action \in Actions \ {a}
      BY <1>2, <2>3, <2>5 DEF Deciding, GcxTypeOK
    <3>2. Deciding(c)' => click'[c].step = "check" /\ status = "running"
      BY <2>5 DEF Deciding
    <3> QED
      BY <1>1, <2>1, <2>2, <2>4, <2>5, <3>1, <3>2 DEF Decisions, ClicksInStep
  <2> QED BY <1>3, <2>6, <2>7, <2>8 DEF Decisions
<1>6. CASE ClickCheck(c)
  <2>1. PICK step \in {"execute", "failed"} :
          /\ click[c].step = "check" /\ ClickGoto(c, step)
          /\ UNCHANGED <<action, ran>>
    BY <1>6 DEF ClickCheck
  <2>2. /\ click' \in [Clicks -> ClickRow]
        /\ click'[c].step = step /\ click'[c].action = a
        /\ \A d \in Clicks \ {c} : click'[d] = click[d]
    BY <1>2, <2>1, ClickMoves DEF ClickStep, Execution
  <2>3. GcxTypeOK'
    BY <1>1, <1>2, <2>1, <2>2 DEF GcxTypeOK, ClickRow
  <2>4. ReadsInStep' /\ RowsInStep'
    BY <1>1, <2>1 DEF Decisions, ReadsInStep, RowsInStep
  <2>5. ClicksInStep'
    BY <1>1, <2>1, <2>2 DEF Decisions, ClicksInStep, Deciding
  <2> QED BY <1>3, <2>3, <2>4, <2>5 DEF Decisions
<1>7. CASE ClickExecute(c)
  <2>1. PICK outcome \in {"complete", "failed"} :
          /\ click[c].step = "execute" /\ Executed(a, outcome)
          /\ ClickGoto(c, outcome)
          /\ UNCHANGED action
    BY <1>7 DEF ClickExecute
  <2>2. /\ ran[a] = 0 /\ action[a].status = "running" /\ tool[a] = "none"
        /\ \A d \in Clicks \ {c} : Deciding(d) => click[d].action # a
    BY <2>1 DEF Decisions, ClicksInStep, Deciding
  <2>3. /\ ran' \in [Actions -> 0..2]
        /\ ran'[a] \in {0, 1}
        /\ outcome = "complete" => ran'[a] = 1
        /\ \A b \in Actions \ {a} : ran'[b] = ran[b]
    BY <1>2, <2>1, <2>2, ExecutedOnce
  <2>4. /\ click' \in [Clicks -> ClickRow]
        /\ click'[c].step = outcome /\ click'[c].action = a
        /\ \A d \in Clicks \ {c} : click'[d] = click[d]
    BY <1>2, <2>1, ClickMoves DEF ClickStep, Execution
  <2>5. GcxTypeOK'
    BY <1>1, <1>2, <2>1, <2>3, <2>4 DEF GcxTypeOK, ClickRow
  <2>6. ReadsInStep' /\ RowsInStep'
    BY <1>1, <2>1, <2>2, <2>3 DEF Decisions, ReadsInStep, RowsInStep
  <2>7. ClicksInStep'
    BY <1>1, <1>2, <2>1, <2>2, <2>3, <2>4
    DEF Decisions, ClicksInStep, Deciding, GcxTypeOK
  <2> QED BY <1>3, <2>5, <2>6, <2>7 DEF Decisions
<1>8. CASE ClickFinish(c)
  <2>1. /\ click[c].step \in {"complete", "failed"}
        /\ Finished(a, click[c].step)
        /\ ClickGoto(c, "idle")
        /\ UNCHANGED ran
    BY <1>8 DEF ClickFinish
  <2>2. /\ action[a].status = "running" /\ tool[a] = "none"
        /\ click[c].step = "complete" => ran[a] = 1
        /\ \A d \in Clicks \ {c} : Deciding(d) => click[d].action # a
    BY <2>1 DEF Decisions, ClicksInStep, Deciding
  <2>3. /\ action' \in [Actions -> ActionRow]
        /\ action'[a].status \in {"complete", "failed", "running"}
        /\ action'[a].status = "complete" => ran[a] = 1
        /\ \A b \in Actions \ {a} : action'[b] = action[b]
    BY <1>2, <2>1, <2>2, FinishRecords DEF ActionStatus
  <2>4. /\ click' \in [Clicks -> ClickRow]
        /\ click'[c].step = "idle"
        /\ \A d \in Clicks \ {c} : click'[d] = click[d]
    BY <1>2, <2>1, ClickMoves DEF ClickStep
  <2>5. GcxTypeOK'
    BY <1>1, <1>2, <2>1, <2>3, <2>4 DEF GcxTypeOK, ActionRow, ClickRow
  <2>6. ReadsInStep' /\ RowsInStep'
    BY <1>1, <2>1, <2>2, <2>3 DEF Decisions, ReadsInStep, RowsInStep
  <2>7. ClicksInStep'
    <3>1. \A d \in Clicks \ {c} :
            /\ Deciding(d)' <=> Deciding(d)
            /\ Deciding(d) => click[d].action \in Actions \ {a}
      BY <1>2, <2>2, <2>4 DEF Deciding, GcxTypeOK
    <3>2. ~Deciding(c)'
      BY <2>4 DEF Deciding
    <3> QED
      BY <1>1, <2>1, <2>3, <2>4, <3>1, <3>2 DEF Decisions, ClicksInStep
  <2> QED BY <1>3, <2>5, <2>6, <2>7 DEF Decisions
<1> QED BY <1>4, <1>5, <1>6, <1>7, <1>8 DEF Click

\* A restart, whose turns and clicks are gone.
LEMMA ForgetDecided ==
  ASSUME Decisions, Restart, Forget, lost' \in BOOLEAN
  PROVE  Decisions'
<1>1. /\ UNCHANGED <<exists, action, ran>>
      /\ turn' = NoTurn /\ tool' = [a \in Actions |-> "none"]
      /\ click' = [c \in Clicks |-> [click[c] EXCEPT !.step = "idle",
                                                     !.seen = FALSE]]
  BY DEF Restart, Forget
<1>2. /\ click' \in [Clicks -> ClickRow]
      /\ \A c \in Clicks : click'[c].step = "idle"
  BY <1>1 DEF Decisions, GcxTypeOK, ClickRow, ClickStep
<1>3. GcxTypeOK'
  BY <1>1, <1>2 DEF Decisions, GcxTypeOK, NoTurn, Execution, ClickRow
<1>4. GateShared'
  BY <1>1, <1>2 DEF GateShared, Quiet, NoTurn
<1>5. ReadsInStep' /\ ClicksInStep' /\ RowsInStep'
  BY <1>1, <1>2 DEF Decisions, ReadsInStep, ClicksInStep, RowsInStep, Deciding
<1> QED BY <1>3, <1>4, <1>5 DEF Decisions

\* The stack's requests and goroutines, and a deletion that waits for the
\* lock, leave the commands alone; a deletion that has the lock meets none.
LEMMA StackDecided ==
  ASSUME Decisions, StackStep
  PROVE  Decisions'
<1>1. lost' \in BOOLEAN
  BY DEF StackStep
<1>2. ASSUME UNCHANGED gcx, UNCHANGED exists, GateShared' PROVE Decisions'
  BY <1>1, <1>2
  DEF gcx, Decisions, GcxTypeOK, ReadsInStep, ClicksInStep, RowsInStep,
      Deciding
<1>3. ASSUME NEW r \in Requests, Handle(r), UNCHANGED gcx PROVE Decisions'
  <2>1. UNCHANGED <<exists, marker, del>>
    BY <1>3
    DEF Handle, CreateCheck, CreateClaim, CreateRefused, CreateUnread,
        ConnectCheck, ConnectRefused, CreateSpawn, ConnectClaim
  <2> QED BY <1>2, <1>3, <2>1 DEF gcx, Decisions, GateShared, Quiet
<1>4. ASSUME NEW w \in Workers, Work(w), UNCHANGED gcx PROVE Decisions'
  <2>1. UNCHANGED <<exists, marker, del>>
    BY <1>4
    DEF Work, Say, Regions, Lookup, Create, Poll, ProvisionFails, Told,
        Settle, SettleFails, BadTarget, CheckSucceeds, CheckFails, Login,
        Verify, ConnectFails, Answer
  <2> QED BY <1>2, <1>4, <2>1 DEF gcx, Decisions, GateShared, Quiet
<1>5. ASSUME Quiet, DeleteRequest, UNCHANGED gcx PROVE Decisions'
  BY <1>2, <1>5 DEF DeleteRequest, gcx, GateShared, Quiet
<1>6. ASSUME Delete, Cascade, UNCHANGED <<ran, turn, tool, click>>
      PROVE  Decisions'
  <2>1. del # "idle"
    BY <1>6
    DEF Delete, DeleteBegin, DeleteStack, RemoveConfig, DropSession,
        DeleteFails
  <2>2. Quiet
    BY <2>1 DEF Decisions, GateShared
  <2>3. /\ \A a \in Actions : tool[a] = "none"
        /\ \A c \in Clicks : ~Deciding(c)
    BY <2>2 DEF Decisions, ReadsInStep, Quiet, Deciding
  <2>4. GateShared' /\ ReadsInStep' /\ ClicksInStep'
    BY <1>6, <2>2, <2>3
    DEF GateShared, Quiet, ReadsInStep, ClicksInStep, Deciding
  <2>5. exists' => exists
    BY <1>6
    DEF Delete, DeleteBegin, DeleteStack, RemoveConfig, DropSession,
        DeleteFails
  <2>6. CASE exists'
    BY <1>1, <1>6, <2>4, <2>5, <2>6
    DEF Cascade, Decisions, GcxTypeOK, RowsInStep
  <2>7. CASE ~exists'
    <3>1. /\ action' \in [Actions -> ActionRow]
          /\ \A a \in Actions : action'[a].status = "absent"
      <4>1. action' = [a \in Actions |-> NoAction]
        BY <1>6, <2>7 DEF Cascade
      <4> QED BY <4>1 DEF NoAction, ActionRow, ActionStatus
    <3>2. GcxTypeOK' /\ RowsInStep'
      BY <1>1, <1>6, <2>7, <3>1
      DEF Decisions, GcxTypeOK, RowsInStep, ActionRow
    <3> QED BY <2>4, <3>2 DEF Decisions
  <2> QED BY <2>6, <2>7
<1>7. ASSUME Restart, Forget PROVE Decisions'
  BY <1>1, <1>7, ForgetDecided
<1> QED BY <1>3, <1>4, <1>5, <1>6, <1>7 DEF StackStep

\* Every step keeps the invariant.
LEMMA NextDecided == Decisions /\ [GcxNext]_allVars => Decisions'
<1> SUFFICES ASSUME Decisions, [GcxNext]_allVars PROVE Decisions'
  OBVIOUS
<1>1. ASSUME AgentStep, UNCHANGED lost PROVE Decisions'
  BY <1>1, TurnDecided, CallDecided, ClickDecided DEF AgentStep
<1>2. CASE UNCHANGED allVars
  BY <1>2
  DEF allVars, vars, gcx, Decisions, GcxTypeOK, GateShared, Quiet,
      ReadsInStep, ClicksInStep, RowsInStep, Deciding
<1> QED BY <1>1, <1>2, StackDecided DEF GcxNext

-----------------------------------------------------------------------------
(***************************************************************************)
(* The properties.                                                         *)
(***************************************************************************)
\* The inductive invariant: a row of gcx_actions, the turn or the click that
\* has it and what its command did agree, also beside a deletion and after a
\* restart.
THEOREM Decided == GcxSpec => []Decisions
  BY InitDecided, NextDecided, PTL DEF GcxSpec

\* ClaimGCXAction gives a command to one click, and nothing that is left
\* "running" is taken up again: no command reaches Grafana twice.
THEOREM CommandRunsOnce == GcxSpec => []RunsOnce
<1>1. Decisions => RunsOnce
  BY DEF Decisions, RowsInStep, RunsOnce
<1> QED BY <1>1, Decided, PTL

\* FinishGCXAction and the claim record what was done: a command said to be
\* waiting or refused has not run, a complete one has.
THEOREM ReceiptIsTrue == GcxSpec => []ReceiptTrue
<1>1. Decisions => ReceiptTrue
  BY DEF Decisions, RowsInStep, ReceiptTrue
<1> QED BY <1>1, Decided, PTL

\* Results are written by identifier alone, yet none is written over another
\* and no claim takes up a settled action.
THEOREM ReceiptIsFinal == GcxSpec => ReceiptStays
<1> DEFINE Settled == {"complete", "failed", "rejected"}
           Stays == \A a \in Actions : action[a].status \in Settled
                      => action'[a].status \in {action[a].status, "absent"}
<1>1. ASSUME Decisions, [GcxNext]_allVars PROVE Stays
  <2> USE <1>1
  <2>1. GcxTypeOK
    BY DEF Decisions
  <2>2. ASSUME NEW b \in Actions, Call(b) PROVE Stays
    <3>1. CASE Propose(b) \/ ReadStart(b)
      BY <2>1, <3>1 DEF Propose, ReadStart, GcxTypeOK
    <3>2. CASE ReadExecute(b)
      BY <3>2 DEF ReadExecute
    <3>3. CASE ReadFinish(b)
      <4>1. action[b].status = "running" /\ Finished(b, tool[b])
            /\ tool[b] \in ActionStatus
        BY <3>3 DEF ReadFinish, Decisions, ReadsInStep, ActionStatus
      <4> QED BY <2>1, <4>1, FinishRecords
    <3> QED BY <2>2, <3>1, <3>2, <3>3 DEF Call
  <2>3. ASSUME NEW c \in Clicks, Click(c) PROVE Stays
    <3>1. CASE Approve(c) \/ Reject(c)
      <4>1. click[c].action \in Actions
        BY <2>1 DEF GcxTypeOK
      <4>2. /\ action[click[c].action].status = "pending"
            /\ \/ Record(click[c].action, "running")
               \/ Record(click[c].action, "rejected")
        BY <3>1 DEF Approve, Reject
      <4> QED BY <2>1, <4>1, <4>2, Recorded DEF ActionStatus
    <3>2. CASE ClickFinish(c)
      <4>1. /\ click[c].action \in Actions
            /\ click[c].step \in ActionStatus
            /\ action[click[c].action].status = "running"
            /\ Finished(click[c].action, click[c].step)
        BY <2>1, <3>2
        DEF ClickFinish, Decisions, ClicksInStep, Deciding, GcxTypeOK,
            ActionStatus
      <4> QED BY <2>1, <4>1, FinishRecords
    <3>3. CASE ClickLoad(c) \/ ClickRefused(c) \/ ClickCheck(c)
               \/ ClickExecute(c)
      BY <3>3 DEF ClickLoad, ClickRefused, ClickCheck, ClickExecute
    <3> QED BY <2>3, <3>1, <3>2, <3>3 DEF Click
  <2>4. CASE StackStep
    <3>1. UNCHANGED action \/ Cascade
      BY <2>4 DEF StackStep, gcx, Forget
    <3>2. Cascade => UNCHANGED action
                       \/ \A a \in Actions : action'[a].status = "absent"
      BY DEF Cascade, NoAction
    <3> QED BY <3>1, <3>2
  <2>5. CASE StartTurn \/ EndTurn \/ UNCHANGED allVars
    BY <2>5 DEF StartTurn, EndTurn, allVars, gcx
  <2> QED BY <2>2, <2>3, <2>4, <2>5 DEF GcxNext, AgentStep
<1> QED BY <1>1, Decided, PTL DEF GcxSpec, ReceiptStays

-----------------------------------------------------------------------------
\* What a turn or a click has seen of the stack stays true while it is on: a
\* deletion, the only one to take the stack and its credentials away, waits.
LEMMA SeenKept ==
  ASSUME Coordination, Decisions, StackSeen, [GcxNext]_allVars
  PROVE  StackSeen'
<1>1. CASE AgentStep
  <2>1. UNCHANGED <<cloud, config>>
    BY <1>1, AgentApart DEF vars, world
  <2>2. SessionStack /\ Admitted => cloud /\ config
    BY DEF SessionStack, Admitted, Coordination, ReadyVerified
  <2>3. CASE StartTurn \/ EndTurn \/ \E a \in Actions : Call(a)
    <3>1. /\ UNCHANGED click
          /\ \/ UNCHANGED turn \/ turn' = NoTurn
             \/ Admitted /\ turn' = [on |-> TRUE, seen |-> SessionStack]
      BY <2>3 DEF StartTurn, EndTurn, Call, Propose, ReadStart, ReadExecute,
                  ReadFinish
    <3> QED BY <2>1, <2>2, <3>1 DEF StackSeen, NoTurn
  <2>4. ASSUME NEW c \in Clicks, Click(c) PROVE StackSeen'
    <3>1. UNCHANGED turn
      BY <2>4 DEF Click, ClickLoad, Approve, Reject, ClickRefused, ClickCheck,
                  ClickExecute, ClickFinish
    <3>2. GcxTypeOK
      BY DEF Decisions
    <3>3. CASE ClickLoad(c)
      BY <2>1, <2>2, <3>1, <3>2, <3>3 DEF ClickLoad, StackSeen, GcxTypeOK
    <3>4. CASE ClickCheck(c)
      <4>1. PICK step \in {"execute", "failed"} :
              /\ click[c].step = "check" /\ ClickGoto(c, step)
              /\ step = "execute"
                   => action[click[c].action].stack = click[c].seen
        BY <3>4 DEF ClickCheck
      <4>2. action[click[c].action].stack
        BY <4>1 DEF Decisions, ClicksInStep, Deciding
      <4>3. /\ click'[c].step = step /\ click'[c].seen = click[c].seen
            /\ \A d \in Clicks \ {c} : click'[d] = click[d]
        BY <3>2, <4>1, ClickMoves DEF ClickStep, Execution
      <4> QED BY <2>1, <3>1, <4>1, <4>2, <4>3 DEF StackSeen
    <3>5. CASE \/ Approve(c) \/ Reject(c) \/ ClickRefused(c)
               \/ ClickExecute(c) \/ ClickFinish(c)
      <4>1. PICK step \in ClickStep \ {"execute"} :
              /\ click[c].step # "idle" /\ ClickGoto(c, step)
        BY <3>5 DEF Approve, Reject, ClickRefused, ClickExecute, ClickFinish,
                    ClickStep, Execution
      <4>2. /\ click'[c].step = step /\ click'[c].seen = click[c].seen
            /\ \A d \in Clicks \ {c} : click'[d] = click[d]
        BY <3>2, <4>1, ClickMoves
      <4> QED BY <2>1, <3>1, <4>1, <4>2 DEF StackSeen
    <3> QED BY <2>4, <3>3, <3>4, <3>5 DEF Click
  <2> QED BY <1>1, <2>3, <2>4 DEF AgentStep
<1>2. CASE StackStep
  <2>1. CASE Restart /\ Forget
    <3>1. turn' = NoTurn /\ \A c \in Clicks : click'[c].step = "idle"
      BY <2>1 DEF Forget, Decisions, GcxTypeOK
    <3> QED BY <3>1 DEF StackSeen, NoTurn
  <2>2. CASE Delete \/ Quiet
    <3>1. Delete => Quiet
      BY DEF Decisions, GateShared, Delete, DeleteBegin, DeleteStack,
             RemoveConfig, DropSession, DeleteFails
    <3>2. UNCHANGED <<turn, click>> => StackSeen'
      BY <2>2, <3>1 DEF StackSeen, Quiet
    <3> QED BY <1>2, <2>1, <3>2 DEF StackStep, gcx
  <2>3. ASSUME NEW w \in Workers, Work(w), UNCHANGED gcx PROVE StackSeen'
    BY <2>3, WorkFrame DEF gcx, StackSeen
  <2>4. ASSUME NEW r \in Requests, Handle(r), UNCHANGED gcx PROVE StackSeen'
    <3>1. UNCHANGED world
      BY <2>4
      DEF Handle, CreateCheck, CreateClaim, CreateRefused, CreateUnread,
          ConnectCheck, ConnectRefused, CreateSpawn, ConnectClaim
    <3> QED BY <2>4, <3>1 DEF gcx, world, StackSeen
  <2> QED BY <1>2, <2>1, <2>2, <2>3, <2>4 DEF StackStep
<1>3. CASE UNCHANGED allVars
  BY <1>3 DEF allVars, vars, world, gcx, StackSeen
<1> QED BY <1>1, <1>2, <1>3 DEF GcxNext

\* While a command can reach a stack, that stack and its own credential file
\* exist: runner.go never falls back to the user's configuration.
THEOREM CredentialsAreOwn ==
  ASSUME SettlesPromptly PROVE GcxSpec => []OwnCredentials
<1>1. GcxInit => StackSeen
  <2> SUFFICES ASSUME GcxInit PROVE StackSeen
    OBVIOUS
  <2>1. \A c \in Clicks : \E a \in Actions : click[c] = IdleClick(a)
    BY Zenon DEF GcxInit
  <2>2. turn = NoTurn
    BY Zenon DEF GcxInit
  <2>3. \A a \in Actions : IdleClick(a).step = "idle"
    BY DEF IdleClick
  <2>4. \A c \in Clicks : click[c].step = "idle"
    BY <2>1, <2>3, Zenon
  <2> QED BY <2>2, <2>4 DEF NoTurn, StackSeen
<1>2. Coordination /\ Decisions /\ StackSeen /\ [GcxNext]_allVars => StackSeen'
  BY SeenKept
<1>3. Decisions /\ StackSeen => OwnCredentials
  <2> SUFFICES ASSUME Decisions, StackSeen,
                      \/ \E c \in Clicks : click[c].step = "execute"
                      \/ \E a \in Actions :
                           tool[a] = "execute" /\ action[a].stack
               PROVE  exists /\ ~marker /\ cloud /\ config
    BY DEF OwnCredentials
  <2>1. ~Quiet /\ cloud /\ config
    BY DEF Decisions, ReadsInStep, StackSeen, Quiet
  <2> QED BY <2>1 DEF Decisions, GateShared
<1> QED BY <1>1, <1>2, <1>3, Decided, StackCoordinated, PTL DEF GcxSpec
=============================================================================
