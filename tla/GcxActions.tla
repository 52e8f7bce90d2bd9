----------------------------- MODULE GcxActions -----------------------------
(***************************************************************************)
(* The agent's gcx commands on a session's stack: run_gcx in chat/gcx.go   *)
(* classifies them, runs reads at once and stores writes for a human;      *)
(* decideGCXAction in httpapi/gcx_handlers.go runs what was approved.      *)
(* Composed with GrafanaStack, whose row, Cloud stack and credential file  *)
(* the commands depend on, and whose deletion they share a lock with.      *)
(*                                                                         *)
(* What a command does to Grafana is a counter; its arguments are only     *)
(* read or write (help, which needs no stack, is left out).  The stack's   *)
(* slug is derived from the session, so an action's stack is known (TRUE)  *)
(* or the empty string (FALSE).                                            *)
(***************************************************************************)
EXTENDS GrafanaStack

CONSTANTS
  Actions,        \* rows of gcx_actions that may be made (a bound)
  Clicks,         \* concurrent POST gcx-actions/{id} requests (a bound)
  ReceiptFaults   \* whether recording a result may fail

ASSUME ReceiptAssumption == ReceiptFaults \in BOOLEAN

VARIABLES
  action,  \* gcx_actions
  ran,     \* history: how often gcx ran the command of an action
  turn,    \* the chat turn in progress, with its snapshot of the session
  tool,    \* run_gcx calls of the turn that read
  click,   \* the decideGCXAction handlers
  lost     \* history: the last word on a stack in progress was not stored

gcx == <<action, ran, turn, tool, click>>
allVars == <<vars, gcx, lost>>

ActionStatus == {"absent", "pending", "running", "rejected", "complete",
                 "failed"}
NoAction == [status |-> "absent", stack |-> FALSE]
NoTurn == [on |-> FALSE, seen |-> FALSE]
Execution == {"none", "execute", "complete", "failed"}
ClickStep == {"idle", "claim", "check"} \cup (Execution \ {"none"})
IdleClick(a) == [step |-> "idle", action |-> a, seen |-> FALSE]

\* Rows, executions and handlers keep their types.
GcxTypeOK ==
  /\ action \in [Actions -> [status : ActionStatus, stack : BOOLEAN]]
  /\ ran \in [Actions -> 0..2]
  /\ turn \in [on : BOOLEAN, seen : BOOLEAN]
  /\ tool \in [Actions -> Execution]
  /\ click \in [Clicks -> [step : ClickStep, action : Actions, seen : BOOLEAN]]
  /\ lost \in BOOLEAN

GcxInit ==
  /\ Init
  /\ action = [a \in Actions |-> NoAction]
  /\ ran = [a \in Actions |-> 0]
  /\ turn = NoTurn
  /\ tool = [a \in Actions |-> "none"]
  /\ click \in [Clicks -> {IdleClick(a) : a \in Actions}]
  /\ lost = FALSE

-----------------------------------------------------------------------------
\* The stack the commands of a session may use, read from its row.
SessionStack == row.status = "ready" /\ row.url

\* Execute: Classify again, CheckContext, then gcx itself, which may fail
\* or time out after it has changed something.  Without a stack nothing runs.
Executed(a, outcome) ==
  /\ outcome = "complete" => action[a].stack
  /\ \/ outcome = "failed" /\ UNCHANGED ran
     \/ action[a].stack /\ ran' = [ran EXCEPT ![a] = IF @ = 2 THEN 2 ELSE @ + 1]

Record(a, status) == action' = [action EXCEPT ![a].status = status]

\* FinishGCXAction, by identifier, whatever the row holds.
Finished(a, status) ==
  \E result \in {status, IF ReceiptFaults THEN action[a].status ELSE status} :
    Record(a, result)

(***************************************************************************)
(* The agent's turn: POST messages, holding the mutation gate's read lock. *)
(***************************************************************************)
StartTurn ==
  /\ ~turn.on /\ Admitted
  /\ turn' = [on |-> TRUE, seen |-> SessionStack]
  /\ UNCHANGED <<vars, action, ran, tool, click>>

\* run_gcx with a command that is not a known read: stored for approval once
\* the context has been checked.
Propose(a) ==
  /\ turn.on /\ turn.seen
  /\ action[a].status = "absent"
  /\ action' = [action EXCEPT ![a] = [status |-> "pending", stack |-> TRUE]]
  /\ UNCHANGED <<vars, ran, turn, tool, click>>

\* run_gcx with a known read: stored as running, run and finished.
ReadStart(a) ==
  /\ turn.on
  /\ action[a].status = "absent"
  /\ action' = [action EXCEPT ![a] = [status |-> "running",
                                      stack |-> turn.seen]]
  /\ tool' = [tool EXCEPT ![a] = "execute"]
  /\ UNCHANGED <<vars, ran, turn, click>>

ReadExecute(a) ==
  /\ tool[a] = "execute"
  /\ \E outcome \in {"complete", "failed"} :
       Executed(a, outcome) /\ tool' = [tool EXCEPT ![a] = outcome]
  /\ UNCHANGED <<vars, action, turn, click>>

ReadFinish(a) ==
  /\ tool[a] \in {"complete", "failed"}
  /\ Finished(a, tool[a])
  /\ tool' = [tool EXCEPT ![a] = "none"]
  /\ UNCHANGED <<vars, ran, turn, click>>

EndTurn ==
  /\ turn.on /\ \A a \in Actions : tool[a] = "none"
  /\ turn' = NoTurn
  /\ UNCHANGED <<vars, action, ran, tool, click>>

(***************************************************************************)
(* decideGCXAction.                                                        *)
(***************************************************************************)
ClickGoto(c, step) == click' = [click EXCEPT ![c].step = step]

\* GetSession: the snapshot the action's stack is compared with.
ClickLoad(c) ==
  /\ click[c].step = "idle" /\ Admitted
  /\ \E a \in Actions :
       /\ action[a].status # "absent"
       /\ click' = [click EXCEPT ![c] = [step |-> "claim", action |-> a,
                                         seen |-> SessionStack]]
  /\ UNCHANGED <<vars, action, ran, turn, tool>>

\* ClaimGCXAction: one statement takes the pending approval.
Approve(c) ==
  /\ click[c].step = "claim"
  /\ action[click[c].action].status = "pending"
  /\ Record(click[c].action, "running")
  /\ ClickGoto(c, "check")
  /\ UNCHANGED <<vars, ran, turn, tool>>

Reject(c) ==
  /\ click[c].step = "claim"
  /\ action[click[c].action].status = "pending"
  /\ Record(click[c].action, "rejected")
  /\ ClickGoto(c, "idle")
  /\ UNCHANGED <<vars, ran, turn, tool>>

\* "This action is no longer pending", or the statement failed.
ClickRefused(c) ==
  /\ click[c].step = "claim"
  /\ ReceiptFaults \/ action[click[c].action].status # "pending"
  /\ ClickGoto(c, "idle")
  /\ UNCHANGED <<vars, action, ran, turn, tool>>

\* "Session stack changed; ask for a new proposal."
ClickCheck(c) ==
  /\ click[c].step = "check"
  /\ ClickGoto(c, IF action[click[c].action].stack = click[c].seen
                  THEN "execute" ELSE "failed")
  /\ UNCHANGED <<vars, action, ran, turn, tool>>

\* What the command said is not looked at (mutant).
ClickExecuteDone(c) ==
  /\ click[c].step = "execute"
  /\ \E outcome \in {"complete", "failed"} : Executed(click[c].action, outcome)
  /\ ClickGoto(c, "complete")
  /\ UNCHANGED <<vars, action, turn, tool>>

ClickExecute(c) ==
  /\ click[c].step = "execute"
  /\ \E outcome \in {"complete", "failed"} :
       Executed(click[c].action, outcome) /\ ClickGoto(c, outcome)
  /\ UNCHANGED <<vars, action, turn, tool>>

ClickFinish(c) ==
  /\ click[c].step \in {"complete", "failed"}
  /\ Finished(click[c].action, click[c].step)
  /\ ClickGoto(c, "idle")
  /\ UNCHANGED <<vars, ran, turn, tool>>

Click(c) ==
  \/ ClickLoad(c) \/ Approve(c) \/ Reject(c) \/ ClickRefused(c)
  \/ ClickCheck(c) \/ ClickExecute(c) \/ ClickFinish(c)

Call(a) == Propose(a) \/ ReadStart(a) \/ ReadExecute(a) \/ ReadFinish(a)

-----------------------------------------------------------------------------
(***************************************************************************)
(* The steps of the stack, with what they mean for the actions.            *)
(***************************************************************************)
\* DELETE that does not wait for the chat (mutant).
QuietClicks == \A c \in Clicks : click[c].step = "idle"

\* The write lock of the mutation gate waits for turns and clicks as well.
Quiet == ~turn.on /\ \A c \in Clicks : click[c].step = "idle"

\* gcx_actions rows go with their session.
Cascade ==
  IF exists' THEN UNCHANGED action
  ELSE action' = [a \in Actions |-> NoAction]

\* Recovery that queues interrupted actions again (mutant).
ForgetRequeue ==
  /\ turn' = NoTurn
  /\ tool' = [a \in Actions |-> "none"]
  /\ click' = [c \in Clicks |-> [click[c] EXCEPT !.step = "idle",
                                                 !.seen = FALSE]]
  /\ action' = [a \in Actions |-> IF action[a].status = "running"
                  THEN [action[a] EXCEPT !.status = "pending"] ELSE action[a]]
  /\ UNCHANGED ran

\* After a restart nothing is recovered: running actions stay running.
Forget ==
  /\ turn' = NoTurn
  /\ tool' = [a \in Actions |-> "none"]
  /\ click' = [c \in Clicks |-> [click[c] EXCEPT !.step = "idle",
                                                 !.seen = FALSE]]
  /\ UNCHANGED <<action, ran>>

\* SQLite refused the statement a request or a goroutine ends with: the
\* error is logged and nobody will write the row again.
StatementLost ==
  StoreFaults /\ \/ \E r \in Requests : CreateUnread(r)
                 \/ \E w \in Workers : \/ SettleFails(w)
                                       \/ Answer(w) /\ UNCHANGED row

StackStep ==
  /\ \/ /\ \/ \E r \in Requests : Handle(r)
           \/ \E w \in Workers : Work(w)
           \/ Quiet /\ DeleteRequest
        /\ UNCHANGED gcx
     \/ Delete /\ Cascade /\ UNCHANGED <<ran, turn, tool, click>>
     \/ Restart /\ Forget
  /\ lost' = (row'.status \in InProgress /\ (lost \/ StatementLost))

AgentStep ==
  \/ StartTurn \/ EndTurn
  \/ \E a \in Actions : Call(a)
  \/ \E c \in Clicks : Click(c)

GcxNext == StackStep \/ (AgentStep /\ UNCHANGED lost)

\* The fairness of the stack's handlers and goroutines; none is needed of
\* the turns and clicks.
GcxSpec == GcxInit /\ [][GcxNext]_allVars /\ Fairness

-----------------------------------------------------------------------------
(***************************************************************************)
(* Properties                                                              *)
(***************************************************************************)
\* docs/gcx-agent-tools.md: "Each approval is consumed once" and "A server
\* restart does not retry running actions automatically": the command of an
\* action reaches Grafana at most once, across clicks in parallel, lost
\* receipts and restarts.
RunsOnce == \A a \in Actions : ran[a] <= 1

\* "never claim pending writes succeeded": a receipt tells what was done.  A
\* pending or rejected command has not run; a complete one has.
ReceiptTrue ==
  \A a \in Actions :
    /\ action[a].status \in {"pending", "rejected"} => ran[a] = 0
    /\ action[a].status = "complete" => ran[a] = 1

\* "It never uses the central operations context as a fallback": while a
\* command can reach a stack, that stack exists and its own credential file
\* is on disk, although runner.go falls back to the user's configuration
\* when the file is missing, the row may be claimed by ConnectStack since
\* it was read, and the session may be on its way to be deleted.
OwnCredentials ==
  (\/ \E c \in Clicks : click[c].step = "execute"
   \/ \E a \in Actions : tool[a] = "execute" /\ action[a].stack)
    => exists /\ ~marker /\ cloud /\ config

\* A receipt is final: no late click, retry or restart overwrites it, though
\* results are written by identifier alone.
ReceiptStays ==
  [][\A a \in Actions : action[a].status \in {"complete", "failed", "rejected"}
       => action'[a].status \in {action[a].status, "absent"}]_allVars

\* A stack being created or connected comes to a result the user can act on
\* and stops blocking the deletion of its session, whatever gcx answers,
\* unless SQLite refused the statement that says so.
StackResolves ==
  row.status \in InProgress ~> row.status \notin InProgress \/ lost

(***************************************************************************)
(* The inductive invariant behind the safety properties.                   *)
(***************************************************************************)
\* A click that has claimed its action.
Deciding(c) == click[c].step \in {"check", "execute", "complete", "failed"}

\* Turns and clicks hold the read lock: no deletion runs beside them.
GateShared == ~Quiet => del = "idle" /\ exists /\ ~marker

\* A read belongs to the turn that is on, and is the only one with its action.
ReadsInStep ==
  \A a \in Actions : tool[a] # "none" =>
    /\ turn.on
    /\ action[a].status = "running"
    /\ action[a].stack => turn.seen
    /\ tool[a] = "execute" => ran[a] = 0
    /\ tool[a] = "complete" => ran[a] = 1

\* A click has its action to itself from the claim to the receipt.
ClicksInStep ==
  \A c \in Clicks : Deciding(c) =>
    /\ action[click[c].action].status = "running"
    /\ action[click[c].action].stack
    /\ tool[click[c].action] = "none"
    /\ \A d \in Clicks :
         Deciding(d) /\ click[d].action = click[c].action => d = c
    /\ click[c].step \in {"check", "execute"} => ran[click[c].action] = 0
    /\ click[c].step = "complete" => ran[click[c].action] = 1

\* What a row says of its command; an identifier is not used again.
RowsInStep ==
  \A a \in Actions :
    /\ ran[a] <= 1
    /\ action[a].status \in {"pending", "rejected"} => ran[a] = 0
    /\ action[a].status = "absent" /\ exists => ran[a] = 0
    /\ action[a].status = "complete" => ran[a] = 1
    /\ action[a].status = "pending" => action[a].stack

Decisions ==
  /\ GcxTypeOK /\ GateShared /\ ReadsInStep /\ ClicksInStep /\ RowsInStep

\* What was seen of the stack still holds.
StackSeen ==
  /\ turn.on /\ turn.seen => cloud /\ config
  /\ \A c \in Clicks :
       /\ click[c].step # "idle" /\ click[c].seen => cloud /\ config
       /\ click[c].step = "execute" => click[c].seen
=============================================================================
