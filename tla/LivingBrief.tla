---------------------------- MODULE LivingBrief ----------------------------
(***************************************************************************)
(* The living brief of one session: main-chat turns and their curator      *)
(* (chat_service.go, UpdateLivingBrief in brief_service.go), focused       *)
(* threads and their confirmation (brief_service.go), and the rows these   *)
(* handlers read and write in SQLite.  A handler works from the snapshot   *)
(* GetSession gave it; other handlers write in between.                    *)
(*                                                                         *)
(* A topic's text is a member of Values, the plan's evaluation is "met"    *)
(* (meets or partially meets) or "unmet".  Model output is any output the  *)
(* code accepts.                                                           *)
(***************************************************************************)
EXTENDS Naturals, Sequences, FiniteSets

CONSTANTS
  Turns,        \* concurrent main-chat turns (a bound)
  Threads,      \* focused threads that may be opened (a bound)
  Confirmers,   \* concurrent confirmations (a bound)
  Topics,       \* topics of the brief
  TopicOf,      \* the topic of each thread
  Values,       \* what a topic may say
  MaxMessages,  \* bound on the conversation
  MaxVersion,   \* bound on brief versions
  MaxOpen,      \* bound on rows in progress, abandoned ones included
  Disconnects,  \* whether a browser may drop its request
  Restarts,     \* whether the server may restart
  None

ASSUME TopicAssumption == TopicOf \in [Threads -> Topics]
ASSUME EnvironmentAssumption ==
  Disconnects \in BOOLEAN /\ Restarts \in BOOLEAN
ASSUME BoundAssumption ==
  /\ MaxMessages \in Nat /\ MaxVersion \in Nat /\ MaxOpen \in Nat
  /\ None \notin Values
ASSUME FiniteAssumption == IsFiniteSet(Turns) /\ IsFiniteSet(Threads)

VARIABLES
  brief,     \* the latest row of living_briefs (version 0: no row)
  messages,  \* user and assistant messages, in order of creation
  open,      \* operations "running" and thread messages "streaming"
  state,     \* sessions.state; "Generated" stands for the later states too
  built,     \* the session has a complete prototype
  turn,      \* the handlers of main-chat turns
  thread,    \* brief_threads: state and candidate_value
  focus,     \* the handler of a focused turn, per thread
  confirm    \* the handlers of confirmations

\* History, which no action reads.
VARIABLES
  seen,      \* messages read by a curator whose result was stored
  overtaken, \* replies still being written when such a curator read past them
  abandoned  \* rows in progress whose handler lost its request

past == <<seen, overtaken, abandoned>>
rows == <<brief, messages, open, state, built, thread>>
vars == <<brief, messages, open, state, built, turn, thread, focus, confirm,
          past>>

(***************************************************************************)
(* Rows and handlers                                                       *)
(***************************************************************************)
Unknown == [value |-> None, status |-> "unknown"]
Item == {Unknown} \cup [value : Values, status : {"proposed", "confirmed"}]
Items == [Topics -> Item]
Acceptance == {"no", "met", "unmet"}
Brief == [version : 0..MaxVersion, items : Items, accept : Acceptance,
          cursor : 0..MaxMessages]
NoBrief == [version |-> 0, items |-> [k \in Topics |-> Unknown],
            accept |-> "no", cursor |-> 0]

SessionState == {"Draft", "Ready", "Generated"}
Snapshot == [brief : Brief, state : SessionState,
             spoken : SUBSET (1..MaxMessages)]
NoSnapshot == [brief |-> NoBrief, state |-> "Draft", spoken |-> {}]

Message == [role : {"user", "assistant"},
            status : {"streaming", "complete", "failed", "interrupted"}]

TurnStep == {"idle", "asked", "opened", "prepared", "streaming", "completed",
             "failing", "finished", "curating", "advance", "save", "state",
             "close"}
Turn == [step : TurnStep, reply : 0..MaxMessages, snap : Snapshot,
         items : Items, accept : Acceptance,
         read : SUBSET (1..MaxMessages), passed : SUBSET (1..MaxMessages)]
IdleTurn == [step |-> "idle", reply |-> 0, snap |-> NoSnapshot,
             items |-> NoBrief.items, accept |-> "no", read |-> {},
             passed |-> {}]

FocusStep == {"idle", "reset", "starting", "streaming", "answered"}
ConfirmStep == {"idle", "check", "apply", "state"}
Confirmation == [step : ConfirmStep, thread : Threads \cup {None},
                 snap : Snapshot, value : Values \cup {None},
                 accept : Acceptance]
IdleConfirmation == [step |-> "idle", thread |-> None, snap |-> NoSnapshot,
                     value |-> None, accept |-> "no"]

TypeOK ==
  /\ brief \in Brief
  /\ messages \in Seq(Message) /\ Len(messages) <= MaxMessages
  /\ open \in Nat
  /\ state \in SessionState /\ built \in BOOLEAN
  /\ turn \in [Turns -> Turn]
  /\ thread \in [Threads ->
       [state : {"absent", "opening", "draft", "confirmed"},
        candidate : Values \cup {None}]]
  /\ focus \in [Threads -> [step : FocusStep, value : Values \cup {None}]]
  /\ confirm \in [Confirmers -> Confirmation]
  /\ seen \subseteq 1..MaxMessages /\ overtaken \subseteq 1..MaxMessages
  /\ abandoned \in Nat

Init ==
  /\ brief = NoBrief
  /\ messages = <<>>
  /\ open = 0
  /\ state = "Draft" /\ built = FALSE
  /\ turn = [t \in Turns |-> IdleTurn]
  /\ thread = [x \in Threads |-> [state |-> "absent", candidate |-> None]]
  /\ focus = [x \in Threads |-> [step |-> "idle", value |-> None]]
  /\ confirm = [c \in Confirmers |-> IdleConfirmation]
  /\ seen = {} /\ overtaken = {} /\ abandoned = 0

-----------------------------------------------------------------------------
\* ListMessagesSince, restricted to conversationalMessages.
Since(cursor) ==
  {i \in DOMAIN messages : i > cursor /\ messages[i].status = "complete"}

Session == [brief |-> brief, state |-> state, spoken |-> Since(0)]

\* Turns whose reply has no row yet; the bound on messages leaves room for it.
Unanswered == {t \in Turns : turn[t].step \in {"asked", "opened"}}

Goto(t, step) == turn' = [turn EXCEPT ![t].step = step]

AddMessage(role, status) ==
  /\ Len(messages) < MaxMessages
  /\ messages' = Append(messages, [role |-> role, status |-> status])

\* UpdateMessage of the assistant's reply.
Reply(t, status) ==
  messages' = [messages EXCEPT ![turn[t].reply].status = status]

\* updateSessionState that never takes Ready back (mutant).
NextStateSticky(accept, snapshot) == IF accept = "met" THEN "Ready" ELSE state

\* updateSessionState: what the session's state becomes after a brief with
\* this acceptance is stored, given the state in the handler's snapshot.
NextState(accept, snapshot) ==
  CASE accept = "met" -> "Ready"
    [] accept # "met" /\ snapshot.state = "Ready" -> "Draft"
    [] OTHER -> state

(***************************************************************************)
(* POST messages: PrepareTurn, three statements.                           *)
(***************************************************************************)
Ask(t) ==
  /\ turn[t].step = "idle"
  /\ Len(messages) + Cardinality(Unanswered) + 1 < MaxMessages
  /\ AddMessage("user", "complete")
  /\ Goto(t, "asked")
  /\ UNCHANGED <<brief, open, state, built, thread, focus, confirm, past>>

OpenOperation(t) ==
  /\ turn[t].step = "asked"
  /\ open < MaxOpen
  /\ open' = open + 1
  /\ Goto(t, "opened")
  /\ UNCHANGED <<brief, messages, state, built, thread, focus, confirm, past>>

StartReply(t) ==
  /\ turn[t].step = "opened"
  /\ AddMessage("assistant", "streaming")
  /\ turn' = [turn EXCEPT ![t].step = "prepared",
                          ![t].reply = Len(messages) + 1]
  /\ UNCHANGED <<brief, open, state, built, thread, focus, confirm, past>>

(***************************************************************************)
(* RunTurn.                                                                *)
(***************************************************************************)
\* The snapshot the curator will work from is taken before the answer.
Load(t) ==
  /\ turn[t].step = "prepared"
  /\ turn' = [turn EXCEPT ![t].step = "streaming", ![t].snap = Session]
  /\ UNCHANGED <<rows, focus, confirm, past>>

Complete(t) ==
  /\ turn[t].step = "streaming"
  /\ Reply(t, "complete")
  /\ Goto(t, "completed")
  /\ UNCHANGED <<brief, open, state, built, thread, focus, confirm, past>>

FinishReply(t) ==
  /\ turn[t].step = "completed"
  /\ open' = open - 1
  /\ Goto(t, "finished")
  /\ UNCHANGED <<brief, messages, state, built, thread, focus, confirm, past>>

\* failTurn: the model failed.
FailReply(t) ==
  /\ turn[t].step = "streaming"
  /\ Reply(t, "failed")
  /\ Goto(t, "failing")
  /\ UNCHANGED <<brief, open, state, built, thread, focus, confirm, past>>

\* failTurn that leaves its operation running (mutant).
FailTurnOpen(t) ==
  /\ turn[t].step = "failing"
  /\ turn' = [turn EXCEPT ![t] = IdleTurn]
  /\ UNCHANGED <<rows, focus, confirm, past>>

FailTurn(t) ==
  /\ turn[t].step = "failing"
  /\ open' = open - 1
  /\ turn' = [turn EXCEPT ![t] = IdleTurn]
  /\ UNCHANGED <<brief, messages, state, built, thread, focus, confirm, past>>

(***************************************************************************)
(* UpdateLivingBrief.                                                      *)
(***************************************************************************)
BeginUpdate(t) ==
  /\ turn[t].step = "finished"
  /\ open < MaxOpen
  /\ open' = open + 1
  /\ Goto(t, "curating")
  /\ UNCHANGED <<brief, messages, state, built, thread, focus, confirm, past>>

\* curatorPacket: the batches that may fit are the prefixes of the delta.
Batches(delta) ==
  IF delta = {} THEN {{}} ELSE {{i \in delta : i <= last} : last \in delta}

\* ... preceded, when a batch starts with the user, by the assistant's message
\* just before it in the snapshot: it may be the proposal being accepted.
Prior(spoken, batch) ==
  {i \in spoken :
     \E first \in batch \cap spoken :
       /\ messages[first].role = "user" /\ messages[i].role = "assistant"
       /\ i < first
       /\ \A j \in batch : first <= j
       /\ \A j \in spoken : j <= i \/ first <= j}

Packet(spoken, batch) == batch \cup Prior(spoken, batch)

\* acceptedPlan: a proposal and a later acceptance, both in the packet.
Acceptable(spoken, batch) ==
  \E i, j \in Packet(spoken, batch) : /\ messages[i].role = "assistant"
                                     /\ messages[j].role = "user"
                                     /\ i < j

\* preserveConfirmedBrief that only locks the value (mutant).
PreservesValues(old, new) ==
  \A k \in Topics : old[k].status = "confirmed" => new[k].value = old[k].value

\* preserveConfirmedBrief, against the snapshot.
Preserves(old, new) ==
  \A k \in Topics : old[k].status = "confirmed" => new[k] = old[k]

\* bindAcceptance that carries an acceptance over to any brief (mutant).
BindCarried(snapshot, items, batch) ==
  IF snapshot.brief.accept # "no" \/ Acceptable(snapshot.spoken, batch)
  THEN Acceptance ELSE {"no"}

\* bindAcceptance and EvaluatePlan: the acceptances the stored brief can
\* have.  A changed brief loses its acceptance, an unchanged one keeps it or
\* needs both messages in the packet.
Bind(snapshot, items, batch) ==
  IF snapshot.brief.version > 0 /\ items # snapshot.brief.items THEN {"no"}
  ELSE IF snapshot.brief.accept # "no" \/ Acceptable(snapshot.spoken, batch)
  THEN Acceptance
  ELSE {"no"}

\* latestConversationalMessageID of the packet: where the cursor will be.
Last(batch) == IF batch = {} THEN 0
               ELSE CHOOSE i \in batch : \A j \in batch : j <= i

\* Replies that are being written while the batch that ends after them is
\* listed (history).
Passed(batch) ==
  {i \in DOMAIN messages : i < Last(batch) /\ messages[i].status = "streaming"}

\* BuildBrief decided that nothing changed.
KeepUnchanged(t) ==
  /\ turn[t].step = "curating"
  /\ turn[t].snap.brief.version > 0
  /\ \E batch \in Batches(Since(turn[t].snap.brief.cursor)) :
       turn' = [turn EXCEPT ![t].step = "advance", ![t].read = batch,
                            ![t].passed = Passed(batch)]
  /\ UNCHANGED <<rows, focus, confirm, past>>

\* BuildBrief proposed a whole brief, which is evaluated when accepted.
Propose(t) ==
  LET old == turn[t].snap IN
  /\ turn[t].step = "curating"
  /\ \E batch \in Batches(Since(old.brief.cursor)), items \in Items :
       /\ Preserves(old.brief.items, items)
       /\ \E accept \in Bind(old, items, batch) :
            turn' = [turn EXCEPT ![t].step = "save", ![t].read = batch,
                                 ![t].passed = Passed(batch),
                                 ![t].items = items, ![t].accept = accept]
  /\ UNCHANGED <<rows, focus, confirm, past>>

\* Listing, curating, evaluating or storing failed.
UpdateFails(t) ==
  /\ turn[t].step \in {"curating", "advance", "save"}
  /\ Goto(t, "close")
  /\ UNCHANGED <<rows, focus, confirm, past>>

\* The curator's result is stored: what it read is behind it.
Consumed(t) ==
  /\ seen' = seen \cup turn[t].read
  /\ overtaken' = overtaken \cup turn[t].passed
  /\ UNCHANGED abandoned

\* AdvanceBriefCursor: only while the snapshot's version is the latest.
AdvanceCursor(t) ==
  /\ turn[t].step = "advance"
  /\ IF brief.version = turn[t].snap.brief.version
     THEN /\ brief' = [brief EXCEPT !.cursor = Last(turn[t].read)]
          /\ Consumed(t)
     ELSE UNCHANGED <<brief, past>>
  /\ Goto(t, "close")
  /\ UNCHANGED <<messages, open, state, built, thread, focus, confirm>>

\* The cursor moves to the end of the conversation (mutant).
SaveBriefPastBatch(t) ==
  /\ turn[t].step = "save"
  /\ brief.version < MaxVersion
  /\ brief' = [version |-> brief.version + 1, items |-> turn[t].items,
               accept |-> turn[t].accept, cursor |-> Len(messages)]
  /\ Consumed(t)
  /\ Goto(t, "state")
  /\ UNCHANGED <<messages, open, state, built, thread, focus, confirm>>

\* SaveBriefWithCursor: a new version, whatever the latest one holds.
SaveBrief(t) ==
  /\ turn[t].step = "save"
  /\ brief.version < MaxVersion
  /\ brief' = [version |-> brief.version + 1, items |-> turn[t].items,
               accept |-> turn[t].accept, cursor |-> Last(turn[t].read)]
  /\ Consumed(t)
  /\ Goto(t, "state")
  /\ UNCHANGED <<messages, open, state, built, thread, focus, confirm>>

\* The second statement; its failure is logged and nothing else.
SaveState(t) ==
  /\ turn[t].step = "state"
  /\ \/ state' = NextState(turn[t].accept, turn[t].snap)
     \/ UNCHANGED state
  /\ Goto(t, "close")
  /\ UNCHANGED <<brief, messages, open, built, thread, focus, confirm, past>>

EndUpdate(t) ==
  /\ turn[t].step = "close"
  /\ open' = open - 1
  /\ turn' = [turn EXCEPT ![t] = IdleTurn]
  /\ UNCHANGED <<brief, messages, state, built, thread, focus, confirm, past>>

\* The steps at which a handler has a row in progress that it will close.
WorkingStep == {"opened", "prepared", "streaming", "completed", "failing",
                "curating", "advance", "save", "state", "close"}

\* A handler is gone, with the row it had in progress or without one
\* (history).
Abandon(working) ==
  /\ abandoned' = IF working THEN abandoned + 1 ELSE abandoned
  /\ UNCHANGED <<seen, overtaken>>

\* The browser is gone: the request's context is cancelled and with it every
\* statement the handler still tries, failTurn's included.
Disconnect(t) ==
  /\ Disconnects
  /\ turn[t].step # "idle"
  /\ Abandon(turn[t].step \in WorkingStep)
  /\ turn' = [turn EXCEPT ![t] = IdleTurn]
  /\ UNCHANGED <<rows, focus, confirm>>

RunTurn(t) ==
  \/ OpenOperation(t) \/ StartReply(t) \/ Load(t) \/ Complete(t)
  \/ FinishReply(t) \/ FailReply(t) \/ FailTurn(t) \/ BeginUpdate(t)
  \/ KeepUnchanged(t) \/ Propose(t) \/ UpdateFails(t) \/ AdvanceCursor(t)
  \/ SaveBrief(t) \/ SaveState(t) \/ EndUpdate(t)

-----------------------------------------------------------------------------
(***************************************************************************)
(* Focused threads: OpenThread, PrepareFocusedTurn, RunFocusedTurn.        *)
(***************************************************************************)
Focusable(x) == brief.items[TopicOf[x]].status \in {"proposed", "confirmed"}

\* OpenBriefThread: a draft of the topic is reused; the lookup and the
\* insertion are two statements.
LookupThread(x) ==
  /\ thread[x].state = "absent" /\ Focusable(x)
  /\ \A y \in Threads : TopicOf[y] = TopicOf[x] => thread[y].state # "draft"
  /\ thread' = [thread EXCEPT ![x].state = "opening"]
  /\ UNCHANGED <<brief, messages, open, state, built, turn, focus, confirm,
                 past>>

InsertThread(x) ==
  /\ thread[x].state = "opening"
  /\ thread' = [thread EXCEPT ![x].state = "draft"]
  /\ UNCHANGED <<brief, messages, open, state, built, turn, focus, confirm,
                 past>>

FocusGoto(x, step, value) ==
  focus' = [focus EXCEPT ![x] = [step |-> step, value |-> value]]

FocusAsk(x) ==
  /\ thread[x].state = "draft"
  /\ focus[x].step = "idle"
  /\ FocusGoto(x, "reset", None)
  /\ UNCHANGED <<rows, turn, confirm, past>>

\* UpdateBriefThreadCandidate whatever the thread's state (mutant).
SetCandidateAlways(x, value) ==
  thread' = [thread EXCEPT ![x].candidate = value]

\* UpdateBriefThreadCandidate: only a draft takes a candidate.
SetCandidate(x, value) ==
  thread' = IF thread[x].state = "draft"
            THEN [thread EXCEPT ![x].candidate = value] ELSE thread

\* The previous candidate answers an older question.
ResetCandidate(x) ==
  /\ focus[x].step = "reset"
  /\ SetCandidate(x, None)
  /\ FocusGoto(x, IF thread[x].state = "draft" THEN "starting" ELSE "idle",
               None)
  /\ UNCHANGED <<brief, messages, open, state, built, turn, confirm, past>>

FocusStart(x) ==
  /\ focus[x].step = "starting"
  /\ open < MaxOpen
  /\ open' = open + 1
  /\ FocusGoto(x, "streaming", None)
  /\ UNCHANGED <<brief, messages, state, built, thread, turn, confirm, past>>

\* The answer is stored; FocusedCandidate found a value in it or not.
FocusAnswer(x) ==
  /\ focus[x].step = "streaming"
  /\ open' = open - 1
  /\ \/ \E value \in Values : FocusGoto(x, "answered", value)
     \/ FocusGoto(x, "idle", None)
  /\ UNCHANGED <<brief, messages, state, built, thread, turn, confirm, past>>

FocusPropose(x) ==
  /\ focus[x].step = "answered"
  /\ SetCandidate(x, focus[x].value)
  /\ FocusGoto(x, "idle", None)
  /\ UNCHANGED <<brief, messages, open, state, built, turn, confirm, past>>

FocusDisconnect(x) ==
  /\ Disconnects
  /\ focus[x].step # "idle"
  /\ Abandon(focus[x].step = "streaming")
  /\ FocusGoto(x, "idle", None)
  /\ UNCHANGED <<rows, turn, confirm>>

RunFocus(x) == ResetCandidate(x) \/ FocusStart(x) \/ FocusAnswer(x)
                 \/ FocusPropose(x)

(***************************************************************************)
(* POST confirm: ConfirmThread.                                            *)
(***************************************************************************)
ConfirmLoad(c, x) ==
  /\ confirm[c].step = "idle"
  /\ thread[x].state \in {"draft", "confirmed"}
  /\ confirm' = [confirm EXCEPT ![c].step = "check", ![c].thread = x,
                                ![c].snap = Session]
  /\ UNCHANGED <<rows, turn, focus, past>>

\* The thread is read: still a draft, with a candidate, or refused.
ConfirmCheck(c) ==
  LET x == confirm[c].thread IN
  /\ confirm[c].step = "check"
  /\ IF thread[x].state = "draft" /\ thread[x].candidate # None
     THEN confirm' = [confirm EXCEPT ![c].step = "apply",
                                     ![c].value = thread[x].candidate]
     ELSE confirm' = [confirm EXCEPT ![c] = IdleConfirmation]
  /\ UNCHANGED <<rows, turn, focus, past>>

\* brieftopics.Apply on the snapshot's content.
Applied(c) ==
  [confirm[c].snap.brief.items EXCEPT
     ![TopicOf[confirm[c].thread]] =
       [value |-> confirm[c].value, status |-> "confirmed"]]

AcceptanceAfter(c) ==
  IF Applied(c) = confirm[c].snap.brief.items
  THEN confirm[c].snap.brief.accept ELSE "no"

\* ApplyBriefThread, one transaction: the thread is confirmed and the
\* snapshot's content with the topic applied becomes the next version, with
\* the latest cursor.
ConfirmApply(c) ==
  LET x == confirm[c].thread IN
  /\ confirm[c].step = "apply"
  /\ IF thread[x].state = "draft" /\ thread[x].candidate # None
     THEN /\ brief.version < MaxVersion
          /\ thread' = [thread EXCEPT ![x].state = "confirmed"]
          /\ brief' = [version |-> brief.version + 1, items |-> Applied(c),
                       accept |-> AcceptanceAfter(c), cursor |-> brief.cursor]
          /\ confirm' = [confirm EXCEPT ![c].step = "state",
                                        ![c].accept = AcceptanceAfter(c)]
     ELSE /\ confirm' = [confirm EXCEPT ![c] = IdleConfirmation]
          /\ UNCHANGED <<thread, brief>>
  /\ UNCHANGED <<messages, open, state, built, turn, focus, past>>

ConfirmState(c) ==
  /\ confirm[c].step = "state"
  /\ \/ state' = NextState(confirm[c].accept, confirm[c].snap)
     \/ UNCHANGED state
  /\ confirm' = [confirm EXCEPT ![c] = IdleConfirmation]
  /\ UNCHANGED <<brief, messages, open, built, turn, thread, focus, past>>

ConfirmDisconnect(c) ==
  /\ Disconnects
  /\ confirm[c].step # "idle"
  /\ confirm' = [confirm EXCEPT ![c] = IdleConfirmation]
  /\ UNCHANGED <<rows, turn, focus, past>>

RunConfirm(c) == ConfirmCheck(c) \/ ConfirmApply(c) \/ ConfirmState(c)

-----------------------------------------------------------------------------
\* PrototypeService.run completes an iteration.
Build ==
  /\ brief.version > 0 /\ ~built
  /\ built' = TRUE
  /\ state' = "Generated"
  /\ UNCHANGED <<brief, messages, open, turn, thread, focus, confirm, past>>

\* The process dies at any point; migrate recovers the rows.
Restart ==
  /\ Restarts
  /\ messages' = [i \in DOMAIN messages |->
       IF messages[i].status = "streaming"
       THEN [messages[i] EXCEPT !.status = "interrupted"] ELSE messages[i]]
  /\ open' = 0
  /\ state' = IF built /\ state \in {"Draft", "Ready"} THEN "Generated"
              ELSE state
  /\ turn' = [t \in Turns |-> IdleTurn]
  /\ thread' = [x \in Threads |->
       IF thread[x].state = "opening" THEN [thread[x] EXCEPT !.state = "absent"]
       ELSE thread[x]]
  /\ focus' = [x \in Threads |-> [step |-> "idle", value |-> None]]
  /\ confirm' = [c \in Confirmers |-> IdleConfirmation]
  /\ abandoned' = 0
  /\ UNCHANGED <<brief, built, seen, overtaken>>

Next ==
  \/ \E t \in Turns : Ask(t) \/ RunTurn(t) \/ Disconnect(t)
  \/ \E x \in Threads : \/ LookupThread(x) \/ InsertThread(x) \/ FocusAsk(x)
                        \/ RunFocus(x) \/ FocusDisconnect(x)
  \/ \E c \in Confirmers : \/ \E x \in Threads : ConfirmLoad(c, x)
                           \/ RunConfirm(c) \/ ConfirmDisconnect(c)
  \/ Build \/ Restart

Spec == Init /\ [][Next]_vars

-----------------------------------------------------------------------------
(***************************************************************************)
(* Properties                                                              *)
(***************************************************************************)

\* A turn stores its brief; a confirmation stores the topic it applied.
Saves(t) == turn[t].step = "save" /\ turn'[t].step = "state"
Applies(c) == confirm[c].step = "apply" /\ confirm'[c].step = "state"
Confirms(x) == thread[x].state = "draft" /\ thread'[x].state = "confirmed"

\* preserveConfirmedBrief: "prevents main-chat curation from changing
\* decisions that the human locked through a focused brief thread".  A
\* confirmed topic changes only when a thread on it is confirmed.
ConfirmedKept ==
  [][\A k \in Topics :
       brief.items[k].status = "confirmed" /\ brief'.items[k] # brief.items[k]
         => \E x \in Threads : TopicOf[x] = k /\ Confirms(x)]_vars

\* What the handlers do keep of it in every interleaving: a confirmed topic
\* changes only by a confirmation of a thread on it, or through a handler
\* whose snapshot of the session does not show the topic as it is.
SeenDecisionsKept ==
  [][\A k \in Topics :
       brief.items[k].status = "confirmed" /\ brief'.items[k] # brief.items[k]
         => \/ \E x \in Threads : TopicOf[x] = k /\ Confirms(x)
            \/ \E t \in Turns :
                 Saves(t) /\ turn[t].snap.brief.items[k] # brief.items[k]
            \/ \E c \in Confirmers :
                 Applies(c) /\ confirm[c].snap.brief.items[k] # brief.items[k]
    ]_vars

\* acceptance.go: "A changed brief always needs a subsequent explicit
\* acceptance".  No handler changes the plan it read and stores the result as
\* accepted, whatever it and others did between its read and its write.
ChangeNeedsAcceptance ==
  [][/\ \A t \in Turns :
          /\ Saves(t) /\ turn[t].snap.brief.version > 0
          /\ brief'.items # turn[t].snap.brief.items
          => brief'.accept = "no"
     /\ \A c \in Confirmers :
          Applies(c) /\ brief'.items # confirm[c].snap.brief.items
            => brief'.accept = "no"]_vars

\* Since it read the session, nobody but the handler itself has stored a brief
\* or moved the session's state.
Undisturbed(snapshot) ==
  brief.version = snapshot.brief.version + 1 /\ state = snapshot.state

\* README, "Ready: the accepted plan meets or partially meets the
\* requirement": a handler that stored a brief and now stores the state it
\* makes of it leaves the session Ready only with an accepted plan, if nobody
\* else has written meanwhile.  What earlier handlers left does not matter,
\* also when they were cut off between the two statements.
ReadyAccepted ==
  [][/\ \A t \in Turns :
          /\ turn[t].step = "state" /\ turn'[t].step = "close"
          /\ Undisturbed(turn[t].snap)
          /\ state' = NextState(turn[t].accept, turn[t].snap)
          /\ state' = "Ready"
          => brief'.accept = "met"
     /\ \A c \in Confirmers :
          /\ confirm[c].step = "state" /\ confirm'[c].step = "idle"
          /\ Undisturbed(confirm[c].snap)
          /\ state' = NextState(confirm[c].accept, confirm[c].snap)
          /\ state' = "Ready"
          => brief'.accept = "met"]_vars

\* README, "the curator ... advances its cursor only through that batch": the
\* only completed messages that no curator has read and none will are replies
\* that another turn was still writing when a curator read past them.
NothingSkipped == Since(0) \subseteq seen \cup overtaken \cup Since(brief.cursor)

\* The handlers that have opened an operation or a thread message and still
\* have to close it.
Working == {t \in Turns : turn[t].step \in WorkingStep}
Answering == {x \in Threads : focus[x].step = "streaming"}
InHand(i) == \E t \in Turns : turn[t].step \in {"prepared", "streaming"}
                              /\ turn[t].reply = i

\* PLAN.md: the backend will "Persist operation start, completion, failure,
\* and interruption".  Work that is recorded as in progress (and blocks the
\* deletion of the session) is in some handler's hands.
Honest ==
  /\ open = Cardinality(Working) + Cardinality(Answering)
  /\ \A i \in DOMAIN messages : messages[i].status = "streaming" => InHand(i)

\* What holds instead: every row in progress is in a handler's hands or was in
\* those of one that lost its request since the server started; no other path
\* through the handlers leaves one open or closes one twice.
WorkAccounted ==
  /\ open = Cardinality(Working) + Cardinality(Answering) + abandoned
  /\ \A i \in DOMAIN messages :
       messages[i].status = "streaming" => InHand(i) \/ abandoned > 0

\* A confirmed thread is final: an answer that arrives late does not change
\* what was confirmed.
ConfirmedFrozen ==
  [][\A x \in Threads : thread[x].state = "confirmed"
                          => thread'[x] = thread[x]]_vars

\* README's state diagram has no edge from Generated back to Ready or Draft.
GeneratedKept == [][state = "Generated" => state' = "Generated"]_vars

(***************************************************************************)
(* The inductive invariant behind these properties.                        *)
(***************************************************************************)

\* What a handler remembers is there: its reply is a message that is being
\* written for it alone, the batch it read is an initial part of the
\* conversation's delta, the thread it confirms exists and had a candidate.
Held ==
  /\ brief.cursor <= Len(messages)
  /\ \A t \in Turns :
       /\ turn[t].step \in {"prepared", "streaming"} =>
            /\ turn[t].reply \in DOMAIN messages
            /\ messages[turn[t].reply].status = "streaming"
            /\ \A u \in Turns :
                 turn[u].step \in {"prepared", "streaming"}
                   /\ turn[u].reply = turn[t].reply => u = t
       /\ turn[t].step \in {"advance", "save"} =>
            /\ turn[t].read \subseteq DOMAIN messages
            /\ turn[t].read # {} =>
                 \E last \in turn[t].read : \A i \in turn[t].read : i <= last
  /\ \A c \in Confirmers :
       /\ confirm[c].step # "idle" => confirm[c].thread \in Threads
       /\ confirm[c].step = "apply" => confirm[c].value \in Values

Bookkeeping == TypeOK /\ Held /\ WorkAccounted

\* What a handler's snapshot says of the brief it will store, and how old it
\* may be when it does.
TurnDerives(t) ==
  LET old == turn[t].snap.brief IN
  /\ turn[t].step = "save" =>
       /\ Preserves(old.items, turn[t].items)
       /\ old.version > 0 /\ turn[t].items # old.items => turn[t].accept = "no"
  /\ old.version <= brief.version
  /\ turn[t].step = "state" =>
       /\ old.version < brief.version
       /\ brief.version = old.version + 1 => brief.accept = turn[t].accept

ConfirmationDerives(c) ==
  LET old == confirm[c].snap.brief IN
  /\ old.version <= brief.version
  /\ confirm[c].step = "state" =>
       /\ old.version < brief.version
       /\ brief.version = old.version + 1 => brief.accept = confirm[c].accept

Derived == /\ \A t \in Turns : TurnDerives(t)
           /\ \A c \in Confirmers : ConfirmationDerives(c)

\* Every message up to n that is complete, or may yet be, is in the set.
Covers(n, read) ==
  \A i \in DOMAIN messages :
    i <= n /\ messages[i].status \in {"complete", "streaming"} => i \in read

\* Messages behind the cursor, the latest one or that of a snapshot, have been
\* read or overtaken; those up to the end of a batch as well, or are in it.
Unskipped ==
  /\ Covers(brief.cursor, seen \cup overtaken)
  /\ \A t \in Turns :
       /\ turn[t].snap.brief.cursor <= Len(messages)
       /\ Covers(turn[t].snap.brief.cursor, seen \cup overtaken)
       /\ turn[t].step \in {"advance", "save"} =>
            Covers(Last(turn[t].read),
                   seen \cup overtaken \cup turn[t].read \cup turn[t].passed)
=============================================================================
