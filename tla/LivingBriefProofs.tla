------------------------- MODULE LivingBriefProofs -------------------------
(***************************************************************************)
(* Theorems about LivingBrief.  They hold of every interleaving of turns,  *)
(* threads and confirmations, with dropped requests and restarts.          *)
(***************************************************************************)
EXTENDS LivingBrief, FiniteSetTheorems, SequenceTheorems, TLAPS

USE DEF rows, past

-----------------------------------------------------------------------------
(***************************************************************************)
(* The conversation and the handlers.                                      *)
(***************************************************************************)

\* The messages are an array of rows.
LEMMA Conversation ==
  ASSUME TypeOK
  PROVE  /\ messages \in Seq(Message)
         /\ Len(messages) \in Nat
         /\ messages \in [1..Len(messages) -> Message]
         /\ DOMAIN messages = 1..Len(messages)
  BY LenProperties DEF TypeOK

\* A message is created: it is the last one, the others stay.
LEMMA Added ==
  ASSUME TypeOK, NEW role \in {"user", "assistant"},
         NEW status \in {"streaming", "complete", "failed", "interrupted"},
         AddMessage(role, status)
  PROVE  /\ messages' \in Seq(Message)
         /\ Len(messages') = Len(messages) + 1
         /\ Len(messages') <= MaxMessages
         /\ DOMAIN messages' = 1..(Len(messages) + 1)
         /\ \A i \in 1..Len(messages) : messages'[i] = messages[i]
         /\ messages'[Len(messages) + 1].status = status
<1>1. [role |-> role, status |-> status] \in Message
  BY DEF Message
<1>2. /\ messages \in Seq(Message) /\ Len(messages) \in Nat
      /\ MaxMessages \in Nat
  BY Conversation, BoundAssumption
<1>3. messages' = Append(messages, [role |-> role, status |-> status])
  BY DEF AddMessage
<1>4. messages' \in Seq(Message) /\ Len(messages') = Len(messages) + 1
  BY <1>1, <1>2, <1>3
<1>5. DOMAIN messages' = 1..(Len(messages) + 1)
  BY <1>4, LenProperties
<1>6. /\ \A i \in 1..Len(messages) : messages'[i] = messages[i]
      /\ messages'[Len(messages) + 1] = [role |-> role, status |-> status]
  BY <1>1, <1>2, <1>3
<1> QED
  BY <1>2, <1>4, <1>5, <1>6 DEF AddMessage

\* The reply of a turn gets another status: nothing else changes.
LEMMA Replied ==
  ASSUME TypeOK, NEW t \in Turns, turn[t].reply \in DOMAIN messages,
         NEW status \in {"streaming", "complete", "failed", "interrupted"},
         Reply(t, status)
  PROVE  /\ messages' \in Seq(Message)
         /\ Len(messages') = Len(messages)
         /\ DOMAIN messages' = DOMAIN messages
         /\ \A i \in DOMAIN messages : messages'[i].status =
              IF i = turn[t].reply THEN status ELSE messages[i].status
<1> DEFINE k == turn[t].reply
           m == [messages[k] EXCEPT !.status = status]
<1>1. messages \in Seq(Message) /\ k \in 1..Len(messages)
  BY Conversation
<1>2. messages[k] \in Message
  BY <1>1, ElementOfSeq
<1>3. m \in Message /\ m.status = status
  BY <1>2 DEF Message
<1>4. messages' = [messages EXCEPT ![k] = m]
  BY DEF Reply
<1> HIDE DEF m, k
<1>5. /\ messages' \in Seq(Message)
      /\ Len(messages') = Len(messages)
      /\ \A i \in 1..Len(messages) :
           messages'[i] = IF i = k THEN m ELSE messages[i]
  BY <1>1, <1>3, <1>4, ExceptSeq
<1>6. DOMAIN messages' = 1..Len(messages)
  BY <1>5, LenProperties
<1> QED
  BY <1>3, <1>5, <1>6, Conversation DEF k

\* Idle handlers are well typed.
LEMMA IdleTyped ==
  /\ NoBrief \in Brief
  /\ IdleTurn \in Turn /\ IdleTurn.step = "idle"
  /\ IdleConfirmation \in Confirmation /\ IdleConfirmation.step = "idle"
<1>1. NoBrief.items \in Items
  BY DEF NoBrief, Items, Item
<1>2. NoBrief \in Brief
  <2>1. /\ NoBrief = [version |-> 0, items |-> NoBrief.items,
                      accept |-> "no", cursor |-> 0]
        /\ 0 \in 0..MaxVersion /\ 0 \in 0..MaxMessages
    BY BoundAssumption DEF NoBrief
  <2> QED BY <1>1, <2>1 DEF Brief, Acceptance
<1>3. NoSnapshot \in Snapshot
  BY <1>2 DEF NoSnapshot, Snapshot, SessionState
<1>4. IdleTurn \in Turn
  <2>1. 0 \in 0..MaxMessages
    BY BoundAssumption
  <2> QED BY <1>1, <1>3, <2>1 DEF IdleTurn, Turn, TurnStep, Acceptance
<1>5. IdleConfirmation \in Confirmation
  BY <1>3 DEF IdleConfirmation, Confirmation, ConfirmStep, Acceptance
<1> QED
  BY <1>2, <1>4, <1>5 DEF IdleTurn, IdleConfirmation

\* GetSession returns a snapshot.
LEMMA SessionTyped ==
  ASSUME TypeOK
  PROVE  Session \in Snapshot
<1>1. Since(0) \subseteq 1..MaxMessages
  <2>1. /\ DOMAIN messages = 1..Len(messages) /\ Len(messages) \in Nat
        /\ Len(messages) <= MaxMessages /\ MaxMessages \in Nat
    BY Conversation, BoundAssumption DEF TypeOK
  <2> QED BY <2>1 DEF Since
<1>2. brief \in Brief /\ state \in SessionState
  BY DEF TypeOK
<1> QED
  BY <1>1, <1>2 DEF Session, Snapshot

\* A turn goes to its next statement.
LEMMA Moves ==
  ASSUME TypeOK, NEW t \in Turns, NEW step \in TurnStep, Goto(t, step)
  PROVE  /\ turn' \in [Turns -> Turn]
         /\ turn'[t] = [turn[t] EXCEPT !.step = step]
         /\ turn'[t].step = step
         /\ turn'[t].reply = turn[t].reply
         /\ turn'[t].snap = turn[t].snap
         /\ turn'[t].items = turn[t].items
         /\ turn'[t].accept = turn[t].accept
         /\ turn'[t].read = turn[t].read
         /\ turn'[t].passed = turn[t].passed
         /\ \A u \in Turns \ {t} : turn'[u] = turn[u]
<1>1. turn \in [Turns -> Turn] /\ turn[t] \in Turn
  BY DEF TypeOK
<1>2. turn' = [turn EXCEPT ![t] = [turn[t] EXCEPT !.step = step]]
  BY DEF Goto
<1>3. [turn[t] EXCEPT !.step = step] \in Turn
  BY <1>1 DEF Turn
<1>4. turn'[t] = [turn[t] EXCEPT !.step = step]
  BY <1>1, <1>2
<1>5. /\ turn' \in [Turns -> Turn]
      /\ \A u \in Turns \ {t} : turn'[u] = turn[u]
  BY <1>1, <1>2, <1>3
<1> QED
  BY <1>1, <1>4, <1>5 DEF Turn

\* A turn ends.
LEMMA Ends ==
  ASSUME TypeOK, NEW t \in Turns, turn' = [turn EXCEPT ![t] = IdleTurn]
  PROVE  /\ turn' \in [Turns -> Turn]
         /\ turn'[t].step = "idle"
         /\ \A u \in Turns \ {t} : turn'[u] = turn[u]
  BY IdleTyped DEF TypeOK

-----------------------------------------------------------------------------
(***************************************************************************)
(* Counting: operations and thread messages in progress.                   *)
(***************************************************************************)
Busy(step) == IF step \in WorkingStep THEN 1 ELSE 0
Streams(step) == IF step = "streaming" THEN 1 ELSE 0

\* Handlers in progress are counted.
LEMMA Counted ==
  /\ Cardinality(Working) \in Nat
  /\ Cardinality(Answering) \in Nat
<1>1. Working \in SUBSET Turns /\ Answering \in SUBSET Threads
  BY DEF Working, Answering
<1> QED
  BY <1>1, FiniteAssumption, FS_Subset, FS_CardinalityType

\* One turn moves: the number of those in progress changes by its own.
LEMMA WorkingCounts ==
  ASSUME NEW t \in Turns, \A u \in Turns \ {t} : turn'[u] = turn[u]
  PROVE  Cardinality(Working') = Cardinality(Working)
                                   + Busy(turn'[t].step) - Busy(turn[t].step)
<1> DEFINE rest == Working \ {t}
<1>1. IsFiniteSet(Working) /\ IsFiniteSet(Working')
  <2>1. Working \in SUBSET Turns /\ Working' \in SUBSET Turns
    BY DEF Working
  <2> QED BY <2>1, FiniteAssumption, FS_Subset
<1>2. rest = Working' \ {t}
  BY DEF Working
<1>3. /\ t \in Working <=> turn[t].step \in WorkingStep
      /\ t \in Working' <=> turn'[t].step \in WorkingStep
  BY DEF Working
<1>4. Cardinality(rest) = IF t \in Working THEN Cardinality(Working) - 1
                          ELSE Cardinality(Working)
  BY <1>1, FS_RemoveElement
<1>5. Cardinality(rest) = IF t \in Working' THEN Cardinality(Working') - 1
                          ELSE Cardinality(Working')
  BY <1>1, <1>2, FS_RemoveElement
<1>6. Cardinality(Working) \in Nat /\ Cardinality(Working') \in Nat
  BY <1>1, FS_CardinalityType
<1> HIDE DEF rest
<1> QED
  BY <1>3, <1>4, <1>5, <1>6 DEF Busy

\* The same for one focused thread.
LEMMA AnsweringCounts ==
  ASSUME NEW x \in Threads, \A y \in Threads \ {x} : focus'[y] = focus[y]
  PROVE  Cardinality(Answering') = Cardinality(Answering)
                               + Streams(focus'[x].step) - Streams(focus[x].step)
<1> DEFINE rest == Answering \ {x}
<1>1. IsFiniteSet(Answering) /\ IsFiniteSet(Answering')
  <2>1. Answering \in SUBSET Threads /\ Answering' \in SUBSET Threads
    BY DEF Answering
  <2> QED BY <2>1, FiniteAssumption, FS_Subset
<1>2. rest = Answering' \ {x}
  BY DEF Answering
<1>3. /\ x \in Answering <=> focus[x].step = "streaming"
      /\ x \in Answering' <=> focus'[x].step = "streaming"
  BY DEF Answering
<1>4. Cardinality(rest) = IF x \in Answering THEN Cardinality(Answering) - 1
                          ELSE Cardinality(Answering)
  BY <1>1, FS_RemoveElement
<1>5. Cardinality(rest) = IF x \in Answering' THEN Cardinality(Answering') - 1
                          ELSE Cardinality(Answering')
  BY <1>1, <1>2, FS_RemoveElement
<1>6. Cardinality(Answering) \in Nat /\ Cardinality(Answering') \in Nat
  BY <1>1, FS_CardinalityType
<1> HIDE DEF rest
<1> QED
  BY <1>3, <1>4, <1>5, <1>6 DEF Streams

-----------------------------------------------------------------------------
(***************************************************************************)
(* Bookkeeping: types, what handlers hold, what is in progress.            *)
(***************************************************************************)

\* Nothing has happened yet.
LEMMA InitBooks == Init => Bookkeeping
<1> SUFFICES ASSUME Init PROVE Bookkeeping
  OBVIOUS
<1>1. /\ brief \in Brief /\ brief.cursor = 0
      /\ turn \in [Turns -> Turn] /\ confirm \in [Confirmers -> Confirmation]
  BY IdleTyped DEF Init, NoBrief
<1>2. messages \in Seq(Message) /\ Len(messages) = 0
  BY EmptySeq DEF Init
<1>3. TypeOK
  <2>1. Len(messages) <= MaxMessages
    BY <1>2, BoundAssumption
  <2>3. open = 0 /\ state = "Draft" /\ built = FALSE
        /\ seen = {} /\ overtaken = {} /\ abandoned = 0
    BY DEF Init
  <2>4. /\ open \in Nat /\ state \in SessionState /\ built \in BOOLEAN
        /\ seen \subseteq 1..MaxMessages /\ overtaken \subseteq 1..MaxMessages
        /\ abandoned \in Nat
    BY <2>3 DEF SessionState
  <2>2. /\ thread \in [Threads ->
             [state : {"absent", "opening", "draft", "confirmed"},
              candidate : Values \cup {None}]]
        /\ focus \in [Threads -> [step : FocusStep, value : Values \cup {None}]]
    BY DEF Init, FocusStep
  <2> QED BY <1>1, <1>2, <2>1, <2>2, <2>4 DEF TypeOK
<1>4. \A t \in Turns : turn[t].step = "idle"
  BY IdleTyped DEF Init
<1>5. Held
  BY <1>1, <1>2, <1>4, IdleTyped DEF Init, Held
<1>6. /\ Working = {} /\ Answering = {} /\ open = 0 /\ abandoned = 0
      /\ DOMAIN messages = {}
  BY <1>2, <1>4 DEF Init, Working, Answering, WorkingStep
<1>7. WorkAccounted
  BY <1>6, FS_EmptySet DEF WorkAccounted
<1> QED
  BY <1>3, <1>5, <1>7 DEF Bookkeeping

\* What a turn opens, closes or abandons is counted.
LEMMA TurnCounted ==
  ASSUME NEW t \in Turns, \A u \in Turns \ {t} : turn'[u] = turn[u],
         Answering' = Answering,
         open \in Nat, abandoned \in Nat, open' \in Int, abandoned' \in Nat,
         open = Cardinality(Working) + Cardinality(Answering) + abandoned,
         open' - Busy(turn'[t].step) - abandoned'
           = open - Busy(turn[t].step) - abandoned
  PROVE  /\ open' = Cardinality(Working') + Cardinality(Answering') + abandoned'
         /\ open' \in Nat
<1> DEFINE w == Cardinality(Working)      c == Busy(turn[t].step)
           w1 == Cardinality(Working')    c1 == Busy(turn'[t].step)
           a == Cardinality(Answering)
<1>1. /\ w1 = w + c1 - c /\ Cardinality(Answering') = a
      /\ open = w + a + abandoned
      /\ open' - c1 - abandoned' = open - c - abandoned
  BY WorkingCounts, Counted DEF Busy
<1>2. w \in Nat /\ a \in Nat /\ c \in Nat /\ c1 \in Nat
  BY Counted DEF Busy
<1>3. w1 \in Nat
  <2>1. Working' \in SUBSET Turns
    BY DEF Working
  <2> QED BY <2>1, FiniteAssumption, FS_Subset, FS_CardinalityType
<1> HIDE DEF w, w1, a, c, c1
<1>4. PICK p \in Int, m \in Nat : p = open' /\ m = abandoned'
  OBVIOUS
<1>5. p - c1 - m = open - c - abandoned
  BY <1>1, <1>4
<1>6. p = w1 + a + m /\ p \in Nat
  BY <1>1, <1>2, <1>3, <1>5
<1> QED
  BY <1>1, <1>4, <1>6 DEF w1

\* The same for a focused thread.
LEMMA FocusCounted ==
  ASSUME NEW x \in Threads, \A y \in Threads \ {x} : focus'[y] = focus[y],
         Working' = Working,
         open \in Nat, abandoned \in Nat, open' \in Int, abandoned' \in Nat,
         open = Cardinality(Working) + Cardinality(Answering) + abandoned,
         open' - Streams(focus'[x].step) - abandoned'
           = open - Streams(focus[x].step) - abandoned
  PROVE  /\ open' = Cardinality(Working') + Cardinality(Answering') + abandoned'
         /\ open' \in Nat
<1> DEFINE w == Cardinality(Answering)      c == Streams(focus[x].step)
           w1 == Cardinality(Answering')    c1 == Streams(focus'[x].step)
           a == Cardinality(Working)
<1>1. /\ w1 = w + c1 - c /\ Cardinality(Working') = a
      /\ open = w + a + abandoned
      /\ open' - c1 - abandoned' = open - c - abandoned
  BY AnsweringCounts, Counted DEF Streams
<1>2. w \in Nat /\ a \in Nat /\ c \in Nat /\ c1 \in Nat
  BY Counted DEF Streams
<1>3. w1 \in Nat
  <2>1. Answering' \in SUBSET Threads
    BY DEF Answering
  <2> QED BY <2>1, FiniteAssumption, FS_Subset, FS_CardinalityType
<1> HIDE DEF w, w1, a, c, c1
<1>4. PICK p \in Int, m \in Nat : p = open' /\ m = abandoned'
  OBVIOUS
<1>5. p - c1 - m = open - c - abandoned
  BY <1>1, <1>4
<1>6. p = a + w1 + m /\ p \in Nat
  BY <1>1, <1>2, <1>3, <1>5
<1> QED
  BY <1>1, <1>4, <1>6 DEF w1

\* A handler whose reply is being written.
Writing(handler) == handler.step \in {"prepared", "streaming"}

\* What a step of turn t must show: what it writes is well typed, it counts
\* what it opens, closes and abandons, and only its own reply starts or stops
\* being written.
LEMMA TurnKeepsBooks ==
  ASSUME Bookkeeping, NEW t \in Turns,
         UNCHANGED <<built, thread, focus, confirm>>,
         turn' \in [Turns -> Turn],
         \A u \in Turns \ {t} : turn'[u] = turn[u],
         messages' \in Seq(Message),
         Len(messages') \in Len(messages)..MaxMessages,
         brief' \in Brief, brief'.cursor <= Len(messages'),
         state' \in SessionState,
         seen' \subseteq 1..MaxMessages, overtaken' \subseteq 1..MaxMessages,
         open' \in Int, abandoned' \in Nat, abandoned' >= abandoned,
         open' - Busy(turn'[t].step) - abandoned'
           = open - Busy(turn[t].step) - abandoned,
         Writing(turn'[t]) =>
           /\ turn'[t].reply \in 1..Len(messages')
           /\ messages'[turn'[t].reply].status = "streaming"
           /\ \/ Writing(turn[t]) /\ turn'[t].reply = turn[t].reply
              \/ turn'[t].reply \notin DOMAIN messages,
         \A i \in DOMAIN messages :
           messages[i].status = "streaming"
             /\ ~(Writing(turn[t]) /\ turn[t].reply = i)
             => messages'[i].status = "streaming",
         turn'[t].step \in {"advance", "save"} =>
           /\ turn'[t].read \subseteq 1..Len(messages')
           /\ turn'[t].read # {} => \E last \in turn'[t].read :
                \A i \in turn'[t].read : i <= last,
         \A i \in 1..Len(messages') : messages'[i].status = "streaming" =>
           \/ Writing(turn'[t]) /\ turn'[t].reply = i
           \/ /\ i \in DOMAIN messages /\ messages[i].status = "streaming"
              /\ ~(Writing(turn[t]) /\ turn[t].reply = i)
           \/ abandoned' > 0
  PROVE  Bookkeeping'
<1>1. /\ TypeOK /\ Held /\ WorkAccounted /\ MaxMessages \in Nat
      /\ Len(messages) \in Nat /\ DOMAIN messages = 1..Len(messages)
      /\ abandoned \in Nat
  BY Conversation, BoundAssumption DEF Bookkeeping, TypeOK
<1>2. DOMAIN messages' = 1..Len(messages') /\ Len(messages') \in Nat
  BY LenProperties
<1>5. /\ open' = Cardinality(Working') + Cardinality(Answering') + abandoned'
      /\ open' \in Nat
  <2>1. open = Cardinality(Working) + Cardinality(Answering) + abandoned
    BY <1>1 DEF WorkAccounted
  <2>2. Answering' = Answering /\ open \in Nat
    BY <1>1 DEF Answering, TypeOK
  <2> QED BY <1>1, <2>1, <2>2, TurnCounted
<1>6. TypeOK'
  BY <1>1, <1>2, <1>5 DEF TypeOK
<1>7. Held'
  <2>1. ASSUME NEW v \in Turns, Writing(turn[v])
        PROVE  /\ turn[v].reply \in DOMAIN messages
               /\ messages[turn[v].reply].status = "streaming"
               /\ \A u \in Turns :
                    Writing(turn[u]) /\ turn[u].reply = turn[v].reply => u = v
    BY <1>1, <2>1 DEF Held, Writing
  <2>2. ASSUME NEW v \in Turns, Writing(turn'[v])
        PROVE  /\ turn'[v].reply \in DOMAIN messages'
               /\ messages'[turn'[v].reply].status = "streaming"
    BY <1>1, <1>2, <2>1, <2>2
  <2>3. ASSUME NEW v \in Turns, NEW u \in Turns, Writing(turn'[v]),
               Writing(turn'[u]), turn'[u].reply = turn'[v].reply
        PROVE  u = v
    BY <1>1, <2>1, <2>3
  <2>4. ASSUME NEW v \in Turns, turn'[v].step \in {"advance", "save"}
        PROVE  /\ turn'[v].read \subseteq DOMAIN messages'
               /\ turn'[v].read # {} => \E last \in turn'[v].read :
                    \A i \in turn'[v].read : i <= last
    BY <1>1, <1>2, <2>4 DEF Held
  <2>5. \A c \in Confirmers :
          /\ confirm'[c].step # "idle" => confirm'[c].thread \in Threads
          /\ confirm'[c].step = "apply" => confirm'[c].value \in Values
    BY <1>1 DEF Held
  <2> QED BY <2>2, <2>3, <2>4, <2>5 DEF Held, Writing
<1>8. ASSUME NEW i \in DOMAIN messages', messages'[i].status = "streaming"
      PROVE  InHand(i)' \/ abandoned' > 0
  <2>1. CASE Writing(turn'[t]) /\ turn'[t].reply = i
    BY <2>1 DEF InHand, Writing
  <2>2. CASE /\ i \in DOMAIN messages /\ messages[i].status = "streaming"
             /\ ~(Writing(turn[t]) /\ turn[t].reply = i)
    <3>1. InHand(i) \/ abandoned > 0
      BY <1>1, <2>2 DEF WorkAccounted
    <3> QED BY <1>1, <2>2, <3>1 DEF InHand, Writing
  <2> QED BY <1>2, <1>8, <2>1, <2>2
<1>9. WorkAccounted'
  BY <1>5, <1>8 DEF WorkAccounted
<1> QED
  BY <1>6, <1>7, <1>9 DEF Bookkeeping

\* A step of a turn that changes no message, brief, state or reading: it
\* goes on, or ends.
LEMMA TurnGoesOn ==
  ASSUME Bookkeeping, NEW t \in Turns,
         UNCHANGED <<brief, messages, state, built, thread, focus, confirm,
                     seen, overtaken>>,
         turn' \in [Turns -> Turn],
         \A u \in Turns \ {t} : turn'[u] = turn[u],
         open' \in Int, abandoned' \in Nat, abandoned' >= abandoned,
         open' - Busy(turn'[t].step) - abandoned'
           = open - Busy(turn[t].step) - abandoned,
         Writing(turn'[t]) =>
           Writing(turn[t]) /\ turn'[t].reply = turn[t].reply,
         turn'[t].step \in {"advance", "save"} =>
           /\ turn'[t].read \subseteq DOMAIN messages
           /\ turn'[t].read # {} => \E last \in turn'[t].read :
                \A i \in turn'[t].read : i <= last,
         Writing(turn[t]) => Writing(turn'[t]) \/ abandoned' > 0
  PROVE  Bookkeeping'
<1>1. /\ TypeOK /\ Held /\ MaxMessages \in Nat
      /\ Len(messages) \in Nat /\ DOMAIN messages = 1..Len(messages)
      /\ Len(messages) <= MaxMessages
      /\ messages \in Seq(Message)
      /\ brief \in Brief /\ state \in SessionState
      /\ seen \subseteq 1..MaxMessages /\ overtaken \subseteq 1..MaxMessages
  BY Conversation, BoundAssumption DEF Bookkeeping, TypeOK
<1>2. Len(messages') \in Len(messages)..MaxMessages
  BY <1>1
<1>3. /\ brief.cursor <= Len(messages)
      /\ Writing(turn[t]) =>
           /\ turn[t].reply \in DOMAIN messages
           /\ messages[turn[t].reply].status = "streaming"
  BY <1>1 DEF Held, Writing
<1>4. Writing(turn'[t]) =>
        /\ turn'[t].reply \in 1..Len(messages')
        /\ messages'[turn'[t].reply].status = "streaming"
  BY <1>1, <1>3
<1>5. turn'[t].step \in {"advance", "save"} =>
        turn'[t].read \subseteq 1..Len(messages')
  BY <1>1
<1>6. \A i \in 1..Len(messages') :
        messages'[i].status = "streaming" =>
          \/ Writing(turn'[t]) /\ turn'[t].reply = i
          \/ /\ i \in DOMAIN messages /\ messages[i].status = "streaming"
             /\ ~(Writing(turn[t]) /\ turn[t].reply = i)
          \/ abandoned' > 0
  BY <1>1
<1> QED
  BY <1>1, <1>2, <1>3, <1>4, <1>5, <1>6, TurnKeepsBooks

\* latestConversationalMessageID of a batch is its largest message.
LEMMA LastIs ==
  ASSUME NEW batch \in SUBSET Nat, NEW last \in batch,
         \A i \in batch : i <= last
  PROVE  Last(batch) = last
<1> DEFINE Largest(i) == \A j \in batch : j <= i
<1>1. \E i \in batch : Largest(i)
  OBVIOUS
<1>2. Last(batch) = CHOOSE i \in batch : Largest(i)
  BY DEF Last
<1> HIDE DEF Largest
<1>3. Last(batch) \in batch /\ Largest(Last(batch))
  BY <1>1, <1>2
<1>4. Last(batch) \in Nat /\ last \in Nat
  BY <1>3
<1>5. Last(batch) <= last /\ last <= Last(batch)
  BY <1>3 DEF Largest
<1> QED
  BY <1>4, <1>5

\* curatorPacket reads an initial part of the delta.
LEMMA BatchRead ==
  ASSUME TypeOK, NEW cursor \in Nat, NEW batch \in Batches(Since(cursor))
  PROVE  /\ batch \subseteq DOMAIN messages
         /\ batch # {} => \E last \in batch : \A i \in batch : i <= last
         /\ \A i \in Since(cursor) : i <= Last(batch) => i \in batch
<1> DEFINE delta == Since(cursor)
<1>1. delta \subseteq DOMAIN messages /\ DOMAIN messages \subseteq Nat \ {0}
  BY Conversation DEF Since
<1>2. CASE batch = {}
  BY <1>1, <1>2 DEF Last
<1>3. CASE batch # {}
  <2>1. PICK last \in delta : batch = {i \in delta : i <= last}
    BY <1>3 DEF Batches
  <2>2. /\ last \in batch /\ batch \in SUBSET Nat
        /\ \A i \in batch : i <= last
    BY <1>1, <2>1
  <2>3. Last(batch) = last
    BY <2>2, LastIs
  <2> QED BY <1>1, <2>1, <2>2, <2>3
<1> QED
  BY <1>2, <1>3

\* The cursor that a curator writes is one of the messages, or none.
LEMMA CursorWritten ==
  ASSUME TypeOK, Held, NEW t \in Turns, turn[t].step \in {"advance", "save"}
  PROVE  /\ Last(turn[t].read) \in 0..MaxMessages
         /\ Last(turn[t].read) <= Len(messages)
         /\ turn[t].read \subseteq 1..MaxMessages
<1>1. /\ turn[t].read \subseteq DOMAIN messages
      /\ turn[t].read # {} => \E last \in turn[t].read :
           \A i \in turn[t].read : i <= last
  BY DEF Held
<1>2. /\ DOMAIN messages = 1..Len(messages) /\ Len(messages) \in Nat
      /\ Len(messages) <= MaxMessages /\ MaxMessages \in Nat
  BY Conversation, BoundAssumption DEF TypeOK
<1>3. CASE turn[t].read = {}
  BY <1>2, <1>3 DEF Last
<1>4. CASE turn[t].read # {}
  <2>1. PICK last \in turn[t].read : \A i \in turn[t].read : i <= last
    BY <1>1, <1>4
  <2>2. turn[t].read \in SUBSET Nat
    BY <1>1, <1>2
  <2>3. Last(turn[t].read) = last
    BY <2>1, <2>2, LastIs
  <2> QED BY <1>1, <1>2, <2>1, <2>3
<1> QED
  BY <1>3, <1>4

\* A turn keeps the books.
LEMMA TurnBooks ==
  ASSUME Bookkeeping, NEW t \in Turns, Ask(t) \/ RunTurn(t) \/ Disconnect(t)
  PROVE  Bookkeeping'
<1>1. /\ TypeOK /\ Held /\ WorkAccounted
      /\ MaxMessages \in Nat /\ MaxVersion \in Nat
      /\ Len(messages) \in Nat /\ DOMAIN messages = 1..Len(messages)
      /\ messages \in Seq(Message) /\ Len(messages) <= MaxMessages
      /\ open \in Nat /\ brief \in Brief /\ state \in SessionState
      /\ seen \subseteq 1..MaxMessages /\ overtaken \subseteq 1..MaxMessages
      /\ abandoned \in Nat
      /\ turn \in [Turns -> Turn] /\ turn[t] \in Turn
      /\ brief.cursor <= Len(messages)
  BY Conversation, BoundAssumption DEF Bookkeeping, TypeOK, Held
<1>2. Len(messages) \in Len(messages)..MaxMessages
  BY <1>1
<1>3. ASSUME NEW step \in TurnStep, Goto(t, step),
             UNCHANGED <<brief, messages, state, built, thread, focus,
                         confirm, past>>,
             open' = open + Busy(step) - Busy(turn[t].step),
             ~Writing(turn[t]),
             step \notin {"prepared", "streaming", "advance", "save"}
      PROVE  Bookkeeping'
  <2>1. /\ turn' \in [Turns -> Turn] /\ turn'[t].step = step
        /\ \A u \in Turns \ {t} : turn'[u] = turn[u]
    BY <1>1, <1>3, Moves
  <2>2. /\ open' \in Int /\ abandoned' \in Nat /\ abandoned' >= abandoned
        /\ open' - Busy(step) - abandoned'
             = open - Busy(turn[t].step) - abandoned
    BY <1>1, <1>3 DEF Busy
  <2>3. ~Writing(turn'[t]) /\ turn'[t].step \notin {"advance", "save"}
    BY <1>3, <2>1 DEF Writing
  <2> QED BY <1>3, <2>1, <2>2, <2>3, TurnGoesOn
<1>4. ASSUME turn' = [turn EXCEPT ![t] = IdleTurn],
             UNCHANGED <<brief, messages, state, built, thread, focus,
                         confirm, seen, overtaken>>,
             \/ open' = open /\ abandoned' = abandoned + Busy(turn[t].step)
             \/ /\ open' = open - Busy(turn[t].step)
                /\ abandoned' = abandoned /\ ~Writing(turn[t])
      PROVE  Bookkeeping'
  <2>1. /\ turn' \in [Turns -> Turn] /\ turn'[t].step = "idle"
        /\ \A u \in Turns \ {t} : turn'[u] = turn[u]
    BY <1>1, <1>4, Ends
  <2>2. /\ open' \in Int /\ abandoned' \in Nat /\ abandoned' >= abandoned
        /\ open' - Busy("idle") - abandoned'
             = open - Busy(turn[t].step) - abandoned
        /\ Writing(turn[t]) => abandoned' > 0
    BY <1>1, <1>4 DEF Busy, WorkingStep, Writing
  <2>3. ~Writing(turn'[t])
    BY <2>1 DEF Writing
  <2> QED BY <1>4, <2>1, <2>2, <2>3, TurnGoesOn
<1> USE DEF Busy, WorkingStep, Writing
<1>5. CASE Ask(t)
  <2>1. /\ turn[t].step = "idle" /\ Goto(t, "asked") /\ "asked" \in TurnStep
        /\ AddMessage("user", "complete")
        /\ UNCHANGED <<brief, open, state, built, thread, focus, confirm, past>>
    BY <1>5 DEF Ask, TurnStep
  <2>2. /\ turn' \in [Turns -> Turn] /\ turn'[t].step = "asked"
        /\ \A u \in Turns \ {t} : turn'[u] = turn[u]
    BY <1>1, <2>1, Moves
  <2>3. /\ messages' \in Seq(Message) /\ Len(messages') = Len(messages) + 1
        /\ Len(messages') <= MaxMessages
        /\ \A i \in 1..Len(messages) : messages'[i] = messages[i]
        /\ messages'[Len(messages) + 1].status = "complete"
    BY <1>1, <2>1, Added
  <2>4. Len(messages') \in Len(messages)..MaxMessages
    BY <1>1, <2>3
  <2>5. \A i \in 1..Len(messages') : messages'[i].status = "streaming" =>
          i \in DOMAIN messages /\ messages[i].status = "streaming"
    BY <1>1, <2>3
  <2>6. brief'.cursor <= Len(messages')
    BY <1>1, <2>1, <2>3 DEF Brief
  <2>7. /\ open' \in Int /\ abandoned' \in Nat /\ abandoned' >= abandoned
        /\ open' - Busy("asked") - abandoned' = open - Busy("idle") - abandoned
    BY <1>1, <2>1
  <2>8. \A i \in DOMAIN messages : messages'[i].status = messages[i].status
    BY <1>1, <2>3
  <2> QED BY <1>1, <2>1, <2>2, <2>3, <2>4, <2>5, <2>6, <2>7, <2>8,
             TurnKeepsBooks
<1>6. CASE \/ OpenOperation(t) \/ FinishReply(t) \/ BeginUpdate(t)
           \/ UpdateFails(t)
  <2>1. PICK step \in {"opened", "finished", "curating", "close"} :
          /\ Goto(t, step)
          /\ UNCHANGED <<brief, messages, state, built, thread, focus,
                         confirm, past>>
          /\ open' = open + Busy(step) - Busy(turn[t].step)
          /\ ~Writing(turn[t])
    BY <1>1, <1>6 DEF OpenOperation, FinishReply, BeginUpdate, UpdateFails
  <2> QED BY <1>3, <2>1 DEF TurnStep
<1>7. CASE FailTurn(t) \/ EndUpdate(t)
  BY <1>1, <1>4, <1>7 DEF FailTurn, EndUpdate
<1>8. CASE Disconnect(t)
  BY <1>1, <1>4, <1>8 DEF Disconnect, Abandon
<1>9. CASE StartReply(t)
  <2>1. /\ turn[t].step = "opened" /\ AddMessage("assistant", "streaming")
        /\ turn' = [turn EXCEPT ![t] = [turn[t] EXCEPT !.step = "prepared",
                                          !.reply = Len(messages) + 1]]
        /\ UNCHANGED <<brief, open, state, built, thread, focus, confirm, past>>
    BY <1>1, <1>9 DEF StartReply
  <2>2. /\ messages' \in Seq(Message) /\ Len(messages') = Len(messages) + 1
        /\ Len(messages') <= MaxMessages
        /\ \A i \in 1..Len(messages) : messages'[i] = messages[i]
        /\ messages'[Len(messages) + 1].status = "streaming"
    BY <1>1, <2>1, Added
  <2>3. Len(messages) + 1 \in 0..MaxMessages
    BY <1>1, <2>2
  <2>4. [turn[t] EXCEPT !.step = "prepared", !.reply = Len(messages) + 1]
          \in Turn
    BY <1>1, <2>3 DEF Turn, TurnStep
  <2>5. /\ turn' \in [Turns -> Turn] /\ turn'[t].step = "prepared"
        /\ turn'[t].reply = Len(messages) + 1
        /\ \A u \in Turns \ {t} : turn'[u] = turn[u]
    BY <1>1, <2>1, <2>4 DEF Turn
  <2>6. Len(messages') \in Len(messages)..MaxMessages
    BY <1>1, <2>2
  <2>7. \A i \in 1..Len(messages') : messages'[i].status = "streaming" =>
          \/ turn'[t].reply = i
          \/ i \in DOMAIN messages /\ messages[i].status = "streaming"
    BY <1>1, <2>2, <2>5
  <2>8. /\ brief'.cursor <= Len(messages')
        /\ turn'[t].reply \in 1..Len(messages')
        /\ turn'[t].reply \notin DOMAIN messages
        /\ messages'[turn'[t].reply].status = "streaming"
    BY <1>1, <2>1, <2>2, <2>5 DEF Brief
  <2>9. /\ open' \in Int /\ abandoned' \in Nat /\ abandoned' >= abandoned
        /\ open' - Busy("prepared") - abandoned'
             = open - Busy("opened") - abandoned
    BY <1>1, <2>1
  <2>10. \A i \in DOMAIN messages : messages'[i].status = messages[i].status
    BY <1>1, <2>2
  <2> QED BY <1>1, <2>1, <2>2, <2>5, <2>6, <2>7, <2>8, <2>9, <2>10,
             TurnKeepsBooks
<1>10. CASE Load(t)
  <2>1. /\ turn[t].step = "prepared" /\ UNCHANGED <<rows, focus, confirm, past>>
        /\ turn' = [turn EXCEPT ![t] = [turn[t] EXCEPT !.step = "streaming",
                                          !.snap = Session]]
    BY <1>1, <1>10 DEF Load
  <2>2. Session \in Snapshot
    BY <1>1, SessionTyped
  <2>3. [turn[t] EXCEPT !.step = "streaming", !.snap = Session] \in Turn
    BY <1>1, <2>2 DEF Turn, TurnStep
  <2>4. /\ turn' \in [Turns -> Turn] /\ turn'[t].step = "streaming"
        /\ turn'[t].reply = turn[t].reply
        /\ \A u \in Turns \ {t} : turn'[u] = turn[u]
    BY <1>1, <2>1, <2>3 DEF Turn
  <2>5. /\ open' \in Int /\ abandoned' \in Nat /\ abandoned' >= abandoned
        /\ open' - Busy("streaming") - abandoned'
             = open - Busy("prepared") - abandoned
    BY <1>1, <2>1
  <2> QED BY <1>1, <2>1, <2>4, <2>5, TurnGoesOn
<1>11. CASE Complete(t) \/ FailReply(t)
  <2>1. PICK status \in {"complete", "failed"}, step \in {"completed", "failing"} :
          /\ turn[t].step = "streaming" /\ Reply(t, status) /\ Goto(t, step)
          /\ UNCHANGED <<brief, open, state, built, thread, focus, confirm,
                         past>>
    BY <1>11 DEF Complete, FailReply
  <2>2. turn[t].reply \in DOMAIN messages
    BY <1>1, <2>1 DEF Held
  <2>3. /\ messages' \in Seq(Message) /\ Len(messages') = Len(messages)
        /\ \A i \in DOMAIN messages : messages'[i].status =
             IF i = turn[t].reply THEN status ELSE messages[i].status
    BY <1>1, <2>1, <2>2, Replied
  <2>4. /\ turn' \in [Turns -> Turn] /\ turn'[t].step = step
        /\ \A u \in Turns \ {t} : turn'[u] = turn[u]
    BY <1>1, <2>1, Moves DEF TurnStep
  <2>5. \A i \in 1..Len(messages') : messages'[i].status = "streaming" =>
          /\ i \in DOMAIN messages /\ messages[i].status = "streaming"
          /\ turn[t].reply # i
    BY <1>1, <2>3
  <2>6. /\ open' \in Int /\ abandoned' \in Nat /\ abandoned' >= abandoned
        /\ open' - Busy(step) - abandoned'
             = open - Busy("streaming") - abandoned
    BY <1>1, <2>1
  <2>7. brief'.cursor <= Len(messages')
        /\ Len(messages') \in Len(messages)..MaxMessages
    BY <1>1, <1>2, <2>1, <2>3
  <2>8. \A i \in DOMAIN messages :
          messages[i].status = "streaming" /\ turn[t].reply # i
            => messages'[i].status = "streaming"
    BY <2>3
  <2> QED BY <1>1, <2>1, <2>3, <2>4, <2>5, <2>6, <2>7, <2>8, TurnKeepsBooks
<1>12. CASE KeepUnchanged(t) \/ Propose(t)
  <2>1. PICK batch \in Batches(Since(turn[t].snap.brief.cursor)),
             step \in {"advance", "save"}, items \in Items,
             accept \in Acceptance :
          turn' = [turn EXCEPT ![t] = [turn[t] EXCEPT !.step = step,
                     !.read = batch, !.passed = Passed(batch),
                     !.items = items, !.accept = accept]]
    <3>1. turn[t].items \in Items /\ turn[t].accept \in Acceptance
      BY <1>1 DEF Turn
    <3>2. CASE KeepUnchanged(t)
      <4>1. PICK batch \in Batches(Since(turn[t].snap.brief.cursor)) :
              turn' = [turn EXCEPT ![t].step = "advance", ![t].read = batch,
                                   ![t].passed = Passed(batch)]
        BY <3>2 DEF KeepUnchanged
      <4> DEFINE passed == Passed(batch)
      <4>2. turn' = [turn EXCEPT ![t].step = "advance", ![t].read = batch,
                                 ![t].passed = passed]
        BY <4>1
      <4> HIDE DEF passed
      <4>3. [turn[t] EXCEPT !.step = "advance", !.read = batch,
                            !.passed = passed]
              = [turn[t] EXCEPT !.step = "advance", !.read = batch,
                   !.passed = passed,
                   !.items = turn[t].items, !.accept = turn[t].accept]
        BY <1>1 DEF Turn
      <4>4. turn' = [turn EXCEPT ![t] = [turn[t] EXCEPT !.step = "advance",
                       !.read = batch, !.passed = passed]]
        BY <1>1, <4>2
      <4> QED BY <3>1, <4>3, <4>4 DEF passed
    <3>3. CASE Propose(t)
      <4>1. PICK batch \in Batches(Since(turn[t].snap.brief.cursor)),
                 items \in Items :
               \E accept \in Bind(turn[t].snap, items, batch) :
                 turn' = [turn EXCEPT ![t].step = "save", ![t].read = batch,
                                 ![t].passed = Passed(batch),
                                 ![t].items = items, ![t].accept = accept]
        BY <3>3 DEF Propose
      <4>2. Bind(turn[t].snap, items, batch) \subseteq Acceptance
        BY DEF Bind, Acceptance
      <4>3. PICK accept \in Acceptance :
              turn' = [turn EXCEPT ![t].step = "save", ![t].read = batch,
                                 ![t].passed = Passed(batch),
                                 ![t].items = items, ![t].accept = accept]
        BY <4>1, <4>2
      <4>4. turn' = [turn EXCEPT ![t] = [turn[t] EXCEPT !.step = "save",
                       !.read = batch, !.passed = Passed(batch),
                       !.items = items, !.accept = accept]]
        BY <1>1, <4>3
      <4> QED BY <4>4
    <3> QED BY <1>12, <3>2, <3>3
  <2> DEFINE passed == Passed(batch)
  <2>2. turn[t].step = "curating" /\ UNCHANGED <<rows, focus, confirm, past>>
    BY <1>12 DEF KeepUnchanged, Propose
  <2>3. turn[t].snap.brief.cursor \in Nat
    BY <1>1 DEF Turn, Snapshot, Brief
  <2>4. /\ batch \subseteq DOMAIN messages
        /\ batch # {} => \E last \in batch : \A i \in batch : i <= last
    BY <1>1, <2>3, BatchRead
  <2>5. batch \in SUBSET (1..MaxMessages) /\ passed \in SUBSET (1..MaxMessages)
    BY <1>1, <2>4 DEF Passed
  <2> DEFINE next == [turn[t] EXCEPT !.step = step,
                        !.read = batch, !.passed = passed,
                        !.items = items, !.accept = accept]
  <2>9. turn' = [turn EXCEPT ![t] = next]
    BY <2>1
  <2> HIDE DEF passed
  <2>6. next \in Turn /\ next.step = step /\ next.read = batch
    BY <1>1, <2>5 DEF Turn, TurnStep
  <2> HIDE DEF next
  <2>7. /\ turn' \in [Turns -> Turn] /\ turn'[t] = next
        /\ \A u \in Turns \ {t} : turn'[u] = turn[u]
    BY <1>1, <2>6, <2>9
  <2>8. /\ open' \in Int /\ abandoned' \in Nat /\ abandoned' >= abandoned
        /\ open' - Busy(step) - abandoned'
             = open - Busy("curating") - abandoned
    BY <1>1, <2>2
  <2> QED BY <2>2, <2>4, <2>6, <2>7, <2>8, TurnGoesOn
<1>13. CASE AdvanceCursor(t) \/ SaveBrief(t) \/ SaveState(t)
  <2>1. PICK step \in {"state", "close"} : Goto(t, step)
    BY <1>13 DEF AdvanceCursor, SaveBrief, SaveState
  <2>2. /\ turn' \in [Turns -> Turn] /\ turn'[t].step = step
        /\ \A u \in Turns \ {t} : turn'[u] = turn[u]
    BY <1>1, <2>1, Moves DEF TurnStep
  <2>3. /\ turn[t].step \in {"advance", "save", "state"}
        /\ UNCHANGED <<messages, open, built, thread, focus, confirm, abandoned>>
    BY <1>13 DEF AdvanceCursor, SaveBrief, SaveState, Consumed
  <2>4. /\ open' \in Int /\ abandoned' \in Nat /\ abandoned' >= abandoned
        /\ open' - Busy(step) - abandoned'
             = open - Busy(turn[t].step) - abandoned
    BY <1>1, <2>3
  <2>5. /\ brief' \in Brief /\ brief'.cursor <= Len(messages)
        /\ state' \in SessionState
        /\ seen' \subseteq 1..MaxMessages /\ overtaken' \subseteq 1..MaxMessages
    <3>1. CASE AdvanceCursor(t)
      <4>1. /\ Last(turn[t].read) \in 0..MaxMessages
            /\ Last(turn[t].read) <= Len(messages)
            /\ turn[t].read \subseteq 1..MaxMessages
            /\ turn[t].passed \subseteq 1..MaxMessages
        BY <1>1, <3>1, CursorWritten DEF AdvanceCursor, Turn
      <4> QED BY <1>1, <3>1, <4>1 DEF AdvanceCursor, Consumed, Brief
    <3>2. CASE SaveBrief(t)
      <4>1. /\ Last(turn[t].read) \in 0..MaxMessages
            /\ Last(turn[t].read) <= Len(messages)
            /\ turn[t].read \subseteq 1..MaxMessages
            /\ turn[t].passed \subseteq 1..MaxMessages
        BY <1>1, <3>2, CursorWritten DEF SaveBrief, Turn
      <4>2. /\ turn[t].items \in Items /\ turn[t].accept \in Acceptance
            /\ brief.version \in 0..MaxVersion /\ brief.version < MaxVersion
        BY <1>1, <3>2 DEF SaveBrief, Turn, Brief
      <4>3. brief.version + 1 \in 0..MaxVersion
        BY <1>1, <4>2
      <4> QED BY <1>1, <3>2, <4>1, <4>2, <4>3
              DEF SaveBrief, Consumed, Brief
    <3>3. CASE SaveState(t)
      BY <1>1, <3>3 DEF SaveState, NextState, SessionState
    <3> QED BY <1>13, <3>1, <3>2, <3>3
  <2>6. \A i \in 1..Len(messages') : messages'[i].status = "streaming" =>
          i \in DOMAIN messages /\ messages[i].status = "streaming"
    BY <1>1, <2>3
  <2> QED BY <1>1, <1>2, <2>2, <2>3, <2>4, <2>5, <2>6, TurnKeepsBooks
<1> QED
  BY <1>5, <1>6, <1>7, <1>8, <1>9, <1>10, <1>11, <1>12, <1>13 DEF RunTurn

ThreadType == [state : {"absent", "opening", "draft", "confirmed"},
               candidate : Values \cup {None}]
FocusType == [step : FocusStep, value : Values \cup {None}]

\* A focused thread keeps the books.
LEMMA FocusBooks ==
  ASSUME Bookkeeping, NEW x \in Threads,
         \/ LookupThread(x) \/ InsertThread(x) \/ FocusAsk(x)
         \/ RunFocus(x) \/ FocusDisconnect(x)
  PROVE  Bookkeeping'
<1>1. /\ TypeOK /\ Held /\ WorkAccounted
      /\ open \in Nat /\ abandoned \in Nat
      /\ thread \in [Threads -> ThreadType] /\ thread[x] \in ThreadType
      /\ focus \in [Threads -> FocusType] /\ focus[x] \in FocusType
  BY DEF Bookkeeping, TypeOK, ThreadType, FocusType
<1>2. UNCHANGED <<brief, messages, state, built, turn, confirm, seen, overtaken>>
  BY DEF LookupThread, InsertThread, FocusAsk, RunFocus, FocusDisconnect,
         ResetCandidate, FocusStart, FocusAnswer, FocusPropose,
         Abandon
<1>3. Held' /\ Working' = Working
  BY <1>1, <1>2 DEF Held, Working
<1>4. ASSUME focus' \in [Threads -> FocusType],
             thread' \in [Threads -> ThreadType],
             \A y \in Threads \ {x} : focus'[y] = focus[y],
             open' \in Int, abandoned' \in Nat, abandoned' >= abandoned,
             open' - Streams(focus'[x].step) - abandoned'
               = open - Streams(focus[x].step) - abandoned
      PROVE  Bookkeeping'
  <2>4. /\ open' = Cardinality(Working') + Cardinality(Answering') + abandoned'
        /\ open' \in Nat
    <3>1. open = Cardinality(Working) + Cardinality(Answering) + abandoned
      BY <1>1 DEF WorkAccounted
    <3> QED BY <1>1, <1>3, <1>4, <3>1, FocusCounted
  <2>5. \A i \in DOMAIN messages' :
          messages'[i].status = "streaming" => InHand(i)' \/ abandoned' > 0
    BY <1>1, <1>2, <1>4 DEF WorkAccounted, InHand
  <2>6. TypeOK'
    BY <1>1, <1>2, <1>4, <2>4 DEF TypeOK, ThreadType, FocusType
  <2> QED BY <1>3, <2>4, <2>5, <2>6 DEF Bookkeeping, WorkAccounted
<1>5. ASSUME NEW step \in FocusStep, NEW value \in Values \cup {None},
             FocusGoto(x, step, value)
      PROVE  /\ focus' \in [Threads -> FocusType]
             /\ focus'[x].step = step
             /\ \A y \in Threads \ {x} : focus'[y] = focus[y]
  <2>1. [step |-> step, value |-> value] \in FocusType
    BY DEF FocusType
  <2> QED BY <1>1, <1>5, <2>1 DEF FocusGoto
<1>6. ASSUME NEW value \in Values \cup {None}, SetCandidate(x, value)
      PROVE  thread' \in [Threads -> ThreadType]
  <2>1. [thread[x] EXCEPT !.candidate = value] \in ThreadType
    BY <1>1 DEF ThreadType
  <2>2. \/ thread' = thread
        \/ thread' = [thread EXCEPT ![x] =
                        [thread[x] EXCEPT !.candidate = value]]
    BY <1>1, <1>6 DEF SetCandidate
  <2> QED BY <1>1, <2>1, <2>2
<1> USE DEF Streams
<1>7. CASE LookupThread(x) \/ InsertThread(x)
  <2>1. PICK new \in {"opening", "draft"} :
          thread' = [thread EXCEPT ![x] = [thread[x] EXCEPT !.state = new]]
    BY <1>1, <1>7 DEF LookupThread, InsertThread
  <2>2. [thread[x] EXCEPT !.state = new] \in ThreadType
    BY <1>1 DEF ThreadType
  <2>3. thread' \in [Threads -> ThreadType]
    BY <1>1, <2>1, <2>2
  <2>4. UNCHANGED <<focus, open, abandoned>>
    BY <1>7 DEF LookupThread, InsertThread
  <2> QED BY <1>1, <1>4, <2>3, <2>4
<1>8. CASE FocusAsk(x)
  BY <1>1, <1>4, <1>5, <1>8 DEF FocusAsk, FocusStep
<1>9. CASE FocusDisconnect(x)
  BY <1>1, <1>4, <1>5, <1>9 DEF FocusDisconnect, FocusStep, Abandon
<1>10. CASE ResetCandidate(x)
  BY <1>1, <1>4, <1>5, <1>6, <1>10 DEF ResetCandidate, FocusStep
<1>11. CASE FocusStart(x)
  BY <1>1, <1>4, <1>5, <1>11 DEF FocusStart, FocusStep
<1>12. CASE FocusAnswer(x)
  <2>1. PICK step \in {"answered", "idle"}, value \in Values \cup {None} :
          FocusGoto(x, step, value)
    BY <1>12 DEF FocusAnswer
  <2>2. /\ focus[x].step = "streaming" /\ open' = open - 1
        /\ UNCHANGED <<thread, abandoned>>
    BY <1>12 DEF FocusAnswer
  <2> QED BY <1>1, <1>4, <1>5, <2>1, <2>2 DEF FocusStep
<1>13. CASE FocusPropose(x)
  <2>1. focus[x].value \in Values \cup {None}
    BY <1>1 DEF FocusType
  <2>2. thread' \in [Threads -> ThreadType]
    BY <1>6, <1>13, <2>1 DEF FocusPropose
  <2> QED BY <1>1, <1>4, <1>5, <1>13, <2>2 DEF FocusPropose, FocusStep
<1> QED
  BY <1>7, <1>8, <1>9, <1>10, <1>11, <1>12, <1>13 DEF RunFocus

\* A step that only changes rows other than messages and the handlers of
\* confirmations keeps what is in progress.
LEMMA ConfirmKeepsBooks ==
  ASSUME Bookkeeping,
         UNCHANGED <<messages, open, turn, focus, past>>,
         brief' \in Brief, brief'.cursor = brief.cursor,
         state' \in SessionState, built' \in BOOLEAN,
         thread' \in [Threads -> ThreadType],
         confirm' \in [Confirmers -> Confirmation],
         \A c \in Confirmers :
           /\ confirm'[c].step # "idle" => confirm'[c].thread \in Threads
           /\ confirm'[c].step = "apply" => confirm'[c].value \in Values
  PROVE  Bookkeeping'
<1>1. TypeOK'
  BY DEF Bookkeeping, TypeOK, ThreadType
<1>2. Held'
  BY DEF Bookkeeping, Held
<1>3. Working' = Working /\ Answering' = Answering
  BY DEF Working, Answering
<1>4. WorkAccounted'
  BY <1>3 DEF Bookkeeping, WorkAccounted, InHand
<1> QED
  BY <1>1, <1>2, <1>4 DEF Bookkeeping

\* What ConfirmThread writes is a brief.
LEMMA AppliedTyped ==
  ASSUME TypeOK, Held, NEW c \in Confirmers, confirm[c].step = "apply"
  PROVE  /\ Applied(c) \in Items
         /\ AcceptanceAfter(c) \in Acceptance
<1>1. /\ confirm[c] \in Confirmation /\ confirm[c].thread \in Threads
      /\ confirm[c].value \in Values
  BY DEF TypeOK, Held
<1>2. /\ confirm[c].snap.brief.items \in [Topics -> Item]
      /\ confirm[c].snap.brief.accept \in Acceptance
  BY <1>1 DEF Confirmation, Snapshot, Brief, Items
<1>3. [value |-> confirm[c].value, status |-> "confirmed"] \in Item
  BY <1>1 DEF Item
<1>4. Applied(c) \in Items
  BY <1>2, <1>3 DEF Applied, Items
<1> QED
  BY <1>2, <1>4 DEF AcceptanceAfter, Acceptance

\* A confirmation keeps the books.
LEMMA ConfirmBooks ==
  ASSUME Bookkeeping, NEW c \in Confirmers,
         \/ \E x \in Threads : ConfirmLoad(c, x)
         \/ RunConfirm(c) \/ ConfirmDisconnect(c)
  PROVE  Bookkeeping'
<1>1. /\ TypeOK /\ Held /\ MaxVersion \in Nat
      /\ thread \in [Threads -> ThreadType]
      /\ confirm \in [Confirmers -> Confirmation]
      /\ confirm[c] \in Confirmation
      /\ brief \in Brief /\ state \in SessionState /\ built \in BOOLEAN
  BY BoundAssumption DEF Bookkeeping, TypeOK, ThreadType
<1>2. /\ \A d \in Confirmers :
           /\ confirm[d].step # "idle" => confirm[d].thread \in Threads
           /\ confirm[d].step = "apply" => confirm[d].value \in Values
      /\ UNCHANGED <<messages, open, turn, focus, built, past>>
  BY <1>1 DEF Held, ConfirmLoad, RunConfirm, ConfirmCheck, ConfirmApply,
              ConfirmState, ConfirmDisconnect
<1>3. ASSUME NEW next \in Confirmation, confirm' = [confirm EXCEPT ![c] = next],
             next.step # "idle" => next.thread \in Threads,
             next.step = "apply" => next.value \in Values
      PROVE  /\ confirm' \in [Confirmers -> Confirmation]
             /\ \A d \in Confirmers :
                  /\ confirm'[d].step # "idle" => confirm'[d].thread \in Threads
                  /\ confirm'[d].step = "apply" => confirm'[d].value \in Values
  BY <1>1, <1>2, <1>3
<1>4. ASSUME NEW x \in Threads, ConfirmLoad(c, x) PROVE Bookkeeping'
  <2> DEFINE next == [confirm[c] EXCEPT !.step = "check", !.thread = x,
                                        !.snap = Session]
  <2>1. confirm' = [confirm EXCEPT ![c] = next]
    BY <1>1, <1>4 DEF ConfirmLoad
  <2>2. Session \in Snapshot
    BY <1>1, SessionTyped
  <2>3. next \in Confirmation /\ next.step = "check" /\ next.thread = x
    BY <1>1, <2>2 DEF Confirmation, ConfirmStep
  <2> HIDE DEF next
  <2>4. UNCHANGED <<brief, state, thread>>
    BY <1>4 DEF ConfirmLoad
  <2> QED BY <1>1, <1>2, <1>3, <2>1, <2>3, <2>4, ConfirmKeepsBooks
<1>5. CASE confirm' = [confirm EXCEPT ![c] = IdleConfirmation]
           /\ UNCHANGED <<brief, state, thread>>
  BY <1>1, <1>2, <1>3, <1>5, IdleTyped, ConfirmKeepsBooks
<1>6. CASE ConfirmCheck(c)
  <2> DEFINE x == confirm[c].thread
             next == [confirm[c] EXCEPT !.step = "apply",
                                        !.value = thread[x].candidate]
  <2>1. confirm[c].step = "check" /\ UNCHANGED <<brief, state, thread>>
    BY <1>6 DEF ConfirmCheck
  <2>2. CASE thread[x].state = "draft" /\ thread[x].candidate # None
    <3>1. confirm' = [confirm EXCEPT ![c] = next]
      BY <1>1, <1>6, <2>2 DEF ConfirmCheck
    <3>2. x \in Threads /\ thread[x].candidate \in Values
      BY <1>1, <1>2, <2>1, <2>2 DEF ThreadType
    <3>3. /\ next \in Confirmation /\ next.step = "apply"
          /\ next.thread \in Threads /\ next.value \in Values
      BY <1>1, <3>2 DEF Confirmation, ConfirmStep
    <3> HIDE DEF next
    <3> QED BY <1>1, <1>2, <1>3, <2>1, <3>1, <3>3, ConfirmKeepsBooks
  <2>3. CASE ~(thread[x].state = "draft" /\ thread[x].candidate # None)
    BY <1>5, <1>6, <2>1, <2>3 DEF ConfirmCheck
  <2> QED BY <2>2, <2>3
<1>7. CASE ConfirmApply(c)
  <2> DEFINE x == confirm[c].thread
             next == [confirm[c] EXCEPT !.step = "state",
                                        !.accept = AcceptanceAfter(c)]
  <2>1. confirm[c].step = "apply" /\ state' = state /\ x \in Threads
    BY <1>2, <1>7 DEF ConfirmApply
  <2>2. CASE thread[x].state = "draft" /\ thread[x].candidate # None
    <3>1. /\ confirm' = [confirm EXCEPT ![c] = next]
          /\ thread' = [thread EXCEPT ![x] =
                          [thread[x] EXCEPT !.state = "confirmed"]]
          /\ brief.version < MaxVersion
          /\ brief' = [version |-> brief.version + 1, items |-> Applied(c),
                       accept |-> AcceptanceAfter(c), cursor |-> brief.cursor]
      BY <1>1, <1>7, <2>2 DEF ConfirmApply
    <3>2. Applied(c) \in Items /\ AcceptanceAfter(c) \in Acceptance
      BY <1>1, <2>1, AppliedTyped
    <3>3. /\ next \in Confirmation /\ next.step = "state"
          /\ next.thread \in Threads
      BY <1>1, <2>1, <3>2 DEF Confirmation, ConfirmStep
    <3>4. thread' \in [Threads -> ThreadType]
      <4>1. [thread[x] EXCEPT !.state = "confirmed"] \in ThreadType
        BY <1>1, <2>1 DEF ThreadType
      <4> QED BY <1>1, <2>1, <3>1, <4>1
    <3>5. brief' \in Brief /\ brief'.cursor = brief.cursor
      <4>1. brief.version + 1 \in 0..MaxVersion /\ brief.cursor \in 0..MaxMessages
        BY <1>1, <3>1 DEF Brief
      <4> QED BY <3>1, <3>2, <4>1 DEF Brief
    <3> HIDE DEF next
    <3> QED BY <1>1, <1>2, <1>3, <2>1, <3>1, <3>3, <3>4, <3>5,
               ConfirmKeepsBooks
  <2>3. CASE ~(thread[x].state = "draft" /\ thread[x].candidate # None)
    BY <1>5, <1>7, <2>1, <2>3 DEF ConfirmApply
  <2> QED BY <2>2, <2>3
<1>8. CASE ConfirmState(c)
  <2>1. state' \in SessionState
    BY <1>1, <1>8 DEF ConfirmState, NextState, SessionState
  <2> QED BY <1>1, <1>2, <1>3, <1>8, <2>1, IdleTyped, ConfirmKeepsBooks
          DEF ConfirmState
<1>9. CASE ConfirmDisconnect(c)
  BY <1>5, <1>9 DEF ConfirmDisconnect
<1> QED
  BY <1>4, <1>6, <1>7, <1>8, <1>9 DEF RunConfirm

\* Recovery turns replies that were being written into interrupted ones.
LEMMA Recovered ==
  ASSUME TypeOK, Restart
  PROVE  /\ messages' \in Seq(Message) /\ Len(messages') = Len(messages)
         /\ DOMAIN messages' = DOMAIN messages
         /\ \A i \in DOMAIN messages : messages'[i].status =
              IF messages[i].status = "streaming" THEN "interrupted"
              ELSE messages[i].status
<1> DEFINE n == Len(messages)
           M(i) == IF messages[i].status = "streaming"
                   THEN [messages[i] EXCEPT !.status = "interrupted"]
                   ELSE messages[i]
<1>1. n \in Nat /\ DOMAIN messages = 1..n /\ messages \in [1..n -> Message]
  BY Conversation
<1>2. messages' = [i \in 1..n |-> M(i)]
  BY <1>1 DEF Restart
<1>3. \A i \in 1..n : /\ M(i) \in Message
                      /\ M(i).status = IF messages[i].status = "streaming"
                                       THEN "interrupted"
                                       ELSE messages[i].status
  BY <1>1 DEF Message
<1> HIDE DEF M, n
<1>4. messages' \in [1..n -> Message]
  BY <1>2, <1>3
<1>5. messages' \in Seq(Message)
  BY <1>1, <1>4, SeqDef
<1>6. DOMAIN messages' = 1..n /\ Len(messages') = n
  BY <1>1, <1>2, <1>5, LenProperties
<1> QED
  BY <1>1, <1>2, <1>3, <1>5, <1>6 DEF n

\* Recovery leaves nothing in progress.
LEMMA RestartBooks ==
  ASSUME Bookkeeping, Restart
  PROVE  Bookkeeping'
<1>1. /\ TypeOK /\ Held
      /\ messages' \in Seq(Message) /\ Len(messages') = Len(messages)
      /\ DOMAIN messages' = DOMAIN messages
      /\ \A i \in DOMAIN messages : messages'[i].status # "streaming"
  BY Recovered DEF Bookkeeping
<1>2. /\ \A t \in Turns : turn'[t].step = "idle"
      /\ \A c \in Confirmers : confirm'[c].step = "idle"
      /\ \A x \in Threads : focus'[x].step = "idle"
      /\ open' = 0 /\ abandoned' = 0
      /\ UNCHANGED <<brief, built, seen, overtaken>>
  BY IdleTyped DEF Restart
<1>3. Held'
  BY <1>1, <1>2 DEF Held
<1>4. Working' = {} /\ Answering' = {}
  BY <1>2 DEF Working, Answering, WorkingStep
<1>5. WorkAccounted'
  BY <1>1, <1>2, <1>4, FS_EmptySet DEF WorkAccounted
<1>6. /\ turn' \in [Turns -> Turn]
      /\ confirm' \in [Confirmers -> Confirmation]
      /\ focus' \in [Threads -> FocusType]
      /\ state' \in SessionState
  BY <1>1, IdleTyped DEF Restart, FocusType, FocusStep, TypeOK, SessionState
<1>7. thread' \in [Threads -> ThreadType]
  <2>1. \A x \in Threads : /\ thread[x] \in ThreadType
                           /\ [thread[x] EXCEPT !.state = "absent"] \in ThreadType
    BY <1>1 DEF TypeOK, ThreadType
  <2> QED BY <2>1 DEF Restart
<1>8. TypeOK'
  BY <1>1, <1>2, <1>6, <1>7 DEF TypeOK, ThreadType, FocusType
<1> QED
  BY <1>3, <1>5, <1>8 DEF Bookkeeping

\* Every step keeps the books.
LEMMA NextBooks == Bookkeeping /\ [Next]_vars => Bookkeeping'
<1> SUFFICES ASSUME Bookkeeping, [Next]_vars PROVE Bookkeeping'
  OBVIOUS
<1>1. CASE UNCHANGED vars
  BY <1>1 DEF vars, Bookkeeping, TypeOK, Held, WorkAccounted, Working,
              Answering, InHand
<1>2. CASE Build
  BY <1>2, ConfirmKeepsBooks
  DEF Build, Bookkeeping, TypeOK, ThreadType, SessionState, Held
<1> QED
  BY <1>1, <1>2, TurnBooks, FocusBooks, ConfirmBooks, RestartBooks DEF Next

\* The books are kept, however turns, threads and confirmations interleave.
THEOREM BooksKept == Spec => []Bookkeeping
  BY InitBooks, NextBooks, PTL DEF Spec

\* The state is well typed.
THEOREM TypeCorrect == Spec => []TypeOK
<1>1. Bookkeeping => TypeOK
  BY DEF Bookkeeping
<1> QED BY <1>1, BooksKept, PTL

\* WorkAccounted: the operations and thread messages recorded as in progress
\* are those of the handlers at work and of the requests that were dropped
\* since the server started, no more and no fewer.
THEOREM WorkIsAccounted == Spec => []WorkAccounted
<1>1. Bookkeeping => WorkAccounted
  BY DEF Bookkeeping
<1> QED BY <1>1, BooksKept, PTL

\* ConfirmedFrozen: UpdateBriefThreadCandidate, ApplyBriefThread and recovery
\* leave a confirmed thread alone.
THEOREM ConfirmedIsFinal == Spec => ConfirmedFrozen
<1> DEFINE Frozen == \A x \in Threads : thread[x].state = "confirmed"
                                          => thread'[x] = thread[x]
<1>1. ASSUME TypeOK, [Next]_vars PROVE Frozen
  <2>1. /\ thread \in [Threads -> ThreadType]
        /\ thread' = thread => Frozen
    BY <1>1 DEF TypeOK, ThreadType
  <2>2. ASSUME NEW t \in Turns, Ask(t) \/ RunTurn(t) \/ Disconnect(t)
        PROVE  thread' = thread
    BY <2>2 DEF Ask, RunTurn, Disconnect, OpenOperation, StartReply, Load,
       Complete, FinishReply, FailReply, FailTurn, BeginUpdate, KeepUnchanged,
       Propose, UpdateFails, AdvanceCursor, SaveBrief, SaveState, EndUpdate
  <2>3. ASSUME NEW x \in Threads,
               \/ LookupThread(x) \/ InsertThread(x) \/ FocusAsk(x)
               \/ RunFocus(x) \/ FocusDisconnect(x)
        PROVE  Frozen
    <3>1. CASE LookupThread(x) \/ InsertThread(x)
      BY <2>1, <3>1 DEF LookupThread, InsertThread
    <3>2. CASE ResetCandidate(x) \/ FocusPropose(x)
      <4>1. \E value : SetCandidate(x, value)
        BY <3>2 DEF ResetCandidate, FocusPropose
      <4> QED BY <2>1, <4>1 DEF SetCandidate
    <3>3. CASE FocusAsk(x) \/ FocusStart(x) \/ FocusAnswer(x)
               \/ FocusDisconnect(x)
      BY <2>1, <3>3 DEF FocusAsk, FocusStart, FocusAnswer, FocusDisconnect
    <3> QED BY <2>3, <3>1, <3>2, <3>3 DEF RunFocus
  <2>4. ASSUME NEW c \in Confirmers,
               \/ \E x \in Threads : ConfirmLoad(c, x)
               \/ RunConfirm(c) \/ ConfirmDisconnect(c)
        PROVE  Frozen
    <3>1. CASE ConfirmApply(c)
      BY <2>1, <3>1 DEF ConfirmApply
    <3>2. CASE ~ConfirmApply(c)
      BY <2>1, <2>4, <3>2 DEF ConfirmLoad, RunConfirm, ConfirmCheck,
                              ConfirmState, ConfirmDisconnect
    <3> QED BY <3>1, <3>2
  <2>5. CASE Build \/ UNCHANGED vars
    BY <2>1, <2>5 DEF Build, vars
  <2>6. CASE Restart
    BY <2>1, <2>6 DEF Restart
  <2> QED BY <1>1, <2>1, <2>2, <2>3, <2>4, <2>5, <2>6 DEF Next
<1>2. ASSUME TypeOK, [Next]_vars PROVE [Frozen]_vars
  BY <1>1, <1>2
<1>3. Spec => [][Frozen]_vars
  BY <1>2, TypeCorrect, PTL DEF Spec
<1> QED BY <1>3 DEF ConfirmedFrozen

-----------------------------------------------------------------------------
(***************************************************************************)
(* What a step does to the latest brief, to what has been read of the      *)
(* conversation, and to the handlers.                                      *)
(***************************************************************************)

\* A step of a turn leaves the other handlers alone.
LEMMA TurnActs ==
  ASSUME TypeOK, NEW t \in Turns, Ask(t) \/ RunTurn(t) \/ Disconnect(t)
  PROVE  /\ UNCHANGED <<thread, focus, confirm>>
         /\ \A u \in Turns \ {t} : turn'[u] = turn[u]
<1>1. turn \in [Turns -> Turn]
  BY DEF TypeOK
<1>2. CASE KeepUnchanged(t)
  BY <1>1, <1>2 DEF KeepUnchanged
<1>3. CASE Propose(t)
  BY <1>1, <1>3 DEF Propose
<1>4. CASE Ask(t) \/ OpenOperation(t) \/ StartReply(t) \/ Load(t)
  BY <1>1, <1>4 DEF Ask, OpenOperation, StartReply, Load, Goto
<1>5. CASE Complete(t) \/ FinishReply(t) \/ FailReply(t) \/ FailTurn(t)
           \/ BeginUpdate(t)
  BY <1>1, <1>5 DEF Complete, FinishReply, FailReply, FailTurn, BeginUpdate,
                    Goto
<1>6. CASE UpdateFails(t) \/ AdvanceCursor(t) \/ SaveBrief(t)
           \/ SaveState(t) \/ EndUpdate(t) \/ Disconnect(t)
  BY <1>1, <1>6 DEF UpdateFails, AdvanceCursor, SaveBrief, SaveState,
                    EndUpdate, Disconnect, Goto
<1> QED
  BY <1>2, <1>3, <1>4, <1>5, <1>6 DEF RunTurn

\* A step of a focused thread touches its own rows only.
LEMMA FocusActs ==
  ASSUME NEW x \in Threads,
         \/ LookupThread(x) \/ InsertThread(x) \/ FocusAsk(x)
         \/ RunFocus(x) \/ FocusDisconnect(x)
  PROVE  UNCHANGED <<brief, messages, state, turn, confirm, seen, overtaken>>
  BY DEF LookupThread, InsertThread, FocusAsk, RunFocus, FocusDisconnect,
         ResetCandidate, FocusStart, FocusAnswer, FocusPropose, Abandon

\* ConfirmThread applies the candidate.
Confirming(c) == /\ ConfirmApply(c)
                 /\ thread[confirm[c].thread].state = "draft"
                 /\ thread[confirm[c].thread].candidate # None

\* A step of a confirmation that does not apply a candidate leaves the rows
\* alone, but for the session's state.
LEMMA ConfirmActs ==
  ASSUME NEW c \in Confirmers,
         \/ \E x \in Threads : ConfirmLoad(c, x)
         \/ RunConfirm(c) \/ ConfirmDisconnect(c)
  PROVE  /\ UNCHANGED <<messages, turn, focus, seen, overtaken>>
         /\ brief' = brief \/ Confirming(c)
<1>1. ASSUME NEW x \in Threads, ConfirmLoad(c, x)
      PROVE  UNCHANGED <<brief, messages, turn, focus, seen, overtaken>>
  BY <1>1 DEF ConfirmLoad
<1>2. CASE RunConfirm(c) \/ ConfirmDisconnect(c)
  BY <1>2 DEF RunConfirm, ConfirmCheck, ConfirmApply, ConfirmState,
              ConfirmDisconnect, Confirming
<1> QED
  BY <1>1, <1>2

\* AdvanceBriefCursor finds the version it expects.
Advancing(t) == AdvanceCursor(t) /\ brief.version = turn[t].snap.brief.version

\* Only curators and confirmations write the brief, and only curators add to
\* what has been read.
LEMMA BriefWritten ==
  ASSUME TypeOK, [Next]_vars
  PROVE  \/ UNCHANGED <<brief, seen, overtaken>>
         \/ \E t \in Turns : SaveBrief(t) \/ Advancing(t)
         \/ \E c \in Confirmers : Confirming(c)
<1>1. ASSUME NEW t \in Turns, Ask(t) \/ RunTurn(t) \/ Disconnect(t)
      PROVE  \/ UNCHANGED <<brief, seen, overtaken>>
             \/ SaveBrief(t) \/ Advancing(t)
  <2>1. CASE AdvanceCursor(t)
    BY <2>1 DEF AdvanceCursor, Advancing
  <2>2. CASE Ask(t) \/ OpenOperation(t) \/ StartReply(t) \/ Load(t)
             \/ Complete(t) \/ FinishReply(t) \/ FailReply(t) \/ FailTurn(t)
    BY <2>2 DEF Ask, OpenOperation, StartReply, Load, Complete, FinishReply,
                FailReply, FailTurn
  <2>3. CASE BeginUpdate(t) \/ UpdateFails(t) \/ SaveState(t)
             \/ EndUpdate(t) \/ Disconnect(t)
    BY <2>3 DEF BeginUpdate, UpdateFails, SaveState, EndUpdate, Disconnect,
                Abandon
  <2>4. CASE KeepUnchanged(t)
    BY <2>4 DEF KeepUnchanged
  <2>5. CASE Propose(t)
    BY <2>5 DEF Propose
  <2> QED BY <1>1, <2>1, <2>2, <2>3, <2>4, <2>5 DEF RunTurn
<1>2. CASE Build \/ Restart \/ UNCHANGED vars
  BY <1>2 DEF Build, Restart, vars
<1> QED
  BY <1>1, <1>2, FocusActs, ConfirmActs DEF Next

\* SaveBriefWithCursor stores the curator's brief as the next version.
LEMMA Saved ==
  ASSUME TypeOK, NEW t \in Turns, SaveBrief(t)
  PROVE  /\ turn[t].step = "save" /\ turn'[t].step = "state"
         /\ turn'[t].snap = turn[t].snap /\ turn'[t].accept = turn[t].accept
         /\ brief'.version = brief.version + 1
         /\ brief'.items = turn[t].items /\ brief'.accept = turn[t].accept
         /\ brief'.cursor = Last(turn[t].read)
         /\ seen' = seen \cup turn[t].read
         /\ overtaken' = overtaken \cup turn[t].passed
         /\ UNCHANGED <<messages, thread, confirm>>
<1>1. Goto(t, "state") /\ "state" \in TurnStep
  BY DEF SaveBrief, TurnStep
<1>2. /\ turn'[t].step = "state"
      /\ turn'[t].snap = turn[t].snap /\ turn'[t].accept = turn[t].accept
  BY <1>1, Moves
<1> QED
  BY <1>2 DEF SaveBrief, Consumed

\* AdvanceBriefCursor moves the cursor of the latest version.
LEMMA Advanced ==
  ASSUME TypeOK, NEW t \in Turns, Advancing(t)
  PROVE  /\ turn[t].step = "advance"
         /\ brief'.version = brief.version
         /\ brief'.items = brief.items /\ brief'.accept = brief.accept
         /\ brief'.cursor = Last(turn[t].read)
         /\ seen' = seen \cup turn[t].read
         /\ overtaken' = overtaken \cup turn[t].passed
         /\ UNCHANGED <<messages, thread, confirm>>
<1>1. brief \in Brief
  BY DEF TypeOK
<1>2. brief' = [brief EXCEPT !.cursor = Last(turn[t].read)]
  BY DEF Advancing, AdvanceCursor
<1>3. /\ brief'.version = brief.version
      /\ brief'.items = brief.items /\ brief'.accept = brief.accept
      /\ brief'.cursor = Last(turn[t].read)
  BY <1>1, <1>2 DEF Brief
<1> QED
  BY <1>3 DEF Advancing, AdvanceCursor, Consumed

\* ApplyBriefThread stores the applied topic as the next version.
LEMMA Confirmed ==
  ASSUME TypeOK, Held, NEW c \in Confirmers, Confirming(c)
  PROVE  /\ confirm[c].step = "apply" /\ confirm'[c].step = "state"
         /\ confirm[c].thread \in Threads
         /\ confirm'[c].snap = confirm[c].snap
         /\ confirm'[c].accept = AcceptanceAfter(c)
         /\ \A d \in Confirmers \ {c} : confirm'[d] = confirm[d]
         /\ brief'.version = brief.version + 1
         /\ brief'.items = Applied(c) /\ brief'.accept = AcceptanceAfter(c)
         /\ brief'.cursor = brief.cursor
         /\ Confirms(confirm[c].thread)
         /\ UNCHANGED <<messages, turn, seen, overtaken>>
<1> DEFINE x == confirm[c].thread
           next == [confirm[c] EXCEPT !.step = "state",
                                      !.accept = AcceptanceAfter(c)]
<1>1. /\ confirm \in [Confirmers -> Confirmation]
      /\ confirm[c] \in Confirmation
      /\ confirm[c].step = "apply" /\ x \in Threads
      /\ thread \in [Threads -> ThreadType]
  BY DEF Confirming, ConfirmApply, TypeOK, Held, ThreadType
<1>2. /\ confirm' = [confirm EXCEPT ![c] = next]
      /\ thread' = [thread EXCEPT ![x].state = "confirmed"]
      /\ brief' = [version |-> brief.version + 1, items |-> Applied(c),
                   accept |-> AcceptanceAfter(c), cursor |-> brief.cursor]
      /\ UNCHANGED <<messages, turn, seen, overtaken>>
  BY <1>1 DEF Confirming, ConfirmApply
<1>3. /\ next.step = "state" /\ next.snap = confirm[c].snap
      /\ next.accept = AcceptanceAfter(c)
  BY <1>1 DEF Confirmation
<1>4. thread[x].state = "draft" /\ thread'[x].state = "confirmed"
  BY <1>1, <1>2 DEF Confirming, ThreadType
<1> HIDE DEF next
<1> QED
  BY <1>1, <1>2, <1>3, <1>4 DEF Confirms

\* The curator decided that nothing changed.
LEMMA Unchanged ==
  ASSUME TypeOK, NEW t \in Turns, KeepUnchanged(t)
  PROVE  /\ turn[t].step = "curating" /\ turn'[t].step = "advance"
         /\ turn'[t].snap = turn[t].snap
         /\ turn'[t].read \in Batches(Since(turn[t].snap.brief.cursor))
         /\ turn'[t].passed = Passed(turn'[t].read)
<1>1. turn \in [Turns -> Turn] /\ turn[t] \in Turn
  BY DEF TypeOK
<1>2. PICK batch \in Batches(Since(turn[t].snap.brief.cursor)) :
        turn' = [turn EXCEPT ![t].step = "advance", ![t].read = batch,
                             ![t].passed = Passed(batch)]
  BY DEF KeepUnchanged
<1> DEFINE passed == Passed(batch)
           next == [turn[t] EXCEPT !.step = "advance", !.read = batch,
                                   !.passed = passed]
<1>3. turn' = [turn EXCEPT ![t] = next]
  BY <1>1, <1>2
<1>4. passed = Passed(batch)
  OBVIOUS
<1> HIDE DEF passed
<1>5. /\ next.step = "advance" /\ next.snap = turn[t].snap
      /\ next.read = batch /\ next.passed = passed
  BY <1>1 DEF Turn
<1> HIDE DEF next
<1>6. turn'[t] = next
  BY <1>1, <1>3
<1>7. turn[t].step = "curating"
  BY DEF KeepUnchanged
<1> QED
  BY <1>4, <1>5, <1>6, <1>7

\* The curator proposed a brief.
LEMMA Proposed ==
  ASSUME TypeOK, NEW t \in Turns, Propose(t)
  PROVE  /\ turn[t].step = "curating" /\ turn'[t].step = "save"
         /\ turn'[t].snap = turn[t].snap
         /\ turn'[t].read \in Batches(Since(turn[t].snap.brief.cursor))
         /\ turn'[t].passed = Passed(turn'[t].read)
         /\ Preserves(turn[t].snap.brief.items, turn'[t].items)
         /\ turn'[t].accept \in
              Bind(turn[t].snap, turn'[t].items, turn'[t].read)
<1>1. turn \in [Turns -> Turn] /\ turn[t] \in Turn
  BY DEF TypeOK
<1>2. PICK batch \in Batches(Since(turn[t].snap.brief.cursor)),
           items \in Items :
        /\ Preserves(turn[t].snap.brief.items, items)
        /\ \E accept \in Bind(turn[t].snap, items, batch) :
             turn' = [turn EXCEPT ![t].step = "save", ![t].read = batch,
                                  ![t].passed = Passed(batch),
                                  ![t].items = items, ![t].accept = accept]
  BY DEF Propose
<1>3. PICK accept \in Bind(turn[t].snap, items, batch) :
        turn' = [turn EXCEPT ![t].step = "save", ![t].read = batch,
                             ![t].passed = Passed(batch),
                             ![t].items = items, ![t].accept = accept]
  BY <1>2
<1> DEFINE passed == Passed(batch)
           next == [turn[t] EXCEPT !.step = "save", !.read = batch,
                                   !.passed = passed, !.items = items,
                                   !.accept = accept]
<1>4. turn' = [turn EXCEPT ![t] = next]
  BY <1>1, <1>3
<1>5. passed = Passed(batch)
  OBVIOUS
<1> HIDE DEF passed
<1>6. /\ next.step = "save" /\ next.snap = turn[t].snap
      /\ next.read = batch /\ next.passed = passed
      /\ next.items = items /\ next.accept = accept
  BY <1>1 DEF Turn
<1> HIDE DEF next
<1>7. turn'[t] = next
  BY <1>1, <1>4
<1>8. turn[t].step = "curating"
  BY DEF Propose
<1>9. /\ turn'[t].step = "save" /\ turn'[t].snap = turn[t].snap
      /\ turn'[t].read = batch /\ turn'[t].passed = passed
      /\ turn'[t].items = items /\ turn'[t].accept = accept
  BY <1>6, <1>7
<1> QED
  BY <1>2, <1>3, <1>5, <1>8, <1>9

\* GetSession gives a turn its snapshot.
LEMMA Snapped ==
  ASSUME TypeOK, NEW t \in Turns, Load(t)
  PROVE  /\ turn'[t].step = "streaming" /\ turn'[t].snap.brief = brief
         /\ UNCHANGED <<brief, messages, seen, overtaken>>
<1> DEFINE session == Session
           next == [turn[t] EXCEPT !.step = "streaming", !.snap = session]
<1>1. turn \in [Turns -> Turn] /\ turn[t] \in Turn
  BY DEF TypeOK
<1>2. /\ turn' = [turn EXCEPT ![t] = next] /\ session.brief = brief
      /\ UNCHANGED <<brief, messages, seen, overtaken>>
  BY <1>1 DEF Load, Session
<1> HIDE DEF session
<1>3. next.step = "streaming" /\ next.snap = session
  BY <1>1 DEF Turn
<1> HIDE DEF next
<1> QED
  BY <1>1, <1>2, <1>3

\* What a step may do to a turn.
TurnMoves(t) ==
  \/ turn'[t] = turn[t]
  \/ turn'[t] = IdleTurn
  \/ /\ turn'[t].snap = turn[t].snap
     /\ turn'[t].step \notin {"advance", "save", "state"}
  \/ Load(t) \/ KeepUnchanged(t) \/ Propose(t) \/ SaveBrief(t)

\* Every step is one of these for each turn.
LEMMA TurnSteps ==
  ASSUME TypeOK, [Next]_vars, NEW t \in Turns
  PROVE  TurnMoves(t)
<1>1. turn \in [Turns -> Turn] /\ turn[t] \in Turn
  BY DEF TypeOK
<1>2. ASSUME NEW u \in Turns, Ask(u) \/ RunTurn(u) \/ Disconnect(u)
      PROVE  TurnMoves(t)
  <2>1. CASE u # t
    BY <1>2, <2>1, TurnActs DEF TurnMoves
  <2>2. ASSUME NEW step \in TurnStep \ {"advance", "save", "state"},
               Goto(t, step)
        PROVE  TurnMoves(t)
    BY <2>2, Moves DEF TurnMoves
  <2>3. CASE Ask(t) \/ OpenOperation(t) \/ Complete(t) \/ FinishReply(t)
             \/ FailReply(t) \/ BeginUpdate(t)
    BY <2>2, <2>3 DEF Ask, OpenOperation, Complete, FinishReply, FailReply,
                      BeginUpdate, TurnStep
  <2>4. CASE UpdateFails(t) \/ AdvanceCursor(t) \/ SaveState(t)
    BY <2>2, <2>4 DEF UpdateFails, AdvanceCursor, SaveState, TurnStep
  <2>5. CASE StartReply(t)
    <3> DEFINE next == [turn[t] EXCEPT !.step = "prepared",
                                       !.reply = Len(messages) + 1]
    <3>1. turn' = [turn EXCEPT ![t] = next]
      BY <1>1, <2>5 DEF StartReply
    <3>2. next.step = "prepared" /\ next.snap = turn[t].snap
      BY <1>1 DEF Turn
    <3> HIDE DEF next
    <3> QED BY <1>1, <3>1, <3>2 DEF TurnMoves
  <2>6. CASE FailTurn(t) \/ EndUpdate(t) \/ Disconnect(t)
    BY <1>1, <2>6 DEF FailTurn, EndUpdate, Disconnect, TurnMoves
  <2>7. CASE Load(t) \/ KeepUnchanged(t) \/ Propose(t) \/ SaveBrief(t)
    BY <2>7 DEF TurnMoves
  <2> QED BY <1>2, <2>1, <2>3, <2>4, <2>5, <2>6, <2>7 DEF RunTurn
<1>3. CASE Restart
  BY <1>1, <1>3 DEF Restart, TurnMoves
<1>4. CASE Build \/ UNCHANGED vars
  BY <1>4 DEF Build, vars, TurnMoves
<1>5. turn' = turn => TurnMoves(t)
  BY DEF TurnMoves
<1> QED
  BY <1>2, <1>3, <1>4, <1>5, FocusActs, ConfirmActs DEF Next

\* What a step may do to a confirmation.
ConfirmationMoves(c) ==
  \/ confirm'[c] = confirm[c]
  \/ confirm'[c] = IdleConfirmation
  \/ /\ confirm'[c].snap.brief \in {confirm[c].snap.brief, brief}
     /\ confirm'[c].step \in {"check", "apply"}
  \/ Confirming(c)

\* Every step is one of these for each confirmation.
LEMMA ConfirmationSteps ==
  ASSUME TypeOK, Held, [Next]_vars, NEW c \in Confirmers
  PROVE  ConfirmationMoves(c)
<1>1. confirm \in [Confirmers -> Confirmation] /\ confirm[c] \in Confirmation
  BY DEF TypeOK
<1>2. ASSUME NEW d \in Confirmers,
             \/ \E x \in Threads : ConfirmLoad(d, x)
             \/ RunConfirm(d) \/ ConfirmDisconnect(d)
      PROVE  ConfirmationMoves(c)
  <2>1. ASSUME NEW next, confirm' = [confirm EXCEPT ![d] = next], d # c
        PROVE  ConfirmationMoves(c)
    BY <1>1, <2>1 DEF ConfirmationMoves
  <2>2. CASE confirm' = [confirm EXCEPT ![d] = IdleConfirmation]
    BY <1>1, <2>2 DEF ConfirmationMoves
  <2>3. ASSUME NEW x \in Threads, ConfirmLoad(d, x)
        PROVE  ConfirmationMoves(c)
    <3> DEFINE session == Session
               next == [confirm[d] EXCEPT !.step = "check", !.thread = x,
                                          !.snap = session]
    <3>1. /\ confirm' = [confirm EXCEPT ![d] = next]
          /\ session.brief = brief
      BY <1>1, <2>3 DEF ConfirmLoad, Session
    <3> HIDE DEF session
    <3>2. confirm[d] \in Confirmation
      BY <1>1
    <3>3. next.step = "check" /\ next.snap = session
      BY <3>2 DEF Confirmation
    <3> HIDE DEF next
    <3>4. CASE d = c
      <4>1. confirm'[c] = next
        BY <1>1, <3>1, <3>4
      <4> QED BY <3>1, <3>3, <4>1 DEF ConfirmationMoves
    <3> QED BY <2>1, <3>1, <3>4
  <2>4. CASE ConfirmCheck(d)
    <3> DEFINE x == confirm[d].thread
               value == thread[x].candidate
               next == [confirm[d] EXCEPT !.step = "apply", !.value = value]
    <3>1. CASE thread[x].state = "draft" /\ thread[x].candidate # None
      <4>1. confirm' = [confirm EXCEPT ![d] = next]
        BY <1>1, <2>4, <3>1 DEF ConfirmCheck
      <4> HIDE DEF value
      <4>2. confirm[d] \in Confirmation
        BY <1>1
      <4>3. next.step = "apply" /\ next.snap = confirm[d].snap
        BY <4>2 DEF Confirmation
      <4> HIDE DEF next
      <4>4. CASE d = c
        <5>1. confirm'[c] = next
          BY <1>1, <4>1, <4>4
        <5> QED BY <4>3, <4>4, <5>1 DEF ConfirmationMoves
      <4> QED BY <2>1, <4>1, <4>4
    <3>2. CASE ~(thread[x].state = "draft" /\ thread[x].candidate # None)
      BY <2>2, <2>4, <3>2 DEF ConfirmCheck
    <3> QED BY <3>1, <3>2
  <2>5. CASE ConfirmApply(d)
    <3>1. CASE Confirming(d)
      BY <3>1, Confirmed DEF ConfirmationMoves
    <3>2. CASE ~Confirming(d)
      BY <2>2, <2>5, <3>2 DEF ConfirmApply, Confirming
    <3> QED BY <3>1, <3>2
  <2>6. CASE ConfirmState(d) \/ ConfirmDisconnect(d)
    BY <2>2, <2>6 DEF ConfirmState, ConfirmDisconnect
  <2> QED BY <1>2, <2>3, <2>4, <2>5, <2>6 DEF RunConfirm
<1>3. CASE Restart
  BY <1>1, <1>3 DEF Restart, ConfirmationMoves
<1>4. confirm' = confirm => ConfirmationMoves(c)
  BY DEF ConfirmationMoves
<1>5. CASE Build \/ UNCHANGED vars
  BY <1>4, <1>5 DEF Build, vars
<1> QED
  BY <1>2, <1>3, <1>4, <1>5, TurnActs, FocusActs DEF Next

-----------------------------------------------------------------------------
(***************************************************************************)
(* Derived: a handler stores what it made of its snapshot.                 *)
(***************************************************************************)

\* The latest brief keeps its acceptance or becomes the next version.
LEMMA BriefGrows ==
  ASSUME TypeOK, Held, [Next]_vars
  PROVE  \/ /\ brief'.version = brief.version
            /\ brief'.accept = brief.accept /\ brief'.items = brief.items
         \/ brief'.version = brief.version + 1
  BY BriefWritten, Saved, Advanced, Confirmed

\* Nobody has read anything.
LEMMA InitDerived == Init => Derived
<1> SUFFICES ASSUME Init PROVE Derived
  OBVIOUS
<1>1. brief.version = 0
  BY DEF Init, NoBrief
<1>2. ASSUME NEW t \in Turns
      PROVE  turn[t].step = "idle" /\ turn[t].snap.brief.version = 0
  BY DEF Init, IdleTurn, NoSnapshot, NoBrief
<1>3. ASSUME NEW c \in Confirmers
      PROVE  confirm[c].step = "idle" /\ confirm[c].snap.brief.version = 0
  BY DEF Init, IdleConfirmation, NoSnapshot, NoBrief
<1> QED
  BY <1>1, <1>2, <1>3 DEF Derived, TurnDerives, ConfirmationDerives

\* A turn's brief derives from the turn's snapshot, whoever takes a step.
LEMMA TurnDerived ==
  ASSUME Bookkeeping, Derived, [Next]_vars, NEW t \in Turns
  PROVE  TurnDerives(t)'
<1>1. TypeOK /\ Held /\ TurnDerives(t)
  BY DEF Bookkeeping, Derived
<1>2. /\ brief.version \in Nat /\ turn[t].snap.brief.version \in Nat
      /\ \/ /\ brief'.version = brief.version
            /\ brief'.accept = brief.accept
         \/ brief'.version = brief.version + 1
  <2>1. brief \in Brief /\ turn[t] \in Turn
    BY <1>1 DEF TypeOK
  <2>2. brief.version \in Nat /\ turn[t].snap.brief.version \in Nat
    BY <2>1, BoundAssumption DEF Turn, Snapshot, Brief
  <2> QED BY <1>1, <2>2, BriefGrows
<1>3. CASE turn'[t] = turn[t]
  BY <1>1, <1>2, <1>3 DEF TurnDerives
<1>4. CASE turn'[t] = IdleTurn
  BY <1>2, <1>4 DEF TurnDerives, IdleTurn, NoSnapshot, NoBrief
<1>5. CASE /\ turn'[t].snap = turn[t].snap
           /\ turn'[t].step \notin {"advance", "save", "state"}
  BY <1>1, <1>2, <1>5 DEF TurnDerives
<1>6. CASE Load(t)
  <2>1. /\ turn'[t].step = "streaming" /\ turn'[t].snap.brief = brief
        /\ brief' = brief
    BY <1>1, <1>6, Snapped
  <2> QED BY <1>2, <2>1 DEF TurnDerives
<1>7. CASE KeepUnchanged(t)
  <2>1. turn'[t].step = "advance" /\ turn'[t].snap = turn[t].snap
    BY <1>1, <1>7, Unchanged
  <2> QED BY <1>1, <1>2, <2>1 DEF TurnDerives
<1>8. CASE Propose(t)
  <2>1. /\ turn'[t].step = "save" /\ turn'[t].snap = turn[t].snap
        /\ Preserves(turn[t].snap.brief.items, turn'[t].items)
        /\ turn'[t].accept \in
             Bind(turn[t].snap, turn'[t].items, turn'[t].read)
    BY <1>1, <1>8, Proposed
  <2>2. turn[t].snap.brief.version > 0
          /\ turn'[t].items # turn[t].snap.brief.items
          => turn'[t].accept = "no"
    BY <2>1 DEF Bind
  <2>3. turn'[t].snap.brief.version <= brief'.version
    BY <1>1, <1>2, <2>1 DEF TurnDerives
  <2> QED BY <2>1, <2>2, <2>3 DEF TurnDerives, Preserves
<1>9. CASE SaveBrief(t)
  <2>1. /\ turn'[t].step = "state" /\ turn'[t].snap = turn[t].snap
        /\ turn'[t].accept = turn[t].accept
        /\ brief'.version = brief.version + 1
        /\ brief'.accept = turn[t].accept
    BY <1>1, <1>9, Saved
  <2> QED BY <1>1, <1>2, <2>1 DEF TurnDerives
<1> QED
  BY <1>1, <1>3, <1>4, <1>5, <1>6, <1>7, <1>8, <1>9, TurnSteps DEF TurnMoves

\* A confirmation's brief derives from its snapshot, whoever takes a step.
LEMMA ConfirmationDerived ==
  ASSUME Bookkeeping, Derived, [Next]_vars, NEW c \in Confirmers
  PROVE  ConfirmationDerives(c)'
<1>1. TypeOK /\ Held /\ ConfirmationDerives(c)
  BY DEF Bookkeeping, Derived
<1>2. /\ brief.version \in Nat /\ confirm[c].snap.brief.version \in Nat
      /\ \/ /\ brief'.version = brief.version
            /\ brief'.accept = brief.accept
         \/ brief'.version = brief.version + 1
  <2>1. brief \in Brief /\ confirm[c] \in Confirmation
    BY <1>1 DEF TypeOK
  <2>2. brief.version \in Nat /\ confirm[c].snap.brief.version \in Nat
    BY <2>1, BoundAssumption DEF Confirmation, Snapshot, Brief
  <2> QED BY <1>1, <2>2, BriefGrows
<1>3. CASE confirm'[c] = confirm[c]
  BY <1>1, <1>2, <1>3 DEF ConfirmationDerives
<1>4. CASE confirm'[c] = IdleConfirmation
  BY <1>2, <1>4 DEF ConfirmationDerives, IdleConfirmation, NoSnapshot, NoBrief
<1>5. CASE /\ confirm'[c].snap.brief \in {confirm[c].snap.brief, brief}
           /\ confirm'[c].step \in {"check", "apply"}
  BY <1>1, <1>2, <1>5 DEF ConfirmationDerives
<1>6. CASE Confirming(c)
  <2>1. /\ confirm'[c].step = "state" /\ confirm'[c].snap = confirm[c].snap
        /\ confirm'[c].accept = AcceptanceAfter(c)
        /\ brief'.version = brief.version + 1
        /\ brief'.accept = AcceptanceAfter(c)
    BY <1>1, <1>6, Confirmed
  <2> QED BY <1>1, <1>2, <2>1 DEF ConfirmationDerives
<1> QED
  BY <1>1, <1>3, <1>4, <1>5, <1>6, ConfirmationSteps DEF ConfirmationMoves

\* Every step keeps it.
LEMMA NextDerived == Bookkeeping /\ Derived /\ [Next]_vars => Derived'
  BY TurnDerived, ConfirmationDerived DEF Derived

\* Handlers store what they made of their snapshots.
THEOREM DerivedKept == Spec => []Derived
  BY InitDerived, NextDerived, BooksKept, PTL DEF Spec

\* A turn that saves its brief took the statement that does.
LEMMA SavesIs ==
  ASSUME TypeOK, [Next]_vars, NEW t \in Turns, Saves(t)
  PROVE  SaveBrief(t)
<1>1. turn[t].step = "save" /\ turn'[t].step = "state"
  BY DEF Saves
<1>2. ~(turn'[t] = IdleTurn) /\ ~Load(t) /\ ~KeepUnchanged(t) /\ ~Propose(t)
  BY <1>1 DEF IdleTurn, Load, KeepUnchanged, Propose
<1> QED
  BY <1>1, <1>2, TurnSteps DEF TurnMoves

\* A confirmation that goes on to the state applied its candidate.
LEMMA AppliesIs ==
  ASSUME TypeOK, Held, [Next]_vars, NEW c \in Confirmers, Applies(c)
  PROVE  Confirming(c)
<1>1. confirm[c].step = "apply" /\ confirm'[c].step = "state"
  BY DEF Applies
<1>2. ~(confirm'[c] = IdleConfirmation)
  BY <1>1 DEF IdleConfirmation
<1> QED
  BY <1>1, <1>2, ConfirmationSteps DEF ConfirmationMoves

\* SeenDecisionsKept: preserveConfirmedBrief and ApplyBriefThread keep every
\* confirmed topic as the handler's snapshot shows it; a decision is only lost
\* to a handler that does not see it.
THEOREM DecisionsKept == Spec => SeenDecisionsKept
<1> DEFINE Lost(k) ==
      brief.items[k].status = "confirmed" /\ brief'.items[k] # brief.items[k]
    Excused(k) ==
      \/ \E x \in Threads : TopicOf[x] = k /\ Confirms(x)
      \/ \E t \in Turns :
           Saves(t) /\ turn[t].snap.brief.items[k] # brief.items[k]
      \/ \E c \in Confirmers :
           Applies(c) /\ confirm[c].snap.brief.items[k] # brief.items[k]
    Kept == \A k \in Topics : Lost(k) => Excused(k)
<1>1. ASSUME Bookkeeping, Derived, [Next]_vars PROVE Kept
  <2>1. TypeOK /\ Held
    BY <1>1 DEF Bookkeeping
  <2>2. ASSUME NEW t \in Turns, SaveBrief(t), NEW k \in Topics, Lost(k)
        PROVE  Excused(k)
    <3>1. /\ brief'.items = turn[t].items /\ Saves(t)
          /\ turn[t].step = "save"
      BY <2>1, <2>2, Saved DEF Saves
    <3>2. Preserves(turn[t].snap.brief.items, turn[t].items)
      BY <1>1, <3>1 DEF Derived, TurnDerives
    <3>3. turn[t].snap.brief.items[k] # brief.items[k]
      BY <2>2, <3>1, <3>2 DEF Preserves
    <3> QED BY <3>1, <3>3
  <2>3. ASSUME NEW c \in Confirmers, Confirming(c), NEW k \in Topics, Lost(k)
        PROVE  Excused(k)
    <3> DEFINE x == confirm[c].thread
    <3>1. /\ brief'.items = Applied(c) /\ x \in Threads /\ Confirms(x)
          /\ Applies(c)
      BY <2>1, <2>3, Confirmed DEF Applies
    <3>2. CASE TopicOf[x] = k
      BY <3>1, <3>2
    <3>3. CASE TopicOf[x] # k
      <4>1. confirm[c].snap.brief.items \in [Topics -> Item]
        BY <2>1 DEF TypeOK, Confirmation, Snapshot, Brief, Items
      <4>2. Applied(c)[k] = confirm[c].snap.brief.items[k]
        BY <3>3, <4>1 DEF Applied
      <4> QED BY <2>3, <3>1, <4>2
    <3> QED BY <3>2, <3>3
  <2>4. ASSUME NEW k \in Topics, Lost(k) PROVE Excused(k)
    <3>1. ~UNCHANGED <<brief, seen, overtaken>>
      BY <2>4
    <3>2. \A t \in Turns : ~Advancing(t)
      BY <2>1, <2>4, Advanced
    <3> HIDE DEF Lost, Excused
    <3> QED BY <1>1, <2>1, <2>2, <2>3, <2>4, <3>1, <3>2, BriefWritten
  <2> QED BY <2>4
<1>2. ASSUME Bookkeeping, Derived, [Next]_vars PROVE [Kept]_vars
  BY <1>1, <1>2
<1>3. Spec => [][Kept]_vars
  BY <1>2, BooksKept, DerivedKept, PTL DEF Spec
<1> QED BY <1>3 DEF SeenDecisionsKept

\* ChangeNeedsAcceptance: bindAcceptance and ConfirmThread drop the
\* acceptance of a brief whose items they change.
THEOREM ChangedBriefsUnaccepted == Spec => ChangeNeedsAcceptance
<1> DEFINE Dropped ==
      /\ \A t \in Turns :
           /\ Saves(t) /\ turn[t].snap.brief.version > 0
           /\ brief'.items # turn[t].snap.brief.items
           => brief'.accept = "no"
      /\ \A c \in Confirmers :
           Applies(c) /\ brief'.items # confirm[c].snap.brief.items
             => brief'.accept = "no"
<1>1. ASSUME Bookkeeping, Derived, [Next]_vars PROVE Dropped
  <2>1. TypeOK /\ Held
    BY <1>1 DEF Bookkeeping
  <2>2. ASSUME NEW t \in Turns, Saves(t), turn[t].snap.brief.version > 0,
               brief'.items # turn[t].snap.brief.items
        PROVE  brief'.accept = "no"
    <3>1. /\ turn[t].step = "save" /\ brief'.items = turn[t].items
          /\ brief'.accept = turn[t].accept
      BY <1>1, <2>1, <2>2, SavesIs, Saved
    <3> QED BY <1>1, <2>2, <3>1 DEF Derived, TurnDerives
  <2>3. ASSUME NEW c \in Confirmers, Applies(c),
               brief'.items # confirm[c].snap.brief.items
        PROVE  brief'.accept = "no"
    <3>1. brief'.items = Applied(c) /\ brief'.accept = AcceptanceAfter(c)
      BY <1>1, <2>1, <2>3, AppliesIs, Confirmed
    <3> QED BY <2>3, <3>1 DEF AcceptanceAfter
  <2> QED BY <2>2, <2>3
<1>2. ASSUME Bookkeeping, Derived, [Next]_vars PROVE [Dropped]_vars
  BY <1>1, <1>2
<1>3. Spec => [][Dropped]_vars
  BY <1>2, BooksKept, DerivedKept, PTL DEF Spec
<1> QED BY <1>3 DEF ChangeNeedsAcceptance

\* updateSessionState writes Ready only for an accepted brief, or leaves the
\* state that it read.
LEMMA ReadyWritten ==
  ASSUME NEW accept, NEW snapshot,
         state = snapshot.state, state' = NextState(accept, snapshot),
         state' = "Ready"
  PROVE  accept = "met"
  BY DEF NextState

\* A handler that stores the state does not store a brief in the same step,
\* and nobody else does.
LEMMA StateAlone ==
  ASSUME TypeOK, Held, [Next]_vars,
         \/ \E t \in Turns : turn[t].step = "state" /\ turn'[t] # turn[t]
         \/ \E c \in Confirmers :
              confirm[c].step = "state" /\ confirm'[c] # confirm[c]
  PROVE  brief'.accept = brief.accept
<1>1. ASSUME NEW u \in Turns, SaveBrief(u) PROVE FALSE
  <2>1. /\ turn[u].step = "save" /\ confirm' = confirm
        /\ \A t \in Turns \ {u} : turn'[t] = turn[t]
    BY <1>1, Saved, TurnActs DEF RunTurn
  <2> QED BY <2>1
<1>2. ASSUME NEW d \in Confirmers, Confirming(d) PROVE FALSE
  <2>1. /\ confirm[d].step = "apply" /\ turn' = turn
        /\ \A c \in Confirmers \ {d} : confirm'[c] = confirm[c]
    BY <1>2, Confirmed
  <2> QED BY <2>1
<1> QED
  BY <1>1, <1>2, BriefWritten, Advanced

\* ReadyAccepted: when nobody else has written since it read the session, a
\* handler leaves it Ready only with the acceptance of the brief it has just
\* stored, which is still the latest.
THEOREM ReadyIsAccepted == Spec => ReadyAccepted
<1> DEFINE Accepted ==
      /\ \A t \in Turns :
           /\ turn[t].step = "state" /\ turn'[t].step = "close"
           /\ Undisturbed(turn[t].snap)
           /\ state' = NextState(turn[t].accept, turn[t].snap)
           /\ state' = "Ready"
           => brief'.accept = "met"
      /\ \A c \in Confirmers :
           /\ confirm[c].step = "state" /\ confirm'[c].step = "idle"
           /\ Undisturbed(confirm[c].snap)
           /\ state' = NextState(confirm[c].accept, confirm[c].snap)
           /\ state' = "Ready"
           => brief'.accept = "met"
<1>1. ASSUME Bookkeeping, Derived, [Next]_vars PROVE Accepted
  <2>1. TypeOK /\ Held
    BY <1>1 DEF Bookkeeping
  <2>2. ASSUME NEW t \in Turns,
               turn[t].step = "state", turn'[t].step = "close",
               Undisturbed(turn[t].snap),
               state' = NextState(turn[t].accept, turn[t].snap),
               state' = "Ready"
        PROVE  brief'.accept = "met"
    <3>1. brief.accept = turn[t].accept
      BY <1>1, <2>2 DEF Derived, TurnDerives, Undisturbed
    <3>2. turn[t].accept = "met"
      BY <2>2, ReadyWritten DEF Undisturbed
    <3>3. brief'.accept = brief.accept
      BY <1>1, <2>1, <2>2, StateAlone
    <3> QED BY <3>1, <3>2, <3>3
  <2>3. ASSUME NEW c \in Confirmers,
               confirm[c].step = "state", confirm'[c].step = "idle",
               Undisturbed(confirm[c].snap),
               state' = NextState(confirm[c].accept, confirm[c].snap),
               state' = "Ready"
        PROVE  brief'.accept = "met"
    <3>1. brief.accept = confirm[c].accept
      BY <1>1, <2>3 DEF Derived, ConfirmationDerives, Undisturbed
    <3>2. confirm[c].accept = "met"
      BY <2>3, ReadyWritten DEF Undisturbed
    <3>3. brief'.accept = brief.accept
      BY <1>1, <2>1, <2>3, StateAlone
    <3> QED BY <3>1, <3>2, <3>3
  <2> QED BY <2>2, <2>3
<1>2. ASSUME Bookkeeping, Derived, [Next]_vars PROVE [Accepted]_vars
  BY <1>1, <1>2
<1>3. Spec => [][Accepted]_vars
  BY <1>2, BooksKept, DerivedKept, PTL DEF Spec
<1> QED BY <1>3 DEF ReadyAccepted

-----------------------------------------------------------------------------
(***************************************************************************)
(* Unskipped: cursors only move over what has been read or overtaken.      *)
(***************************************************************************)

\* The conversation grows, and no message becomes complete that was not
\* being written.
LEMMA MessagesGoOn ==
  ASSUME TypeOK, Held, [Next]_vars
  PROVE  /\ Len(messages) \in Nat /\ Len(messages') \in Nat
         /\ Len(messages) <= Len(messages')
         /\ DOMAIN messages = 1..Len(messages)
         /\ DOMAIN messages' = 1..Len(messages')
         /\ \A i \in DOMAIN messages :
              messages'[i].status \in {"complete", "streaming"}
                => messages[i].status \in {"complete", "streaming"}
<1> DEFINE Goes ==
      /\ Len(messages') \in Nat /\ Len(messages) <= Len(messages')
      /\ DOMAIN messages' = 1..Len(messages')
      /\ \A i \in DOMAIN messages :
           messages'[i].status \in {"complete", "streaming"}
             => messages[i].status \in {"complete", "streaming"}
<1>1. Len(messages) \in Nat /\ DOMAIN messages = 1..Len(messages)
  BY Conversation
<1>2. CASE messages' = messages
  BY <1>1, <1>2
<1>3. ASSUME NEW t \in Turns, Ask(t) \/ RunTurn(t) \/ Disconnect(t)
      PROVE  Goes
  <2>1. CASE Ask(t) \/ StartReply(t)
    <3>1. PICK role \in {"user", "assistant"},
               status \in {"complete", "streaming"} : AddMessage(role, status)
      BY <2>1 DEF Ask, StartReply
    <3>2. /\ Len(messages') = Len(messages) + 1
          /\ DOMAIN messages' = 1..(Len(messages) + 1)
          /\ \A i \in 1..Len(messages) : messages'[i] = messages[i]
      BY <3>1, Added
    <3> QED BY <1>1, <3>2
  <2>2. CASE Complete(t) \/ FailReply(t)
    <3>1. PICK status \in {"complete", "failed"} :
            Reply(t, status) /\ turn[t].step = "streaming"
      BY <2>2 DEF Complete, FailReply
    <3>2. /\ turn[t].reply \in DOMAIN messages
          /\ messages[turn[t].reply].status = "streaming"
      BY <3>1 DEF Held
    <3>3. /\ Len(messages') = Len(messages)
          /\ DOMAIN messages' = DOMAIN messages
          /\ \A i \in DOMAIN messages : messages'[i].status =
               IF i = turn[t].reply THEN status ELSE messages[i].status
      BY <3>1, <3>2, Replied
    <3> QED BY <1>1, <3>2, <3>3
  <2>3. CASE OpenOperation(t) \/ Load(t) \/ FinishReply(t) \/ FailTurn(t)
             \/ BeginUpdate(t) \/ UpdateFails(t)
    BY <1>2, <2>3 DEF OpenOperation, Load, FinishReply, FailTurn,
                      BeginUpdate, UpdateFails
  <2>4. CASE AdvanceCursor(t) \/ SaveBrief(t) \/ SaveState(t)
             \/ EndUpdate(t) \/ Disconnect(t)
    BY <1>2, <2>4 DEF AdvanceCursor, SaveBrief, SaveState, EndUpdate,
                      Disconnect
  <2>5. CASE KeepUnchanged(t)
    BY <1>2, <2>5 DEF KeepUnchanged
  <2>6. CASE Propose(t)
    BY <1>2, <2>6 DEF Propose
  <2> QED BY <1>3, <2>1, <2>2, <2>3, <2>4, <2>5, <2>6 DEF RunTurn
<1>4. CASE Restart
  BY <1>1, <1>4, Recovered
<1>5. CASE Build \/ UNCHANGED vars
  BY <1>2, <1>5 DEF Build, vars
<1>6. Goes
  BY <1>2, <1>3, <1>4, <1>5, FocusActs, ConfirmActs DEF Next
<1> QED BY <1>1, <1>6

\* What has been read stays read.
LEMMA HistoryGrows ==
  ASSUME TypeOK, Held, [Next]_vars
  PROVE  seen \cup overtaken \subseteq seen' \cup overtaken'
  BY BriefWritten, Saved, Advanced, Confirmed

\* Covers, of the next state.
CoversThen(n, read) ==
  \A i \in DOMAIN messages' :
    i <= n /\ messages'[i].status \in {"complete", "streaming"} => i \in read

\* Messages that are covered stay covered.
LEMMA StillCovers ==
  ASSUME TypeOK, Held, [Next]_vars,
         NEW n \in Nat, n <= Len(messages),
         NEW read, NEW more, read \subseteq more, Covers(n, read)
  PROVE  CoversThen(n, more)
<1>1. /\ Len(messages) \in Nat /\ Len(messages') \in Nat
      /\ DOMAIN messages = 1..Len(messages)
      /\ DOMAIN messages' = 1..Len(messages')
      /\ \A i \in DOMAIN messages :
           messages'[i].status \in {"complete", "streaming"}
             => messages[i].status \in {"complete", "streaming"}
  BY MessagesGoOn
<1>2. ASSUME NEW i \in DOMAIN messages', i <= n,
             messages'[i].status \in {"complete", "streaming"}
      PROVE  i \in more
  <2>1. i \in DOMAIN messages
    BY <1>1, <1>2
  <2>2. messages[i].status \in {"complete", "streaming"}
    BY <1>1, <1>2, <2>1
  <2> QED BY <1>2, <2>1, <2>2 DEF Covers
<1> QED
  BY <1>2 DEF CoversThen

\* A batch covers what lies between the cursor it was listed from and its
\* end, with the replies that are still being written.
LEMMA BatchCovers ==
  ASSUME TypeOK, NEW cursor \in Nat, NEW batch \in Batches(Since(cursor)),
         NEW read, Covers(cursor, read)
  PROVE  Covers(Last(batch), read \cup batch \cup Passed(batch))
<1>1. /\ batch \subseteq DOMAIN messages
      /\ batch # {} => \E last \in batch : \A i \in batch : i <= last
      /\ \A i \in Since(cursor) : i <= Last(batch) => i \in batch
      /\ DOMAIN messages = 1..Len(messages) /\ Len(messages) \in Nat
  BY BatchRead, Conversation
<1>2. CASE batch = {}
  <2>1. Last(batch) = 0
    BY <1>2 DEF Last
  <2> QED BY <1>1, <2>1 DEF Covers
<1>3. CASE batch # {}
  <2>1. PICK last \in batch : \A i \in batch : i <= last
    BY <1>1, <1>3
  <2>2. batch \in SUBSET Nat
    BY <1>1
  <2>3. Last(batch) = last
    BY <2>1, <2>2, LastIs
  <2>4. batch \subseteq Since(cursor)
    BY DEF Batches
  <2>5. messages[last].status = "complete"
    BY <2>1, <2>4 DEF Since
  <2>6. ASSUME NEW i \in DOMAIN messages, i <= Last(batch),
               messages[i].status \in {"complete", "streaming"}
        PROVE  i \in read \cup batch \cup Passed(batch)
    <3>1. CASE i <= cursor
      BY <2>6, <3>1 DEF Covers
    <3>2. CASE i > cursor /\ messages[i].status = "complete"
      BY <1>1, <2>6, <3>2 DEF Since
    <3>3. CASE messages[i].status = "streaming"
      <4>1. i # last /\ last \in Nat /\ i \in Nat
        BY <1>1, <2>2, <2>5, <3>3
      <4>2. i < Last(batch)
        BY <2>3, <2>6, <4>1
      <4> QED BY <2>6, <3>3, <4>2 DEF Passed
    <3>4. i \in Nat
      BY <1>1
    <3> QED BY <2>6, <3>1, <3>2, <3>3, <3>4
  <2> QED BY <2>6 DEF Covers
<1> QED
  BY <1>2, <1>3

\* There are no messages yet.
LEMMA InitUnskipped == Init => Unskipped
<1> SUFFICES ASSUME Init PROVE Unskipped
  OBVIOUS
<1>1. DOMAIN messages = {} /\ Len(messages) = 0
  BY EmptySeq DEF Init
<1>2. \A t \in Turns : turn[t].snap.brief.cursor = 0
  BY DEF Init, IdleTurn, NoSnapshot, NoBrief
<1> QED
  BY <1>1, <1>2 DEF Unskipped, Covers

\* The cursor of the latest brief stays, or moves to the end of a batch.
LEMMA CursorUnskipped ==
  ASSUME Bookkeeping, Unskipped, [Next]_vars
  PROVE  Covers(brief.cursor, seen \cup overtaken)'
<1>1. /\ TypeOK /\ Held /\ brief.cursor <= Len(messages)
      /\ Covers(brief.cursor, seen \cup overtaken)
  BY DEF Bookkeeping, Unskipped, Held
<1>2. brief.cursor \in Nat
  BY <1>1 DEF TypeOK, Brief
<1>3. CASE brief'.cursor = brief.cursor
  <2>1. CoversThen(brief.cursor, seen' \cup overtaken')
    BY <1>1, <1>2, HistoryGrows, StillCovers
  <2> QED BY <1>3, <2>1 DEF Covers, CoversThen
<1>4. ASSUME NEW t \in Turns, SaveBrief(t) \/ Advancing(t)
      PROVE  Covers(brief.cursor, seen \cup overtaken)'
  <2>1. /\ turn[t].step \in {"advance", "save"}
        /\ brief'.cursor = Last(turn[t].read)
        /\ seen' = seen \cup turn[t].read
        /\ overtaken' = overtaken \cup turn[t].passed
        /\ messages' = messages
    BY <1>1, <1>4, Saved, Advanced
  <2>2. Covers(Last(turn[t].read),
               seen \cup overtaken \cup turn[t].read \cup turn[t].passed)
    BY <2>1 DEF Unskipped
  <2> QED BY <2>1, <2>2 DEF Covers
<1> QED
  BY <1>1, <1>3, <1>4, BriefWritten, Confirmed

\* What Unskipped says of a turn.
TurnUnskipped(t) ==
  /\ turn[t].snap.brief.cursor <= Len(messages)
  /\ Covers(turn[t].snap.brief.cursor, seen \cup overtaken)
  /\ turn[t].step \in {"advance", "save"} =>
       Covers(Last(turn[t].read),
              seen \cup overtaken \cup turn[t].read \cup turn[t].passed)

\* It holds of each turn after any step.
LEMMA TurnsUnskipped ==
  ASSUME Bookkeeping, Unskipped, [Next]_vars, NEW t \in Turns
  PROVE  TurnUnskipped(t)'
<1> DEFINE cursor == turn[t].snap.brief.cursor
<1>1. /\ TypeOK /\ Held /\ TurnUnskipped(t)
      /\ brief \in Brief /\ turn[t] \in Turn
  BY DEF Bookkeeping, Unskipped, TurnUnskipped, TypeOK
<1>2. /\ cursor \in Nat /\ cursor <= Len(messages)
      /\ brief.cursor \in Nat /\ brief.cursor <= Len(messages)
      /\ Len(messages) \in Nat /\ Len(messages') \in Nat
      /\ Len(messages) <= Len(messages')
  BY <1>1, MessagesGoOn DEF Turn, Snapshot, Brief, TurnUnskipped, Held
<1>3. /\ cursor <= Len(messages')
      /\ CoversThen(cursor, seen' \cup overtaken')
  <2>1. Covers(cursor, seen \cup overtaken)
    BY <1>1 DEF TurnUnskipped
  <2>2. CoversThen(cursor, seen' \cup overtaken')
    BY <1>1, <1>2, <2>1, HistoryGrows, StillCovers
  <2> QED BY <1>2, <2>2
<1>4. CASE /\ turn'[t].snap = turn[t].snap
           /\ turn'[t].step \notin {"advance", "save"}
  BY <1>3, <1>4 DEF TurnUnskipped, Covers, CoversThen
<1>5. CASE turn'[t] = turn[t] /\ turn[t].step \in {"advance", "save"}
  <2> DEFINE r == turn[t].read
             p == turn[t].passed
             read == seen \cup overtaken \cup r \cup p
             more == seen' \cup overtaken' \cup r \cup p
  <2>1. Last(r) \in Nat /\ Last(r) <= Len(messages)
    BY <1>1, <1>5, CursorWritten
  <2>2. Covers(Last(r), read)
    BY <1>1, <1>5 DEF TurnUnskipped
  <2>3. read \subseteq more
    BY <1>1, HistoryGrows
  <2> HIDE DEF r, read, more
  <2>4. CoversThen(Last(r), more)
    BY <1>1, <2>1, <2>2, <2>3, StillCovers
  <2>5. Covers(Last(turn[t].read),
               seen \cup overtaken \cup turn[t].read \cup turn[t].passed)'
    BY <1>5, <2>4 DEF Covers, CoversThen, r, more
  <2>6. Covers(turn[t].snap.brief.cursor, seen \cup overtaken)'
    BY <1>3, <1>5 DEF Covers, CoversThen
  <2> QED BY <1>3, <1>5, <2>5, <2>6 DEF TurnUnskipped
<1>6. CASE turn'[t] = IdleTurn
  <2>1. /\ turn'[t].snap.brief.cursor = 0 /\ turn'[t].step = "idle"
        /\ DOMAIN messages' = 1..Len(messages')
    BY <1>1, <1>6, MessagesGoOn DEF IdleTurn, NoSnapshot, NoBrief
  <2> QED BY <1>2, <2>1 DEF TurnUnskipped, Covers
<1>7. CASE Load(t)
  <2>1. /\ turn'[t].step = "streaming" /\ turn'[t].snap.brief = brief
        /\ UNCHANGED <<messages, seen, overtaken>>
    BY <1>1, <1>7, Snapped
  <2>2. Covers(brief.cursor, seen \cup overtaken)
    BY DEF Unskipped
  <2> QED BY <1>2, <2>1, <2>2 DEF TurnUnskipped, Covers
<1>8. CASE KeepUnchanged(t) \/ Propose(t)
  <2>1. /\ turn'[t].snap = turn[t].snap
        /\ turn'[t].read \in Batches(Since(cursor))
        /\ turn'[t].passed = Passed(turn'[t].read)
    BY <1>1, <1>8, Unchanged, Proposed
  <2>2. UNCHANGED <<messages, seen, overtaken>>
    BY <1>8 DEF KeepUnchanged, Propose
  <2>3. Covers(cursor, seen \cup overtaken)
    BY <1>1 DEF TurnUnskipped
  <2> DEFINE batch == turn'[t].read
  <2> HIDE DEF batch
  <2>4. batch \in Batches(Since(cursor))
    BY <2>1 DEF batch
  <2>5. Covers(Last(batch), seen \cup overtaken \cup batch \cup Passed(batch))
    BY <1>1, <1>2, <2>3, <2>4, BatchCovers
  <2> QED BY <1>2, <2>1, <2>2, <2>3, <2>5 DEF TurnUnskipped, Covers, batch
<1>9. CASE SaveBrief(t)
  <2>1. turn'[t].step = "state" /\ turn'[t].snap = turn[t].snap
    BY <1>1, <1>9, Saved
  <2> QED BY <1>4, <2>1
<1> QED
  BY <1>1, <1>4, <1>5, <1>6, <1>7, <1>8, <1>9, TurnSteps DEF TurnMoves

\* Every step keeps it.
LEMMA NextUnskipped == Bookkeeping /\ Unskipped /\ [Next]_vars => Unskipped'
<1> SUFFICES ASSUME Bookkeeping, Unskipped, [Next]_vars PROVE Unskipped'
  OBVIOUS
<1>1. \A t \in Turns : TurnUnskipped(t)'
  BY TurnsUnskipped
<1> QED
  BY <1>1, CursorUnskipped DEF Unskipped, TurnUnskipped

\* NothingSkipped: the cursor only passes messages that a curator has read
\* or that were being written when a curator read past them, also when turns
\* overlap, confirmations store briefs between them and requests are dropped.
THEOREM NoMessageSkipped == Spec => []NothingSkipped
<1>1. Spec => []Unskipped
  BY InitUnskipped, NextUnskipped, BooksKept, PTL DEF Spec
<1>2. Bookkeeping /\ Unskipped => NothingSkipped
  <2> SUFFICES ASSUME Bookkeeping, Unskipped PROVE NothingSkipped
    OBVIOUS
  <2>1. /\ DOMAIN messages = 1..Len(messages) /\ Len(messages) \in Nat
        /\ brief.cursor \in Nat
        /\ Covers(brief.cursor, seen \cup overtaken)
    BY Conversation DEF Bookkeeping, TypeOK, Brief, Unskipped
  <2> QED BY <2>1 DEF NothingSkipped, Since, Covers
<1> QED
  BY <1>1, <1>2, BooksKept, PTL
=============================================================================
