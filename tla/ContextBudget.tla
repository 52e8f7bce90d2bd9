---------------------------- MODULE ContextBudget ----------------------------
(***************************************************************************)
(* internal/contextengine/compiler.go: the packet of context each role of  *)
(* the agent gets, within a budget of tokens.  A packet is made of named   *)
(* sections, some required; optional ones are taken by priority as long as *)
(* they fit, and dropped otherwise.                                        *)
(*                                                                         *)
(* What a section says is its length in bytes.  The conversation grows one *)
(* message at a time; between messages any role may ask for its packet.    *)
(***************************************************************************)
EXTENDS Integers, Sequences, FiniteSets, SequencesExt

CONSTANTS
  MaxMessages,          \* bound on the messages of the conversation
  Lengths,              \* encoded lengths of a message or a part of the brief
  EmptyLength,          \* encoded length of null, [], {} or ""
  BytesPerToken,
  FixedTokens,          \* prompt, safety margin and provider overhead
  MaxInputTokens,
  RecentMessageLimit,
  FocusedMessageLimit

ASSUME LengthAssumption == Lengths \subseteq Nat \ {0} /\ EmptyLength \in Nat
ASSUME LimitAssumption ==
  /\ {BytesPerToken, RecentMessageLimit, FocusedMessageLimit} \subseteq Nat \ {0}
  /\ {MaxMessages, FixedTokens, MaxInputTokens} \subseteq Nat

VARIABLES
  thread,  \* the messages, oldest first
  packet   \* the packet compiled from it, if any

vars == <<thread, packet>>

\* A message that is no part of the conversation: activity, or a reply that
\* streams, failed or was interrupted.
Speaker == {"user", "assistant", "other"}
Message == [speaker : Speaker, bytes : Lengths]

Role == {"collaborator", "curator", "focused", "evaluator", "planner",
         "builder"}
NoPacket == [result |-> "none"]

-----------------------------------------------------------------------------
(***************************************************************************)
(* Messages, by their index in the thread.                                 *)
(***************************************************************************)
IsUser(i) == thread[i].speaker = "user"

\* Some indices, in ascending order.
Ascending(I) ==
  [n \in 1..Cardinality(I) |->
     CHOOSE i \in I : Cardinality({j \in I : j < i}) = n - 1]

\* conversationalMessages
Conversation ==
  Ascending({i \in 1..Len(thread) : thread[i].speaker # "other"})

\* Where the latest message of a user is in a list of messages, or 0.
LatestUser(list) == SelectLastInSeq(list, IsUser)

Newest(list, limit) ==
  SubSeq(list, IF Len(list) > limit THEN Len(list) - limit + 1 ELSE 1, Len(list))

\* The tail alone, whoever speaks in it (mutant).
WindowTail == Newest(Conversation, FocusedMessageLimit)

\* The request takes the last place of the window (mutant).
WindowAppended ==
  LET window == Newest(Conversation, FocusedMessageLimit)
      user == LatestUser(Conversation)
  IN IF user # 0 /\ user <= Len(Conversation) - Len(window)
     THEN [window EXCEPT ![Len(window)] = Conversation[user]]
     ELSE window

\* Focused: "The history window must not discard the request before
\* budgeting it."
Window ==
  LET window == Newest(Conversation, FocusedMessageLimit)
      user == LatestUser(Conversation)
  IN IF user # 0 /\ user <= Len(Conversation) - Len(window)
     THEN [window EXCEPT ![1] = Conversation[user]]
     ELSE window

\* Collaborator: the request, and the messages before it.
Current == LatestUser(Conversation)
Recent ==
  IF Current = 0 THEN <<>>
  ELSE Newest(SubSeq(Conversation, 1, Current - 1), RecentMessageLimit - 1)

Bytes(list) ==
  Cardinality(UNION {{n} \X (1..thread[list[n]].bytes) : n \in 1..Len(list)})

-----------------------------------------------------------------------------
(***************************************************************************)
(* Sections.  index orders the names of sections of equal priority.        *)
(***************************************************************************)
Section(name, required, priority, bytes) ==
  [name |-> name, index |-> 0, required |-> required, priority |-> priority,
   bytes |-> IF bytes = 0 THEN EmptyLength ELSE bytes,
   present |-> required \/ bytes # 0]

\* Newest first; the latest message of a user is required.
MessageSections(list) ==
  {[Section("focused_message", i = LatestUser(list), 70, thread[list[i]].bytes)
      EXCEPT !.index = Len(list) - i] : i \in 1..Len(list)}

\* The parts of a role's packet that are not messages; size gives their
\* lengths, 0 for an empty one.  A session always has a state to report.
Parts(role) ==
  CASE role = "collaborator" -> {"confirmed_facts", "proposed_facts",
                                 "open_questions", "reference_state",
                                 "operational_state"}
    [] role = "curator" -> {"current_brief"}
    [] role = "focused" -> {"selected_topic", "global_constraints",
                            "dependencies"}
    [] role = "evaluator" -> {"approved_brief", "explicit_requirements",
                              "candidate_plan"}
    [] role = "planner" -> {"approved_brief", "evaluation", "latest_prototype"}
    [] role = "builder" -> {"implementation_plan", "constraints"}

NeverEmpty == {"operational_state", "selected_topic", "approved_brief",
               "evaluation", "implementation_plan", "constraints"}
Sizes(role) == {size \in [Parts(role) -> Lengths \cup {0}] :
                  \A p \in NeverEmpty \cap Parts(role) : size[p] # 0}

Sections(role, size) ==
  CASE role = "collaborator" ->
         {Section("current_user", TRUE, 100,
                  IF Current = 0 THEN 0 ELSE thread[Conversation[Current]].bytes),
          Section("confirmed_facts", TRUE, 100, size["confirmed_facts"]),
          Section("recent_messages", FALSE, 70, Bytes(Recent)),
          Section("proposed_facts", FALSE, 60, size["proposed_facts"]),
          Section("open_questions", FALSE, 65, size["open_questions"]),
          Section("reference_state", FALSE, 90, size["reference_state"]),
          Section("operational_state", FALSE, 80, size["operational_state"])}
    [] role = "curator" ->
         {Section("current_brief", TRUE, 100, size["current_brief"]),
          Section("delta_messages", TRUE, 100, Bytes(Conversation))}
    [] role = "focused" ->
         {Section("selected_topic", TRUE, 100, size["selected_topic"]),
          Section("global_constraints", TRUE, 100, size["global_constraints"]),
          Section("dependencies", FALSE, 80, size["dependencies"])}
         \cup MessageSections(Window)
    [] role = "planner" ->
         {Section("approved_brief", TRUE, 100, size["approved_brief"]),
          Section("evaluation", TRUE, 100, size["evaluation"]),
          Section("latest_prototype", FALSE, 60, size["latest_prototype"])}
    [] OTHER -> {Section(p, TRUE, 100, size[p]) : p \in Parts(role)}

-----------------------------------------------------------------------------
(***************************************************************************)
(* manifest: what fits.                                                    *)
(***************************************************************************)
\* estimate rounds up.
Tokens(s) == (s.bytes + BytesPerToken - 1) \div BytesPerToken

\* The tokens of some sections, one by one.
Pieces(S) == UNION {{s} \X (1..Tokens(s)) : s \in S}

Estimate(S) == FixedTokens + Cardinality(Pieces(S))

Required(S) == {s \in S : s.required}
Optional(S) == {s \in S : ~s.required /\ s.present}

Precedes(s, t) == \/ s.priority > t.priority
                  \/ s.priority = t.priority /\ s.index < t.index

\* Optional sections in the order in which they are considered.
InOrder(S) ==
  [n \in 1..Cardinality(S) |->
     CHOOSE s \in S : Cardinality({t \in S : Precedes(t, s)}) = n - 1]

\* The first section that does not fit ends the selection (mutant).
TakenUntilFull(S) ==
  FoldLeft(LAMBDA acc, s :
             IF acc.open /\ Estimate(acc.taken \cup {s}) <= MaxInputTokens
             THEN [acc EXCEPT !.taken = @ \cup {s}]
             ELSE [acc EXCEPT !.open = FALSE],
           [taken |-> Required(S), open |-> TRUE], InOrder(Optional(S))).taken

\* The budget is compared before the section is counted (mutant).
TakenWhileRoom(S) ==
  FoldLeft(LAMBDA taken, s : IF Estimate(taken) < MaxInputTokens
                             THEN taken \cup {s} ELSE taken,
           Required(S), InOrder(Optional(S)))

\* A section is taken if it still fits.
Try(taken, s) ==
  IF Estimate(taken \cup {s}) <= MaxInputTokens THEN taken \cup {s} ELSE taken

\* The required sections, and each optional one in turn if it still fits.
Taken(S) ==
  LET order == InOrder(Optional(S))
      after[n \in 0..Len(order)] ==
        IF n = 0 THEN Required(S) ELSE Try(after[n - 1], order[n])
  IN after[Len(order)]

Has(S, name) == \E s \in S : s.name = name

\* Focused: the messages that were not dropped, in their order.
KeptMessages(list, taken) ==
  LET kept == Ascending({i \in 1..Len(list) :
                \E s \in taken : s.name = "focused_message"
                                   /\ s.index = Len(list) - i})
  IN [n \in 1..Len(kept) |-> list[kept[n]]]

Messages(role, taken) ==
  CASE role = "collaborator" ->
         (IF Has(taken, "recent_messages") THEN Recent ELSE <<>>)
         \o (IF Current = 0 THEN <<>> ELSE <<Conversation[Current]>>)
    [] role = "curator" -> Conversation
    [] role = "focused" -> KeptMessages(Window, taken)
    [] OTHER -> <<>>

\* includedMessageCount; Focused counts its messages again.
Count(role, S, taken) ==
  LET selected == Len(Recent) + IF Current = 0 THEN 0 ELSE 1 IN
  CASE role = "collaborator" ->
         IF Has(Optional(S) \ taken, "recent_messages")
         THEN IF selected > 0 THEN 1 ELSE 0
         ELSE selected
    [] role = "curator" -> Len(Conversation)
    [] role = "focused" -> Len(KeptMessages(Window, taken))
    [] OTHER -> 0

Compile(role, size) ==
  LET S == Sections(role, size)
      taken == Taken(S)
  IN IF Estimate(Required(S)) > MaxInputTokens
     THEN [result |-> "overflow", role |-> role, size |-> size]
     ELSE [result |-> "made", role |-> role, size |-> size,
           taken |-> taken, tokens |-> Estimate(taken),
           messages |-> Messages(role, taken),
           count |-> Count(role, S, taken),
           truncated |-> Optional(S) \ taken # {},
           operational |-> role = "collaborator"
                             /\ ~Has(Optional(S) \ taken, "operational_state")]

-----------------------------------------------------------------------------
Init == thread = <<>> /\ packet = NoPacket

Say ==
  /\ Len(thread) < MaxMessages /\ packet = NoPacket
  /\ \E m \in Message : thread' = Append(thread, m)
  /\ UNCHANGED packet

Ask(role) ==
  /\ packet = NoPacket
  /\ \E size \in Sizes(role) : packet' = Compile(role, size)
  /\ UNCHANGED thread

\* The packet goes to the model, or its overflow is reported.
Send ==
  /\ packet # NoPacket /\ packet' = NoPacket
  /\ UNCHANGED thread

Next == Say \/ Send \/ \E role \in Role : Ask(role)

Spec == Init /\ [][Next]_vars

-----------------------------------------------------------------------------
(***************************************************************************)
(* Properties                                                              *)
(***************************************************************************)
Made == packet.result = "made"
Overflow == packet.result = "overflow"
Given == Sections(packet.role, packet.size)

\* A packet is what the compiler makes of the thread for some role and sizes:
\* nobody writes to either between its making and its use.
Compiled ==
  packet # NoPacket =>
    \E role \in Role : \E size \in Sizes(role) : packet = Compile(role, size)

TypeOK == thread \in Seq(Message) /\ Compiled

\* "Manifest describes what was selected": the counts that are shown agree
\* with the packet.
ManifestTrue ==
  Made => /\ packet.count = Len(packet.messages)
          /\ packet.operational = Has(packet.taken, "operational_state")
          /\ packet.truncated = (packet.taken # {s \in Given : s.present})

\* BudgetOverflowError: "Callers should fail the generation rather than
\* silently omit required information."  A packet holds every required
\* section, never exceeds the budget and has a true manifest; it is refused
\* only when the required sections alone do not fit.
WithinBudget ==
  /\ Made => /\ Required(Given) \subseteq packet.taken
             /\ packet.tokens <= MaxInputTokens
  /\ Overflow => Estimate(Required(Given)) > MaxInputTokens
  /\ ManifestTrue

\* What the selection is for: no other choice of sections that fits is
\* better, where the better of two choices is the one that has the first
\* section, by priority, on which they differ.
Better(T, U) ==
  \E s \in T \ U : \A t \in (T \ U) \cup (U \ T) : t = s \/ Precedes(s, t)

BestChoice ==
  Made => LET given == Given
              required == Required(given)
          IN \A T \in SUBSET Optional(given) :
               Better(T, packet.taken \ required)
                 => Estimate(required \cup T) > MaxInputTokens

\* compiler.go:334: whatever the assistant has said since, and however small
\* the window and the budget, the request of the user reaches the model; and
\* "Keep the original chronological order when assembling the final packet":
\* no message is moved or repeated for it, though sections are ordered by
\* priority and the window may have been patched.
RequestKept ==
  Made =>
    /\ packet.role \in {"collaborator", "focused", "curator"}
       /\ LatestUser(Conversation) # 0
         => Contains(packet.messages, Conversation[LatestUser(Conversation)])
    /\ \A i, j \in 1..Len(packet.messages) :
         i < j => packet.messages[i] < packet.messages[j]
=============================================================================
