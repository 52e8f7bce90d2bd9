---------------------------- MODULE BriefItems ----------------------------
(***************************************************************************)
(* The identity of the items of one collection of the living brief         *)
(* (services, telemetry, ...): brieftopics/registry.go, the curator's tool *)
(* and preserveConfirmedItems (chat/bedrock.go), and the two writes that   *)
(* store a brief.  A focused thread holds the ID of its item while the     *)
(* curator replaces the whole collection by what the model answered: an    *)
(* item may come back renamed, twice, without its ID, with another one's   *)
(* ID or with an ID nobody issued, or not at all.                          *)
(*                                                                         *)
(* One writer at a time: what two handlers do to each other's brief is     *)
(* the subject of LivingBrief.                                             *)
(***************************************************************************)
EXTENDS Naturals, FiniteSets, Sequences, SequencesExt

CONSTANTS
  Names,     \* names of items, trimmed and in lower case (normalized)
  Values,    \* what an item may say
  MaxItems,  \* bound on the length of the model's collection
  MaxIds,    \* bound on the IDs the application issues
  None

ASSUME BoundAssumption ==
  MaxItems \in Nat /\ MaxIds \in Nat /\ None \notin Values

VARIABLES
  items,    \* the stored collection
  issued,   \* newTopicID has returned 1..issued
  threads   \* topic IDs that have a draft thread

vars == <<items, issued, threads>>

NoId == 0                  \* the model left the ID out
Invented == MaxIds + 1     \* an ID of the right form that nobody issued

\* What an unknown item says is left out: no property tells it apart.
Unknown == [value |-> None, status |-> "unknown"]
Text == {Unknown} \cup [value : Values, status : {"proposed", "confirmed"}]
Item == {[id |-> i, name |-> n, text |-> t] :
           i \in 0..Invented, n \in Names, t \in Text}

Ids(s) == {s[i].id : i \in DOMAIN s}

TypeOK ==
  /\ items \in Seq(Item)
  /\ issued \in 0..MaxIds
  /\ Ids(items) \subseteq 1..issued
  /\ threads \subseteq 1..issued

Init == items = <<>> /\ issued = 0 /\ threads = {}

-----------------------------------------------------------------------------
(***************************************************************************)
(* What the model sends, after normalizeBrief.                             *)
(***************************************************************************)
\* normalizeItem: without a value, or with a status of the model's own, the
\* item is unknown.
Normal(text) ==
  IF text.value # None /\ text.status \in {"proposed", "confirmed"}
  THEN text ELSE Unknown

Normalized ==
  {Normal(text) : text \in [value : Values \cup {None},
                             status : {"proposed", "confirmed", "other"}]}

\* Every collection the model can answer with, over these texts: any ID that
\* it was ever shown, in or out of place, an invented one or none.
Answers(texts) ==
  BoundedSeq([id : (0..issued) \cup {Invented}, name : Names, text : texts],
             MaxItems)

-----------------------------------------------------------------------------
(***************************************************************************)
(* reconcileItems.                                                         *)
(***************************************************************************)
\* byName: the ID of the one item that had this name; no ID when the name was
\* ambiguous.
ByName(previous, name) ==
  LET named == {i \in DOMAIN previous : previous[i].name = name} IN
  IF Cardinality(named) = 1 THEN {previous[i].id : i \in named} ELSE {}

\* byName is not consulted (mutant).
IdentityById(previous, used, fresh, item) ==
  IF item.id \in Ids(previous) \ used THEN item.id ELSE fresh

\* The ID an item gets: the known one it came with, else the one its name had,
\* each once; else a new one.
Identity(previous, used, fresh, item) ==
  LET named == ByName(previous, item.name) \ used IN
  IF item.id \in Ids(previous) \ used THEN item.id
  ELSE IF named # {} THEN CHOOSE id \in named : TRUE
  ELSE fresh

\* A list while its items get their IDs, with the IDs issued so far.
Listed(s, n) == [items |-> s, issued |-> n]

Add(list, item, id) ==
  Listed(Append(list.items, [item EXCEPT !.id = id]),
         IF id = list.issued + 1 THEN id ELSE list.issued)

Identify(previous, list, item) ==
  Add(list, item, Identity(previous, Ids(list.items), list.issued + 1, item))

Reconcile(previous, next) ==
  LET after[n \in 0..Len(next)] ==
        IF n = 0 THEN Listed(<<>>, issued)
        ELSE Identify(previous, after[n - 1], next[n])
  IN after[Len(next)]

(***************************************************************************)
(* preserveConfirmedItems and Ensure.                                      *)
(***************************************************************************)
\* A locked item takes its place in the list, or goes to the end of it.
Lock(s, item) ==
  IF item.text.status # "confirmed" THEN s
  ELSE IF item.id \in Ids(s)
  THEN ReplaceAt(s, CHOOSE i \in DOMAIN s : /\ s[i].id = item.id
                                            /\ \A j \in 1..(i - 1) :
                                                 s[j].id # item.id,
                 item)
  ELSE Append(s, item)

PreserveConfirmed(current, candidate) ==
  LET after[n \in 0..Len(current)] ==
        IF n = 0 THEN candidate ELSE Lock(after[n - 1], current[n])
  IN after[Len(current)]

\* Ensure repairs the IDs that are missing or taken.
Repair(done, item) ==
  Add(done, item, IF item.id = NoId \/ item.id \in Ids(done.items)
                  THEN done.issued + 1 ELSE item.id)

Ensure(list) ==
  LET after[n \in 0..Len(list.items)] ==
        IF n = 0 THEN Listed(<<>>, list.issued)
        ELSE Repair(after[n - 1], list.items[n])
  IN after[Len(list.items)]

\* The confirmed items are put back before the IDs are settled (mutant).
CuratedLate(next) == Reconcile(items, PreserveConfirmed(items, next))

\* propose_brief_update: IDs first, then what the human has locked.
Curated(next) ==
  LET known == Reconcile(items, next) IN
  [known EXCEPT !.items = PreserveConfirmed(items, @)]

-----------------------------------------------------------------------------
Store(list) ==
  /\ list.issued <= MaxIds
  /\ items' = list.items
  /\ issued' = list.issued

\* UpdateLivingBrief with a new brief: SaveBriefWithCursor.
Curate ==
  /\ \E next \in Answers(Normalized) : Store(Ensure(Curated(next)))
  /\ UNCHANGED threads

\* Resolve, by ID and never by name.
Resolved(topic) == {items[i] : i \in {j \in DOMAIN items : items[j].id = topic}}

\* OpenThread: the topic is in the brief and says something; a draft that is
\* there is used again.
OpenThread(topic) ==
  /\ \E item \in Resolved(topic) : item.text.status # "unknown"
  /\ threads' = threads \cup {topic}
  /\ UNCHANGED <<items, issued>>

\* Apply: the item of the topic takes the candidate.
Apply(topic, value) ==
  [i \in DOMAIN items |->
     IF items[i].id = topic
     THEN [items[i] EXCEPT !.text = [value |-> value, status |-> "confirmed"]]
     ELSE items[i]]

\* ConfirmThread: refused when the topic is no longer in the brief, else one
\* transaction, ApplyBriefThread.
Confirm(topic, value) ==
  /\ topic \in threads
  /\ Resolved(topic) # {}
  /\ Store(Ensure(Listed(Apply(topic, value), issued)))
  /\ threads' = threads \ {topic}

Next ==
  \/ Curate
  \/ \E topic \in 1..issued : OpenThread(topic)
  \/ \E topic \in 1..issued, value \in Values : Confirm(topic, value)

Spec == Init /\ [][Next]_vars

-----------------------------------------------------------------------------
(***************************************************************************)
(* Properties                                                              *)
(***************************************************************************)
\* No two items share a topic.
Unique(s) == \A i, j \in DOMAIN s : s[i].id = s[j].id => i = j

\* Every topic has one item, and its ID is one the collection already had or
\* a new one: never one that was dropped, nor one the model made up.
ApplicationOwned(list) ==
  /\ Unique(list.items)
  /\ Ids(list.items) \subseteq Ids(items) \cup ((issued + 1)..list.issued)

\* The model gives no item the ID of a differently named one under a name
\* that is also taken.
Consistent(next) ==
  \A i \in DOMAIN next, j, k \in DOMAIN items :
    next[i].id = items[j].id /\ next[i].name = items[k].name
      => items[j].name = items[k].name

\* An unambiguous name that is still present keeps its ID in the collection.
NamedSurvive(next, list) ==
  \A i \in DOMAIN items :
    /\ ByName(items, items[i].name) = {items[i].id}
    /\ \E j \in DOMAIN next : next[j].name = items[i].name
    => items[i].id \in Ids(list.items)

\* registry.go: "Reconcile assigns application-owned IDs to a model-produced
\* brief.  Existing collection IDs survive whole-brief replacements when the
\* same named item is present; new items receive opaque IDs": for every
\* collection the brief can hold and every answer of the model; the IDs
\* survive when the model did not move them between names of the brief.
ReconcileContract ==
  \A next \in Answers({Unknown}) :
    LET list == Reconcile(items, next) IN
    /\ ApplicationOwned(list)
    /\ Consistent(next) => NamedSurvive(next, list)

\* preserveConfirmedBrief: curation never changes "decisions that the human
\* locked".  Whatever the model answers, a confirmed item stays in the
\* collection with its ID, name and value, so that a thread on it finds it;
\* only a thread on that very item changes it, to the value it confirmed.
LockedKept ==
  [][\A i \in DOMAIN items :
       items[i].text.status = "confirmed" =>
         \/ \E j \in DOMAIN items' : items'[j] = items[i]
         \/ \E value \in Values :
              /\ items[i].id \in threads \ threads'
              /\ \E j \in DOMAIN items' :
                   items'[j] = [items[i] EXCEPT !.text =
                                  [value |-> value, status |-> "confirmed"]]]_vars
=============================================================================
