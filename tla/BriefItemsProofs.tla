-------------------------- MODULE BriefItemsProofs --------------------------
(* Theorems about the identity of a collection's items, for collections     *)
(* and answers of any length.                                               *)
EXTENDS BriefItems, FiniteSetTheorems, SequenceTheorems, TLAPS

-----------------------------------------------------------------------------
(***************************************************************************)
(* Induction and recursion, with sets and functions in the place of        *)
(* predicates and operators, which the provers cannot instantiate.         *)
(***************************************************************************)

\* Induction over the natural numbers: were one missing, the missing numbers
\* up to it would be mapped one to one into themselves by the predecessor,
\* without reaching it.
LEMMA Induction ==
  ASSUME NEW T \in SUBSET Nat, 0 \in T, \A n \in T : n + 1 \in T
  PROVE  T = Nat
<1> SUFFICES ASSUME NEW m \in Nat, m \notin T PROVE FALSE
  OBVIOUS
<1> DEFINE U == (0..m) \ T
           pred == [n \in U |-> n - 1]
<1>1. IsFiniteSet(U)
  <2>1. IsFiniteSet(0..m)
    BY FS_Interval
  <2> QED BY <2>1, FS_Difference
<1>2. ASSUME NEW n \in U PROVE n - 1 \in U
  <2>1. n \in Nat /\ n # 0 /\ n - 1 \in Nat /\ (n - 1) + 1 = n
    OBVIOUS
  <2> QED BY <2>1
<1>3. pred \in Injection(U, U)
  <2>1. pred \in [U -> U]
    BY <1>2
  <2>2. \A a, b \in U : pred[a] = pred[b] => a = b
    OBVIOUS
  <2> QED BY <2>1, <2>2 DEF Injection, IsInjective
<1>4. pred \in Surjection(U, U)
  BY <1>1, <1>3, FS_Injection
<1>5. PICK n \in U : pred[n] = m
  <2>1. m \in U
    OBVIOUS
  <2> QED BY <1>4, <2>1 DEF Surjection
<1> QED BY <1>5

\* What the functions of a recursion over 0..N are, and their steps.
Steps(X, N) == [X \X (1..N) -> X]
Results(X, base, N, step) ==
  {f \in [0..N -> X] :
     f[0] = base /\ \A n \in 1..N : f[n] = step[<<f[n - 1], n>>]}

\* A function can be defined by recursion over 0..N.
LEMMA Recursion ==
  ASSUME NEW X, NEW base \in X, NEW N \in Nat, NEW step \in Steps(X, N)
  PROVE  Results(X, base, N, step) # {}
<1> USE DEF Steps
<1> DEFINE Good(f, k) ==
             f[0] = base /\ \A n \in 1..k : f[n] = step[<<f[n - 1], n>>]
           T == {k \in Nat : k <= N => \E f \in [0..k -> X] : Good(f, k)}
<1>1. 0 \in T
  <2>1. Good([n \in 0..0 |-> base], 0) /\ [n \in 0..0 |-> base] \in [0..0 -> X]
    OBVIOUS
  <2> HIDE DEF Good
  <2> QED BY <2>1
<1>2. ASSUME NEW k \in T PROVE k + 1 \in T
  <2> SUFFICES ASSUME k + 1 <= N
               PROVE  \E f \in [0..(k + 1) -> X] : Good(f, k + 1)
    OBVIOUS
  <2>1. PICK f \in [0..k -> X] : Good(f, k)
    OBVIOUS
  <2> DEFINE g == [n \in 0..(k + 1) |->
                     IF n <= k THEN f[n] ELSE step[<<f[k], k + 1>>]]
  <2>2. g \in [0..(k + 1) -> X]
    <3>1. k \in 0..k /\ k + 1 \in 1..N
      OBVIOUS
    <3>2. f[k] \in X
      BY <3>1
    <3> QED BY <3>1, <3>2
  <2>3. Good(g, k + 1)
    <3>1. g[0] = base
      BY <2>1
    <3>2. ASSUME NEW n \in 1..(k + 1) PROVE g[n] = step[<<g[n - 1], n>>]
      <4>1. CASE n <= k
        <5>1. n \in 1..k /\ n \in 0..(k + 1) /\ n - 1 \in 0..(k + 1)
              /\ n - 1 <= k
          BY <4>1
        <5>2. g[n] = f[n] /\ g[n - 1] = f[n - 1]
          BY <5>1
        <5> QED BY <2>1, <5>1, <5>2
      <4>2. CASE n = k + 1
        <5>1. n \in 0..(k + 1) /\ n - 1 = k /\ k \in 0..(k + 1) /\ ~(n <= k)
          BY <4>2
        <5>2. g[n] = step[<<f[k], k + 1>>] /\ g[k] = f[k]
          BY <5>1
        <5> QED BY <4>2, <5>1, <5>2
      <4> QED BY <4>1, <4>2
    <3> QED BY <3>1, <3>2
  <2> QED BY <2>2, <2>3
<1>3. T = Nat
  <2> HIDE DEF T
  <2>1. T \in SUBSET Nat
    BY DEF T
  <2> QED BY <1>1, <1>2, <2>1, Induction
<1>4. N \in T
  BY <1>3
<1> QED BY <1>4 DEF Results

\* Induction over 0..N.
LEMMA UpTo ==
  ASSUME NEW N \in Nat, NEW G, 0 \in G, \A n \in 1..N : n - 1 \in G => n \in G
  PROVE  \A n \in 0..N : n \in G
<1> DEFINE T == {n \in Nat : n <= N => n \in G}
<1>1. T \in SUBSET Nat /\ 0 \in T
  OBVIOUS
<1>2. ASSUME NEW n \in T PROVE n + 1 \in T
  <2> SUFFICES ASSUME n + 1 <= N PROVE n + 1 \in G
    OBVIOUS
  <2>1. n \in G /\ n + 1 \in 1..N /\ (n + 1) - 1 = n
    OBVIOUS
  <2> QED BY <2>1
<1> HIDE DEF T
<1>3. T = Nat
  BY <1>1, <1>2, Induction
<1> QED BY <1>3 DEF T

-----------------------------------------------------------------------------
(***************************************************************************)
(* Lists of items.                                                         *)
(***************************************************************************)
\* An item whatever its ID.
Entry == [id : Nat, name : Names, text : Text]

\* A list while its items get their IDs.
ListType == [items : Seq(Entry), issued : Nat]

\* An item added to a list under an ID that no other has.
LEMMA Added ==
  ASSUME NEW list \in ListType, NEW item \in Entry, NEW id \in Nat,
         Unique(list.items), id \notin Ids(list.items)
  PROVE  LET new == Add(list, item, id) IN
         /\ new \in ListType
         /\ new.items = Append(list.items, [item EXCEPT !.id = id])
         /\ new.issued = IF id = list.issued + 1 THEN id ELSE list.issued
         /\ Unique(new.items)
         /\ Ids(new.items) = Ids(list.items) \cup {id}
<1> DEFINE entry == [item EXCEPT !.id = id]
           s == list.items
           t == Append(s, entry)
           top == IF id = list.issued + 1 THEN id ELSE list.issued
           new == Add(list, item, id)
<1>1. entry \in Entry /\ entry.id = id
  BY DEF Entry
<1>2. s \in Seq(Entry) /\ list.issued \in Nat
  BY DEF ListType
<1>3. new = [items |-> t, issued |-> top]
  BY DEF Add, Listed
<1> HIDE DEF entry, new, s
<1>4. /\ t \in Seq(Entry) /\ Len(t) = Len(s) + 1 /\ Len(s) \in Nat
      /\ \A i \in 1..Len(s) : t[i] = s[i]
      /\ t[Len(s) + 1] = entry
      /\ DOMAIN t = 1..Len(t) /\ DOMAIN s = 1..Len(s)
  BY <1>1, <1>2, AppendProperties, LenProperties
<1> HIDE DEF t
<1>5. \A i \in DOMAIN t : \/ i \in DOMAIN s /\ t[i] = s[i]
                          \/ i = Len(s) + 1 /\ t[i] = entry
  BY <1>4
<1>6. Ids(t) = Ids(s) \cup {id}
  <2>1. Ids(t) \subseteq Ids(s) \cup {id}
    BY <1>1, <1>5 DEF Ids
  <2>2. Len(s) + 1 \in DOMAIN t /\ \A i \in DOMAIN s : i \in DOMAIN t
    BY <1>4
  <2>3. Ids(s) \cup {id} \subseteq Ids(t)
    BY <1>1, <1>4, <2>2 DEF Ids
  <2> QED BY <2>1, <2>3
<1>7. Unique(t)
  <2> SUFFICES ASSUME NEW i \in DOMAIN t, NEW j \in DOMAIN t, t[i].id = t[j].id
               PROVE  i = j
    BY DEF Unique
  <2>1. \A k \in DOMAIN s : s[k].id # id
    BY DEF Ids, s
  <2> QED BY <1>1, <1>5, <2>1 DEF Unique, s
<1>8. /\ new \in ListType /\ new.items = t /\ new.issued = top
  BY <1>2, <1>3, <1>4 DEF ListType
<1> QED BY <1>6, <1>7, <1>8 DEF new, s, t, entry

-----------------------------------------------------------------------------
(***************************************************************************)
(* Reconcile.                                                              *)
(***************************************************************************)
\* What an item may have when it arrives: an ID of the collection that no
\* earlier item took, or a new one.
LEMMA Identified ==
  ASSUME NEW used, NEW fresh, NEW item
  PROVE  Identity(items, used, fresh, item) \in (Ids(items) \ used) \cup {fresh}
<1> DEFINE named == ByName(items, item.name) \ used
<1>1. named \subseteq Ids(items) \ used
  BY DEF ByName, Ids
<1>2. CASE item.id \in Ids(items) \ used
  BY <1>2 DEF Identity
<1>3. CASE item.id \notin Ids(items) \ used /\ named # {}
  <2>1. (CHOOSE id \in named : TRUE) \in named
    BY <1>3
  <2>2. Identity(items, used, fresh, item) = CHOOSE id \in named : TRUE
    BY <1>3 DEF Identity
  <2> HIDE DEF named
  <2> QED BY <1>1, <2>1, <2>2
<1>4. CASE item.id \notin Ids(items) \ used /\ named = {}
  BY <1>4 DEF Identity
<1> QED BY <1>2, <1>3, <1>4

\* A list in the middle of Reconcile.
Settled ==
  {list \in ListType : /\ Unique(list.items) /\ list.issued >= issued
                       /\ Ids(list.items) \subseteq
                            Ids(items) \cup ((issued + 1)..list.issued)}

\* One item more.
LEMMA Settles ==
  ASSUME TypeOK, NEW list \in Settled, NEW item \in Entry
  PROVE  LET new == Identify(items, list, item)
             id == Identity(items, Ids(list.items), list.issued + 1, item)
         IN new \in Settled /\ Ids(new.items) = Ids(list.items) \cup {id}
<1> DEFINE used == Ids(list.items)
           fresh == list.issued + 1
           id == Identity(items, used, fresh, item)
           new == Identify(items, list, item)
<1>1. /\ list \in ListType /\ Unique(list.items) /\ list.issued >= issued
      /\ used \subseteq Ids(items) \cup ((issued + 1)..list.issued)
  BY DEF Settled
<1>2. /\ list.issued \in Nat /\ issued \in Nat /\ Ids(items) \subseteq 1..issued
  BY <1>1, BoundAssumption DEF ListType, TypeOK
<1>3. id \in (Ids(items) \ used) \cup {fresh}
  BY Identified
<1>4. new = Add(list, item, id)
  BY DEF Identify
<1> HIDE DEF used, id, new
<1>5. id \in Nat /\ id \notin used /\ fresh \notin used
  BY <1>1, <1>2, <1>3
<1>6. /\ new \in ListType /\ Unique(new.items)
      /\ new.issued = IF id = fresh THEN id ELSE list.issued
      /\ Ids(new.items) = used \cup {id}
  <2>1. Unique(list.items) /\ id \notin Ids(list.items)
    BY <1>1, <1>5 DEF used
  <2>2. id \in Nat /\ list \in ListType
    BY <1>1, <1>5
  <2>3. Add(list, item, id) \in ListType
    BY <2>1, <2>2, Added
  <2>4. Add(list, item, id).issued = IF id = list.issued + 1 THEN id ELSE list.issued
    BY <2>1, <2>2, Added
  <2>5. /\ Unique(Add(list, item, id).items)
        /\ Ids(Add(list, item, id).items) = Ids(list.items) \cup {id}
    BY <2>1, <2>2, Added
  <2> QED BY <1>4, <2>3, <2>4, <2>5 DEF used
<1>7. new.issued >= issued
  BY <1>1, <1>2, <1>6
<1>8. used \cup {id} \subseteq Ids(items) \cup ((issued + 1)..new.issued)
  <2>1. CASE id = fresh
    BY <1>1, <1>2, <1>6, <2>1
  <2>2. CASE id # fresh
    BY <1>1, <1>3, <1>6, <2>2
  <2> QED BY <2>1, <2>2
<1> QED BY <1>6, <1>7, <1>8 DEF Settled, used, id, new

\* The loop of Reconcile, list by list.
LEMMA ReconcileRuns ==
  ASSUME TypeOK, NEW next \in Seq(Entry)
  PROVE  \E after \in [0..Len(next) -> Settled] :
           /\ after[0] = Listed(<<>>, issued)
           /\ \A n \in 1..Len(next) :
                after[n] = Identify(items, after[n - 1], next[n])
           /\ Reconcile(items, next) = after[Len(next)]
<1> DEFINE N == Len(next)
           base == Listed(<<>>, issued)
           step == [p \in Settled \X (1..N) |-> Identify(items, p[1], next[p[2]])]
<1>1. N \in Nat /\ \A n \in 1..N : next[n] \in Entry
  OBVIOUS
<1>2. base \in Settled
  <2>1. issued \in Nat
    BY BoundAssumption DEF TypeOK
  <2>2. base \in ListType /\ base.items = <<>> /\ base.issued = issued
    BY <2>1 DEF Listed, ListType
  <2> HIDE DEF base
  <2>3. DOMAIN base.items = {}
    BY <2>2
  <2>4. Unique(base.items) /\ Ids(base.items) = {}
    BY <2>3 DEF Unique, Ids
  <2> QED BY <2>1, <2>2, <2>4 DEF Settled
<1>3. \A list \in Settled : \A n \in 1..N :
        Identify(items, list, next[n]) \in Settled
  BY <1>1, Settles
<1>4. step \in Steps(Settled, N)
  BY <1>3 DEF Steps
<1>5. PICK f \in [0..N -> Settled] :
        f[0] = base /\ \A n \in 1..N : f[n] = step[<<f[n - 1], n>>]
  <2> HIDE DEF step, N, base
  <2>1. Results(Settled, base, N, step) # {}
    BY <1>1, <1>2, <1>4, Recursion
  <2> QED BY <2>1 DEF Results
<1> DEFINE Next1(g) == [n \in 0..N |-> IF n = 0 THEN base
                                       ELSE Identify(items, g[n - 1], next[n])]
<1>6. f = Next1(f)
  <2>1. ASSUME NEW n \in 1..N PROVE f[n] = Identify(items, f[n - 1], next[n])
    <3>1. n - 1 \in 0..N
      BY <1>1
    <3>2. f[n - 1] \in Settled /\ f[n] = step[<<f[n - 1], n>>]
      <4> HIDE DEF step
      <4> QED BY <1>5, <3>1
    <3> QED BY <3>2
  <2> HIDE DEF N, step, base
  <2>2. \A n \in 0..N : f[n] = IF n = 0 THEN base
                                ELSE Identify(items, f[n - 1], next[n])
    BY <1>1, <1>5, <2>1
  <2> QED BY <1>5, <2>2
<1> DEFINE after == CHOOSE a : a = Next1(a)
<1>7. after = Next1(after)
  BY <1>6
<1>8. Reconcile(items, next) = after[N]
  BY DEF Reconcile
<1> HIDE DEF after, base, N
<1>9. /\ after[0] = base
      /\ \A n \in 1..N : after[n] = Identify(items, after[n - 1], next[n])
  BY <1>1, <1>7
<1>10. after \in [0..N -> Settled]
  <2> DEFINE G == {n \in 0..N : after[n] \in Settled}
  <2>1. 0 \in G
    BY <1>1, <1>2, <1>9
  <2>2. ASSUME NEW n \in 1..N, n - 1 \in G PROVE n \in G
    BY <1>1, <1>3, <1>9, <2>2
  <2>3. \A n \in 0..N : n \in G
    <3> HIDE DEF G
    <3> QED BY <1>1, <2>1, <2>2, UpTo
  <2> QED BY <1>7, <2>3
<1> QED BY <1>8, <1>9, <1>10 DEF N, base

\* What ByName finds is the only item of the name.
LEMMA NameFound ==
  ASSUME TypeOK, NEW i \in DOMAIN items, NEW k \in DOMAIN items,
         ByName(items, items[i].name) # {}, items[k].name = items[i].name
  PROVE  k = i
<1> DEFINE named == {j \in DOMAIN items : items[j].name = items[i].name}
<1>1. Cardinality(named) = 1
  BY DEF ByName
<1>2. i \in named /\ k \in named
  OBVIOUS
<1>3. IsFiniteSet(named)
  <2>1. Len(items) \in Nat /\ DOMAIN items = 1..Len(items)
    BY DEF TypeOK
  <2>2. IsFiniteSet(1..Len(items))
    BY <2>1, FS_Interval
  <2>3. named \in SUBSET (1..Len(items))
    BY <2>1
  <2> HIDE DEF named
  <2> QED BY <2>2, <2>3, FS_Subset
<1> HIDE DEF named
<1>4. PICK j : named = {j}
  BY <1>1, <1>3, FS_Singleton
<1> QED BY <1>2, <1>4

\* The comment on Reconcile, for collections and answers of any length.
LEMMA Reconciled ==
  ASSUME TypeOK, NEW next \in Seq(Entry)
  PROVE  LET list == Reconcile(items, next) IN
         /\ list \in Settled
         /\ Consistent(next) => NamedSurvive(next, list)
<1> DEFINE N == Len(next)
           list == Reconcile(items, next)
<1>1. PICK after \in [0..N -> Settled] :
        /\ after[0] = Listed(<<>>, issued)
        /\ \A n \in 1..N : after[n] = Identify(items, after[n - 1], next[n])
        /\ list = after[N]
  BY ReconcileRuns
<1>2. N \in Nat /\ DOMAIN next = 1..N /\ \A n \in 1..N : next[n] \in Entry
  OBVIOUS
<1> HIDE DEF N, list
<1>3. ASSUME NEW n \in 1..N
      PROVE  /\ after[n - 1] \in Settled
             /\ Ids(after[n].items) = Ids(after[n - 1].items) \cup
                  {Identity(items, Ids(after[n - 1].items),
                            after[n - 1].issued + 1, next[n])}
  <2>1. after[n - 1] \in Settled
    BY <1>1, <1>2
  <2> QED BY <1>1, <1>2, <2>1, Settles
<1>4. ASSUME Consistent(next), NEW i \in DOMAIN items,
             ByName(items, items[i].name) = {items[i].id},
             NEW m \in DOMAIN next, next[m].name = items[i].name
      PROVE  items[i].id \in Ids(list.items)
  <2> DEFINE own == items[i].id
             used == Ids(after[m - 1].items)
             fresh == after[m - 1].issued + 1
             named == ByName(items, next[m].name) \ used
             G == {n \in 0..N : n >= m => own \in Ids(after[n].items)}
  <2>1. m \in 1..N
    BY <1>2
  <2>2. own \in Ids(after[m].items)
    <3>1. CASE own \in used
      BY <1>3, <2>1, <3>1
    <3>2. CASE own \notin used /\ next[m].id \in Ids(items) \ used
      <4>1. PICK k \in DOMAIN items : next[m].id = items[k].id
        BY <3>2 DEF Ids
      <4>2. items[k].name = items[i].name
        BY <1>4, <4>1 DEF Consistent
      <4>3. k = i
        BY <1>4, <4>2, NameFound
      <4>4. Identity(items, used, fresh, next[m]) = own
        BY <3>2, <4>1, <4>3 DEF Identity
      <4> QED BY <1>3, <2>1, <4>4
    <3>3. CASE own \notin used /\ next[m].id \notin Ids(items) \ used
      <4>1. named = {own}
        BY <1>4, <3>3
      <4>2. Identity(items, used, fresh, next[m]) = own
        BY <3>3, <4>1 DEF Identity
      <4> QED BY <1>3, <2>1, <4>2
    <3> QED BY <3>1, <3>2, <3>3
  <2> HIDE DEF own
  <2>3. 0 \in G
    BY <1>2, <2>1
  <2>4. ASSUME NEW n \in 1..N, n - 1 \in G PROVE n \in G
    <3>1. CASE n = m
      BY <1>2, <2>1, <2>2, <3>1
    <3>2. CASE n # m
      BY <1>2, <1>3, <2>1, <2>4, <3>2
    <3> QED BY <3>1, <3>2
  <2>5. \A n \in 0..N : n \in G
    <3> HIDE DEF G
    <3> QED BY <1>2, <2>3, <2>4, UpTo
  <2> QED BY <1>1, <1>2, <2>1, <2>5 DEF own
<1>5. Consistent(next) => NamedSurvive(next, list)
  BY <1>4 DEF NamedSurvive
<1>6. list \in Settled
  BY <1>1, <1>2
<1> QED BY <1>5, <1>6 DEF list

-----------------------------------------------------------------------------
(***************************************************************************)
(* PreserveConfirmed.                                                      *)
(***************************************************************************)
\* Collections without two items of one topic, under IDs up to a number.
Collections(top) ==
  {s \in Seq(Entry) : Unique(s) /\ Ids(s) \subseteq 1..top}

\* A locked item is in the list afterwards, and other topics are left alone.
LEMMA Locks ==
  ASSUME NEW top \in Nat, NEW s \in Collections(top), NEW item \in Entry,
         item.id \in 1..top
  PROVE  LET r == Lock(s, item) IN
         /\ r \in Collections(top)
         /\ item.text.status = "confirmed" => \E j \in DOMAIN r : r[j] = item
         /\ \A j \in DOMAIN s : \/ item.text.status = "confirmed" /\ s[j].id = item.id
                                \/ j \in DOMAIN r /\ r[j] = s[j]
<1> DEFINE r == Lock(s, item)
<1>1. /\ s \in Seq(Entry) /\ Unique(s) /\ Ids(s) \subseteq 1..top
      /\ Len(s) \in Nat /\ DOMAIN s = 1..Len(s)
  BY DEF Collections
<1>2. CASE item.text.status # "confirmed"
  BY <1>2 DEF Lock
<1>3. CASE item.text.status = "confirmed" /\ item.id \in Ids(s)
  <2> DEFINE First(i) == s[i].id = item.id /\ \A j \in 1..(i - 1) : s[j].id # item.id
             place == CHOOSE i \in DOMAIN s : First(i)
  <2>1. PICK i \in DOMAIN s : s[i].id = item.id
    BY <1>3 DEF Ids
  <2>2. \A j \in DOMAIN s : s[j].id = item.id => j = i
    BY <1>1, <2>1 DEF Unique
  <2>3. First(i)
    BY <1>1, <2>1, <2>2
  <2>4. place \in DOMAIN s /\ s[place].id = item.id
    BY <2>3
  <2>5. r = [s EXCEPT ![place] = item]
    BY <1>3 DEF Lock, ReplaceAt
  <2> HIDE DEF place, First, r
  <2>6. /\ r \in Seq(Entry) /\ DOMAIN r = DOMAIN s /\ r[place] = item
        /\ \A j \in DOMAIN s : j # place => r[j] = s[j]
    BY <1>1, <2>4, <2>5, ExceptSeq
  <2>7. \A j \in DOMAIN s : r[j].id = s[j].id
    BY <2>4, <2>6
  <2>8. Unique(r) /\ Ids(r) \subseteq 1..top
    BY <1>1, <2>6, <2>7 DEF Unique, Ids
  <2>9. \A j \in DOMAIN s : s[j].id # item.id => r[j] = s[j]
    BY <2>4, <2>6
  <2> QED BY <1>3, <2>4, <2>6, <2>8, <2>9 DEF Collections, r
<1>4. CASE item.text.status = "confirmed" /\ item.id \notin Ids(s)
  <2>1. r = Append(s, item)
    BY <1>4 DEF Lock
  <2> HIDE DEF r
  <2>2. /\ r \in Seq(Entry) /\ DOMAIN r = 1..(Len(s) + 1)
        /\ r[Len(s) + 1] = item
        /\ \A j \in 1..Len(s) : r[j] = s[j]
    BY <1>1, <2>1, AppendProperties
  <2>3. \A j \in DOMAIN s : s[j].id # item.id
    BY <1>4 DEF Ids
  <2>4. \A j \in DOMAIN r : \/ j \in DOMAIN s /\ r[j] = s[j]
                            \/ j = Len(s) + 1 /\ r[j] = item
    BY <1>1, <2>2
  <2>5. Unique(r)
    BY <1>1, <2>3, <2>4 DEF Unique
  <2>6. Ids(r) \subseteq 1..top
    BY <1>1, <2>4 DEF Ids
  <2>7. Len(s) + 1 \in DOMAIN r
    BY <1>1, <2>2
  <2> QED BY <1>1, <2>2, <2>5, <2>6, <2>7 DEF Collections, r
<1> QED BY <1>2, <1>3, <1>4

\* The loop of preserveConfirmedItems, collection by collection.
LEMMA PreserveRuns ==
  ASSUME NEW top \in Nat, NEW current \in Collections(top),
         NEW candidate \in Collections(top)
  PROVE  \E after \in [0..Len(current) -> Collections(top)] :
           /\ after[0] = candidate
           /\ \A n \in 1..Len(current) : after[n] = Lock(after[n - 1], current[n])
           /\ PreserveConfirmed(current, candidate) = after[Len(current)]
<1> DEFINE N == Len(current)
           C == Collections(top)
           step == [p \in C \X (1..N) |-> Lock(p[1], current[p[2]])]
<1>1. /\ N \in Nat /\ DOMAIN current = 1..N
      /\ \A n \in 1..N : current[n] \in Entry /\ current[n].id \in 1..top
  BY DEF Collections, Ids
<1>2. candidate \in C
  OBVIOUS
<1>3. \A s \in C : \A n \in 1..N : Lock(s, current[n]) \in C
  BY <1>1, Locks
<1> HIDE DEF C
<1>4. step \in Steps(C, N)
  BY <1>3 DEF Steps
<1>5. PICK f \in [0..N -> C] :
        f[0] = candidate /\ \A n \in 1..N : f[n] = step[<<f[n - 1], n>>]
  <2> HIDE DEF step, N
  <2>1. Results(C, candidate, N, step) # {}
    BY <1>1, <1>2, <1>4, Recursion
  <2> QED BY <2>1 DEF Results
<1> DEFINE Next1(g) == [n \in 0..N |-> IF n = 0 THEN candidate
                                       ELSE Lock(g[n - 1], current[n])]
<1>6. f = Next1(f)
  <2>1. ASSUME NEW n \in 1..N PROVE f[n] = Lock(f[n - 1], current[n])
    <3>1. n - 1 \in 0..N
      BY <1>1
    <3>2. f[n - 1] \in C /\ f[n] = step[<<f[n - 1], n>>]
      <4> HIDE DEF step
      <4> QED BY <1>5, <3>1
    <3> QED BY <3>2
  <2> HIDE DEF N, step
  <2>2. \A n \in 0..N : f[n] = IF n = 0 THEN candidate
                                ELSE Lock(f[n - 1], current[n])
    BY <1>1, <1>5, <2>1
  <2> QED BY <1>5, <2>2
<1> DEFINE after == CHOOSE a : a = Next1(a)
<1>7. after = Next1(after)
  BY <1>6
<1>8. PreserveConfirmed(current, candidate) = after[N]
  BY DEF PreserveConfirmed
<1> HIDE DEF after, N
<1>9. /\ after[0] = candidate
      /\ \A n \in 1..N : after[n] = Lock(after[n - 1], current[n])
  BY <1>1, <1>7
<1>10. after \in [0..N -> C]
  <2> DEFINE G == {n \in 0..N : after[n] \in C}
  <2>1. 0 \in G
    BY <1>1, <1>2, <1>9
  <2>2. ASSUME NEW n \in 1..N, n - 1 \in G PROVE n \in G
    BY <1>1, <1>3, <1>9, <2>2
  <2>3. \A n \in 0..N : n \in G
    <3> HIDE DEF G
    <3> QED BY <1>1, <2>1, <2>2, UpTo
  <2> QED BY <1>7, <2>3
<1> QED BY <1>8, <1>9, <1>10 DEF N, C

\* Every confirmed item of the collection is in the result, as it was: those
\* that come later have other topics.
LEMMA Preserved ==
  ASSUME NEW top \in Nat, NEW current \in Collections(top),
         NEW candidate \in Collections(top)
  PROVE  LET r == PreserveConfirmed(current, candidate) IN
         /\ r \in Collections(top)
         /\ \A i \in DOMAIN current :
              current[i].text.status = "confirmed"
                => \E j \in DOMAIN r : r[j] = current[i]
<1> DEFINE N == Len(current)
           r == PreserveConfirmed(current, candidate)
<1>1. PICK after \in [0..N -> Collections(top)] :
        /\ after[0] = candidate
        /\ \A n \in 1..N : after[n] = Lock(after[n - 1], current[n])
        /\ r = after[N]
  BY PreserveRuns
<1>2. /\ N \in Nat /\ DOMAIN current = 1..N /\ Unique(current)
      /\ \A n \in 1..N : current[n] \in Entry /\ current[n].id \in 1..top
  BY DEF Collections, Ids
<1> HIDE DEF N, r
<1>3. ASSUME NEW i \in 1..N, current[i].text.status = "confirmed"
      PROVE  \E j \in DOMAIN r : r[j] = current[i]
  <2> DEFINE In(n) == \E j \in DOMAIN after[n] : after[n][j] = current[i]
             G == {n \in 0..N : n >= i => In(n)}
  <2>1. 0 \in G
    BY <1>2
  <2>2. ASSUME NEW n \in 1..N, n - 1 \in G PROVE n \in G
    <3>1. after[n - 1] \in Collections(top) /\ after[n] = Lock(after[n - 1], current[n])
      BY <1>1, <1>2
    <3>2. CASE n = i
      <4>1. In(n)
        BY <1>2, <1>3, <3>1, <3>2, Locks
      <4> QED BY <4>1
    <3>3. CASE n > i
      <4>1. PICK j \in DOMAIN after[n - 1] : after[n - 1][j] = current[i]
        BY <1>2, <2>2, <3>3
      <4>2. current[n].id # current[i].id
        <5>1. i \in DOMAIN current /\ n \in DOMAIN current /\ n # i
          BY <1>2, <3>3
        <5> QED BY <1>2, <5>1 DEF Unique
      <4>3. j \in DOMAIN after[n] /\ after[n][j] = after[n - 1][j]
        <5> DEFINE s == after[n - 1]
                   item == current[n]
        <5>1. /\ s \in Collections(top) /\ item \in Entry /\ item.id \in 1..top
              /\ after[n] = Lock(s, item)
          BY <1>2, <3>1
        <5>2. j \in DOMAIN s /\ s[j].id # item.id
          BY <4>1, <4>2
        <5> HIDE DEF s, item
        <5>3. j \in DOMAIN Lock(s, item) /\ Lock(s, item)[j] = s[j]
          BY <5>1, <5>2, Locks
        <5> QED BY <5>1, <5>3 DEF s
      <4> QED BY <4>1, <4>3
    <3>4. CASE n < i
      BY <1>2, <3>4
    <3> QED BY <1>2, <3>2, <3>3, <3>4
  <2>3. \A n \in 0..N : n \in G
    <3> HIDE DEF G
    <3> QED BY <1>2, <2>1, <2>2, UpTo
  <2> QED BY <1>1, <1>2, <2>3
<1>4. r \in Collections(top)
  BY <1>1, <1>2
<1> QED BY <1>2, <1>3, <1>4 DEF r

-----------------------------------------------------------------------------
(***************************************************************************)
(* What is stored.                                                         *)
(***************************************************************************)
\* Ensure has nothing to repair in a list whose IDs are in order.
LEMMA EnsureIdle ==
  ASSUME NEW top \in Nat, NEW s \in Collections(top)
  PROVE  Ensure(Listed(s, top)) = Listed(s, top)
<1> DEFINE list == Listed(s, top)
           N == Len(s)
           prefix(n) == SubSeq(s, 1, n)
<1>1. /\ s \in Seq(Entry) /\ N \in Nat /\ DOMAIN s = 1..N /\ Unique(s)
      /\ \A n \in 1..N : s[n] \in Entry /\ s[n].id \in 1..top
  BY DEF Collections, Ids
<1>2. list.items = s /\ list.issued = top
  BY DEF Listed
<1> HIDE DEF N
<1>3. \A n \in 0..N : /\ prefix(n) \in Seq(Entry) /\ DOMAIN prefix(n) = 1..n
                      /\ Len(prefix(n)) = n
                      /\ \A i \in 1..n : prefix(n)[i] = s[i]
  BY <1>1, SubSeqProperties DEF N
<1>4. ASSUME NEW n \in 1..N
      PROVE  Repair(Listed(prefix(n - 1), top), s[n]) = Listed(prefix(n), top)
  <2> DEFINE p == prefix(n - 1)
             q == prefix(n)
             done == Listed(p, top)
             item == s[n]
  <2>1. /\ n - 1 \in 0..N /\ n \in 0..N /\ n - 1 \in Nat
        /\ p \in Seq(Entry) /\ DOMAIN p = 1..(n - 1) /\ Len(p) = n - 1
        /\ \A i \in 1..(n - 1) : p[i] = s[i]
        /\ q \in Seq(Entry) /\ DOMAIN q = 1..n /\ Len(q) = n
        /\ \A i \in 1..n : q[i] = s[i]
    BY <1>1, <1>3
  <2> HIDE DEF prefix
  <2>2. done.items = p /\ done.issued = top
    BY DEF Listed
  <2>3. item \in Entry /\ item.id \in 1..top
    BY <1>1
  <2> HIDE DEF p, q, item, done
  <2>4. item.id \notin Ids(p)
    <3> SUFFICES ASSUME NEW i \in 1..(n - 1), p[i].id = item.id PROVE FALSE
      BY <2>1 DEF Ids
    <3>1. i \in DOMAIN s /\ n \in DOMAIN s /\ i # n
      BY <1>1, <2>1
    <3>2. s[i].id = s[n].id
      BY <2>1 DEF item
    <3> QED BY <1>1, <3>1, <3>2 DEF Unique
  <2>5. [item EXCEPT !.id = item.id] = item
    BY <2>3 DEF Entry
  <2>6. Append(p, item) = q
    <3>1. /\ Append(p, item) \in Seq(Entry) /\ Len(Append(p, item)) = n
          /\ \A i \in 1..(n - 1) : Append(p, item)[i] = p[i]
          /\ Append(p, item)[n] = item
      BY <2>1, <2>3, AppendProperties
    <3>2. \A i \in 1..n : Append(p, item)[i] = q[i]
      BY <2>1, <3>1 DEF item
    <3> QED BY <2>1, <3>1, <3>2, SeqEqual
  <2>7. Repair(done, item) = Add(done, item, item.id)
    BY <2>2, <2>3, <2>4 DEF Repair, NoId
  <2>8. Add(done, item, item.id) = Listed(q, top)
    <3>1. item.id # top + 1
      BY <2>3
    <3> QED BY <2>2, <2>5, <2>6, <3>1 DEF Add
  <2> QED BY <2>7, <2>8 DEF p, q, done, item
<1> DEFINE Next1(g) == [n \in 0..N |-> IF n = 0 THEN Listed(<<>>, top)
                                       ELSE Repair(g[n - 1], s[n])]
           f == [n \in 0..N |-> Listed(prefix(n), top)]
<1>5. prefix(0) = <<>>
  BY <1>1, <1>3, EmptySeq
<1>6. f = Next1(f)
  <2> SUFFICES ASSUME NEW n \in 0..N
               PROVE  f[n] = IF n = 0 THEN Listed(<<>>, top)
                             ELSE Repair(f[n - 1], s[n])
    OBVIOUS
  <2>1. CASE n = 0
    BY <1>5, <2>1
  <2>2. CASE n # 0
    <3>1. n \in 1..N /\ n - 1 \in 0..N
      BY <1>1, <2>2
    <3>2. f[n] = Listed(prefix(n), top) /\ f[n - 1] = Listed(prefix(n - 1), top)
      BY <3>1
    <3> HIDE DEF f, prefix
    <3> QED BY <1>4, <2>2, <3>1, <3>2
  <2> QED BY <2>1, <2>2
<1> DEFINE after == CHOOSE a : a = Next1(a)
<1>7. after = Next1(after)
  <2> HIDE DEF f
  <2> QED BY <1>6
<1>8. Ensure(list) = after[N]
  BY <1>2 DEF Ensure, N
<1> HIDE DEF after
<1>9. \A n \in 0..N : after[n] = Listed(prefix(n), top)
  <2> DEFINE G == {n \in 0..N : after[n] = Listed(prefix(n), top)}
  <2>1. 0 \in G
    <3>1. 0 \in 0..N
      BY <1>1
    <3>2. after[0] = Listed(<<>>, top)
      BY <1>7, <3>1
    <3> HIDE DEF prefix
    <3> QED BY <1>5, <3>1, <3>2
  <2>2. ASSUME NEW n \in 1..N, n - 1 \in G PROVE n \in G
    <3>1. after[n] = Repair(after[n - 1], s[n]) /\ n \in 0..N
      BY <1>1, <1>7
    <3> QED BY <1>4, <2>2, <3>1
  <2>3. \A n \in 0..N : n \in G
    <3> HIDE DEF G
    <3> QED BY <1>1, <2>1, <2>2, UpTo
  <2> QED BY <2>3
<1>10. prefix(N) = s
  <2>1. N \in 0..N
    BY <1>1
  <2>2. /\ prefix(N) \in Seq(Entry) /\ Len(prefix(N)) = Len(s)
        /\ \A i \in 1..Len(s) : prefix(N)[i] = s[i]
    BY <1>3, <2>1 DEF N
  <2> HIDE DEF prefix
  <2> QED BY <1>1, <2>2, SeqEqual
<1>11. N \in 0..N
  BY <1>1
<1> QED BY <1>8, <1>9, <1>10, <1>11

\* The stored collection as a collection of items whatever their IDs.
LEMMA Stored ==
  ASSUME TypeOK, Unique(items)
  PROVE  issued \in Nat /\ items \in Collections(issued)
<1>1. issued \in Nat
  BY BoundAssumption DEF TypeOK
<1>2. Item \subseteq Entry
  BY BoundAssumption DEF Item, Entry, Invented
<1>3. items \in Seq(Entry)
  BY <1>2, SeqDef DEF TypeOK
<1> QED BY <1>1, <1>3 DEF Collections, TypeOK

\* What the model may answer is a list of items.
LEMMA Answered ==
  ASSUME TypeOK, NEW texts \in SUBSET Text, NEW next \in Answers(texts)
  PROVE  next \in Seq(Entry)
<1> DEFINE E == [id : (0..issued) \cup {Invented}, name : Names, text : texts]
<1>1. E \subseteq Entry
  BY BoundAssumption DEF TypeOK, Entry, Invented
<1>2. next \in BoundedSeq(E, MaxItems)
  BY DEF Answers
<1> HIDE DEF E
<1>3. PICK m \in 0..MaxItems : next \in [1..m -> E]
  BY <1>2 DEF BoundedSeq, SeqOf
<1>4. m \in Nat
  BY BoundAssumption
<1>5. next \in [1..m -> Entry]
  BY <1>1, <1>3
<1> QED BY <1>4, <1>5, SeqDef

\* normalizeItem leaves a text that a brief can hold.
LEMMA NormalizedTexts == Normalized \subseteq Text
<1> SUFFICES ASSUME NEW text \in [value : Values \cup {None},
                                  status : {"proposed", "confirmed", "other"}]
             PROVE  Normal(text) \in Text
  BY DEF Normalized
<1>1. CASE text.value # None /\ text.status \in {"proposed", "confirmed"}
  BY <1>1 DEF Normal, Text
<1>2. CASE ~(text.value # None /\ text.status \in {"proposed", "confirmed"})
  BY <1>2 DEF Normal, Text
<1> QED BY <1>1, <1>2

\* A curation stores its collection as it is, IDs in order, with every locked
\* item in it.
LEMMA Curates ==
  ASSUME TypeOK, Unique(items), NEW next \in Seq(Entry)
  PROVE  LET list == Ensure(Curated(next)) IN
         /\ list.issued \in Nat /\ list.issued >= issued
         /\ list.items \in Collections(list.issued)
         /\ \A i \in DOMAIN items :
              items[i].text.status = "confirmed"
                => \E j \in DOMAIN list.items : list.items[j] = items[i]
<1> DEFINE known == Reconcile(items, next)
           top == known.issued
           s == known.items
           r == PreserveConfirmed(items, s)
           list == Ensure(Curated(next))
<1>1. known \in Settled
  BY Reconciled
<1>2. /\ known = Listed(s, top) /\ top \in Nat /\ top >= issued
      /\ s \in Seq(Entry) /\ Unique(s)
      /\ Ids(s) \subseteq Ids(items) \cup ((issued + 1)..top)
  <2> HIDE DEF known
  <2> QED BY <1>1 DEF Settled, ListType, Listed
<1>3. issued \in Nat /\ items \in Collections(issued)
  BY Stored
<1> HIDE DEF s, top, known
<1>4. s \in Collections(top) /\ items \in Collections(top)
  <2>1. 1..issued \subseteq 1..top /\ (issued + 1)..top \subseteq 1..top
    BY <1>2, <1>3
  <2> QED BY <1>2, <1>3, <2>1 DEF Collections
<1>5. /\ r \in Collections(top)
      /\ \A i \in DOMAIN items :
           items[i].text.status = "confirmed" => \E j \in DOMAIN r : r[j] = items[i]
  BY <1>2, <1>4, Preserved
<1>6. Curated(next) = Listed(r, top)
  <2>1. Curated(next) = [known EXCEPT !.items = PreserveConfirmed(items, @)]
    BY DEF Curated, known
  <2>2. known.items = s
    BY DEF s
  <2> QED BY <1>2, <2>1, <2>2 DEF Listed
<1> HIDE DEF r
<1>7. list = Listed(r, top)
  BY <1>2, <1>5, <1>6, EnsureIdle
<1>8. list.items = r /\ list.issued = top
  BY <1>7 DEF Listed
<1> HIDE DEF list
<1> QED BY <1>2, <1>5, <1>8 DEF list

\* A confirmation stores the collection with its topic's item confirmed, and
\* no other changed.
LEMMA Confirms ==
  ASSUME TypeOK, Unique(items), NEW topic, NEW value \in Values
  PROVE  LET list == Ensure(Listed(Apply(topic, value), issued)) IN
         /\ list.issued = issued /\ list.items = Apply(topic, value)
         /\ list.items \in Collections(issued)
<1> DEFINE text == [value |-> value, status |-> "confirmed"]
           s == Apply(topic, value)
<1>1. issued \in Nat /\ items \in Collections(issued)
  BY Stored
<1>2. /\ items \in Seq(Entry) /\ Len(items) \in Nat /\ DOMAIN items = 1..Len(items)
      /\ Unique(items) /\ Ids(items) \subseteq 1..issued
  BY <1>1 DEF Collections
<1>3. text \in Text
  BY DEF Text
<1>4. s = [i \in 1..Len(items) |-> IF items[i].id = topic
                                   THEN [items[i] EXCEPT !.text = text]
                                   ELSE items[i]]
  BY <1>2 DEF Apply
<1> HIDE DEF text, s
<1>5. \A i \in 1..Len(items) : s[i] \in Entry /\ s[i].id = items[i].id
  <2> SUFFICES ASSUME NEW i \in 1..Len(items)
               PROVE  s[i] \in Entry /\ s[i].id = items[i].id
    OBVIOUS
  <2>1. items[i] \in Entry
    BY <1>2
  <2>2. [items[i] EXCEPT !.text = text] \in Entry
        /\ [items[i] EXCEPT !.text = text].id = items[i].id
    BY <1>3, <2>1 DEF Entry
  <2> QED BY <1>4, <2>1, <2>2
<1>6. DOMAIN s = DOMAIN items
  BY <1>2, <1>4
<1>7. s \in Seq(Entry)
  <2>1. s \in [1..Len(items) -> Entry]
    BY <1>4, <1>5
  <2> QED BY <1>2, <2>1, SeqDef
<1>8. Unique(s) /\ Ids(s) \subseteq 1..issued
  BY <1>2, <1>5, <1>6 DEF Unique, Ids
<1>9. s \in Collections(issued)
  BY <1>7, <1>8 DEF Collections
<1>10. Ensure(Listed(s, issued)) = Listed(s, issued)
  BY <1>1, <1>9, EnsureIdle
<1> QED BY <1>9, <1>10 DEF Listed, s

-----------------------------------------------------------------------------
(***************************************************************************)
(* Theorems                                                                *)
(***************************************************************************)
\* What is stored has the type of a collection.
LEMMA StoredType ==
  ASSUME NEW list, list.issued \in Nat, list.items \in Collections(list.issued),
         Store(list)
  PROVE  /\ items' \in Seq(Item) /\ issued' \in 0..MaxIds
         /\ Ids(items') \subseteq 1..issued' /\ Unique(items')
<1> DEFINE s == list.items
           top == list.issued
<1>1. items' = s /\ issued' = top /\ top <= MaxIds
  BY DEF Store
<1>2. s \in Seq(Entry) /\ Unique(s) /\ Ids(s) \subseteq 1..top /\ top \in Nat
  BY DEF Collections
<1> HIDE DEF s, top
<1>3. ASSUME NEW i \in 1..Len(s) PROVE s[i] \in Item
  <2>1. s[i] \in Entry /\ i \in DOMAIN s
    BY <1>2
  <2>2. s[i].id \in 1..top
    BY <1>2, <2>1 DEF Ids
  <2>3. s[i].id \in 0..Invented
    BY <1>1, <1>2, <2>2, BoundAssumption DEF Invented
  <2>4. s[i] = [id |-> s[i].id, name |-> s[i].name, text |-> s[i].text]
        /\ s[i].name \in Names /\ s[i].text \in Text
    BY <2>1 DEF Entry
  <2> QED BY <2>3, <2>4 DEF Item
<1>4. s \in Seq(Item)
  <2>1. s \in [1..Len(s) -> Item] /\ Len(s) \in Nat
    BY <1>2, <1>3
  <2> QED BY <2>1, SeqDef
<1>5. top \in 0..MaxIds
  BY <1>1, <1>2, BoundAssumption
<1> QED BY <1>1, <1>2, <1>4, <1>5

\* Type correctness, and what makes IDs identities: at any time no two items
\* of a collection share one.
THEOREM TopicsUnique == Spec => [](TypeOK /\ Unique(items))
<1>1. Init => TypeOK /\ Unique(items)
  <2> SUFFICES ASSUME Init PROVE TypeOK /\ Unique(items)
    OBVIOUS
  <2>1. items = <<>> /\ DOMAIN items = {} /\ issued = 0 /\ threads = {}
    BY DEF Init
  <2>2. items \in Seq(Item) /\ 0 \in 0..MaxIds
    BY <2>1, EmptySeq, BoundAssumption
  <2> QED BY <2>1, <2>2 DEF TypeOK, Unique, Ids
<1>2. TypeOK /\ Unique(items) /\ [Next]_vars => TypeOK' /\ Unique(items)'
  <2> SUFFICES ASSUME TypeOK, Unique(items), [Next]_vars
               PROVE  TypeOK' /\ Unique(items)'
    OBVIOUS
  <2>1. CASE Curate
    <3>1. PICK next \in Answers(Normalized) : Store(Ensure(Curated(next)))
      BY <2>1 DEF Curate
    <3>2. next \in Seq(Entry)
      BY Answered, NormalizedTexts
    <3> DEFINE list == Ensure(Curated(next))
    <3>3. /\ list.issued \in Nat /\ list.issued >= issued
          /\ list.items \in Collections(list.issued)
      BY <3>2, Curates
    <3>4. issued' = list.issued /\ threads' = threads
      BY <2>1, <3>1 DEF Curate, Store
    <3> HIDE DEF list
    <3>5. /\ items' \in Seq(Item) /\ issued' \in 0..MaxIds
          /\ Ids(items') \subseteq 1..issued' /\ Unique(items')
      BY <3>1, <3>3, StoredType DEF list
    <3>6. threads' \subseteq 1..issued'
      BY <3>3, <3>4, BoundAssumption DEF TypeOK
    <3> QED BY <3>5, <3>6 DEF TypeOK, Unique, Ids
  <2>2. ASSUME NEW topic \in 1..issued, OpenThread(topic)
        PROVE  TypeOK' /\ Unique(items)'
    BY <2>2 DEF OpenThread, TypeOK, Unique, Ids
  <2>3. ASSUME NEW topic \in 1..issued, NEW value \in Values, Confirm(topic, value)
        PROVE  TypeOK' /\ Unique(items)'
    <3> DEFINE list == Ensure(Listed(Apply(topic, value), issued))
    <3>1. /\ Store(list) /\ issued' = list.issued /\ threads' = threads \ {topic}
      BY <2>3 DEF Confirm, Store
    <3>2. list.issued = issued /\ list.items \in Collections(issued) /\ issued \in Nat
      BY Confirms, Stored
    <3> HIDE DEF list
    <3>3. /\ items' \in Seq(Item) /\ issued' \in 0..MaxIds
          /\ Ids(items') \subseteq 1..issued' /\ Unique(items')
      BY <3>1, <3>2, StoredType
    <3>4. threads' \subseteq 1..issued'
      BY <3>1, <3>2 DEF TypeOK
    <3> QED BY <3>3, <3>4 DEF TypeOK, Unique, Ids
  <2>4. CASE UNCHANGED vars
    BY <2>4 DEF vars, TypeOK, Unique, Ids
  <2> QED BY <2>1, <2>2, <2>3, <2>4 DEF Next
<1> QED BY <1>1, <1>2, PTL DEF Spec

\* The comment on Reconcile: IDs are the application's, and an unambiguous
\* name keeps its own unless the model moves IDs between names.
THEOREM ReconcileKeepsIdentity == Spec => []ReconcileContract
<1>1. TypeOK => ReconcileContract
  <2> SUFFICES ASSUME TypeOK, NEW next \in Answers({Unknown})
               PROVE  LET list == Reconcile(items, next) IN
                      /\ ApplicationOwned(list)
                      /\ Consistent(next) => NamedSurvive(next, list)
    BY DEF ReconcileContract
  <2>1. {Unknown} \subseteq Text
    BY DEF Text
  <2>2. next \in Seq(Entry)
    BY <2>1, Answered
  <2> DEFINE list == Reconcile(items, next)
  <2>3. list \in Settled /\ (Consistent(next) => NamedSurvive(next, list))
    BY <2>2, Reconciled
  <2>4. ApplicationOwned(list)
    BY <2>3 DEF Settled, ApplicationOwned
  <2> QED BY <2>3, <2>4
<1> QED BY <1>1, TopicsUnique, PTL

\* Whatever the model answers, a confirmed item stays as it is until a thread
\* on it confirms another value.
THEOREM LockedStay == Spec => LockedKept
<1> DEFINE Kept == \A i \in DOMAIN items :
                     items[i].text.status = "confirmed" =>
                       \/ \E j \in DOMAIN items' : items'[j] = items[i]
                       \/ \E value \in Values :
                            /\ items[i].id \in threads \ threads'
                            /\ \E j \in DOMAIN items' :
                                 items'[j] = [items[i] EXCEPT !.text =
                                   [value |-> value, status |-> "confirmed"]]
<1>1. TypeOK /\ Unique(items) /\ [Next]_vars => Kept
  <2> SUFFICES ASSUME TypeOK, Unique(items), [Next]_vars,
                      NEW i \in DOMAIN items, items[i].text.status = "confirmed"
               PROVE  \/ \E j \in DOMAIN items' : items'[j] = items[i]
                      \/ \E value \in Values :
                           /\ items[i].id \in threads \ threads'
                           /\ \E j \in DOMAIN items' :
                                items'[j] = [items[i] EXCEPT !.text =
                                  [value |-> value, status |-> "confirmed"]]
    OBVIOUS
  <2>1. CASE Curate
    <3>1. PICK next \in Answers(Normalized) : Store(Ensure(Curated(next)))
      BY <2>1 DEF Curate
    <3>2. next \in Seq(Entry)
      BY Answered, NormalizedTexts
    <3>3. items' = Ensure(Curated(next)).items
      BY <3>1 DEF Store
    <3>4. \E j \in DOMAIN Ensure(Curated(next)).items :
            Ensure(Curated(next)).items[j] = items[i]
      BY <3>2, Curates
    <3> QED BY <3>3, <3>4
  <2>2. ASSUME NEW topic \in 1..issued, OpenThread(topic)
        PROVE  \E j \in DOMAIN items' : items'[j] = items[i]
    BY <2>2 DEF OpenThread
  <2>3. ASSUME NEW topic \in 1..issued, NEW value \in Values, Confirm(topic, value)
        PROVE  \/ \E j \in DOMAIN items' : items'[j] = items[i]
               \/ /\ items[i].id \in threads \ threads'
                  /\ \E j \in DOMAIN items' :
                       items'[j] = [items[i] EXCEPT !.text =
                         [value |-> value, status |-> "confirmed"]]
    <3>1. items' = Apply(topic, value)
      <4>1. Ensure(Listed(Apply(topic, value), issued)).items = Apply(topic, value)
        BY Confirms
      <4> QED BY <2>3, <4>1 DEF Confirm, Store
    <3>2. topic \in threads /\ threads' = threads \ {topic}
      BY <2>3 DEF Confirm
    <3>3. i \in DOMAIN items'
      BY <3>1 DEF Apply
    <3>4. CASE items[i].id = topic
      <4>1. items'[i] = [items[i] EXCEPT !.text =
                           [value |-> value, status |-> "confirmed"]]
        BY <3>1, <3>4 DEF Apply
      <4>2. items[i].id \in threads \ threads'
        BY <3>2, <3>4
      <4> QED BY <3>3, <4>1, <4>2
    <3>5. CASE items[i].id # topic
      <4>1. items'[i] = items[i]
        BY <3>1, <3>5 DEF Apply
      <4> QED BY <3>3, <4>1
    <3> QED BY <3>4, <3>5
  <2>4. CASE UNCHANGED vars
    BY <2>4 DEF vars
  <2> QED BY <2>1, <2>2, <2>3, <2>4 DEF Next
<1>2. Spec => [][Kept]_vars
  BY <1>1, TopicsUnique, PTL DEF Spec
<1> QED BY <1>2 DEF LockedKept
=============================================================================
