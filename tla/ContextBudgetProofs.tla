------------------------ MODULE ContextBudgetProofs ------------------------
(* Theorems about the context compiler, for conversations of any length    *)
(* and sections of any size.                                               *)
EXTENDS ContextBudget, FiniteSetTheorems, SequenceTheorems, TLAPS

-----------------------------------------------------------------------------
(***************************************************************************)
(* Induction and counting.  Sets and functions stand for the predicates    *)
(* and operators that the provers cannot instantiate.                      *)
(***************************************************************************)

\* Induction over the natural numbers: were one missing, the missing numbers
\* up to it would be mapped one to one into themselves by the predecessor,
\* without reaching it.
LEMMA Induction ==
  ASSUME NEW T \in SUBSET Nat, 0 \in T, \A n \in T : n + 1 \in T
  PROVE  T = Nat
<1> SUFFICES ASSUME NEW m \in Nat, m \notin T PROVE FALSE
  OBVIOUS
<1> DEFINE U == (0..m) \ T
           pred == [n \in U |-> n - 1]
<1>1. IsFiniteSet(U)
  <2>1. IsFiniteSet(0..m)
    BY FS_Interval
  <2> QED BY <2>1, FS_Difference
<1>2. ASSUME NEW n \in U PROVE n - 1 \in U
  <2>1. n \in Nat /\ n # 0 /\ n - 1 \in Nat /\ (n - 1) + 1 = n
    OBVIOUS
  <2> QED BY <2>1
<1>3. pred \in Injection(U, U)
  <2>1. pred \in [U -> U]
    BY <1>2
  <2>2. \A a, b \in U : pred[a] = pred[b] => a = b
    OBVIOUS
  <2> QED BY <2>1, <2>2 DEF Injection, IsInjective
<1>4. pred \in Surjection(U, U)
  BY <1>1, <1>3, FS_Injection
<1>5. PICK n \in U : pred[n] = m
  <2>1. m \in U
    OBVIOUS
  <2> QED BY <1>4, <2>1 DEF Surjection
<1> QED BY <1>5

\* What the functions of a recursion over 0..N are, and their steps.
Steps(X, N) == [X \X (1..N) -> X]
Results(X, base, N, step) ==
  {f \in [0..N -> X] :
     f[0] = base /\ \A n \in 1..N : f[n] = step[<<f[n - 1], n>>]}

\* A function can be defined by recursion over 0..N.
LEMMA Recursion ==
  ASSUME NEW X, NEW base \in X, NEW N \in Nat, NEW step \in Steps(X, N)
  PROVE  Results(X, base, N, step) # {}
<1> USE DEF Steps
<1> DEFINE Good(f, k) ==
             f[0] = base /\ \A n \in 1..k : f[n] = step[<<f[n - 1], n>>]
           T == {k \in Nat : k <= N => \E f \in [0..k -> X] : Good(f, k)}
<1>1. 0 \in T
  <2>1. Good([n \in 0..0 |-> base], 0) /\ [n \in 0..0 |-> base] \in [0..0 -> X]
    OBVIOUS
  <2> HIDE DEF Good
  <2> QED BY <2>1
<1>2. ASSUME NEW k \in T PROVE k + 1 \in T
  <2> SUFFICES ASSUME k + 1 <= N
               PROVE  \E f \in [0..(k + 1) -> X] : Good(f, k + 1)
    OBVIOUS
  <2>1. PICK f \in [0..k -> X] : Good(f, k)
    OBVIOUS
  <2> DEFINE g == [n \in 0..(k + 1) |->
                     IF n <= k THEN f[n] ELSE step[<<f[k], k + 1>>]]
  <2>2. g \in [0..(k + 1) -> X]
    <3>1. k \in 0..k /\ k + 1 \in 1..N
      OBVIOUS
    <3>2. f[k] \in X
      BY <3>1
    <3> QED BY <3>1, <3>2
  <2>3. Good(g, k + 1)
    <3>1. g[0] = base
      BY <2>1
    <3>2. ASSUME NEW n \in 1..(k + 1) PROVE g[n] = step[<<g[n - 1], n>>]
      <4>1. CASE n <= k
        <5>1. n \in 1..k /\ n \in 0..(k + 1) /\ n - 1 \in 0..(k + 1)
              /\ n - 1 <= k
          BY <4>1
        <5>2. g[n] = f[n] /\ g[n - 1] = f[n - 1]
          BY <5>1
        <5> QED BY <2>1, <5>1, <5>2
      <4>2. CASE n = k + 1
        <5>1. n \in 0..(k + 1) /\ n - 1 = k /\ k \in 0..(k + 1) /\ ~(n <= k)
          BY <4>2
        <5>2. g[n] = step[<<f[k], k + 1>>] /\ g[k] = f[k]
          BY <5>1
        <5> QED BY <4>2, <5>1, <5>2
      <4> QED BY <4>1, <4>2
    <3> QED BY <3>1, <3>2
  <2> QED BY <2>2, <2>3
<1>3. T = Nat
  <2> HIDE DEF T
  <2>1. T \in SUBSET Nat
    BY DEF T
  <2> QED BY <1>1, <1>2, <2>1, Induction
<1>4. N \in T
  BY <1>3
<1> QED BY <1>4 DEF Results

\* A set of natural numbers with a bound has a greatest member.
LEMMA Greatest ==
  ASSUME NEW m \in Nat, NEW S \in SUBSET (0..m), S # {}
  PROVE  Max(S) \in S /\ \A x \in S : x <= Max(S)
<1> DEFINE T == {n \in Nat : \A R \in SUBSET (0..n) :
                   R # {} => \E x \in R : \A y \in R : x >= y}
<1>1. 0 \in T
  <2> SUFFICES ASSUME NEW R \in SUBSET (0..0), R # {}
               PROVE  \E x \in R : \A y \in R : x >= y
    OBVIOUS
  <2>1. \A x \in R : x = 0
    OBVIOUS
  <2>2. PICK x \in R : TRUE
    OBVIOUS
  <2>3. \A y \in R : x >= y
    BY <2>1
  <2> QED BY <2>3
<1>2. ASSUME NEW n \in T PROVE n + 1 \in T
  <2> SUFFICES ASSUME NEW R \in SUBSET (0..(n + 1)), R # {}
               PROVE  \E x \in R : \A y \in R : x >= y
    OBVIOUS
  <2>1. CASE n + 1 \in R
    BY <2>1
  <2>2. CASE n + 1 \notin R
    <3>1. R \in SUBSET (0..n)
      BY <2>2
    <3> QED BY <3>1
  <2> QED BY <2>1, <2>2
<1>3. T = Nat
  <2> HIDE DEF T
  <2>1. T \in SUBSET Nat
    BY DEF T
  <2> QED BY <1>1, <1>2, <2>1, Induction
<1>4. \E x \in S : \A y \in S : x >= y
  <2>1. m \in T
    BY <1>3
  <2> QED BY <2>1
<1>5. Max(S) \in S /\ \A y \in S : Max(S) >= y
  BY <1>4 DEF Max
<1> QED BY <1>5

\* In a finite set that R orders totally, a member is preceded by as many
\* members as its place says: one member to each place.
LEMMA Ranks ==
  ASSUME NEW S, IsFiniteSet(S), NEW R,
         \A x \in S : <<x, x>> \notin R,
         \A x, y, z \in S : <<x, y>> \in R /\ <<y, z>> \in R => <<x, z>> \in R,
         \A x, y \in S : x # y => <<x, y>> \in R \/ <<y, x>> \in R
  PROVE  LET rank == [x \in S |-> Cardinality({y \in S : <<y, x>> \in R})] IN
         /\ Cardinality(S) \in Nat
         /\ rank \in [S -> 0..(Cardinality(S) - 1)]
         /\ \A x, y \in S : <<x, y>> \in R <=> rank[x] < rank[y]
         /\ \A n \in 0..(Cardinality(S) - 1) : \E x \in S : rank[x] = n
<1> DEFINE Before(x) == {y \in S : <<y, x>> \in R}
           rank == [x \in S |-> Cardinality(Before(x))]
           N == Cardinality(S)
<1>1. N \in Nat
  BY FS_CardinalityType
<1>2. ASSUME NEW x \in S
      PROVE  /\ IsFiniteSet(Before(x)) /\ rank[x] \in Nat /\ rank[x] < N
  <2>1. Before(x) \in SUBSET S /\ x \notin Before(x)
    OBVIOUS
  <2>2. /\ IsFiniteSet(Before(x)) /\ Cardinality(Before(x)) <= N
        /\ N = Cardinality(Before(x)) => Before(x) = S
    BY <2>1, FS_Subset
  <2>3. Cardinality(Before(x)) \in Nat
    BY <2>2, FS_CardinalityType
  <2> QED BY <1>1, <2>1, <2>2, <2>3
<1>3. ASSUME NEW x \in S, NEW y \in S, <<x, y>> \in R
      PROVE  rank[x] < rank[y]
  <2>1. Before(x) \in SUBSET Before(y) /\ x \in Before(y) /\ x \notin Before(x)
    BY <1>3
  <2>2. /\ Cardinality(Before(x)) <= Cardinality(Before(y))
        /\ Cardinality(Before(y)) = Cardinality(Before(x))
             => Before(y) = Before(x)
    BY <1>2, <2>1, FS_Subset
  <2>3. rank[x] = Cardinality(Before(x)) /\ rank[y] = Cardinality(Before(y))
    OBVIOUS
  <2> HIDE DEF rank, Before
  <2> QED BY <1>2, <2>1, <2>2, <2>3
<1>4. rank \in [S -> 0..(N - 1)]
  <2>1. ASSUME NEW x \in S PROVE Cardinality(Before(x)) \in 0..(N - 1)
    <3>1. rank[x] = Cardinality(Before(x))
      OBVIOUS
    <3> HIDE DEF rank, Before, N
    <3> QED BY <1>1, <1>2, <3>1
  <2> HIDE DEF Before, N
  <2> QED BY <2>1
<1>5. \A x, y \in S : <<x, y>> \in R <=> rank[x] < rank[y]
  <2> SUFFICES ASSUME NEW x \in S, NEW y \in S
               PROVE  <<x, y>> \in R <=> rank[x] < rank[y]
    OBVIOUS
  <2> HIDE DEF rank
  <2>1. CASE <<x, y>> \in R
    BY <1>3, <2>1
  <2>2. CASE <<y, x>> \in R
    <3>1. rank[y] < rank[x] /\ rank[x] \in Nat /\ rank[y] \in Nat
      BY <1>2, <1>3, <2>2
    <3>2. <<x, y>> \notin R
      BY <2>2
    <3> QED BY <3>1, <3>2
  <2>3. CASE x = y
    <3>1. rank[x] \in Nat
      BY <1>2
    <3> QED BY <2>3, <3>1
  <2> QED BY <2>1, <2>2, <2>3
<1>6. \A n \in 0..(N - 1) : \E x \in S : rank[x] = n
  <2> HIDE DEF rank, N
  <2>1. IsFiniteSet(0..(N - 1)) /\ Cardinality(0..(N - 1)) = N
    <3>1. IsFiniteSet(0..(N - 1))
          /\ Cardinality(0..(N - 1)) = IF 0 > N - 1 THEN 0 ELSE (N - 1) - 0 + 1
      BY <1>1, FS_Interval
    <3> QED BY <1>1, <3>1
  <2>2. rank \in Injection(S, 0..(N - 1))
    <3>1. ASSUME NEW x \in S, NEW y \in S, x # y PROVE rank[x] # rank[y]
      <4>1. rank[x] < rank[y] \/ rank[y] < rank[x]
        BY <1>5, <3>1
      <4>2. rank[x] \in Nat /\ rank[y] \in Nat
        BY <1>2
      <4> QED BY <4>1, <4>2
    <3> QED BY <1>4, <3>1 DEF Injection, IsInjective
  <2>3. rank \in Surjection(S, 0..(N - 1))
    BY <2>1, <2>2, FS_Injection DEF N
  <2> QED BY <2>3 DEF Surjection
<1> QED BY <1>1, <1>4, <1>5, <1>6

-----------------------------------------------------------------------------
(***************************************************************************)
(* Lists of indices.                                                       *)
(***************************************************************************)

\* A list of indices of the thread in ascending order.
Rising(list) ==
  /\ list \in Seq(1..Len(thread))
  /\ \A m, n \in 1..Len(list) : m < n => list[m] < list[n]

\* Ascending lists the members of a finite set of numbers, each once, the
\* lesser before the greater.
LEMMA AscendingLists ==
  ASSUME NEW I \in SUBSET Nat, IsFiniteSet(I)
  PROVE  /\ Ascending(I) \in Seq(I)
         /\ Len(Ascending(I)) = Cardinality(I) /\ Cardinality(I) \in Nat
         /\ \A i \in I : \E n \in 1..Cardinality(I) : Ascending(I)[n] = i
         /\ \A m, n \in 1..Cardinality(I) :
              m < n => Ascending(I)[m] < Ascending(I)[n]
<1> DEFINE R == {p \in I \X I : p[1] < p[2]}
           before(i) == {j \in I : j < i}
           rank == [i \in I |-> Cardinality({j \in I : <<j, i>> \in R})]
           N == Cardinality(I)
<1>1. \A i, j \in I : <<i, j>> \in R <=> i < j
  OBVIOUS
<1>2. /\ N \in Nat
      /\ rank \in [I -> 0..(N - 1)]
      /\ \A i, j \in I : <<i, j>> \in R <=> rank[i] < rank[j]
      /\ \A n \in 0..(N - 1) : \E i \in I : rank[i] = n
  <2>1. /\ \A x \in I : <<x, x>> \notin R
        /\ \A x, y, z \in I : <<x, y>> \in R /\ <<y, z>> \in R => <<x, z>> \in R
        /\ \A x, y \in I : x # y => <<x, y>> \in R \/ <<y, x>> \in R
    BY <1>1
  <2> HIDE DEF R
  <2> QED BY <2>1, Ranks
<1>3. ASSUME NEW i \in I PROVE rank[i] = Cardinality(before(i))
  <2>1. {j \in I : <<j, i>> \in R} = before(i)
    BY <1>1
  <2> HIDE DEF R, before
  <2> QED BY <2>1
<1> DEFINE list == [n \in 1..N |-> CHOOSE i \in I : Cardinality(before(i)) = n - 1]
<1>4. Ascending(I) = list
  BY DEF Ascending
<1> HIDE DEF rank, before, N
<1>5. ASSUME NEW n \in 1..N PROVE list[n] \in I /\ rank[list[n]] = n - 1
  <2>1. n - 1 \in 0..(N - 1)
    BY <1>2
  <2>2. \E i \in I : Cardinality(before(i)) = n - 1
    BY <1>2, <1>3, <2>1
  <2>3. list[n] = CHOOSE i \in I : Cardinality(before(i)) = n - 1
    OBVIOUS
  <2>4. list[n] \in I /\ Cardinality(before(list[n])) = n - 1
    BY <2>2, <2>3
  <2> QED BY <1>3, <2>4
<1>6. list \in Seq(I) /\ Len(list) = N
  <2>1. list \in [1..N -> I]
    BY <1>5
  <2> QED BY <1>2, <2>1
<1> HIDE DEF list
<1>7. ASSUME NEW i \in I PROVE \E n \in 1..N : list[n] = i
  <2>1. rank[i] + 1 \in 1..N
    BY <1>2
  <2> DEFINE n == rank[i] + 1
  <2>2. list[n] \in I /\ rank[list[n]] = rank[i]
    <3>1. list[n] \in I /\ rank[list[n]] = n - 1
      BY <1>5, <2>1
    <3>2. rank[i] \in Nat
      BY <1>2
    <3> QED BY <3>1, <3>2
  <2>3. list[n] = i
    <3> DEFINE l == list[n]
    <3>1. l \in I /\ rank[l] = rank[i] /\ rank[i] \in Int
      BY <1>2, <2>2
    <3> HIDE DEF l
    <3>2. <<l, i>> \notin R /\ <<i, l>> \notin R
      BY <1>2, <3>1
    <3>3. ~(l < i) /\ ~(i < l)
      BY <1>1, <3>1, <3>2
    <3>4. l = i
      BY <3>1, <3>3
    <3> QED BY <3>4 DEF l
  <2> QED BY <2>1, <2>3
<1>8. ASSUME NEW m \in 1..N, NEW n \in 1..N, m < n PROVE list[m] < list[n]
  <2>1. /\ list[m] \in I /\ rank[list[m]] = m - 1
        /\ list[n] \in I /\ rank[list[n]] = n - 1
    BY <1>5
  <2>2. rank[list[m]] < rank[list[n]]
    BY <1>2, <1>8, <2>1
  <2> QED BY <1>1, <1>2, <2>1, <2>2
<1> QED BY <1>2, <1>4, <1>6, <1>7, <1>8 DEF N

\* The conversation is a list of messages in their order.
LEMMA ConversationRises ==
  ASSUME thread \in Seq(Message)
  PROVE  Rising(Conversation)
<1> DEFINE I == {i \in 1..Len(thread) : thread[i].speaker # "other"}
<1>1. Len(thread) \in Nat /\ I \in SUBSET (1..Len(thread)) /\ I \in SUBSET Nat
  OBVIOUS
<1>2. IsFiniteSet(I)
  <2>1. IsFiniteSet(1..Len(thread))
    BY <1>1, FS_Interval
  <2> QED BY <1>1, <2>1, FS_Subset
<1>3. Conversation = Ascending(I)
  BY DEF Conversation
<1> HIDE DEF I
<1>4. /\ Ascending(I) \in Seq(I)
      /\ Len(Ascending(I)) = Cardinality(I)
      /\ \A m, n \in 1..Cardinality(I) :
           m < n => Ascending(I)[m] < Ascending(I)[n]
  BY <1>1, <1>2, AscendingLists
<1>5. Ascending(I) \in Seq(1..Len(thread))
  BY <1>1, <1>4, SeqMonotonic
<1> QED BY <1>3, <1>4, <1>5 DEF Rising

\* The latest message of a user in a list: it is one, and no later one is.
LEMMA LatestIsLast ==
  ASSUME NEW list, Len(list) \in Nat
  PROVE  /\ LatestUser(list) \in 0..Len(list)
         /\ LatestUser(list) # 0 => IsUser(list[LatestUser(list)])
         /\ \A i \in 1..Len(list) : IsUser(list[i]) => i <= LatestUser(list)
<1> DEFINE I == {i \in 1..Len(list) : IsUser(list[i])}
<1>1. LatestUser(list) = IF I # {} THEN Max(I) ELSE 0
  BY DEF LatestUser, SelectLastInSeq
<1>2. CASE I = {}
  BY <1>1, <1>2
<1>3. CASE I # {}
  <2>1. I \in SUBSET (0..Len(list))
    OBVIOUS
  <2>2. Max(I) \in I /\ \A x \in I : x <= Max(I)
    BY <1>3, <2>1, Greatest
  <2> QED BY <1>1, <1>3, <2>2
<1> QED BY <1>2, <1>3

\* The end of a list of messages is one, too.
LEMMA NewestRises ==
  ASSUME NEW list, Rising(list), NEW limit \in Nat
  PROVE  /\ Rising(Newest(list, limit))
         /\ Len(Newest(list, limit)) = IF Len(list) > limit THEN limit ELSE Len(list)
         /\ \A n \in 1..Len(Newest(list, limit)) :
              Newest(list, limit)[n] =
                list[Len(list) - Len(Newest(list, limit)) + n]
<1> DEFINE first == IF Len(list) > limit THEN Len(list) - limit + 1 ELSE 1
           new == Newest(list, limit)
<1>1. /\ Len(list) \in Nat /\ first \in Int /\ first >= 1
      /\ \A i \in 1..Len(list) : list[i] \in 1..Len(thread)
      /\ \A m, n \in 1..Len(list) : m < n => list[m] < list[n]
  BY DEF Rising
<1>2. new = SubSeq(list, first, Len(list))
  BY DEF Newest
<1>3. /\ new \in Seq(1..Len(thread))
      /\ Len(new) = IF first <= Len(list) THEN Len(list) - first + 1 ELSE 0
      /\ \A i \in 1..(Len(list) - first + 1) : new[i] = list[first + i - 1]
  <2> HIDE DEF first
  <2>1. \A i \in first..Len(list) : list[i] \in 1..Len(thread)
    BY <1>1
  <2> QED BY <1>1, <1>2, <2>1, SubSeqProperties
<1> HIDE DEF new
<1>4. Len(new) = IF Len(list) > limit THEN limit ELSE Len(list)
  <2>1. CASE Len(list) > limit
    <3>1. first = Len(list) - limit + 1
      BY <2>1
    <3> QED BY <1>1, <1>3, <2>1, <3>1
  <2>2. CASE ~(Len(list) > limit)
    <3>1. first = 1
      BY <2>2
    <3> QED BY <1>1, <1>3, <2>2, <3>1
  <2> QED BY <2>1, <2>2
<1>5. \A n \in 1..Len(new) : new[n] = list[Len(list) - Len(new) + n]
                              /\ Len(list) - Len(new) + n \in 1..Len(list)
  <2> SUFFICES ASSUME NEW n \in 1..Len(new)
               PROVE  /\ new[n] = list[Len(list) - Len(new) + n]
                      /\ Len(list) - Len(new) + n \in 1..Len(list)
    OBVIOUS
  <2>1. first + n - 1 = Len(list) - Len(new) + n /\ n \in 1..(Len(list) - first + 1)
    <3> HIDE DEF first
    <3>1. first <= Len(list)
      BY <1>1, <1>3
    <3> QED BY <1>1, <1>3, <3>1
  <2>2. Len(list) - Len(new) + n \in 1..Len(list)
    BY <1>1, <1>4
  <2> QED BY <1>3, <2>1, <2>2
<1> HIDE DEF first
<1>6. ASSUME NEW m \in 1..Len(new), NEW n \in 1..Len(new), m < n
      PROVE  new[m] < new[n]
  <2> DEFINE k == Len(list) - Len(new)
  <2>1. new[m] = list[k + m] /\ new[n] = list[k + n]
        /\ k + m \in 1..Len(list) /\ k + n \in 1..Len(list)
    BY <1>5
  <2>2. k \in Int
    BY <1>1, <1>3
  <2> HIDE DEF k
  <2>3. k + m < k + n
    BY <1>6, <2>2
  <2> QED BY <1>1, <2>1, <2>3
<1> QED BY <1>3, <1>4, <1>5, <1>6 DEF Rising, new

\* The focused window is a list of messages whose latest message of a user is
\* that of the whole conversation, wherever that was.
LEMMA WindowKeepsRequest ==
  ASSUME thread \in Seq(Message)
  PROVE  /\ Rising(Window)
         /\ LatestUser(Conversation) # 0 =>
              /\ LatestUser(Window) \in 1..Len(Window)
              /\ Window[LatestUser(Window)] =
                   Conversation[LatestUser(Conversation)]
<1> DEFINE C == Conversation
           w == Newest(C, FocusedMessageLimit)
           u == LatestUser(C)
           k == Len(C) - Len(w)
<1>1. /\ Rising(C) /\ Len(C) \in Nat
      /\ \A i \in 1..Len(C) : C[i] \in 1..Len(thread)
      /\ \A m, n \in 1..Len(C) : m < n => C[m] < C[n]
  BY ConversationRises DEF Rising
<1>2. FocusedMessageLimit \in Nat \ {0}
  BY LimitAssumption
<1> HIDE DEF C
<1>3. /\ Rising(w)
      /\ Len(w) = IF Len(C) > FocusedMessageLimit THEN FocusedMessageLimit
                  ELSE Len(C)
      /\ \A n \in 1..Len(w) : w[n] = C[k + n]
  BY <1>1, <1>2, NewestRises
<1>4. /\ u \in 0..Len(C)
      /\ u # 0 => IsUser(C[u])
      /\ \A i \in 1..Len(C) : IsUser(C[i]) => i <= u
  BY <1>1, LatestIsLast
<1>5. Window = IF u # 0 /\ u <= k THEN [w EXCEPT ![1] = C[u]] ELSE w
  BY DEF Window, C
<1> HIDE DEF w, u
<1>6. /\ Len(w) \in Nat /\ k \in Nat
      /\ w \in Seq(1..Len(thread))
      /\ \A m, n \in 1..Len(w) : m < n => w[m] < w[n]
      /\ \A n \in 1..Len(w) : k + n \in 1..Len(C)
  BY <1>1, <1>2, <1>3 DEF Rising
<1> HIDE DEF k
<1>7. CASE u # 0 /\ u <= k
  <2>1. Len(w) >= 1 /\ u \in 1..Len(C)
    <3>1. Len(C) > Len(w)
      BY <1>1, <1>4, <1>6, <1>7 DEF k
    <3>2. Len(w) = FocusedMessageLimit
      BY <1>1, <1>2, <1>3, <3>1
    <3> QED BY <1>2, <1>4, <1>7, <3>2
  <2>2. /\ Window \in Seq(1..Len(thread)) /\ Len(Window) = Len(w)
        /\ Window[1] = C[u]
        /\ \A n \in 2..Len(w) : Window[n] = C[k + n]
    <3>1. C[u] \in 1..Len(thread)
      BY <1>1, <2>1
    <3> QED BY <1>3, <1>5, <1>6, <1>7, <2>1, <3>1
  <2>3. ASSUME NEW m \in 1..Len(w), NEW n \in 1..Len(w), m < n
        PROVE  Window[m] < Window[n]
    <3>1. n \in 2..Len(w) /\ k + n \in 1..Len(C) /\ Window[n] = C[k + n]
      BY <1>6, <2>2, <2>3
    <3>2. CASE m = 1
      <4>1. u < k + n
        BY <1>4, <1>6, <1>7, <3>1
      <4> QED BY <1>1, <2>1, <2>2, <3>1, <3>2, <4>1
    <3>3. CASE m # 1
      <4>1. m \in 2..Len(w) /\ k + m \in 1..Len(C) /\ k + m < k + n
        BY <1>6, <2>3, <3>3
      <4> QED BY <1>1, <2>2, <3>1, <4>1
    <3> QED BY <3>2, <3>3
  <2>4. LatestUser(Window) = 1
    <3>1. /\ LatestUser(Window) \in 0..Len(Window)
          /\ LatestUser(Window) # 0 => IsUser(Window[LatestUser(Window)])
          /\ \A i \in 1..Len(Window) :
               IsUser(Window[i]) => i <= LatestUser(Window)
      BY <1>6, <2>2, LatestIsLast
    <3>2. 1 <= LatestUser(Window)
      BY <1>4, <1>7, <2>1, <2>2, <3>1
    <3>3. ASSUME NEW n \in 2..Len(w), n = LatestUser(Window) PROVE FALSE
      <4>1. IsUser(C[k + n])
        BY <2>2, <3>1, <3>3
      <4>2. k + n <= u
        BY <1>4, <1>6, <4>1
      <4> QED BY <1>4, <1>6, <1>7, <4>2
    <3> HIDE DEF k
    <3> QED BY <1>6, <2>2, <3>1, <3>2, <3>3
  <2> QED BY <1>6, <2>1, <2>2, <2>3, <2>4 DEF Rising, C, u
<1>8. CASE ~(u # 0 /\ u <= k)
  <2>1. Window = w
    BY <1>5, <1>8
  <2>2. ASSUME u # 0
        PROVE  LatestUser(w) \in 1..Len(w) /\ w[LatestUser(w)] = C[u]
    <3> DEFINE n == u - k
               v == LatestUser(w)
    <3>1. n \in 1..Len(w) /\ k + n = u
      BY <1>4, <1>6, <1>8, <2>2 DEF k
    <3> HIDE DEF n
    <3>2. IsUser(w[n])
      BY <1>3, <1>4, <2>2, <3>1
    <3>3. /\ v \in 0..Len(w)
          /\ v # 0 => IsUser(w[v])
          /\ \A i \in 1..Len(w) : IsUser(w[i]) => i <= v
      BY <1>6, LatestIsLast
    <3> HIDE DEF v
    <3>4. n <= v /\ v \in 1..Len(w)
      BY <1>6, <3>1, <3>2, <3>3
    <3>5. k + v <= u
      <4>1. IsUser(C[k + v]) /\ k + v \in 1..Len(C)
        BY <1>3, <1>6, <3>3, <3>4
      <4> QED BY <1>4, <4>1
    <3>6. v = n
      BY <1>4, <1>6, <3>1, <3>4, <3>5
    <3> QED BY <1>3, <3>1, <3>4, <3>6 DEF v
  <2> QED BY <1>3, <2>1, <2>2 DEF C, u
<1> QED BY <1>7, <1>8

\* The messages that were not dropped are a list of messages, too.
LEMMA KeptRises ==
  ASSUME NEW list, Rising(list), NEW taken
  PROVE  /\ Rising(KeptMessages(list, taken))
         /\ \A i \in 1..Len(list) :
              (\E s \in taken : s.name = "focused_message"
                                  /\ s.index = Len(list) - i)
                => Contains(KeptMessages(list, taken), list[i])
<1> DEFINE I == {i \in 1..Len(list) : \E s \in taken :
                   s.name = "focused_message" /\ s.index = Len(list) - i}
           kept == Ascending(I)
           mine == KeptMessages(list, taken)
<1>1. /\ Len(list) \in Nat
      /\ \A i \in 1..Len(list) : list[i] \in 1..Len(thread)
      /\ \A m, n \in 1..Len(list) : m < n => list[m] < list[n]
  BY DEF Rising
<1>2. mine = [n \in 1..Len(kept) |-> list[kept[n]]]
  BY DEF KeptMessages
<1>3. \A i \in 1..Len(list) : i \in I <=>
        \E s \in taken : s.name = "focused_message" /\ s.index = Len(list) - i
  OBVIOUS
<1>4. I \in SUBSET (1..Len(list))
  OBVIOUS
<1> HIDE DEF I, mine
<1>5. I \in SUBSET Nat /\ IsFiniteSet(I)
  <2>1. IsFiniteSet(1..Len(list))
    BY <1>1, FS_Interval
  <2>2. IsFiniteSet(I)
    BY <1>4, <2>1, FS_Subset
  <2>3. I \in SUBSET Nat
    BY <1>1, <1>4
  <2> QED BY <2>2, <2>3
<1>6. /\ kept \in Seq(I) /\ Len(kept) \in Nat
      /\ \A i \in I : \E n \in 1..Len(kept) : kept[n] = i
      /\ \A m, n \in 1..Len(kept) : m < n => kept[m] < kept[n]
  BY <1>5, AscendingLists
<1> HIDE DEF kept
<1>7. \A n \in 1..Len(kept) : kept[n] \in 1..Len(list)
  <2>1. ASSUME NEW n \in 1..Len(kept) PROVE kept[n] \in I
    BY <1>6, ElementOfSeq
  <2> QED BY <1>4, <2>1
<1>8. mine \in Seq(1..Len(thread)) /\ Len(mine) = Len(kept)
  <2>1. mine \in [1..Len(kept) -> 1..Len(thread)]
    BY <1>1, <1>2, <1>7
  <2> DEFINE length == Len(kept)
  <2>2. length \in Nat /\ mine \in [1..length -> 1..Len(thread)]
    BY <1>6, <2>1
  <2> HIDE DEF length
  <2>3. mine \in Seq(1..Len(thread)) /\ Len(mine) = length
    BY <2>2
  <2> QED BY <2>3 DEF length
<1>9. \A m, n \in 1..Len(mine) : m < n => mine[m] < mine[n]
  BY <1>1, <1>2, <1>6, <1>7, <1>8
<1>10. ASSUME NEW i \in I PROVE Contains(mine, list[i])
  <2>1. PICK n \in 1..Len(kept) : kept[n] = i
    BY <1>6
  <2>2. n \in 1..Len(mine) /\ mine[n] = list[i]
    BY <1>2, <1>8, <2>1
  <2> QED BY <2>2 DEF Contains
<1> QED BY <1>3, <1>8, <1>9, <1>10 DEF Rising, mine

-----------------------------------------------------------------------------
(***************************************************************************)
(* Sections and their tokens.                                              *)
(***************************************************************************)

\* Things that weigh a number of units each: a finite number of units.
LEMMA UnitsFinite ==
  ASSUME NEW S, IsFiniteSet(S), NEW weight \in [S -> Nat]
  PROVE  IsFiniteSet(UNION {{s} \X (1..weight[s]) : s \in S})
<1> DEFINE units == [s \in S |-> {s} \X (1..weight[s])]
           U == {units[s] : s \in S}
<1>1. ASSUME NEW s \in S PROVE IsFiniteSet(units[s])
  <2> DEFINE w == weight[s]
  <2>0. w \in Int /\ 1 \in Int
    OBVIOUS
  <2>1. IsFiniteSet({s}) /\ IsFiniteSet(1..w)
    <3> HIDE DEF w
    <3> QED BY <2>0, FS_Singleton, FS_Interval
  <2>2. IsFiniteSet({s} \X (1..weight[s]))
    BY <2>1, FS_Product
  <2> QED BY <2>2
<1>2. units \in Surjection(S, U)
  BY DEF Surjection
<1>3. IsFiniteSet(U)
  BY <1>2, FS_Surjection
<1>4. IsFiniteSet(UNION U)
  BY <1>1, <1>3, FS_UNION
<1>5. U = {{s} \X (1..weight[s]) : s \in S}
  OBVIOUS
<1> QED BY <1>4, <1>5

\* A list of messages has a length in bytes: none only if it is empty.
LEMMA BytesCounted ==
  ASSUME thread \in Seq(Message), NEW list, Rising(list)
  PROVE  /\ Bytes(list) \in Nat
         /\ Bytes(list) = 0 <=> Len(list) = 0
<1> DEFINE weight == [n \in 1..Len(list) |-> thread[list[n]].bytes]
           U == UNION {{n} \X (1..weight[n]) : n \in 1..Len(list)}
<1>1. /\ Len(list) \in Nat
      /\ \A n \in 1..Len(list) : list[n] \in 1..Len(thread)
  BY DEF Rising
<1>2. \A n \in 1..Len(list) : weight[n] \in Nat \ {0}
  <2> SUFFICES ASSUME NEW n \in 1..Len(list)
               PROVE  thread[list[n]].bytes \in Nat \ {0}
    OBVIOUS
  <2>1. thread[list[n]] \in Message
    BY <1>1
  <2> QED BY <2>1, LengthAssumption DEF Message
<1>3. IsFiniteSet(U)
  <2>1. weight \in [1..Len(list) -> Nat]
    BY <1>2
  <2>2. IsFiniteSet(1..Len(list))
    BY <1>1, FS_Interval
  <2> HIDE DEF weight
  <2> QED BY <2>1, <2>2, UnitsFinite
<1>4. U = UNION {{n} \X (1..thread[list[n]].bytes) : n \in 1..Len(list)}
  OBVIOUS
<1>5. Bytes(list) = Cardinality(U)
  BY <1>4 DEF Bytes
<1> HIDE DEF weight
<1>6. CASE Len(list) = 0
  <2>1. 1..Len(list) = {}
    BY <1>6
  <2>2. U = {}
    BY <2>1
  <2> HIDE DEF U
  <2>3. Bytes(list) = 0
    BY <1>5, <2>2, FS_EmptySet
  <2> QED BY <1>6, <2>3
<1>7. CASE Len(list) # 0
  <2>1. 1 \in 1..Len(list) /\ 1 \in 1..weight[1]
    BY <1>1, <1>2, <1>7
  <2>2. <<1, 1>> \in U
    BY <2>1
  <2> HIDE DEF U
  <2> QED BY <1>3, <1>5, <1>7, <2>2, FS_EmptySet, FS_CardinalityType
<1> QED BY <1>6, <1>7

\* The names of sections, and what a section is.
SectionName ==
  {"current_user", "recent_messages", "delta_messages", "focused_message",
   "confirmed_facts", "proposed_facts", "open_questions", "reference_state",
   "operational_state", "current_brief", "selected_topic",
   "global_constraints", "dependencies", "approved_brief",
   "explicit_requirements", "candidate_plan", "evaluation",
   "latest_prototype", "implementation_plan", "constraints"}
SectionType == [name : SectionName, index : Int, required : BOOLEAN,
                priority : Nat, bytes : Nat, present : BOOLEAN]

\* A section has a number of tokens.
LEMMA TokensCounted ==
  ASSUME NEW s \in SectionType
  PROVE  Tokens(s) \in Nat
<1>1. s.bytes \in Nat /\ BytesPerToken \in Nat \ {0}
  BY LimitAssumption DEF SectionType
<1> DEFINE b == s.bytes
<1>2. b + BytesPerToken - 1 \in Nat
  BY <1>1
<1> DEFINE t == b + BytesPerToken - 1
<1>3. t \div BytesPerToken \in Nat
  <2>1. t \in Nat
    BY <1>2
  <2> HIDE DEF t
  <2> QED BY <1>1, <2>1
<1> QED BY <1>3 DEF Tokens

\* A set of sections has an estimate, which grows with it.
LEMMA EstimateCounted ==
  ASSUME NEW S \in SUBSET SectionType, IsFiniteSet(S)
  PROVE  /\ Estimate(S) \in Nat
         /\ \A T \in SUBSET S : Estimate(T) <= Estimate(S)
<1> DEFINE weight == [s \in S |-> Tokens(s)]
<1>1. weight \in [S -> Nat]
  BY TokensCounted
<1>2. IsFiniteSet(Pieces(S))
  <2> DEFINE U == UNION {{s} \X (1..weight[s]) : s \in S}
  <2>1. U = Pieces(S)
    BY DEF Pieces
  <2> HIDE DEF weight
  <2>2. IsFiniteSet(U)
    BY <1>1, UnitsFinite
  <2> QED BY <2>1, <2>2
<1>3. ASSUME NEW T \in SUBSET S
      PROVE  IsFiniteSet(Pieces(T)) /\ Cardinality(Pieces(T)) <= Cardinality(Pieces(S))
  <2>1. Pieces(T) \in SUBSET Pieces(S)
    BY DEF Pieces
  <2> QED BY <1>2, <2>1, FS_Subset
<1>4. FixedTokens \in Nat
  BY LimitAssumption
<1>5. ASSUME NEW T \in SUBSET S PROVE Cardinality(Pieces(T)) \in Nat
  BY <1>3, FS_CardinalityType
<1> QED BY <1>3, <1>4, <1>5 DEF Estimate

\* The order of optional sections leaves no two of them equal.
Orderable(S) ==
  \A s, t \in S : s # t => s.priority # t.priority \/ s.index # t.index

\* InOrder lists some sections, each once, those of higher priority first.
LEMMA OrderLists ==
  ASSUME NEW S \in SUBSET SectionType, IsFiniteSet(S), Orderable(S)
  PROVE  /\ InOrder(S) \in Seq(S)
         /\ \A s \in S : \E n \in 1..Len(InOrder(S)) : InOrder(S)[n] = s
         /\ \A m, n \in 1..Len(InOrder(S)) :
              m < n => Precedes(InOrder(S)[m], InOrder(S)[n])
<1> DEFINE R == {p \in S \X S : Precedes(p[1], p[2])}
           before(s) == {t \in S : Precedes(t, s)}
           rank == [s \in S |-> Cardinality({t \in S : <<t, s>> \in R})]
           N == Cardinality(S)
<1>1. \A s, t \in S : <<s, t>> \in R <=> Precedes(s, t)
  OBVIOUS
<1>2. \A s \in S : s.priority \in Nat /\ s.index \in Int
  BY DEF SectionType
<1>3. /\ N \in Nat
      /\ rank \in [S -> 0..(N - 1)]
      /\ \A s, t \in S : <<s, t>> \in R <=> rank[s] < rank[t]
      /\ \A n \in 0..(N - 1) : \E s \in S : rank[s] = n
  <2>1. \A s \in S : <<s, s>> \notin R
    BY <1>1, <1>2 DEF Precedes
  <2>2. \A s, t, u \in S : <<s, t>> \in R /\ <<t, u>> \in R => <<s, u>> \in R
    BY <1>1, <1>2 DEF Precedes
  <2>3. \A s, t \in S : s # t => <<s, t>> \in R \/ <<t, s>> \in R
    BY <1>1, <1>2 DEF Precedes, Orderable
  <2> HIDE DEF R
  <2> QED BY <2>1, <2>2, <2>3, Ranks
<1>4. ASSUME NEW s \in S PROVE rank[s] = Cardinality(before(s))
  <2>1. {t \in S : <<t, s>> \in R} = before(s)
    BY <1>1
  <2> HIDE DEF R, before
  <2> QED BY <2>1
<1> DEFINE list == [n \in 1..N |-> CHOOSE s \in S : Cardinality(before(s)) = n - 1]
<1>5. InOrder(S) = list
  BY DEF InOrder
<1> HIDE DEF rank, before, N, R
<1>6. ASSUME NEW n \in 1..N PROVE list[n] \in S /\ rank[list[n]] = n - 1
  <2>1. n - 1 \in 0..(N - 1)
    BY <1>3
  <2>2. \E s \in S : Cardinality(before(s)) = n - 1
    BY <1>3, <1>4, <2>1
  <2>3. list[n] = CHOOSE s \in S : Cardinality(before(s)) = n - 1
    OBVIOUS
  <2>4. list[n] \in S /\ Cardinality(before(list[n])) = n - 1
    BY <2>2, <2>3
  <2> QED BY <1>4, <2>4
<1>7. list \in Seq(S) /\ Len(list) = N
  <2>1. list \in [1..N -> S]
    BY <1>6
  <2> HIDE DEF list
  <2> QED BY <1>3, <2>1
<1> HIDE DEF list
<1>8. ASSUME NEW s \in S PROVE \E n \in 1..N : list[n] = s
  <2> DEFINE n == rank[s] + 1
  <2>1. n \in 1..N /\ rank[s] \in Int
    BY <1>3
  <2>2. list[n] \in S /\ rank[list[n]] = n - 1
    BY <1>6, <2>1
  <2> DEFINE t == list[n]
  <2>3. t \in S /\ rank[t] = rank[s]
    BY <2>1, <2>2
  <2> HIDE DEF t
  <2>4. ~Precedes(t, s) /\ ~Precedes(s, t)
    <3>1. <<t, s>> \notin R /\ <<s, t>> \notin R
      BY <1>3, <2>1, <2>3
    <3> QED BY <1>1, <2>3, <3>1
  <2>5. t = s
    BY <1>2, <2>3, <2>4 DEF Precedes, Orderable
  <2> QED BY <2>1, <2>5 DEF t
<1>9. ASSUME NEW m \in 1..N, NEW n \in 1..N, m < n
      PROVE  Precedes(list[m], list[n])
  <2>1. /\ list[m] \in S /\ rank[list[m]] = m - 1
        /\ list[n] \in S /\ rank[list[n]] = n - 1
    BY <1>6
  <2>2. rank[list[m]] < rank[list[n]]
    BY <1>3, <1>9, <2>1
  <2> QED BY <1>1, <1>3, <2>1, <2>2
<1> QED BY <1>5, <1>7, <1>8, <1>9

\* Sections as the roles make them.
WellMade(S) ==
  /\ S \in SUBSET SectionType /\ IsFiniteSet(S)
  /\ \A s \in Required(S) : s.present
  /\ Orderable(Optional(S))

\* The selection as a sequence of trials: each adds its section or leaves
\* it.
LEMMA Selection ==
  ASSUME NEW S, WellMade(S), Estimate(Required(S)) <= MaxInputTokens
  PROVE  LET order == InOrder(Optional(S))
             N == Len(order)
         IN \E after :
              /\ after[0] = Required(S)
              /\ \A n \in 1..N : after[n] = Try(after[n - 1], order[n])
              /\ Taken(S) = after[N]
<1> DEFINE order == InOrder(Optional(S))
           N == Len(order)
           X == SUBSET (Required(S) \cup Optional(S))
           step == [p \in X \X (1..N) |-> Try(p[1], order[p[2]])]
<1>1. order \in Seq(Optional(S)) /\ N \in Nat
  <2>1. Optional(S) \in SUBSET S /\ Orderable(Optional(S))
    BY DEF Optional, WellMade
  <2>2. Optional(S) \in SUBSET SectionType /\ IsFiniteSet(Optional(S))
    BY <2>1, FS_Subset DEF WellMade
  <2>3. order \in Seq(Optional(S))
    BY <2>1, <2>2, OrderLists
  <2> QED BY <2>3
<1> HIDE DEF order
<1>2. step \in [X \X (1..N) -> X]
  <2> SUFFICES ASSUME NEW x \in X, NEW n \in 1..N PROVE Try(x, order[n]) \in X
    OBVIOUS
  <2>1. order[n] \in Optional(S)
    BY <1>1
  <2> QED BY <2>1 DEF Try
<1>3. Required(S) \in X
  OBVIOUS
<1>4. PICK f \in [0..N -> X] :
        f[0] = Required(S) /\ \A n \in 1..N : f[n] = step[<<f[n - 1], n>>]
  <2>1. step \in Steps(X, N) /\ N \in Nat
    BY <1>1, <1>2 DEF Steps
  <2> HIDE DEF step, X, N
  <2>2. Results(X, Required(S), N, step) # {}
    BY <1>3, <2>1, Recursion
  <2> QED BY <2>2 DEF Results
<1> DEFINE Next1(g) == [n \in 0..N |-> IF n = 0 THEN Required(S)
                                       ELSE Try(g[n - 1], order[n])]
<1>5. f = Next1(f)
  <2>1. ASSUME NEW n \in 1..N PROVE f[n] = Try(f[n - 1], order[n])
    <3>1. n - 1 \in 0..N
      BY <1>1
    <3>2. f[n - 1] \in X /\ f[n] = step[<<f[n - 1], n>>]
      <4> HIDE DEF X, step
      <4> QED BY <1>4, <3>1
    <3> QED BY <3>2
  <2>2. \A n \in 0..N : f[n] = IF n = 0 THEN Required(S)
                                ELSE Try(f[n - 1], order[n])
    BY <1>1, <1>4, <2>1
  <2> QED BY <1>4, <2>2
<1> DEFINE after == CHOOSE a : a = Next1(a)
<1>6. after = Next1(after)
  BY <1>5
<1>7. Taken(S) = after[N]
  BY DEF Taken, order
<1> HIDE DEF after
<1>8. after[0] = Required(S) /\ \A n \in 1..N : after[n] = Try(after[n - 1], order[n])
  BY <1>1, <1>6
<1> QED BY <1>7, <1>8 DEF order

\* What is taken fits, holds what is required, and is the best choice that
\* fits: when a section was refused, what had been taken before it is part of
\* every choice that is better from there on.
LEMMA SelectionFits ==
  ASSUME NEW S, WellMade(S), Estimate(Required(S)) <= MaxInputTokens
  PROVE  /\ Required(S) \subseteq Taken(S)
         /\ Taken(S) \subseteq Required(S) \cup Optional(S)
         /\ Estimate(Taken(S)) <= MaxInputTokens
         /\ \A T \in SUBSET Optional(S) :
              Better(T, Taken(S) \ Required(S))
                => Estimate(Required(S) \cup T) > MaxInputTokens
<1> DEFINE order == InOrder(Optional(S))
           N == Len(order)
           R == Required(S)
           O == Optional(S)
<1>1. /\ O \in SUBSET S /\ R \in SUBSET S /\ R \cap O = {}
      /\ S \in SUBSET SectionType /\ IsFiniteSet(S)
      /\ O \in SUBSET SectionType /\ IsFiniteSet(O) /\ Orderable(O)
  <2>1. O \in SUBSET S /\ R \in SUBSET S /\ R \cap O = {}
    BY DEF Optional, Required
  <2> QED BY <2>1, FS_Subset DEF WellMade
<1>2. /\ order \in Seq(O)
      /\ \A s \in O : \E n \in 1..N : order[n] = s
      /\ \A m, n \in 1..N : m < n => Precedes(order[m], order[n])
  BY <1>1, OrderLists
<1>3. PICK after :
        /\ after[0] = R
        /\ \A n \in 1..N : after[n] = Try(after[n - 1], order[n])
        /\ Taken(S) = after[N]
  BY Selection
<1> HIDE DEF order, R, O
<1>4. N \in Nat /\ \A n \in 1..N : order[n] \in O
  BY <1>2
<1> HIDE DEF N
<1> DEFINE Tried(n) ==
             /\ R \subseteq after[n] /\ Estimate(after[n]) <= MaxInputTokens
             /\ \A s \in after[n] \ R : \E k \in 1..n : s = order[k]
             /\ \A m \in 0..n : after[m] \subseteq after[n]
           M == {n \in Nat : n <= N => Tried(n)}
<1>5. 0 \in M
  <2>1. Tried(0)
    BY <1>3 DEF R
  <2> QED BY <2>1
<1>6. ASSUME NEW n \in M PROVE n + 1 \in M
  <2> SUFFICES ASSUME n + 1 <= N PROVE Tried(n + 1)
    OBVIOUS
  <2>1. Tried(n) /\ n + 1 \in 1..N /\ n \in Nat
    BY <1>4
  <2>2. after[n + 1] = Try(after[n], order[n + 1])
    BY <1>3, <2>1
  <2>3. \A m \in 0..(n + 1) : m \in 0..n \/ m = n + 1
    BY <2>1
  <2>4. CASE Estimate(after[n] \cup {order[n + 1]}) <= MaxInputTokens
    <3>1. after[n + 1] = after[n] \cup {order[n + 1]}
      BY <2>2, <2>4 DEF Try
    <3>2. \A s \in after[n + 1] \ R : \E k \in 1..(n + 1) : s = order[k]
      BY <2>1, <3>1
    <3>3. \A m \in 0..(n + 1) : after[m] \subseteq after[n + 1]
      BY <2>1, <2>3, <3>1
    <3> QED BY <2>1, <2>4, <3>1, <3>2, <3>3
  <2>5. CASE ~(Estimate(after[n] \cup {order[n + 1]}) <= MaxInputTokens)
    <3>1. after[n + 1] = after[n]
      BY <2>2, <2>5 DEF Try
    <3>2. \A s \in after[n + 1] \ R : \E k \in 1..(n + 1) : s = order[k]
      BY <2>1, <3>1
    <3>3. \A m \in 0..(n + 1) : after[m] \subseteq after[n + 1]
      BY <2>1, <2>3, <3>1
    <3> QED BY <2>1, <3>1, <3>2, <3>3
  <2> QED BY <2>4, <2>5
<1>7. ASSUME NEW n \in 0..N PROVE Tried(n)
  <2> HIDE DEF Tried
  <2>1. M \in SUBSET Nat
    OBVIOUS
  <2>2. M = Nat
    <3> HIDE DEF M
    <3> QED BY <1>5, <1>6, <2>1, Induction
  <2>3. n \in M
    BY <1>4, <2>2
  <2> QED BY <1>4, <2>3
<1>8. Tried(N)
  BY <1>4, <1>7
<1>9. after[N] \subseteq R \cup O
  BY <1>4, <1>8
<1>10. ASSUME NEW T \in SUBSET O, Better(T, after[N] \ R)
       PROVE  Estimate(R \cup T) > MaxInputTokens
  <2> DEFINE U == after[N] \ R
  <2>1. PICK s \in T \ U : \A t \in (T \ U) \cup (U \ T) : t = s \/ Precedes(s, t)
    BY <1>10 DEF Better
  <2>2. PICK n \in 1..N : order[n] = s
    BY <1>2, <2>1
  <2>3. after[n - 1] \subseteq R \cup T
    <3> SUFFICES ASSUME NEW t \in after[n - 1], t \notin R PROVE t \in T
      OBVIOUS
    <3>1. n - 1 \in 0..N
      BY <1>4
    <3>2. PICK k \in 1..(n - 1) : t = order[k]
      BY <1>7, <3>1
    <3>3. t \in U
      BY <1>8, <3>1
    <3>4. k \in 1..N /\ k < n
      BY <1>4
    <3>5. Precedes(t, s)
      BY <1>2, <2>2, <3>2, <3>4
    <3>6. s \in SectionType /\ t \in SectionType
      BY <1>1, <1>4, <2>2, <3>2, <3>4
    <3>7. ~Precedes(s, t) /\ t # s
      BY <3>5, <3>6 DEF Precedes, SectionType
    <3> QED BY <2>1, <3>3, <3>7
  <2>4. after[n] = after[n - 1]
        /\ ~(Estimate(after[n - 1] \cup {s}) <= MaxInputTokens)
    <3>1. after[n] = Try(after[n - 1], s)
      BY <1>3, <2>2
    <3>2. s \notin after[n]
      <4>1. s \notin after[N]
        BY <1>1, <2>1
      <4>2. after[n] \subseteq after[N]
        BY <1>4, <1>8
      <4> QED BY <4>1, <4>2
    <3> QED BY <3>1, <3>2 DEF Try
  <2> DEFINE A == after[n - 1] \cup {s}
             B == R \cup T
  <2>5. A \in SUBSET B /\ B \in SUBSET SectionType /\ IsFiniteSet(B)
    <3>1. B \in SUBSET S
      BY <1>1
    <3>2. IsFiniteSet(B)
      BY <1>1, <3>1, FS_Subset
    <3>3. A \in SUBSET B
      BY <2>1, <2>3
    <3> QED BY <1>1, <3>1, <3>2, <3>3
  <2> HIDE DEF A, B
  <2>6. /\ Estimate(B) \in Nat /\ Estimate(A) <= Estimate(B)
        /\ Estimate(A) \in Nat
    <3>1. A \in SUBSET SectionType /\ IsFiniteSet(A)
      BY <2>5, FS_Subset
    <3> QED BY <2>5, <3>1, EstimateCounted
  <2>7. ~(Estimate(A) <= MaxInputTokens) /\ MaxInputTokens \in Nat
    BY <2>4, LimitAssumption DEF A
  <2>8. Estimate(B) > MaxInputTokens
    BY <2>6, <2>7
  <2> QED BY <2>8 DEF B
<1>11. /\ R \subseteq after[N] /\ Estimate(after[N]) <= MaxInputTokens
  BY <1>8
<1> HIDE DEF Tried, M
<1> QED BY <1>3, <1>9, <1>10, <1>11 DEF R, O, N, order

-----------------------------------------------------------------------------
(***************************************************************************)
(* The sections of each role.                                              *)
(***************************************************************************)

\* A required section is well typed.
LEMMA RequiredMade ==
  ASSUME NEW name \in SectionName, NEW priority \in Nat, NEW bytes \in Nat
  PROVE  Section(name, TRUE, priority, bytes) \in SectionType
<1> DEFINE length == IF bytes = 0 THEN EmptyLength ELSE bytes
           s == Section(name, TRUE, priority, bytes)
<1>1. length \in Nat
  BY LengthAssumption
<1>2. s = [name |-> name, index |-> 0, required |-> TRUE,
           priority |-> priority, bytes |-> length, present |-> TRUE]
  BY DEF Section
<1> HIDE DEF length, s
<1>3. s \in SectionType
  BY <1>1, <1>2 DEF SectionType
<1> QED BY <1>3 DEF s

\* So is an optional one.
LEMMA OptionalMade ==
  ASSUME NEW name \in SectionName, NEW priority \in Nat, NEW bytes \in Nat
  PROVE  Section(name, FALSE, priority, bytes) \in SectionType
<1> DEFINE length == IF bytes = 0 THEN EmptyLength ELSE bytes
           present == bytes # 0
           s == Section(name, FALSE, priority, bytes)
<1>1. length \in Nat /\ present \in BOOLEAN
  BY LengthAssumption
<1>2. s = [name |-> name, index |-> 0, required |-> FALSE,
           priority |-> priority, bytes |-> length, present |-> present]
  BY DEF Section
<1> HIDE DEF length, present, s
<1>3. s \in SectionType
  BY <1>1, <1>2 DEF SectionType
<1> QED BY <1>3 DEF s

\* A few things are finitely many.
LEMMA SevenFinite ==
  ASSUME NEW a, NEW b, NEW c, NEW d, NEW e, NEW f, NEW g
  PROVE  IsFiniteSet({a, b, c, d, e, f, g})
<1>1. IsFiniteSet({a}) /\ IsFiniteSet({b}) /\ IsFiniteSet({c}) /\ IsFiniteSet({d})
      /\ IsFiniteSet({e}) /\ IsFiniteSet({f}) /\ IsFiniteSet({g})
  BY FS_Singleton
<1>2. IsFiniteSet({a} \cup {b}) /\ IsFiniteSet({c} \cup {d})
      /\ IsFiniteSet({e} \cup {f})
  BY <1>1, FS_Union
<1>3. IsFiniteSet(({a} \cup {b}) \cup ({c} \cup {d}))
      /\ IsFiniteSet(({e} \cup {f}) \cup {g})
  BY <1>1, <1>2, FS_Union
<1>4. IsFiniteSet((({a} \cup {b}) \cup ({c} \cup {d})) \cup (({e} \cup {f}) \cup {g}))
  BY <1>3, FS_Union
<1>5. (({a} \cup {b}) \cup ({c} \cup {d})) \cup (({e} \cup {f}) \cup {g})
        = {a, b, c, d, e, f, g}
  OBVIOUS
<1> QED BY <1>4, <1>5

\* The sizes of a role's parts are lengths.
LEMMA SizesCounted ==
  ASSUME NEW role, NEW size \in Sizes(role), NEW p \in Parts(role)
  PROVE  /\ size[p] \in Nat
         /\ p \in NeverEmpty => size[p] # 0
<1>1. /\ size \in [Parts(role) -> Lengths \cup {0}]
      /\ \A q \in NeverEmpty \cap Parts(role) : size[q] # 0
  BY DEF Sizes
<1>2. size[p] \in Lengths \cup {0}
  BY <1>1
<1>3. size[p] \in Nat
  <2>1. Lengths \subseteq Nat
    BY LengthAssumption
  <2> DEFINE length == size[p]
  <2>2. length \in Lengths \cup {0}
    BY <1>2
  <2> HIDE DEF length
  <2>3. length \in Nat
    BY <2>1, <2>2
  <2> QED BY <2>3 DEF length
<1> QED BY <1>1, <1>3

\* The messages before the request are a list, none if there is no request.
LEMMA RecentRises ==
  ASSUME thread \in Seq(Message)
  PROVE  /\ Rising(Recent)
         /\ Current \in 0..Len(Conversation)
         /\ Current = 0 => Recent = <<>>
         /\ \A n \in 1..Len(Recent) : Current # 0 /\ Recent[n] < Conversation[Current]
<1> DEFINE C == Conversation
           u == Current
           before == SubSeq(C, 1, u - 1)
<1>1. /\ Rising(C) /\ Len(C) \in Nat
      /\ \A i \in 1..Len(C) : C[i] \in 1..Len(thread)
      /\ \A m, n \in 1..Len(C) : m < n => C[m] < C[n]
  BY ConversationRises DEF Rising
<1>2. u \in 0..Len(C)
  BY <1>1, LatestIsLast DEF Current
<1>3. Recent = IF u = 0 THEN <<>> ELSE Newest(before, RecentMessageLimit - 1)
  BY DEF Recent
<1> HIDE DEF C, u
<1>4. CASE u = 0
  <2>1. Recent = <<>>
    BY <1>3, <1>4
  <2>2. Len(Recent) = 0 /\ Recent \in Seq(1..Len(thread))
    BY <2>1
  <2>3. Rising(Recent)
    BY <2>2 DEF Rising
  <2> QED BY <1>2, <2>1, <2>2, <2>3 DEF C, u
<1>5. CASE u # 0
  <2> DEFINE new == Newest(before, RecentMessageLimit - 1)
  <2>1. /\ before \in Seq(1..Len(thread)) /\ Len(before) = u - 1
        /\ \A i \in 1..(u - 1) : before[i] = C[i]
    <3>1. \A i \in 1..(u - 1) : C[i] \in 1..Len(thread)
      BY <1>1, <1>2
    <3>2. /\ before \in Seq(1..Len(thread))
          /\ Len(before) = IF 1 <= u - 1 THEN (u - 1) - 1 + 1 ELSE 0
          /\ \A i \in 1..((u - 1) - 1 + 1) : before[i] = C[1 + i - 1]
      BY <1>1, <1>2, <3>1, SubSeqProperties
    <3> QED BY <1>1, <1>2, <1>5, <3>2
  <2> HIDE DEF before
  <2>2. Rising(before)
    <3>1. ASSUME NEW m \in 1..Len(before), NEW n \in 1..Len(before), m < n
          PROVE  before[m] < before[n]
      <4>1. /\ m \in 1..(u - 1) /\ n \in 1..(u - 1)
            /\ m \in 1..Len(C) /\ n \in 1..Len(C)
        BY <1>1, <1>2, <2>1
      <4> QED BY <1>1, <2>1, <3>1, <4>1
    <3> QED BY <2>1, <3>1 DEF Rising
  <2>3. RecentMessageLimit - 1 \in Nat
    BY LimitAssumption
  <2>4. /\ Rising(new) /\ Len(new) <= Len(before)
        /\ \A n \in 1..Len(new) : new[n] = before[Len(before) - Len(new) + n]
    BY <1>2, <2>1, <2>2, <2>3, NewestRises
  <2>5. Recent = new
    BY <1>3, <1>5
  <2> HIDE DEF new
  <2>6. ASSUME NEW n \in 1..Len(new) PROVE new[n] < C[u]
    <3> DEFINE k == Len(before) - Len(new) + n
    <3>1. Len(new) \in Nat
      BY <2>4 DEF Rising
    <3>2. k \in 1..(u - 1) /\ new[n] = before[k]
      BY <1>2, <1>5, <2>1, <2>4, <3>1
    <3> HIDE DEF k
    <3>3. new[n] = C[k] /\ k < u /\ k \in 1..Len(C) /\ u \in 1..Len(C)
      BY <1>1, <1>2, <1>5, <2>1, <3>2
    <3> QED BY <1>1, <3>3
  <2> QED BY <1>2, <1>5, <2>4, <2>5, <2>6 DEF C, u
<1> QED BY <1>4, <1>5

\* The collaborator's sections: one of recent messages, if there are any, and
\* one of operational state, always.
LEMMA CollaboratorSections ==
  ASSUME thread \in Seq(Message), NEW size \in Sizes("collaborator")
  PROVE  LET S == Sections("collaborator", size) IN
         /\ WellMade(S)
         /\ \E m \in S : /\ m.name = "recent_messages" /\ ~m.required
                         /\ m.present <=> Len(Recent) # 0
                         /\ \A s \in S : s.name = "recent_messages" => s = m
         /\ \E o \in S : /\ o.name = "operational_state" /\ ~o.required
                         /\ o.present
                         /\ \A s \in S : s.name = "operational_state" => s = o
<1> DEFINE S == Sections("collaborator", size)
           user == IF Current = 0 THEN 0 ELSE thread[Conversation[Current]].bytes
           a == Section("current_user", TRUE, 100, user)
           b == Section("confirmed_facts", TRUE, 100, size["confirmed_facts"])
           c == Section("recent_messages", FALSE, 70, Bytes(Recent))
           d == Section("proposed_facts", FALSE, 60, size["proposed_facts"])
           e == Section("open_questions", FALSE, 65, size["open_questions"])
           f == Section("reference_state", FALSE, 90, size["reference_state"])
           g == Section("operational_state", FALSE, 80, size["operational_state"])
<1>1. S = {a, b, c, d, e, f, g}
  BY DEF Sections
<1>2. /\ size["confirmed_facts"] \in Nat /\ size["proposed_facts"] \in Nat
      /\ size["open_questions"] \in Nat /\ size["reference_state"] \in Nat
      /\ size["operational_state"] \in Nat \ {0}
  <2>1. Parts("collaborator") = {"confirmed_facts", "proposed_facts",
          "open_questions", "reference_state", "operational_state"}
    BY DEF Parts
  <2>2. "operational_state" \in NeverEmpty
    BY DEF NeverEmpty
  <2> QED BY <2>1, <2>2, SizesCounted
<1>3. user \in Nat
  <2>1. Current \in 0..Len(Conversation)
    BY RecentRises
  <2>2. CASE Current = 0
    BY <2>2
  <2>3. CASE Current # 0
    <3>1. Current \in 1..Len(Conversation) /\ Conversation \in Seq(1..Len(thread))
      BY <2>1, <2>3, ConversationRises DEF Rising
    <3>2. Conversation[Current] \in 1..Len(thread)
      BY <3>1, ElementOfSeq
    <3>3. thread[Conversation[Current]] \in Message
      BY <3>2, ElementOfSeq
    <3>4. thread[Conversation[Current]].bytes \in Lengths /\ Lengths \subseteq Nat
      BY <3>3, LengthAssumption DEF Message
    <3> QED BY <2>3, <3>4
  <2> QED BY <2>2, <2>3
<1>4. /\ Bytes(Recent) \in Nat
      /\ Bytes(Recent) = 0 <=> Len(Recent) = 0
  BY RecentRises, BytesCounted
<1>20. {"current_user", "confirmed_facts", "recent_messages", "proposed_facts",
        "open_questions", "reference_state", "operational_state"}
         \subseteq SectionName
  BY DEF SectionName
<1> HIDE DEF user
<1>5. /\ a \in SectionType
      /\ a.name = "current_user"
      /\ a.required
      /\ a.present
  <2>1. a \in SectionType
    BY <1>3, <1>20, RequiredMade
  <2>2. /\ a.name = "current_user"
        /\ a.required
        /\ a.present
    BY <1>3, <1>20 DEF Section
  <2> HIDE DEF a
  <2> QED BY <2>1, <2>2
<1>6. /\ b \in SectionType
      /\ b.name = "confirmed_facts"
      /\ b.required
      /\ b.present
  <2>1. b \in SectionType
    BY <1>2, <1>20, RequiredMade
  <2>2. /\ b.name = "confirmed_facts"
        /\ b.required
        /\ b.present
    BY <1>2, <1>20 DEF Section
  <2> HIDE DEF b
  <2> QED BY <2>1, <2>2
<1>7. /\ c \in SectionType
      /\ c.name = "recent_messages"
      /\ ~c.required
      /\ c.priority = 70
      /\ (c.present <=> Len(Recent) # 0)
  <2>1. c \in SectionType
    BY <1>4, <1>20, OptionalMade
  <2>2. /\ c.name = "recent_messages"
        /\ ~c.required
        /\ c.priority = 70
        /\ (c.present <=> Bytes(Recent) # 0)
    BY DEF Section
  <2>3. Len(Recent) # 0 <=> Bytes(Recent) # 0
    BY <1>4
  <2> HIDE DEF c
  <2> QED BY <2>1, <2>2, <2>3
<1>8. /\ d \in SectionType
      /\ d.name = "proposed_facts"
      /\ ~d.required
      /\ d.priority = 60
  <2>1. d \in SectionType
    BY <1>2, <1>20, OptionalMade
  <2>2. /\ d.name = "proposed_facts"
        /\ ~d.required
        /\ d.priority = 60
    BY <1>2, <1>20 DEF Section
  <2> HIDE DEF d
  <2> QED BY <2>1, <2>2
<1>9. /\ e \in SectionType
      /\ e.name = "open_questions"
      /\ ~e.required
      /\ e.priority = 65
  <2>1. e \in SectionType
    BY <1>2, <1>20, OptionalMade
  <2>2. /\ e.name = "open_questions"
        /\ ~e.required
        /\ e.priority = 65
    BY <1>2, <1>20 DEF Section
  <2> HIDE DEF e
  <2> QED BY <2>1, <2>2
<1>10. /\ f \in SectionType
       /\ f.name = "reference_state"
       /\ ~f.required
       /\ f.priority = 90
  <2>1. f \in SectionType
    BY <1>2, <1>20, OptionalMade
  <2>2. /\ f.name = "reference_state"
        /\ ~f.required
        /\ f.priority = 90
    BY <1>2, <1>20 DEF Section
  <2> HIDE DEF f
  <2> QED BY <2>1, <2>2
<1>11. /\ g \in SectionType
       /\ g.name = "operational_state"
       /\ ~g.required
       /\ g.priority = 80
       /\ g.present
  <2>1. g \in SectionType
    BY <1>2, <1>20, OptionalMade
  <2>2. /\ g.name = "operational_state"
        /\ ~g.required
        /\ g.priority = 80
        /\ g.present
    BY <1>2, <1>20 DEF Section
  <2> HIDE DEF g
  <2> QED BY <2>1, <2>2
<1> HIDE DEF a, b, c, d, e, f, g
<1>12. IsFiniteSet(S)
  <2>1. IsFiniteSet({a, b, c, d, e, f, g})
    BY SevenFinite
  <2> HIDE DEF S
  <2> QED BY <1>1, <2>1
<1>13. \A s \in Required(S) : s = a \/ s = b
  BY <1>1, <1>7, <1>8, <1>9, <1>10, <1>11 DEF Required
<1>14. \A s \in Optional(S) : s \in {c, d, e, f, g}
  BY <1>1, <1>5, <1>6 DEF Optional
<1>15. Orderable(Optional(S))
  BY <1>7, <1>8, <1>9, <1>10, <1>11, <1>14 DEF Orderable
<1>16. S \in SUBSET SectionType
  BY <1>1, <1>5, <1>6, <1>7, <1>8, <1>9, <1>10, <1>11
<1>17. WellMade(S)
  BY <1>5, <1>6, <1>12, <1>13, <1>15, <1>16 DEF WellMade
<1>18. c \in S /\ \A s \in S : s.name = "recent_messages" => s = c
  BY <1>1, <1>5, <1>6, <1>7, <1>8, <1>9, <1>10, <1>11
<1>19. g \in S /\ \A s \in S : s.name = "operational_state" => s = g
  BY <1>1, <1>5, <1>6, <1>7, <1>8, <1>9, <1>10, <1>11
<1> HIDE DEF S
<1> QED BY <1>7, <1>11, <1>17, <1>18, <1>19 DEF S

\* The section of one message of a list: required if it is the request, and
\* placed by how long ago it was said.
Told(list, i) ==
  [Section("focused_message", i = LatestUser(list), 70, thread[list[i]].bytes)
     EXCEPT !.index = Len(list) - i]

\* Its fields.
LEMMA MessageMade ==
  ASSUME thread \in Seq(Message), NEW list, Rising(list), NEW i \in 1..Len(list)
  PROVE  /\ Told(list, i) \in SectionType
         /\ Told(list, i).name = "focused_message"
         /\ Told(list, i).index = Len(list) - i
         /\ Told(list, i).required <=> i = LatestUser(list)
         /\ Told(list, i).priority = 70
         /\ Told(list, i).present
<1> DEFINE bytes == thread[list[i]].bytes
           length == IF bytes = 0 THEN EmptyLength ELSE bytes
           required == i = LatestUser(list)
           present == required \/ bytes # 0
           name == "focused_message"
           place == Len(list) - i
           m == Told(list, i)
<1>1. bytes \in Nat \ {0}
  <2>1. list[i] \in 1..Len(thread)
    BY ElementOfSeq DEF Rising
  <2>2. thread[list[i]] \in Message
    BY <2>1, ElementOfSeq
  <2> QED BY <2>2, LengthAssumption DEF Message
<1>2. /\ length \in Nat /\ required \in BOOLEAN /\ place \in Int
      /\ present = TRUE /\ name \in SectionName
  BY <1>1 DEF Rising, SectionName
<1>3. m = [name |-> name, index |-> place, required |-> required,
           priority |-> 70, bytes |-> length, present |-> present]
  BY DEF Told, Section
<1> HIDE DEF m, length, present, place, required
<1>4. m \in SectionType
  <2> HIDE DEF name
  <2> QED BY <1>2, <1>3 DEF SectionType
<1>5. /\ m.name = "focused_message" /\ m.index = place
      /\ m.required <=> required
      /\ m.priority = 70 /\ m.present
  BY <1>2, <1>3
<1> QED BY <1>4, <1>5 DEF m, place, required

\* The sections of a focused thread: the request is among the required ones.
LEMMA FocusedSections ==
  ASSUME thread \in Seq(Message), NEW size \in Sizes("focused")
  PROVE  LET S == Sections("focused", size) IN
         /\ WellMade(S)
         /\ \A s \in S : s.name # "operational_state"
         /\ LatestUser(Window) # 0 =>
              \E s \in Required(S) : /\ s.name = "focused_message"
                                    /\ s.index = Len(Window) - LatestUser(Window)
<1> DEFINE S == Sections("focused", size)
           a == Section("selected_topic", TRUE, 100, size["selected_topic"])
           b == Section("global_constraints", TRUE, 100, size["global_constraints"])
           c == Section("dependencies", FALSE, 80, size["dependencies"])
           N == Len(Window)
           M == {Told(Window, i) : i \in 1..N}
<1>1. S = {a, b, c} \cup M
  <2>1. M = MessageSections(Window)
    BY DEF MessageSections, Told
  <2>2. S = {a, b, c} \cup MessageSections(Window)
    BY DEF Sections
  <2> QED BY <2>1, <2>2
<1>2. /\ size["selected_topic"] \in Nat /\ size["global_constraints"] \in Nat
      /\ size["dependencies"] \in Nat
  <2>1. Parts("focused") = {"selected_topic", "global_constraints", "dependencies"}
    BY DEF Parts
  <2> QED BY <2>1, SizesCounted
<1>3. {"selected_topic", "global_constraints", "dependencies"} \subseteq SectionName
  BY DEF SectionName
<1>4. /\ a \in SectionType /\ b \in SectionType /\ c \in SectionType
  BY <1>2, <1>3, RequiredMade, OptionalMade
<1>5. /\ a.name = "selected_topic" /\ a.required /\ a.present
      /\ b.name = "global_constraints" /\ b.required /\ b.present
      /\ c.name = "dependencies" /\ ~c.required /\ c.priority = 80
  BY DEF Section
<1>6. /\ Rising(Window) /\ N \in Nat
  BY WindowKeepsRequest DEF Rising
<1>7. \A i \in 1..N :
        /\ Told(Window, i) \in SectionType
        /\ Told(Window, i).name = "focused_message"
        /\ Told(Window, i).index = N - i
        /\ Told(Window, i).required <=> i = LatestUser(Window)
        /\ Told(Window, i).priority = 70
        /\ Told(Window, i).present
  BY <1>6, MessageMade
<1>8. IsFiniteSet(S)
  <2> DEFINE tell == [i \in 1..N |-> Told(Window, i)]
  <2>1. tell \in Surjection(1..N, M)
    BY DEF Surjection
  <2>2. IsFiniteSet(1..N)
    BY <1>6, FS_Interval
  <2>3. IsFiniteSet(M)
    <3> HIDE DEF tell, M, N
    <3> QED BY <2>1, <2>2, FS_Surjection
  <2>4. IsFiniteSet({a, b, c})
    <3>1. {a, b, c, c, c, c, c} = {a, b, c}
      OBVIOUS
    <3>2. IsFiniteSet({a, b, c, c, c, c, c})
      BY SevenFinite
    <3> QED BY <3>1, <3>2
  <2> HIDE DEF a, b, c, M, S
  <2> QED BY <1>1, <2>3, <2>4, FS_Union
<1> HIDE DEF a, b, c, N, S
<1>9. \A s \in S : s = a \/ s = b \/ s = c \/ \E i \in 1..N : s = Told(Window, i)
  BY <1>1
<1> HIDE DEF M
<1>10. S \in SUBSET SectionType
  BY <1>4, <1>7, <1>9
<1>11. \A s \in Required(S) : s.present
  BY <1>5, <1>7, <1>9 DEF Required
<1>12. Orderable(Optional(S))
  <2> SUFFICES ASSUME NEW s \in Optional(S), NEW t \in Optional(S), s # t
               PROVE  s.priority # t.priority \/ s.index # t.index
    BY DEF Orderable
  <2>1. /\ s = c \/ \E i \in 1..N : s = Told(Window, i)
        /\ t = c \/ \E i \in 1..N : t = Told(Window, i)
    BY <1>5, <1>9 DEF Optional
  <2>2. CASE s = c \/ t = c
    BY <1>5, <1>7, <2>1, <2>2
  <2>3. ASSUME NEW i \in 1..N, NEW j \in 1..N, s = Told(Window, i), t = Told(Window, j)
        PROVE  s.index # t.index
    <3>1. i # j
      BY <2>3
    <3>2. s.index = N - i /\ t.index = N - j
      BY <1>7, <2>3
    <3> QED BY <1>6, <3>1, <3>2
  <2> QED BY <2>1, <2>2, <2>3
<1>13. WellMade(S)
  BY <1>8, <1>10, <1>11, <1>12 DEF WellMade
<1>14. \A s \in S : s.name # "operational_state"
  BY <1>5, <1>7, <1>9
<1>15. ASSUME LatestUser(Window) # 0
       PROVE  \E s \in Required(S) : /\ s.name = "focused_message"
                                    /\ s.index = N - LatestUser(Window)
  <2>1. LatestUser(Window) \in 1..N
    BY <1>6, <1>15, LatestIsLast DEF N
  <2> DEFINE s == Told(Window, LatestUser(Window))
  <2>2. /\ s.name = "focused_message" /\ s.required
        /\ s.index = N - LatestUser(Window)
    BY <1>7, <2>1
  <2>3. s \in S
    BY <1>1, <2>1 DEF M
  <2> HIDE DEF s
  <2> QED BY <2>2, <2>3 DEF Required
<1> QED BY <1>13, <1>14, <1>15 DEF S, N

\* The sections of the other roles are well made; none of them tells the
\* operational state.
LEMMA OtherSections ==
  ASSUME thread \in Seq(Message),
         NEW role \in {"curator", "evaluator", "planner", "builder"},
         NEW size \in Sizes(role)
  PROVE  /\ WellMade(Sections(role, size))
         /\ \A s \in Sections(role, size) : s.name # "operational_state"
<1> DEFINE S == Sections(role, size)
           Names == {"current_brief", "delta_messages", "approved_brief",
                     "evaluation", "latest_prototype", "explicit_requirements",
                     "candidate_plan", "implementation_plan", "constraints"}
           Plain(s) == /\ s \in SectionType /\ s.name # "operational_state"
                       /\ s.required => s.present
<1>1. Names \subseteq SectionName /\ "operational_state" \notin Names
  BY DEF SectionName
<1>2. ASSUME NEW name \in Names, NEW bytes \in Nat
      PROVE  /\ Plain(Section(name, TRUE, 100, bytes))
             /\ Section(name, TRUE, 100, bytes).required
             /\ Plain(Section(name, FALSE, 60, bytes))
  <2>1. /\ Section(name, TRUE, 100, bytes) \in SectionType
        /\ Section(name, FALSE, 60, bytes) \in SectionType
    BY <1>1, <1>2, RequiredMade, OptionalMade
  <2>2. /\ Section(name, TRUE, 100, bytes).name = name
        /\ Section(name, TRUE, 100, bytes).required
        /\ Section(name, TRUE, 100, bytes).present
        /\ Section(name, FALSE, 60, bytes).name = name
        /\ ~Section(name, FALSE, 60, bytes).required
    BY DEF Section
  <2>3. name # "operational_state"
    BY <1>1
  <2> QED BY <2>1, <2>2, <2>3
<1>3. ASSUME IsFiniteSet(S), \A s \in S : Plain(s),
             \A s, t \in S : ~s.required /\ ~t.required => s = t
      PROVE  WellMade(S) /\ \A s \in S : s.name # "operational_state"
  <2>1. Orderable(Optional(S))
    BY <1>3 DEF Orderable, Optional
  <2>2. \A s \in Required(S) : s.present
    BY <1>3 DEF Required
  <2> QED BY <1>3, <2>1, <2>2 DEF WellMade
<1>7. /\ "current_brief" \in Names /\ "delta_messages" \in Names
      /\ "approved_brief" \in Names /\ "evaluation" \in Names
      /\ "latest_prototype" \in Names
      /\ {"approved_brief", "explicit_requirements", "candidate_plan",
          "implementation_plan", "constraints"} \subseteq Names
  OBVIOUS
<1> HIDE DEF Plain, Names
<1>4. CASE role = "curator"
  <2> DEFINE a == Section("current_brief", TRUE, 100, size["current_brief"])
             b == Section("delta_messages", TRUE, 100, Bytes(Conversation))
  <2>1. S = {a, b}
    BY <1>4 DEF Sections
  <2>2. size["current_brief"] \in Nat
    BY <1>4, SizesCounted DEF Parts
  <2>3. Bytes(Conversation) \in Nat
    BY ConversationRises, BytesCounted
  <2>4. Plain(a) /\ Plain(b) /\ a.required /\ b.required
    BY <1>2, <1>7, <2>2, <2>3
  <2>5. IsFiniteSet(S)
    <3> HIDE DEF a, b, S
    <3>1. S = {a, b, b, b, b, b, b}
      BY <2>1
    <3> QED BY <3>1, SevenFinite
  <2> HIDE DEF a, b, S
  <2> QED BY <1>3, <2>1, <2>4, <2>5 DEF S
<1>5. CASE role = "planner"
  <2> DEFINE a == Section("approved_brief", TRUE, 100, size["approved_brief"])
             b == Section("evaluation", TRUE, 100, size["evaluation"])
             c == Section("latest_prototype", FALSE, 60, size["latest_prototype"])
  <2>1. S = {a, b, c}
    BY <1>5 DEF Sections
  <2>2. /\ size["approved_brief"] \in Nat /\ size["evaluation"] \in Nat
        /\ size["latest_prototype"] \in Nat
    BY <1>5, SizesCounted DEF Parts
  <2>3. Plain(a) /\ Plain(b) /\ Plain(c) /\ a.required /\ b.required
    BY <1>2, <1>7, <2>2
  <2>4. IsFiniteSet(S)
    <3> HIDE DEF a, b, c, S
    <3>1. S = {a, b, c, c, c, c, c}
      BY <2>1
    <3> QED BY <3>1, SevenFinite
  <2> HIDE DEF a, b, c, S
  <2> QED BY <1>3, <2>1, <2>3, <2>4 DEF S
<1>6. CASE role \in {"evaluator", "builder"}
  <2> DEFINE P == Parts(role)
             f == [p \in P |-> Section(p, TRUE, 100, size[p])]
  <2>1. S = {Section(p, TRUE, 100, size[p]) : p \in P}
    BY <1>6 DEF Sections
  <2>2. P \subseteq Names /\ IsFiniteSet(P)
    <3>1. CASE role = "evaluator"
      <4>1. P = {"approved_brief", "explicit_requirements", "candidate_plan"}
        BY <3>1 DEF Parts
      <4>2. P = {"approved_brief", "explicit_requirements", "candidate_plan",
                 "candidate_plan", "candidate_plan", "candidate_plan",
                 "candidate_plan"}
        BY <4>1
      <4> HIDE DEF P
      <4>3. P \subseteq Names
        BY <1>7, <4>1
      <4>4. IsFiniteSet(P)
        BY <4>2, SevenFinite, Zenon
      <4> QED BY <4>3, <4>4
    <3>2. CASE role = "builder"
      <4>1. P = {"implementation_plan", "constraints"}
        BY <3>2 DEF Parts
      <4>2. P = {"implementation_plan", "constraints", "constraints",
                 "constraints", "constraints", "constraints", "constraints"}
        BY <4>1
      <4> HIDE DEF P
      <4>3. P \subseteq Names
        BY <1>7, <4>1
      <4>4. IsFiniteSet(P)
        BY <4>2, SevenFinite, Zenon
      <4> QED BY <4>3, <4>4
    <3> QED BY <1>6, <3>1, <3>2
  <2>3. \A p \in P : size[p] \in Nat
    BY SizesCounted
  <2>4. \A p \in P : /\ Plain(Section(p, TRUE, 100, size[p]))
                     /\ Section(p, TRUE, 100, size[p]).required
    BY <1>2, <2>2, <2>3
  <2>5. IsFiniteSet(S)
    <3>1. f \in Surjection(P, S)
      BY <2>1 DEF Surjection
    <3> HIDE DEF f, S, P
    <3> QED BY <2>2, <3>1, FS_Surjection
  <2> HIDE DEF P
  <2>6. \A s \in S : Plain(s) /\ s.required
    BY <2>1, <2>4
  <2> HIDE DEF S
  <2> QED BY <1>3, <2>5, <2>6 DEF S
<1> QED BY <1>4, <1>5, <1>6

\* Whatever the role, its sections are well made.
LEMMA AllWellMade ==
  ASSUME thread \in Seq(Message), NEW role \in Role, NEW size \in Sizes(role)
  PROVE  WellMade(Sections(role, size))
<1>1. CASE role = "collaborator"
  BY <1>1, CollaboratorSections
<1>2. CASE role = "focused"
  BY <1>2, FocusedSections
<1>3. CASE role \in {"curator", "evaluator", "planner", "builder"}
  BY <1>3, OtherSections
<1> QED BY <1>1, <1>2, <1>3 DEF Role

-----------------------------------------------------------------------------
(***************************************************************************)
(* A packet stays what the compiler makes of the thread.                   *)
(***************************************************************************)

\* While nobody speaks, the compiler makes the same packet.
LEMMA SameThread ==
  ASSUME thread' = thread, NEW role, NEW size
  PROVE  Compile(role, size)' = Compile(role, size)
<1>1. Conversation' = Conversation
  BY DEF Conversation
<1>2. ASSUME NEW list PROVE LatestUser(list)' = LatestUser(list)
  BY DEF LatestUser, SelectLastInSeq, IsUser
<1>3. Current' = Current
  BY <1>1, <1>2 DEF Current
<1>4. Recent' = Recent
  BY <1>1, <1>3 DEF Recent
<1>5. LatestUser(Conversation)' = LatestUser(Conversation)
  BY <1>1, <1>2
<1>6. Window' = Window
  BY <1>1, <1>5 DEF Window
<1>7. /\ Bytes(Recent)' = Bytes(Recent)
      /\ Bytes(Conversation)' = Bytes(Conversation)
  BY <1>1, <1>4 DEF Bytes
<1>8. MessageSections(Window)' = MessageSections(Window)
  BY <1>2, <1>6 DEF MessageSections
<1>9. Sections(role, size)' = Sections(role, size)
  BY <1>1, <1>3, <1>7, <1>8 DEF Sections
<1>10. ASSUME NEW taken
       PROVE  Messages(role, taken)' = Messages(role, taken)
  BY <1>1, <1>3, <1>4, <1>6 DEF Messages
<1>11. ASSUME NEW S, NEW taken
       PROVE  Count(role, S, taken)' = Count(role, S, taken)
  BY <1>1, <1>3, <1>4, <1>6 DEF Count
<1> QED BY <1>9, <1>10, <1>11 DEF Compile

\* Type correctness, and the whole of what the other theorems need: between
\* the making of a packet and its use nothing is said, so the packet stays
\* what the compiler makes of the thread for a role and some sizes.
THEOREM TypeCorrect == Spec => []TypeOK
<1>1. Init => TypeOK
  BY DEF Init, TypeOK, Compiled
<1>2. TypeOK /\ [Next]_vars => TypeOK'
  <2> SUFFICES ASSUME TypeOK, [Next]_vars PROVE TypeOK'
    OBVIOUS
  <2>1. ASSUME thread' = thread, packet' = packet PROVE TypeOK'
    <3>1. \A role, size : Compile(role, size)' = Compile(role, size)
      BY <2>1, SameThread
    <3> QED BY <2>1, <3>1 DEF TypeOK, Compiled
  <2>2. CASE Say
    <3>1. thread' \in Seq(Message)
      BY <2>2, AppendProperties DEF Say, TypeOK
    <3>2. packet' = NoPacket
      BY <2>2 DEF Say
    <3> QED BY <3>1, <3>2 DEF TypeOK, Compiled, NoPacket
  <2>3. CASE Send
    BY <2>3 DEF Send, TypeOK, Compiled, NoPacket
  <2>4. ASSUME NEW role \in Role, Ask(role) PROVE TypeOK'
    <3>1. PICK size \in Sizes(role) : packet' = Compile(role, size)
      BY <2>4 DEF Ask
    <3>2. thread' = thread
      BY <2>4 DEF Ask
    <3>3. Compile(role, size)' = Compile(role, size)
      BY <3>2, SameThread
    <3>4. packet' = Compile(role, size)'
      BY <3>1, <3>3
    <3>5. Sizes(role)' = Sizes(role) /\ size \in Sizes(role)'
      BY <3>1 DEF Sizes, Parts, NeverEmpty
    <3>6. Compiled'
      BY <3>4, <3>5 DEF Compiled, Role
    <3> QED BY <3>2, <3>6 DEF TypeOK
  <2> QED BY <2>1, <2>2, <2>3, <2>4 DEF Next, vars
<1> QED BY <1>1, <1>2, PTL DEF Spec

\* What a packet holds, by the role and the sizes it was made for.
LEMMA Packets ==
  ASSUME TypeOK, packet # NoPacket
  PROVE  LET role == packet.role
             taken == packet.taken
         IN /\ role \in Role /\ packet.size \in Sizes(role)
            /\ WellMade(Given)
            /\ Overflow => Estimate(Required(Given)) > MaxInputTokens
            /\ Made => /\ Estimate(Required(Given)) <= MaxInputTokens
                       /\ taken = Taken(Given)
                       /\ packet.tokens = Estimate(taken)
                       /\ packet.messages = Messages(role, taken)
                       /\ packet.count = Count(role, Given, taken)
                       /\ packet.truncated = (Optional(Given) \ taken # {})
                       /\ packet.operational =
                            (role = "collaborator"
                               /\ ~Has(Optional(Given) \ taken, "operational_state"))
<1>1. PICK role \in Role : \E size \in Sizes(role) : packet = Compile(role, size)
  BY DEF TypeOK, Compiled
<1>2. PICK size \in Sizes(role) : packet = Compile(role, size)
  BY <1>1
<1> DEFINE S == Sections(role, size)
           R == Required(S)
           taken == Taken(S)
<1>3. WellMade(S)
  BY AllWellMade DEF TypeOK
<1>4. Estimate(R) \in Int /\ MaxInputTokens \in Int
  <2>1. R \in SUBSET SectionType /\ IsFiniteSet(R)
    BY <1>3, FS_Subset DEF WellMade, Required
  <2> QED BY <2>1, EstimateCounted, LimitAssumption
<1>5. CASE Estimate(R) > MaxInputTokens
  <2>1. packet = [result |-> "overflow", role |-> role, size |-> size]
    BY <1>2, <1>5 DEF Compile
  <2>2. packet.role = role /\ packet.size = size /\ packet.result = "overflow"
    BY <2>1
  <2> QED BY <1>3, <1>4, <1>5, <2>2 DEF Given, Made, Overflow
<1>6. CASE ~(Estimate(R) > MaxInputTokens)
  <2> DEFINE messages == Messages(role, taken)
             count == Count(role, S, taken)
             truncated == Optional(S) \ taken # {}
             operational == role = "collaborator"
                              /\ ~Has(Optional(S) \ taken, "operational_state")
             tokens == Estimate(taken)
  <2>1. packet = [result |-> "made", role |-> role, size |-> size,
                  taken |-> taken, tokens |-> tokens, messages |-> messages,
                  count |-> count, truncated |-> truncated,
                  operational |-> operational]
    BY <1>2, <1>6 DEF Compile
  <2> HIDE DEF taken, messages, count, truncated, operational, tokens
  <2>2. /\ packet.role = role /\ packet.size = size /\ packet.result = "made"
        /\ packet.taken = taken /\ packet.tokens = tokens
        /\ packet.messages = messages /\ packet.count = count
        /\ packet.truncated = truncated /\ packet.operational = operational
    BY <2>1
  <2>3. Estimate(R) <= MaxInputTokens
    BY <1>4, <1>6
  <2>4. Given = S
    BY <2>2 DEF Given
  <2>5. ~Overflow
    BY <2>2 DEF Overflow
  <2> QED BY <1>3, <1>4, <2>2, <2>3, <2>4, <2>5
          DEF taken, messages, count, truncated, operational, tokens
<1> QED BY <1>5, <1>6

\* For every budget and whatever is in the sections: no choice of optional
\* sections that fits is better than the one of the packet.
THEOREM ChoiceIsBest == Spec => []BestChoice
<1>1. TypeOK => BestChoice
  <2> SUFFICES ASSUME TypeOK, Made PROVE BestChoice
    BY DEF BestChoice
  <2>1. packet # NoPacket
    BY DEF Made, NoPacket
  <2>2. /\ WellMade(Given)
        /\ Estimate(Required(Given)) <= MaxInputTokens
        /\ packet.taken = Taken(Given)
    BY <2>1, Packets
  <2>3. \A T \in SUBSET Optional(Given) :
          Better(T, Taken(Given) \ Required(Given))
            => Estimate(Required(Given) \cup T) > MaxInputTokens
    BY <2>2, SelectionFits
  <2> QED BY <2>2, <2>3 DEF BestChoice
<1> QED BY <1>1, TypeCorrect, PTL

\* Lengths of the lists the manifest counts.
LEMMA MessagesCounted ==
  ASSUME thread \in Seq(Message)
  PROVE  /\ Len(Recent) \in Nat
         /\ Current # 0 => Len(Recent \o <<Conversation[Current]>>) = Len(Recent) + 1
         /\ Len(Recent \o <<>>) = Len(Recent)
         /\ Len(<<>> \o <<Conversation[Current]>>) = 1
         /\ Len(<<>> \o <<>>) = 0
         /\ Current = 0 => Len(Recent) = 0
<1> DEFINE last == Conversation[Current]
           X == 1..Len(thread) \cup {last}
<1>1. Recent \in Seq(X)
  BY RecentRises, SeqDef DEF Rising
<1>2. <<last>> \in Seq(X) /\ <<>> \in Seq(X)
  OBVIOUS
<1>3. Len(<<last>>) = 1 /\ Len(<<>>) = 0
  OBVIOUS
<1>4. Current = 0 => Len(Recent) = 0
  BY RecentRises
<1> HIDE DEF last, X
<1>5. /\ Len(Recent \o <<last>>) = Len(Recent) + 1
      /\ Len(Recent \o <<>>) = Len(Recent)
      /\ Len(<<>> \o <<last>>) = 1
      /\ Len(<<>> \o <<>>) = 0
  BY <1>1, <1>2, <1>3, ConcatProperties
<1>6. Len(Recent) \in Nat
  BY <1>1, LenProperties
<1> QED BY <1>4, <1>5, <1>6 DEF last

\* The collaborator's manifest: recent messages are in the packet exactly if
\* they were not dropped, unless there are none.
LEMMA CollaboratorManifest ==
  ASSUME thread \in Seq(Message), NEW size \in Sizes("collaborator"),
         NEW taken, taken \subseteq Sections("collaborator", size),
         Required(Sections("collaborator", size)) \subseteq taken
  PROVE  LET S == Sections("collaborator", size) IN
         /\ Count("collaborator", S, taken) = Len(Messages("collaborator", taken))
         /\ ~Has(Optional(S) \ taken, "operational_state")
              <=> Has(taken, "operational_state")
<1> DEFINE S == Sections("collaborator", size)
           selected == Len(Recent) + (IF Current = 0 THEN 0 ELSE 1)
           last == Conversation[Current]
<1>1. PICK m \in S : /\ m.name = "recent_messages" /\ ~m.required
                     /\ m.present <=> Len(Recent) # 0
                     /\ \A s \in S : s.name = "recent_messages" => s = m
  BY CollaboratorSections
<1>2. PICK o \in S : /\ o.name = "operational_state" /\ ~o.required
                     /\ o.present
                     /\ \A s \in S : s.name = "operational_state" => s = o
  BY CollaboratorSections
<1> HIDE DEF S
<1>3. Has(taken, "recent_messages") <=> m \in taken
  BY <1>1 DEF Has, S
<1>4. Has(Optional(S) \ taken, "recent_messages") <=> Len(Recent) # 0 /\ m \notin taken
  BY <1>1 DEF Has, Optional
<1>5. Has(taken, "operational_state") <=> o \in taken
  BY <1>2 DEF Has, S
<1>6. Has(Optional(S) \ taken, "operational_state") <=> o \notin taken
  BY <1>2 DEF Has, Optional
<1>7. Count("collaborator", S, taken) =
        IF Len(Recent) # 0 /\ m \notin taken
        THEN IF selected > 0 THEN 1 ELSE 0
        ELSE selected
  BY <1>4 DEF Count
<1>8. Messages("collaborator", taken) =
        (IF m \in taken THEN Recent ELSE <<>>)
          \o (IF Current = 0 THEN <<>> ELSE <<last>>)
  BY <1>3 DEF Messages
<1>9. Count("collaborator", S, taken) = Len(Messages("collaborator", taken))
  <2>1. CASE Current = 0
    <3>1. Len(Recent) = 0 /\ selected = 0
      BY <2>1, MessagesCounted
    <3>2. Count("collaborator", S, taken) = 0
      BY <1>7, <3>1
    <3>3. Messages("collaborator", taken) = (IF m \in taken THEN Recent ELSE <<>>) \o <<>>
      BY <1>8, <2>1
    <3>4. Len(Messages("collaborator", taken)) = 0
      BY <3>1, <3>3, MessagesCounted
    <3> QED BY <3>2, <3>4
  <2>2. CASE Current # 0
    <3>1. selected = Len(Recent) + 1 /\ Len(Recent) \in Nat
      BY <2>2, MessagesCounted
    <3>2. Messages("collaborator", taken) =
            (IF m \in taken THEN Recent ELSE <<>>) \o <<last>>
      BY <1>8, <2>2
    <3>3. CASE m \in taken
      <4>1. Messages("collaborator", taken) = Recent \o <<last>>
        BY <3>2, <3>3
      <4>2. Len(Recent \o <<last>>) = Len(Recent) + 1
        BY <2>2, MessagesCounted
      <4>3. Count("collaborator", S, taken) = selected
        BY <1>7, <3>3
      <4> QED BY <3>1, <4>1, <4>2, <4>3
    <3>4. CASE m \notin taken
      <4>1. Messages("collaborator", taken) = <<>> \o <<last>>
        BY <3>2, <3>4
      <4>2. Len(<<>> \o <<last>>) = 1
        BY MessagesCounted
      <4>3. Count("collaborator", S, taken) = 1
        BY <1>7, <3>1, <3>4
      <4> QED BY <4>1, <4>2, <4>3
    <3> QED BY <3>3, <3>4
  <2> QED BY <2>1, <2>2
<1> QED BY <1>5, <1>6, <1>9 DEF S

\* Every packet holds what is required, fits the budget and is described by
\* its manifest; one is refused only when the required sections do not fit.
THEOREM PacketsFit == Spec => []WithinBudget
<1>1. TypeOK => WithinBudget
  <2> SUFFICES ASSUME TypeOK PROVE WithinBudget
    OBVIOUS
  <2>1. CASE packet = NoPacket
    BY <2>1 DEF WithinBudget, ManifestTrue, Made, Overflow, NoPacket
  <2>2. CASE packet # NoPacket
    <3> DEFINE role == packet.role
               size == packet.size
    <3>1. role \in Role /\ size \in Sizes(role)
      BY <2>2, Packets
    <3>2. /\ Given = Sections(role, size) /\ WellMade(Given)
          /\ Overflow => Estimate(Required(Given)) > MaxInputTokens
          /\ Made => /\ Estimate(Required(Given)) <= MaxInputTokens
                     /\ packet.taken = Taken(Given)
                     /\ packet.tokens = Estimate(packet.taken)
                     /\ packet.messages = Messages(role, packet.taken)
                     /\ packet.count = Count(role, Given, packet.taken)
                     /\ packet.truncated = (Optional(Given) \ packet.taken # {})
                     /\ packet.operational =
                          (role = "collaborator"
                             /\ ~Has(Optional(Given) \ packet.taken, "operational_state"))
      BY <2>2, Packets DEF Given
    <3> HIDE DEF role, size
    <3>3. CASE Made
      <4> DEFINE taken == packet.taken
      <4>1. /\ Required(Given) \subseteq taken
            /\ taken \subseteq Required(Given) \cup Optional(Given)
            /\ packet.tokens <= MaxInputTokens
        BY <3>2, <3>3, SelectionFits
      <4>2. Required(Given) \cup Optional(Given) = {s \in Given : s.present}
        BY <3>2 DEF WellMade, Required, Optional, SectionType
      <4>3. (Optional(Given) \ taken # {}) <=> (taken # {s \in Given : s.present})
        BY <4>1, <4>2
      <4>4. packet.truncated = (taken # {s \in Given : s.present})
        BY <3>2, <3>3, <4>3
      <4>5. /\ packet.count = Len(packet.messages)
            /\ packet.operational = Has(taken, "operational_state")
        <5>1. CASE role = "collaborator"
          <6>1. /\ taken \subseteq Sections("collaborator", size)
                /\ Required(Sections("collaborator", size)) \subseteq taken
                /\ size \in Sizes("collaborator")
            BY <3>1, <3>2, <4>1, <4>2, <5>1
          <6>2. /\ Count("collaborator", Given, taken) =
                     Len(Messages("collaborator", taken))
                /\ ~Has(Optional(Given) \ taken, "operational_state")
                     <=> Has(taken, "operational_state")
            BY <3>2, <5>1, <6>1, CollaboratorManifest DEF TypeOK
          <6>3. packet.count = Len(packet.messages)
            BY <3>2, <3>3, <5>1, <6>2
          <6>4. packet.operational = (~Has(Optional(Given) \ taken, "operational_state"))
            BY <3>2, <3>3, <5>1
          <6>5. (~Has(Optional(Given) \ taken, "operational_state"))
                  = Has(taken, "operational_state")
            BY <6>2 DEF Has
          <6> QED BY <6>3, <6>4, <6>5
        <5>2. CASE role # "collaborator"
          <6>1. \A s \in Given : s.name # "operational_state"
            <7>1. CASE role = "focused"
              BY <3>1, <3>2, <7>1, FocusedSections DEF TypeOK
            <7>2. CASE role \in {"curator", "evaluator", "planner", "builder"}
              BY <3>1, <3>2, <7>2, OtherSections DEF TypeOK
            <7> QED BY <3>1, <5>2, <7>1, <7>2 DEF Role
          <6>2. Has(taken, "operational_state") = FALSE
            BY <4>1, <4>2, <6>1 DEF Has
          <6>3. packet.operational = FALSE
            BY <3>2, <3>3, <5>2
          <6>4. Count(role, Given, taken) = Len(Messages(role, taken))
            BY <5>2 DEF Count, Messages
          <6> QED BY <3>2, <3>3, <6>2, <6>3, <6>4
        <5> QED BY <5>1, <5>2
      <4>6. ~Overflow
        BY <3>3 DEF Made, Overflow
      <4> QED BY <4>1, <4>4, <4>5, <4>6 DEF WithinBudget, ManifestTrue
    <3>4. CASE ~Made
      BY <3>2, <3>4 DEF WithinBudget, ManifestTrue
    <3> QED BY <3>3, <3>4
  <2> QED BY <2>1, <2>2
<1> QED BY <1>1, TypeCorrect, PTL

\* The collaborator's messages: the recent ones, if they fit, then the
\* request; in their order.
LEMMA CollaboratorMessages ==
  ASSUME thread \in Seq(Message), NEW taken
  PROVE  LET list == Messages("collaborator", taken) IN
         /\ Current # 0 => Contains(list, Conversation[Current])
         /\ \A i, j \in 1..Len(list) : i < j => list[i] < list[j]
<1> DEFINE last == Conversation[Current]
           before == IF Has(taken, "recent_messages") THEN Recent ELSE <<>>
           list == Messages("collaborator", taken)
           X == 1..Len(thread) \cup {last}
<1>1. list = before \o (IF Current = 0 THEN <<>> ELSE <<last>>)
  BY DEF Messages
<1>2. /\ before \in Seq(X)
      /\ \A i, j \in 1..Len(before) : i < j => before[i] < before[j]
      /\ \A i \in 1..Len(before) : Current # 0 /\ before[i] < last
  <2>1. /\ Recent \in Seq(X)
        /\ \A i, j \in 1..Len(Recent) : i < j => Recent[i] < Recent[j]
        /\ \A i \in 1..Len(Recent) : Current # 0 /\ Recent[i] < last
    <3>1. Rising(Recent)
      BY RecentRises
    <3>2. \A i \in 1..Len(Recent) : Current # 0 /\ Recent[i] < last
      BY RecentRises
    <3>3. Recent \in Seq(X)
      BY <3>1, SeqDef DEF Rising
    <3> HIDE DEF last, X
    <3> QED BY <3>1, <3>2, <3>3 DEF Rising
  <2>2. <<>> \in Seq(X) /\ 1..Len(<<>>) = {}
    OBVIOUS
  <2> HIDE DEF last, X
  <2> QED BY <2>1, <2>2
<1> HIDE DEF last, X, before, list
<1>3. CASE Current = 0
  <2>1. list = before \o <<>>
    BY <1>1, <1>3
  <2>2. list = before
    BY <1>2, <2>1, ConcatEmptySeq
  <2> QED BY <1>2, <1>3, <2>2 DEF list, last
<1>4. CASE Current # 0
  <2>1. list = before \o <<last>>
    BY <1>1, <1>4
  <2>2. <<last>> \in Seq(X) /\ Len(<<last>>) = 1 /\ <<last>>[1] = last
    BY DEF X
  <2>3. Len(before) \in Nat
    BY <1>2, LenProperties
  <2>4. /\ Len(list) = Len(before) + 1
        /\ \A i \in 1..Len(list) :
             list[i] = IF i <= Len(before) THEN before[i] ELSE <<last>>[i - Len(before)]
    BY <1>2, <2>1, <2>2, ConcatProperties
  <2>5. list[Len(list)] = last /\ Len(list) \in 1..Len(list)
    BY <2>2, <2>3, <2>4
  <2>6. Contains(list, last)
    BY <2>5 DEF Contains
  <2>7. ASSUME NEW i \in 1..Len(list), NEW j \in 1..Len(list), i < j
        PROVE  list[i] < list[j]
    <3>1. i \in 1..Len(before) /\ list[i] = before[i]
      BY <2>3, <2>4, <2>7
    <3>2. CASE j <= Len(before)
      BY <1>2, <2>3, <2>4, <2>7, <3>1, <3>2
    <3>3. CASE j = Len(list)
      BY <1>2, <2>5, <3>1, <3>3
    <3> QED BY <2>3, <2>4, <2>7, <3>2, <3>3
  <2> QED BY <2>6, <2>7 DEF list, last
<1> QED BY <1>3, <1>4

\* However small the budget and the window, the request of the user reaches
\* the model, and no message is moved or repeated for it.
THEOREM RequestReaches == Spec => []RequestKept
<1>1. TypeOK => RequestKept
  <2> SUFFICES ASSUME TypeOK, Made PROVE RequestKept
    BY DEF RequestKept
  <2> DEFINE role == packet.role
             taken == packet.taken
             list == packet.messages
             request == Conversation[LatestUser(Conversation)]
             Asked == LatestUser(Conversation) # 0
             InPlace == \A i, j \in 1..Len(list) : i < j => list[i] < list[j]
  <2>1. packet # NoPacket /\ thread \in Seq(Message)
    BY DEF Made, NoPacket, TypeOK
  <2>2. /\ role \in Role /\ packet.size \in Sizes(role)
        /\ list = Messages(role, taken)
        /\ WellMade(Given) /\ Estimate(Required(Given)) <= MaxInputTokens
        /\ taken = Taken(Given)
    BY <2>1, Packets
  <2>3. Required(Given) \subseteq taken
    BY <2>2, SelectionFits
  <2>4. CASE role = "collaborator"
    <3>1. list = Messages("collaborator", taken)
      BY <2>2, <2>4
    <3>2. /\ Asked => Contains(list, request)
          /\ InPlace
      BY <2>1, <3>1, CollaboratorMessages DEF Current
    <3> QED BY <3>2 DEF RequestKept
  <2>5. CASE role = "curator"
    <3>1. list = Conversation
      BY <2>2, <2>5 DEF Messages
    <3>2. Rising(Conversation)
      BY <2>1, ConversationRises
    <3>3. Len(Conversation) \in Nat
      BY <3>2 DEF Rising
    <3>4. Asked => LatestUser(Conversation) \in 1..Len(Conversation)
      BY <3>3, LatestIsLast
    <3>5. Asked => Contains(list, request)
      BY <3>1, <3>4 DEF Contains
    <3>6. InPlace
      BY <3>1, <3>2 DEF Rising
    <3> QED BY <3>5, <3>6 DEF RequestKept
  <2>6. CASE role = "focused"
    <3>1. list = KeptMessages(Window, taken)
      BY <2>2, <2>6 DEF Messages
    <3>2. /\ Rising(Window)
          /\ Asked => /\ LatestUser(Window) \in 1..Len(Window)
                      /\ Window[LatestUser(Window)] = request
      BY <2>1, WindowKeepsRequest
    <3>3. Rising(list)
      BY <3>1, <3>2, KeptRises
    <3>4. InPlace
      BY <3>3 DEF Rising
    <3>5. ASSUME Asked PROVE Contains(list, request)
      <4>1. Given = Sections("focused", packet.size) /\ packet.size \in Sizes("focused")
        BY <2>2, <2>6 DEF Given
      <4>2. LatestUser(Window) # 0
        BY <3>2, <3>5
      <4>3. \E s \in Required(Given) : /\ s.name = "focused_message"
                                      /\ s.index = Len(Window) - LatestUser(Window)
        BY <2>1, <4>1, <4>2, FocusedSections
      <4>4. \E s \in taken : /\ s.name = "focused_message"
                             /\ s.index = Len(Window) - LatestUser(Window)
        BY <2>3, <4>3
      <4> QED BY <3>1, <3>2, <3>5, <4>4, KeptRises
    <3> QED BY <3>4, <3>5 DEF RequestKept
  <2>7. CASE role \in {"evaluator", "planner", "builder"}
    <3>1. list = <<>>
      BY <2>2, <2>7 DEF Messages
    <3>2. InPlace
      BY <3>1
    <3> QED BY <2>7, <3>2 DEF RequestKept
  <2> QED BY <2>2, <2>4, <2>5, <2>6, <2>7 DEF Role
<1> QED BY <1>1, TypeCorrect, PTL
=============================================================================
