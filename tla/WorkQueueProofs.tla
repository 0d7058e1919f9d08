-------------------------- MODULE WorkQueueProofs --------------------------
(***************************************************************************)
(* Proofs about the durable work of the service: the plan by which a       *)
(* conversation is summarised, the compaction of a prompt that follows it, *)
(* the memory jobs that write its summaries, and the mail outbox; for any  *)
(* number of workers, claims, attempts and mails.                          *)
(***************************************************************************)
EXTENDS MemoryWork, ContextCompaction, MailDelivery, FiniteSums

-----------------------------------------------------------------------------
(* The windows of a conversation *)

\* A finite set of integers has its bounds.
LEMMA HasMax ==
    ASSUME NEW S, IsFiniteSet(S), S \subseteq Int, S # {}
    PROVE  Max(S) \in S /\ \A y \in S : y <= Max(S)
<1> DEFINE Bad == {T \in SUBSET S : T # {} /\ ~\E x \in T : \A y \in T : x >= y}
<1>1. ASSUME Bad # {} PROVE FALSE
  <2>1. Bad \subseteq SUBSET S
    OBVIOUS
  <2>2. PICK T \in Bad : \A U \in (SUBSET T) \ {T} : U \notin Bad
    <3> HIDE DEF Bad
    <3> QED BY <1>1, <2>1, SmallestBad
  <2>3. T \in SUBSET S /\ T # {} /\ ~\E x \in T : \A y \in T : x >= y
    OBVIOUS
  <2>4. PICK z \in T : TRUE
    BY <2>3
  <2>5. z \in Int /\ T \ {z} # {} /\ T \ {z} \in SUBSET S
    BY <2>3, <2>4
  <2>6. PICK x \in T \ {z} : \A y \in T \ {z} : x >= y
    BY <2>2, <2>4, <2>5
  <2>7. x \in Int /\ \A y \in T : y \in Int
    BY <2>3
  <2> HIDE DEF Bad
  <2>8. CASE x >= z
    BY <2>3, <2>6, <2>8
  <2>9. CASE z >= x
    <3>1. \A y \in T : z >= y
      BY <2>5, <2>6, <2>7, <2>9
    <3> QED BY <2>3, <3>1
  <2> QED BY <2>5, <2>7, <2>8, <2>9
<1>2. \E x \in S : \A y \in S : x >= y
  BY <1>1
<1>3. Max(S) \in S /\ \A y \in S : Max(S) >= y
  BY <1>2 DEF Max
<1> QED BY <1>3

\* A finite set of integers that is not empty has a least element.
LEMMA HasMin ==
    ASSUME NEW S, IsFiniteSet(S), S \subseteq Int, S # {}
    PROVE  Min(S) \in S /\ \A y \in S : Min(S) <= y
<1> DEFINE D == [x \in S |-> -x]
           R == {D[x] : x \in S}
<1>1. IsFiniteSet(R) /\ R \subseteq Int /\ R # {}
  <2>1. IsFiniteSet(R)
    <3> HIDE DEF D
    <3> QED BY ImageIsFinite
  <2>2. \A x \in S : D[x] \in Int
    OBVIOUS
  <2> HIDE DEF D
  <2> QED BY <2>1, <2>2
<1>2. Max(R) \in R /\ \A y \in R : y <= Max(R)
  <2> HIDE DEF R
  <2> QED BY <1>1, HasMax
<1>3. PICK x \in S : Max(R) = -x
  BY <1>2
<1>4. \A y \in S : x <= y
  <2> SUFFICES ASSUME NEW y \in S PROVE x <= y
    OBVIOUS
  <2>1. -y \in R
    OBVIOUS
  <2>2. -y <= -x
    BY <1>2, <1>3, <2>1
  <2>3. x \in Int /\ y \in Int
    OBVIOUS
  <2> HIDE DEF R
  <2> QED BY <2>2, <2>3
<1>5. \E z \in S : \A y \in S : z =< y
  BY <1>4
<1> QED BY <1>5 DEF Min

-----------------------------------------------------------------------------
(* Windows of measured messages *)

\* Ranks that are loaded, and measured by W.
Measured(W, S) == S \subseteq Nat /\ IsFiniteSet(S) /\ \A i \in S : W[i] \in Nat

\* The tokens of a part of the messages are no more than those of all.
LEMMA TokensOfParts ==
    ASSUME NEW W, NEW S, Measured(W, S), NEW T \in SUBSET S
    PROVE  /\ Measured(W, T)
           /\ Tokens(W, T) \in Nat /\ Tokens(W, S) \in Nat /\ Tokens(W, T) <= Tokens(W, S)
<1>1. Tokens(W, T) = Sum(W, T) /\ Tokens(W, S) = Sum(W, S)
  BY DEF Tokens, Sum
<1>2. Measured(W, T)
  BY FS_Subset DEF Measured
<1>3. Sum(W, T) \in Nat /\ Sum(W, S) \in Nat
  BY <1>2, SumIsNat DEF Measured
<1>4. Sum(W, T) <= Sum(W, S)
  BY SumGrows DEF Measured
<1> QED BY <1>1, <1>2, <1>3, <1>4

\* No messages have no tokens.
LEMMA TokensOfNone == \A W : Tokens(W, {}) = 0
BY SumEmpty DEF Tokens, Sum

\* The tokens of two parts without a common message add up.
LEMMA TokensOfTwo ==
    ASSUME NEW W, NEW S, NEW T, Measured(W, S), Measured(W, T), S \cap T = {}
    PROVE  Tokens(W, S \cup T) = Tokens(W, S) + Tokens(W, T)
<1>1. \A i \in S \cup T : W[i] \in Int
  BY DEF Measured
<1>2. Sum(W, S \cup T) = Sum(W, S) + Sum(W, T)
  BY <1>1, SumOfTwo DEF Measured
<1> QED BY <1>2 DEF Tokens, Sum

\* The ends of a set of messages are members of it.
LEMMA Bounds ==
    ASSUME NEW W, NEW S, Measured(W, S), NEW T \in SUBSET S, T # {}
    PROVE  /\ Max(T) \in T /\ \A y \in T : y <= Max(T)
           /\ Min(T) \in T /\ \A y \in T : Min(T) <= y
<1>1. IsFiniteSet(T) /\ T \subseteq Int
  <2>1. T \subseteq Nat
    BY DEF Measured
  <2>2. IsFiniteSet(T)
    BY FS_Subset DEF Measured
  <2> QED BY <2>1, <2>2
<1> QED BY <1>1, HasMax, HasMin

\* Whoever stops reading has read more than the budget, from the one side
LEMMA OldestWindow ==
    ASSUME NEW W, NEW S, Measured(W, S), NEW budget \in Nat
    PROVE  LET P == OldestFirst(W, S, budget)
           IN  /\ P \in SUBSET S
               /\ \A i \in P, j \in S : j <= i => j \in P
               /\ S # {} => Min(S) \in P
               /\ P # S => Tokens(W, P) > budget
               /\ \A i \in S \ P : Tokens(W, UpTo(S, i) \ {i}) > budget
<1> DEFINE P == OldestFirst(W, S, budget)
           Before(i) == UpTo(S, i) \ {i}
<1>0. \A i \in S : i \in Nat
  BY DEF Measured
<1>1. P \in SUBSET S /\ \A i \in S : Before(i) \in SUBSET S
  BY DEF OldestFirst, UpTo
<1>2. \A i, j \in S : j <= i => Before(j) \in SUBSET Before(i)
  BY <1>0 DEF UpTo
<1>3. \A i \in S : Measured(W, Before(i)) /\ Tokens(W, Before(i)) \in Nat
  BY <1>1, TokensOfParts
<1>4. \A i, j \in S : j <= i => Tokens(W, Before(j)) <= Tokens(W, Before(i))
  <2> HIDE DEF Before
  <2> QED BY <1>2, <1>3, TokensOfParts
<1>5. \A i \in S : i \in P <=> Tokens(W, Before(i)) <= budget
  BY DEF OldestFirst
<1> HIDE DEF P, Before
<1>6. \A i \in P, j \in S : j <= i => j \in P
  BY <1>1, <1>3, <1>4, <1>5
<1>7. \A i \in S \ P : Tokens(W, Before(i)) > budget
  BY <1>3, <1>5
<1>8. S # {} => Min(S) \in P
  <2> SUFFICES ASSUME S # {} PROVE Min(S) \in P
    OBVIOUS
  <2>1. Min(S) \in S /\ \A y \in S : Min(S) <= y
    BY Bounds
  <2>2. Before(Min(S)) = {}
    BY <1>0, <2>1 DEF Before, UpTo
  <2> QED BY <1>5, <2>1, <2>2, TokensOfNone
<1>9. P # S => Tokens(W, P) > budget
  <2> SUFFICES ASSUME P # S PROVE Tokens(W, P) > budget
    OBVIOUS
  <2>1. S \ P \in SUBSET S /\ S \ P # {}
    BY <1>1
  <2> DEFINE i == Min(S \ P)
  <2>2. i \in S \ P /\ \A y \in S \ P : i <= y
    BY <2>1, Bounds
  <2> HIDE DEF i
  <2>3. Before(i) \in SUBSET P
    BY <1>0, <2>2 DEF Before, UpTo
  <2>4. Measured(W, P)
    BY <1>1, TokensOfParts
  <2>5. Tokens(W, Before(i)) <= Tokens(W, P) /\ Tokens(W, P) \in Nat
    BY <2>3, <2>4, TokensOfParts
  <2> QED BY <1>3, <1>7, <2>2, <2>5
<1> QED BY <1>1, <1>6, <1>7, <1>8, <1>9 DEF P, Before

\* or from the other, where a least number of messages is read whatever they measure.
LEMMA NewestWindow ==
    ASSUME NEW W, NEW S, Measured(W, S), NEW budget \in Nat, NEW least \in Int
    PROVE  LET N == NewestFirst(W, S, budget, least)
           IN  /\ N \in SUBSET S
               /\ \A i \in N, j \in S : i <= j => j \in N
               /\ N # S => Tokens(W, N) > budget
               /\ \A i \in S : Tokens(W, From(S, i) \ {i}) <= budget => i \in N
<1> DEFINE N == NewestFirst(W, S, budget, least)
           After(i) == From(S, i) \ {i}
<1>0. \A i \in S : i \in Nat
  BY DEF Measured
<1>1. N \in SUBSET S /\ \A i \in S : After(i) \in SUBSET S
  BY DEF NewestFirst, From
<1>2. \A i, j \in S : i <= j => After(j) \in SUBSET After(i)
  BY <1>0 DEF From
<1>3. \A i \in S : /\ Measured(W, After(i)) /\ Tokens(W, After(i)) \in Nat
                   /\ IsFiniteSet(After(i)) /\ Cardinality(After(i)) \in Nat
  <2>1. \A i \in S : Measured(W, After(i)) /\ Tokens(W, After(i)) \in Nat
    BY <1>1, TokensOfParts
  <2> HIDE DEF After
  <2> QED BY <2>1, FS_CardinalityType DEF Measured
<1>4. \A i, j \in S : i <= j => /\ Tokens(W, After(j)) <= Tokens(W, After(i))
                                /\ Cardinality(After(j)) <= Cardinality(After(i))
  <2> HIDE DEF After
  <2> QED BY <1>2, <1>3, TokensOfParts, FS_Subset
<1>5. \A i \in S : i \in N <=> Tokens(W, After(i)) <= budget \/ Cardinality(After(i)) < least
  BY DEF NewestFirst
<1> HIDE DEF N, After
<1>6. \A i \in N, j \in S : i <= j => j \in N
  BY <1>1, <1>3, <1>4, <1>5
<1>7. N # S => Tokens(W, N) > budget
  <2> SUFFICES ASSUME N # S PROVE Tokens(W, N) > budget
    OBVIOUS
  <2>1. S \ N \in SUBSET S /\ S \ N # {}
    BY <1>1
  <2> DEFINE i == Max(S \ N)
  <2>2. i \in S \ N /\ \A y \in S \ N : y <= i
    BY <2>1, Bounds
  <2> HIDE DEF i
  <2>3. After(i) \in SUBSET N
    BY <1>0, <2>2 DEF After, From
  <2>4. Measured(W, N)
    BY <1>1, TokensOfParts
  <2>5. Tokens(W, After(i)) <= Tokens(W, N) /\ Tokens(W, N) \in Nat
    BY <2>3, <2>4, TokensOfParts
  <2>6. Tokens(W, After(i)) > budget
    BY <1>3, <1>5, <2>2
  <2> QED BY <1>3, <2>2, <2>5, <2>6
<1>8. \A i \in S : Tokens(W, From(S, i) \ {i}) <= budget => i \in N
  BY <1>5 DEF After
<1> QED BY <1>1, <1>6, <1>7, <1>8 DEF N

\* What follows a protected message measures less than the recent text.
LEMMA ProtectedText ==
    ASSUME NEW W, NEW S, Measured(W, S)
    PROVE  /\ Protected(W, S) \in SUBSET S
           /\ \A i \in S : i \in Protected(W, S) <=> Tokens(W, From(S, i) \ {i}) < Recent
<1> DEFINE enough == {i \in S : Tokens(W, From(S, i)) >= Recent}
           After(i) == From(S, i) \ {i}
<1>0. (\A i \in S : i \in Nat) /\ Recent \in Nat /\ Recent >= 1
  BY PolicyAssumption DEF Measured
<1>1. /\ \A i \in S : From(S, i) \in SUBSET S /\ After(i) \in SUBSET From(S, i)
      /\ \A i, j \in S : i < j => From(S, j) \in SUBSET After(i)
  BY <1>0 DEF From
<1>2. \A i \in S : /\ Measured(W, From(S, i)) /\ Measured(W, After(i))
                   /\ Tokens(W, From(S, i)) \in Nat /\ Tokens(W, After(i)) \in Nat
                   /\ Tokens(W, After(i)) <= Tokens(W, From(S, i))
  <2>1. \A i \in S : Measured(W, From(S, i)) /\ Tokens(W, From(S, i)) \in Nat
    BY <1>1, TokensOfParts
  <2> HIDE DEF After
  <2> QED BY <1>1, <2>1, TokensOfParts
<1>3. \A i, j \in S : i < j => Tokens(W, From(S, j)) <= Tokens(W, After(i))
  <2> HIDE DEF After
  <2> QED BY <1>1, <1>2, TokensOfParts
<1> HIDE DEF After
<1>4. CASE enough = {}
  <2>1. Protected(W, S) = S
    BY <1>4 DEF Protected
  <2>2. \A i \in S : Tokens(W, From(S, i)) < Recent
    BY <1>0, <1>2, <1>4
  <2>3. \A i \in S : Tokens(W, After(i)) < Recent
    BY <1>0, <1>2, <2>2
  <2> QED BY <2>1, <2>3 DEF After
<1>5. CASE enough # {}
  <2> DEFINE x == Max(enough)
  <2>1. x \in enough /\ \A y \in enough : y <= x
    <3>1. enough \in SUBSET S
      OBVIOUS
    <3> HIDE DEF enough
    <3> QED BY <1>5, <3>1, Bounds
  <2>2. Protected(W, S) = From(S, x)
    BY <1>5 DEF Protected
  <2> HIDE DEF x
  <2>3. x \in S /\ Tokens(W, From(S, x)) >= Recent
    BY <2>1
  <2>4. ASSUME NEW i \in S PROVE i \in From(S, x) <=> Tokens(W, After(i)) < Recent
    <3>1. CASE i < x
      <4>1. Tokens(W, After(i)) >= Recent
        BY <1>0, <1>2, <1>3, <2>3, <3>1
      <4>2. ~(Tokens(W, After(i)) < Recent)
        BY <1>0, <1>2, <4>1
      <4>3. i \notin From(S, x)
        BY <1>0, <2>3, <3>1 DEF From
      <4> QED BY <4>2, <4>3
    <3>2. CASE x <= i
      <4>1. CASE After(i) = {}
        BY <1>0, <3>2, <4>1, TokensOfNone DEF From
      <4>2. CASE After(i) # {}
        <5> DEFINE j == Min(After(i))
        <5>1. After(i) \in SUBSET S
          BY <1>1
        <5>2. j \in After(i) /\ \A y \in After(i) : j <= y
          BY <4>2, <5>1, Bounds
        <5> HIDE DEF j
        <5>3. j \in S /\ i < j /\ After(i) = From(S, j)
          BY <1>0, <5>2 DEF After, From
        <5>4. j \notin enough
          BY <1>0, <2>1, <3>2, <5>3
        <5>5. Tokens(W, From(S, j)) < Recent
          BY <1>0, <1>2, <5>3, <5>4
        <5> QED BY <3>2, <5>3, <5>5 DEF From
      <4> QED BY <4>1, <4>2
    <3> QED BY <1>0, <2>3, <3>1, <3>2
  <2>5. From(S, x) \in SUBSET S
    BY DEF From
  <2> QED BY <2>2, <2>4, <2>5 DEF After
<1> QED BY <1>4, <1>5

\* Protected messages are a suffix.
LEMMA ProtectedIsSuffix ==
    ASSUME NEW W, NEW S, Measured(W, S), NEW i \in Protected(W, S), NEW j \in S, i <= j
    PROVE  j \in Protected(W, S)
<1>1. \A k \in S : k \in Nat
  BY DEF Measured
<1>2. /\ Protected(W, S) \in SUBSET S
      /\ \A k \in S : k \in Protected(W, S) <=> Tokens(W, From(S, k) \ {k}) < Recent
  BY ProtectedText
<1>3. From(S, j) \ {j} \in SUBSET (From(S, i) \ {i}) /\ From(S, i) \ {i} \in SUBSET S
  BY <1>1, <1>2 DEF From
<1>4. Measured(W, From(S, i) \ {i})
  BY <1>3, TokensOfParts
<1>5. /\ Tokens(W, From(S, j) \ {j}) <= Tokens(W, From(S, i) \ {i})
      /\ Tokens(W, From(S, j) \ {j}) \in Nat /\ Tokens(W, From(S, i) \ {i}) \in Nat
  BY <1>3, <1>4, TokensOfParts
<1>6. Recent \in Nat
  BY PolicyAssumption
<1> QED BY <1>2, <1>5, <1>6

\* What a suffix of S protects, and what its members are followed by.
LEMMA SuffixProtects ==
    ASSUME NEW W, NEW S, Measured(W, S), NEW T \in SUBSET S,
           \A i \in T, j \in S : i <= j => j \in T
    PROVE  /\ \A i \in T : From(T, i) = From(S, i)
           /\ Protected(W, T) = Protected(W, S) \cap T
<1>1. Measured(W, T)
  BY TokensOfParts
<1>2. \A i \in T : From(T, i) = From(S, i)
  BY DEF From
<1>3. /\ Protected(W, T) \in SUBSET T
      /\ \A i \in T : i \in Protected(W, T) <=> Tokens(W, From(T, i) \ {i}) < Recent
  BY <1>1, ProtectedText
<1>4. \A i \in T : i \in Protected(W, S) <=> Tokens(W, From(S, i) \ {i}) < Recent
  BY ProtectedText
<1> QED BY <1>2, <1>3, <1>4

\* What the lookahead reads besides a prompt reaches the end of the next batch.
LEMMA LookaheadReaches ==
    Lookahead \in Nat /\ Lookahead >= Threshold /\ Lookahead >= Batch /\ Recent \in Nat
    /\ Threshold \in Nat /\ Batch \in Nat /\ Threshold >= 1 /\ Recent >= 1
BY PolicyAssumption DEF Lookahead

\* The two windows that are loaded protect the same recent text as the whole.
LEMMA LoadedProtects ==
    ASSUME NEW W, NEW S, Measured(W, S)
    PROVE  LET L == Loaded(W, S)
               P == OldestFirst(W, S, Lookahead)
           IN  /\ L \in SUBSET S /\ P \in SUBSET L
               /\ Protected(W, L) = Protected(W, S)
               /\ P = S => L = S
<1> DEFINE L == Loaded(W, S)
           P == OldestFirst(W, S, Lookahead)
           N == NewestFirst(W, S, Recent, 0)
<1>1. P \in SUBSET S
  BY OldestWindow, LookaheadReaches
<1>2. /\ N \in SUBSET S
      /\ \A i \in N, j \in S : i <= j => j \in N
      /\ N # S => Tokens(W, N) > Recent
      /\ \A i \in S : Tokens(W, From(S, i) \ {i}) <= Recent => i \in N
  BY NewestWindow, LookaheadReaches
<1>3. L = IF P = S THEN S ELSE P \cup N
  BY DEF Loaded
<1> HIDE DEF L, P, N
<1>4. CASE P = S
  <2>1. L = S
    BY <1>3, <1>4
  <2> QED BY <1>1, <1>4, <2>1 DEF L, P
<1>5. CASE P # S
  <2>1. L = P \cup N /\ L \in SUBSET S
    BY <1>1, <1>2, <1>3, <1>5
  <2>2. Measured(W, L) /\ Measured(W, N)
    BY <1>2, <2>1, TokensOfParts
  <2>3. /\ Protected(W, S) \in SUBSET S
        /\ \A i \in S : i \in Protected(W, S) <=> Tokens(W, From(S, i) \ {i}) < Recent
        /\ Protected(W, L) \in SUBSET L
        /\ \A i \in L : i \in Protected(W, L) <=> Tokens(W, From(L, i) \ {i}) < Recent
    BY <2>2, ProtectedText
  <2>4. \A i \in S : Measured(W, From(S, i) \ {i}) /\ Tokens(W, From(S, i) \ {i}) \in Nat
    <3>1. \A i \in S : From(S, i) \ {i} \in SUBSET S
      BY DEF From
    <3> QED BY <3>1, TokensOfParts
  <2>5. Protected(W, S) \in SUBSET N
    <3>1. \A i \in Protected(W, S) : i \in S /\ Tokens(W, From(S, i) \ {i}) <= Recent
      BY <2>3, <2>4, LookaheadReaches
    <3> QED BY <1>2, <3>1
  <2>6. \A i \in N : From(L, i) = From(S, i)
    BY <1>2, <2>1 DEF From
  <2>7. ASSUME NEW i \in L, i \notin N PROVE i \notin Protected(W, L)
    <3>1. N # S /\ i \in S
      BY <2>1, <2>7
    <3>2. N \in SUBSET (From(L, i) \ {i})
      <4>1. \A j \in N : j \in Nat /\ i \in Nat /\ ~(j <= i)
        BY <1>2, <2>7, <3>1 DEF Measured
      <4> QED BY <2>1, <2>7, <4>1 DEF From
    <3>3. From(L, i) \ {i} \in SUBSET L
      BY DEF From
    <3>4. Measured(W, From(L, i) \ {i})
      BY <2>2, <3>3, TokensOfParts
    <3>5. Tokens(W, N) <= Tokens(W, From(L, i) \ {i}) /\ Tokens(W, N) \in Nat
          /\ Tokens(W, From(L, i) \ {i}) \in Nat
      BY <3>2, <3>4, TokensOfParts
    <3> QED BY <1>2, <2>3, <3>1, <3>5, LookaheadReaches
  <2>8. \A i : i \in Protected(W, L) <=> i \in Protected(W, S)
    BY <2>1, <2>3, <2>5, <2>6, <2>7
  <2>9. P \in SUBSET L
    BY <2>1
  <2>10. Protected(W, L) = Protected(W, S)
    BY <2>8
  <2> QED BY <1>5, <2>1, <2>9, <2>10 DEF L, P
<1> QED BY <1>4, <1>5 DEF L, P

\* What is planned from the windows is what would be planned from the whole.
LEMMA WindowsDecide ==
    ASSUME NEW W, NEW S, Measured(W, S), NEW t \in Nat
    PROVE  /\ Selected(W, Loaded(W, S), t) = Selected(W, S, t)
           /\ Conflicts(W, Loaded(W, S), t) <=> Conflicts(W, S, t)
<1> DEFINE L == Loaded(W, S)
           P == OldestFirst(W, S, Lookahead)
<1>1. L \in SUBSET S /\ P \in SUBSET L /\ Protected(W, L) = Protected(W, S) /\ (P = S => L = S)
  BY LoadedProtects
<1>2. /\ P \in SUBSET S
      /\ \A i \in P, j \in S : j <= i => j \in P
      /\ S # {} => Min(S) \in P
      /\ P # S => Tokens(W, P) > Lookahead
      /\ \A i \in S \ P : Tokens(W, UpTo(S, i) \ {i}) > Lookahead
  BY OldestWindow, LookaheadReaches
<1> HIDE DEF L, P
<1>3. Conflicts(W, L, t) <=> Conflicts(W, S, t)
  BY <1>1 DEF Conflicts
<1>4. CASE P = S
  BY <1>1, <1>3, <1>4 DEF L
<1>5. CASE P # S
  <2>1. Measured(W, L) /\ Measured(W, P) /\ \A i \in S : i \in Nat
    BY <1>1, <1>2, TokensOfParts DEF Measured
  <2>2. S # {} /\ Min(S) \in S /\ \A y \in S : Min(S) <= y
    <3>1. S # {}
      BY <1>2, <1>5
    <3> QED BY <3>1, Bounds
  <2> DEFINE m == Min(S)
  <2>3. m \in P /\ m \in L
    BY <1>1, <1>2, <2>2
  <2>4. Min(L) = m
    <3>1. Min(L) \in L /\ \A y \in L : Min(L) <= y
      BY <2>1, <2>3, Bounds
    <3> QED BY <1>1, <2>1, <2>2, <2>3, <3>1
  <2> HIDE DEF m
  <2>5. Required(L, t) <=> Required(S, t)
    <3>1. Required(S, t) <=> m <= t
      BY <2>1, <2>2 DEF Required, UpTo, m
    <3>2. Required(L, t) <=> m <= t
      BY <1>1, <2>1, <2>2, <2>3 DEF Required, UpTo, m
    <3> QED BY <3>1, <3>2
  <2>6. Tokens(W, P) > Lookahead /\ Tokens(W, P) \in Nat
    BY <1>2, <1>5, <2>1, TokensOfParts
  <2>7. ~(Tokens(W, L) < Threshold) /\ ~(Tokens(W, S) < Threshold)
    <3>1. Tokens(W, P) <= Tokens(W, L) /\ Tokens(W, L) \in Nat
      BY <1>1, <2>1, TokensOfParts
    <3>2. Tokens(W, L) <= Tokens(W, S) /\ Tokens(W, S) \in Nat
      BY <1>1, TokensOfParts
    <3> QED BY <2>6, <3>1, <3>2, LookaheadReaches
  <2> DEFINE E == Eligible(W, S, t)
             F == Eligible(W, L, t)
  <2>8. E \in SUBSET S /\ F = E \cap L
    BY <1>1, <2>5 DEF Eligible, UpTo
  <2>9. \A i \in E, j \in S : j <= i => j \in E
    <3>1. \A i \in S \ Protected(W, S), j \in S : j <= i => j \in S \ Protected(W, S)
      <4> SUFFICES ASSUME NEW i \in S \ Protected(W, S), NEW j \in S, j <= i, j \in Protected(W, S)
                   PROVE  FALSE
        OBVIOUS
      <4> QED BY ProtectedIsSuffix
    <3>2. \A i, j \in S : i <= t /\ j <= i => j <= t
      BY <2>1
    <3> QED BY <3>1, <3>2 DEF Eligible, UpTo
  <2> HIDE DEF E, F
  <2>10. BatchOf(W, F) = BatchOf(W, E)
    <3>1. CASE E = {}
      BY <2>8, <3>1
    <3>2. CASE E # {}
      <4>1. m \in E /\ m \in F
        BY <2>2, <2>3, <2>8, <2>9, <3>2 DEF m
      <4>2. Min(E) = m /\ Min(F) = m
        <5>1. /\ Min(E) \in E /\ \A y \in E : Min(E) <= y
              /\ Min(F) \in F /\ \A y \in F : Min(F) <= y
          <6>1. F \in SUBSET S
            BY <2>8
          <6> QED BY <2>8, <4>1, <6>1, Bounds
        <5>2. m <= Min(E) /\ Min(E) <= m /\ m <= Min(F) /\ Min(F) <= m
          BY <2>2, <2>8, <4>1, <5>1 DEF m
        <5>3. m \in Nat /\ Min(E) \in Nat /\ Min(F) \in Nat
          <6>1. m \in S /\ Min(E) \in S /\ Min(F) \in S
            BY <2>8, <4>1, <5>1
          <6> QED BY <2>1, <6>1
        <5> QED BY <5>2, <5>3
      <4>3. ASSUME NEW i \in E \cap P
            PROVE  i \in F /\ UpTo(F, i) = UpTo(E, i)
        <5>1. \A j \in E : j <= i => j \in P
          BY <1>2, <2>8
        <5> QED BY <1>1, <2>8, <5>1 DEF UpTo
      <4>4. ASSUME NEW i \in E, i \notin P
            PROVE  i \notin BatchOf(W, E) /\ i \notin BatchOf(W, F)
        <5>1. i \in S /\ i # m
          BY <2>3, <2>8, <4>4
        <5>2. P \in SUBSET UpTo(E, i)
          <6>1. \A j \in P : j \in S /\ j <= i
            BY <1>2, <2>1, <4>4, <5>1
          <6> QED BY <2>9, <6>1 DEF UpTo
        <5>3. ~(Tokens(W, UpTo(E, i)) <= Batch)
          <6>1. UpTo(E, i) \in SUBSET S
            BY <2>8 DEF UpTo
          <6>2. Measured(W, UpTo(E, i))
            BY <6>1, TokensOfParts
          <6>3. Tokens(W, P) <= Tokens(W, UpTo(E, i)) /\ Tokens(W, UpTo(E, i)) \in Nat
            BY <5>2, <6>2, TokensOfParts
          <6> QED BY <2>6, <6>3, LookaheadReaches
        <5>4. i \in F => ~(Tokens(W, UpTo(F, i)) <= Batch)
          <6>1. UpTo(F, i) \in SUBSET S /\ P \in SUBSET UpTo(F, i)
            BY <1>1, <2>8, <5>2 DEF UpTo
          <6>2. Measured(W, UpTo(F, i))
            BY <6>1, TokensOfParts
          <6>3. Tokens(W, P) <= Tokens(W, UpTo(F, i)) /\ Tokens(W, UpTo(F, i)) \in Nat
            BY <6>1, <6>2, TokensOfParts
          <6> QED BY <2>6, <6>3, LookaheadReaches
        <5> QED BY <4>2, <5>1, <5>3, <5>4 DEF BatchOf
      <4>5. \A i : i \in BatchOf(W, F) <=> i \in BatchOf(W, E)
        <5>1. \A i \in E \cap P : i \in BatchOf(W, F) <=> i \in BatchOf(W, E)
          BY <4>2, <4>3 DEF BatchOf
        <5>2. BatchOf(W, F) \subseteq E /\ BatchOf(W, E) \subseteq E
          BY <2>8 DEF BatchOf
        <5> QED BY <4>4, <5>1, <5>2
      <4> QED BY <4>5
    <3> QED BY <3>1, <3>2
  <2>11. Selected(W, L, t) = Selected(W, S, t)
    BY <1>3, <2>5, <2>7, <2>10 DEF Selected, E, F
  <2> QED BY <1>3, <2>11 DEF L
<1> QED BY <1>4, <1>5

-----------------------------------------------------------------------------
(* The compaction of a prompt *)

(* Plans and prompts *)

EstimatesOf(s) == [i \in DOMAIN s |-> Estimate[s[i]]]
RenderingsOf(s) == [i \in DOMAIN s |-> RenderedSize[s[i]]]

\* The messages that are not summarised
Ahead(s, c) == {i \in 1..Len(s) : i > c}

\* What a target leaves raw always holds the recent tokens.
Placed(s, c, t) ==
    /\ s \in Seq(Sizes)
    /\ c \in Nat /\ (c = 0 \/ c <= Len(s) - 1)
    /\ t \in Nat
    /\ t # 0 => /\ t <= Len(s) - 1
                /\ Tokens(EstimatesOf(s), (t + 1)..Len(s)) >= Recent

\* A refused prompt fits as soon as its target is reached, whoever asked for more.
Promised(s, c, t, R) ==
    \A r \in R : /\ r.history \in SUBSET (1..Len(s))
                 /\ r.room \in Rooms
                 /\ Tokens(RenderingsOf(s), {i \in r.history : c < i /\ t < i}) <= r.room

PlanInv ==
    /\ Placed(sizes, covered, target)
    /\ Promised(sizes, covered, target, refused)
    /\ PromptIsWhole
    /\ lastPrompt.raw \in SUBSET (1..LargerTarget(0, Len(sizes) - 1))

\* The policies of the service, as numbers.
LEMMA Policies ==
    /\ Recent \in Nat /\ Recent >= 1 /\ MemoryBudget \in Nat /\ Batch \in Nat /\ Threshold \in Nat
    /\ LeastMessages - 1 \in Int /\ \A room \in Rooms : room \in Nat
BY PolicyAssumption, CompactionAssumption

\* What is measured of a message that was rendered is a number.
LEMMA MessagesMeasured ==
    ASSUME NEW s \in Seq(Sizes)
    PROVE  /\ Len(s) \in Nat /\ DOMAIN s = 1..Len(s)
           /\ Measured(EstimatesOf(s), 1..Len(s))
           /\ Measured(RenderingsOf(s), 1..Len(s))
           /\ \A i \in 1..Len(s) : EstimatesOf(s)[i] >= 1
<1>1. Len(s) \in Nat /\ DOMAIN s = 1..Len(s) /\ \A i \in 1..Len(s) : s[i] \in Sizes
  OBVIOUS
<1>2. IsFiniteSet(1..Len(s)) /\ 1..Len(s) \subseteq Nat
  BY <1>1, FS_Interval
<1>3. \A i \in 1..Len(s) : Estimate[s[i]] \in Nat \ {0} /\ RenderedSize[s[i]] \in Nat \ {0}
  BY <1>1, CompactionAssumption
<1> QED BY <1>1, <1>2, <1>3 DEF Measured, EstimatesOf, RenderingsOf

\* Every measure the compaction takes ahead of its place is a number.
LEMMA AheadMeasured ==
    ASSUME NEW s \in Seq(Sizes), NEW c \in Nat
    PROVE  /\ Ahead(s, c) \in SUBSET (1..Len(s))
           /\ Measured(EstimatesOf(s), Ahead(s, c)) /\ Measured(RenderingsOf(s), Ahead(s, c))
<1>1. Ahead(s, c) \in SUBSET (1..Len(s))
  BY DEF Ahead
<1> QED BY <1>1, MessagesMeasured, TokensOfParts

\* A target still ahead never lies in the protected messages and leaves a batch.
LEMMA TargetLeavesBatch ==
    ASSUME NEW s, NEW c, NEW t, Placed(s, c, t), Required(Ahead(s, c), t)
    PROVE  /\ ~Conflicts(EstimatesOf(s), Ahead(s, c), t)
           /\ Selected(EstimatesOf(s), Ahead(s, c), t) # {}
<1> DEFINE W == EstimatesOf(s)
           S == Ahead(s, c)
<1>1. s \in Seq(Sizes) /\ c \in Nat /\ t \in Nat /\ Len(s) \in Nat
  BY MessagesMeasured DEF Placed
<1>2. Measured(W, S) /\ S \in SUBSET (1..Len(s)) /\ \A i \in S : i \in Nat
  BY <1>1, AheadMeasured DEF Measured
<1>3. PICK j \in S : j <= t
  BY DEF Required, UpTo
<1>4. t # 0 /\ t <= Len(s) - 1 /\ Tokens(W, (t + 1)..Len(s)) >= Recent
  BY <1>1, <1>2, <1>3 DEF Placed
<1>5. \A i \in 1..Len(s) : i \in S <=> i > c
  BY DEF Ahead
<1> HIDE DEF W, S
<1>6. \A i \in S : i <= t => (t + 1)..Len(s) \in SUBSET (From(S, i) \ {i})
  <2> SUFFICES ASSUME NEW i \in S, i <= t, NEW k \in (t + 1)..Len(s)
               PROVE  k \in From(S, i) \ {i}
    OBVIOUS
  <2>1. k \in Nat /\ k >= t + 1 /\ k <= Len(s) /\ i \in Nat /\ j \in Nat /\ j > c
    BY <1>1, <1>2, <1>3, <1>5
  <2>2. k \in 1..Len(s) /\ k > c /\ k > i
    BY <1>1, <1>3, <2>1
  <2> QED BY <1>5, <2>1, <2>2 DEF From
<1>7. \A i \in S : i <= t => i \notin Protected(W, S)
  <2> SUFFICES ASSUME NEW i \in S, i <= t PROVE i \notin Protected(W, S)
    OBVIOUS
  <2>1. From(S, i) \ {i} \in SUBSET S
    BY DEF From
  <2>2. Measured(W, From(S, i) \ {i})
    BY <1>2, <2>1, TokensOfParts
  <2>3. /\ Tokens(W, (t + 1)..Len(s)) <= Tokens(W, From(S, i) \ {i})
        /\ Tokens(W, (t + 1)..Len(s)) \in Nat /\ Tokens(W, From(S, i) \ {i}) \in Nat
    <3> DEFINE later == (t + 1)..Len(s)
               after == From(S, i) \ {i}
    <3>1. later \in SUBSET after
      BY <1>6
    <3>2. Measured(W, after)
      BY <2>2
    <3> HIDE DEF later, after
    <3>3. Tokens(W, later) <= Tokens(W, after) /\ Tokens(W, later) \in Nat /\ Tokens(W, after) \in Nat
      BY <3>1, <3>2, TokensOfParts
    <3> QED BY <3>3 DEF later, after
  <2>4. ~(Tokens(W, From(S, i) \ {i}) < Recent)
    BY <1>4, <2>3, Policies
  <2> QED BY <1>2, <2>4, ProtectedText
<1>8. ~Conflicts(W, S, t)
  <2>1. Protected(W, S) \in SUBSET S
    BY <1>2, ProtectedText
  <2> QED BY <1>7, <2>1 DEF Conflicts, Required, UpTo
<1> DEFINE E == Eligible(W, S, t)
<1>9. Required(S, t)
  BY DEF S
<1>10. j \in E /\ E \in SUBSET S
  BY <1>3, <1>7, <1>9 DEF Eligible, UpTo
<1> HIDE DEF E
<1>11. Min(E) \in E
  BY <1>2, <1>10, Bounds
<1>12. Min(E) \in Selected(W, S, t)
  BY <1>8, <1>9, <1>11 DEF Selected, BatchOf, E
<1> QED BY <1>8, <1>12 DEF W, S

\* A batch is of old messages: the newest one is always protected.
LEMMA BatchIsOld ==
    ASSUME NEW s, NEW c, NEW t, Placed(s, c, t), NEW i \in Selected(EstimatesOf(s), Ahead(s, c), t)
    PROVE  i \in Ahead(s, c) /\ i \in Nat /\ i <= Len(s) - 1
<1> DEFINE W == EstimatesOf(s)
           S == Ahead(s, c)
<1>1. s \in Seq(Sizes) /\ c \in Nat /\ t \in Nat /\ Len(s) \in Nat
  BY MessagesMeasured DEF Placed
<1>2. Measured(W, S) /\ S \in SUBSET (1..Len(s)) /\ \A k \in S : k \in Nat
  BY <1>1, AheadMeasured DEF Measured
<1>3. i \in S /\ i \notin Protected(W, S)
  BY DEF Selected, BatchOf, Eligible, UpTo
<1> HIDE DEF W, S
<1>4. i # Len(s)
  <2> SUFFICES ASSUME i = Len(s) PROVE FALSE
    OBVIOUS
  <2>1. From(S, i) \ {i} = {}
    <3>1. \A k \in S : k >= i => k = i
      <4>1. \A k \in S : k \in Nat /\ k <= Len(s)
        BY <1>1, <1>2
      <4> QED BY <1>1, <4>1
    <3> QED BY <3>1 DEF From
  <2>2. Tokens(W, From(S, i) \ {i}) = 0
    BY <2>1, TokensOfNone
  <2>3. Tokens(W, From(S, i) \ {i}) < Recent
    BY <2>2, Policies
  <2> QED BY <1>2, <1>3, <2>3, ProtectedText
<1>5. i \in 1..Len(s)
  BY <1>2, <1>3
<1> QED BY <1>1, <1>3, <1>4, <1>5 DEF S

\* A suffix that does not fit asks for the same target as all that is pending.
LEMMA SuffixDecides ==
    ASSUME NEW W, NEW V, NEW S, Measured(W, S), Measured(V, S), NEW room \in Nat,
           NEW U \in SUBSET S, \A i \in U, j \in S : i <= j => j \in U,
           U # S => Tokens(V, U) > room
    PROVE  CompactionTarget(W, V, U, room) = CompactionTarget(W, V, S, room)
<1> DEFINE P == Protected(W, S)
           Q == Protected(W, U)
<1>0. \A i \in S : i \in Nat
  BY DEF Measured
<1>1. (\A i \in U : From(U, i) = From(S, i)) /\ Q = P \cap U
  BY SuffixProtects
<1>2. P \in SUBSET S /\ \A i \in S : i \in P <=> Tokens(W, From(S, i) \ {i}) < Recent
  BY ProtectedText
<1>3. \A i \in P, j \in S : i <= j => j \in P
  BY ProtectedIsSuffix
<1> HIDE DEF P, Q
<1>4. CASE U = S
  BY <1>4
<1>5. CASE U # S
  <2>1. Tokens(V, U) > room /\ Tokens(V, U) \in Nat /\ Measured(V, U)
    BY <1>5, TokensOfParts
  <2>2. CASE P \subseteq U
    <3>1. Q = P
      BY <1>1, <2>2
    <3> DEFINE kept == Tokens(V, P)
               budget == HistoryBudget(kept, room)
               EndsOf(T) == {i \in T \ P : Tokens(V, From(T, i) \ {i}) <= budget}
    <3>2. kept \in Nat
      BY <1>2, TokensOfParts
    <3> HIDE DEF kept
    <3>3. budget \in Nat /\ (kept <= room => budget <= room)
      BY <3>2, Policies DEF HistoryBudget
    <3>4. kept <= room => EndsOf(U) = EndsOf(S)
      <4> SUFFICES ASSUME kept <= room, NEW i \in S
                   PROVE  i \in EndsOf(U) <=> i \in EndsOf(S)
        OBVIOUS
      <4>1. CASE i \in U
        BY <1>1, <4>1
      <4>2. CASE i \notin U
        <5>1. U \in SUBSET (From(S, i) \ {i}) /\ From(S, i) \ {i} \in SUBSET S
          <6>1. \A j \in U : j >= i
            BY <1>0, <4>2
          <6> QED BY <4>2, <6>1 DEF From
        <5>2. Measured(V, From(S, i) \ {i})
          BY <5>1, TokensOfParts
        <5>3. Tokens(V, U) <= Tokens(V, From(S, i) \ {i}) /\ Tokens(V, From(S, i) \ {i}) \in Nat
          BY <5>1, <5>2, TokensOfParts
        <5> HIDE DEF budget
        <5> QED BY <2>1, <3>3, <4>2, <5>3
      <4> QED BY <4>1, <4>2
    <3>5. CompactionTarget(W, V, U, room) = IF kept > room \/ EndsOf(U) = {} THEN 0 ELSE Min(EndsOf(U))
      BY <3>1 DEF CompactionTarget, Q, kept
    <3>6. CompactionTarget(W, V, S, room) = IF kept > room \/ EndsOf(S) = {} THEN 0 ELSE Min(EndsOf(S))
      BY DEF CompactionTarget, P, kept
    <3>7. kept > room \/ kept <= room
      BY <3>2
    <3> HIDE DEF EndsOf, budget
    <3> QED BY <3>4, <3>5, <3>6, <3>7
  <2>3. CASE ~(P \subseteq U)
    <3>1. PICK i \in P : i \notin U
      BY <2>3
    <3>2. U \in SUBSET P
      <4>1. \A j \in U : i <= j
        BY <1>0, <1>2, <3>1
      <4> QED BY <1>3, <3>1, <4>1
    <3>3. Q = U
      BY <1>1, <3>2
    <3>4. Tokens(V, U) <= Tokens(V, P) /\ Tokens(V, P) \in Nat
      <4>1. Measured(V, P)
        BY <1>2, TokensOfParts
      <4> QED BY <3>2, <4>1, TokensOfParts
    <3>5. Tokens(V, P) > room /\ Tokens(V, Q) > room
      BY <2>1, <3>3, <3>4
    <3> QED BY <3>5 DEF CompactionTarget, P, Q
  <2> QED BY <2>2, <2>3
<1> QED BY <1>4, <1>5

HistoryOf(s) == 1..(Len(s) - 1)
WindowOf(s, room) == NewestFirst(RenderingsOf(s), HistoryOf(s), room, LeastMessages - 1)

\* The window holds all that is pending, or a suffix of it that does not fit.
LEMMA WindowReaches ==
    ASSUME NEW s \in Seq(Sizes), NEW c \in Nat, NEW room \in Nat
    PROVE  /\ HistoryOf(s) \in SUBSET (1..Len(s))
           /\ WindowOf(s, room) \in SUBSET HistoryOf(s)
           /\ \A i \in WindowOf(s, room), j \in HistoryOf(s) : i <= j => j \in WindowOf(s, room)
           /\ WindowOf(s, room) \cap Ahead(s, c) \in SUBSET (Ahead(s, c) \cap HistoryOf(s))
           /\ \A i \in WindowOf(s, room) \cap Ahead(s, c), j \in Ahead(s, c) \cap HistoryOf(s) :
                i <= j => j \in WindowOf(s, room) \cap Ahead(s, c)
           /\ WindowOf(s, room) \cap Ahead(s, c) # Ahead(s, c) \cap HistoryOf(s)
                => Tokens(RenderingsOf(s), WindowOf(s, room) \cap Ahead(s, c)) > room
<1> DEFINE V == RenderingsOf(s)
           H == HistoryOf(s)
           N == WindowOf(s, room)
           P == Ahead(s, c)
<1>1. /\ Len(s) \in Nat /\ Measured(V, 1..Len(s)) /\ H \in SUBSET (1..Len(s))
      /\ \A i \in H : i \in Nat
  <2>1. Len(s) \in Nat /\ Measured(V, 1..Len(s))
    BY MessagesMeasured
  <2> QED BY <2>1 DEF HistoryOf
<1>2. Measured(V, H)
  BY <1>1, TokensOfParts
<1>3. \A i \in 1..Len(s) : i \in P <=> i > c
  BY DEF Ahead
<1> HIDE DEF V, H
<1>4. /\ N \in SUBSET H
      /\ \A i \in N, j \in H : i <= j => j \in N
      /\ N # H => Tokens(V, N) > room
  BY <1>2, NewestWindow, Policies DEF WindowOf, V, H
<1> HIDE DEF N, P
<1>5. N \cap P \in SUBSET (P \cap H)
  BY <1>4
<1>6. ASSUME N \cap P # P \cap H PROVE Tokens(V, N \cap P) > room
  <2>1. PICK j \in P \cap H : j \notin N
    BY <1>4, <1>6
  <2>2. ASSUME NEW i \in N PROVE i > j
    <3>1. ~(i <= j)
      BY <1>4, <2>1, <2>2
    <3>2. i \in H /\ j \in H
      BY <1>4, <2>1, <2>2
    <3>3. i \in Nat /\ j \in Nat
      BY <1>1, <3>2
    <3> QED BY <3>1, <3>3
  <2>3. N \in SUBSET P
    <3> SUFFICES ASSUME NEW i \in N PROVE i \in P
      OBVIOUS
    <3>1. i \in H /\ j \in H /\ i \in 1..Len(s) /\ j \in 1..Len(s)
      BY <1>1, <1>4, <2>1
    <3>2. i > j /\ j > c
      BY <1>3, <2>1, <2>2, <3>1
    <3>3. i > c
      BY <1>1, <3>1, <3>2
    <3> QED BY <1>3, <3>1, <3>3
  <2>4. N \cap P = N /\ N # H
    BY <2>1, <2>3
  <2> QED BY <1>4, <2>4
<1> QED BY <1>1, <1>4, <1>5, <1>6 DEF V, H, N, P

\* A new message leaves the measures of the earlier ones as they were.
LEMMA SizesKeep ==
    ASSUME NEW s \in Seq(Sizes), NEW x \in Sizes, NEW S \in SUBSET (1..Len(s))
    PROVE  /\ Tokens(EstimatesOf(Append(s, x)), S) = Tokens(EstimatesOf(s), S)
           /\ Tokens(RenderingsOf(Append(s, x)), S) = Tokens(RenderingsOf(s), S)
<1>1. IsFiniteSet(S)
  <2>1. Measured(EstimatesOf(s), S)
    BY MessagesMeasured, TokensOfParts
  <2> QED BY <2>1 DEF Measured
<1>2. /\ \A i \in S : EstimatesOf(Append(s, x))[i] = EstimatesOf(s)[i]
      /\ \A i \in S : RenderingsOf(Append(s, x))[i] = RenderingsOf(s)[i]
  BY DEF EstimatesOf, RenderingsOf
<1>3. /\ Sum(EstimatesOf(Append(s, x)), S) = Sum(EstimatesOf(s), S)
      /\ Sum(RenderingsOf(Append(s, x)), S) = Sum(RenderingsOf(s), S)
  BY <1>1, <1>2, SumAgrees
<1> QED BY <1>3 DEF Tokens, Sum

\* A new message breaks no promise of the plan.
LEMMA AddKeepsPlan ==
    ASSUME NEW s, NEW c, NEW t, NEW R, NEW x \in Sizes, Placed(s, c, t), Promised(s, c, t, R)
    PROVE  Placed(Append(s, x), c, t) /\ Promised(Append(s, x), c, t, R)
<1> DEFINE n == Append(s, x)
<1>1. s \in Seq(Sizes) /\ Len(s) \in Nat /\ c \in Nat /\ t \in Nat
  BY MessagesMeasured DEF Placed
<1>2. n \in Seq(Sizes) /\ Len(n) = Len(s) + 1
  BY <1>1
<1>3. \A S \in SUBSET (1..Len(s)) : /\ Tokens(EstimatesOf(n), S) = Tokens(EstimatesOf(s), S)
                                   /\ Tokens(RenderingsOf(n), S) = Tokens(RenderingsOf(s), S)
  BY <1>1, SizesKeep
<1> HIDE DEF n
<1>4. ASSUME t # 0 PROVE t <= Len(n) - 1 /\ Tokens(EstimatesOf(n), (t + 1)..Len(n)) >= Recent
  <2> DEFINE old == (t + 1)..Len(s)
             all == (t + 1)..Len(n)
  <2>1. t <= Len(s) - 1 /\ Tokens(EstimatesOf(s), old) >= Recent
    BY <1>4 DEF Placed
  <2>2. old \in SUBSET (1..Len(s)) /\ old \in SUBSET all /\ all \in SUBSET (1..Len(n))
    BY <1>1, <1>2
  <2> HIDE DEF old, all
  <2>3. Tokens(EstimatesOf(n), old) = Tokens(EstimatesOf(s), old)
    BY <1>3, <2>2
  <2>4. Measured(EstimatesOf(n), all)
    BY <1>2, <2>2, MessagesMeasured, TokensOfParts
  <2>5. /\ Tokens(EstimatesOf(n), old) <= Tokens(EstimatesOf(n), all)
        /\ Tokens(EstimatesOf(n), old) \in Nat /\ Tokens(EstimatesOf(n), all) \in Nat
    BY <2>2, <2>4, TokensOfParts
  <2>6. Tokens(EstimatesOf(n), all) >= Recent
    BY <2>1, <2>3, <2>5, Policies
  <2>7. t <= Len(n) - 1
    BY <1>1, <1>2, <2>1
  <2> QED BY <2>6, <2>7 DEF all
<1>5. c = 0 \/ c <= Len(n) - 1
  BY <1>1, <1>2 DEF Placed
<1>6. Placed(n, c, t)
  BY <1>1, <1>2, <1>4, <1>5 DEF Placed
<1>7. Promised(n, c, t, R)
  <2> SUFFICES ASSUME NEW r \in R
               PROVE  /\ r.history \in SUBSET (1..Len(n))
                      /\ r.room \in Rooms
                      /\ Tokens(RenderingsOf(n), {i \in r.history : c < i /\ t < i}) <= r.room
    BY DEF Promised
  <2>1. /\ r.history \in SUBSET (1..Len(s)) /\ r.room \in Rooms
        /\ Tokens(RenderingsOf(s), {i \in r.history : c < i /\ t < i}) <= r.room
    BY DEF Promised
  <2>2. 1..Len(s) \in SUBSET (1..Len(n))
    BY <1>1, <1>2
  <2>3. {i \in r.history : c < i /\ t < i} \in SUBSET (1..Len(s))
    BY <2>1
  <2> QED BY <1>3, <2>1, <2>2, <2>3
<1> QED BY <1>6, <1>7 DEF n

\* Whoever covers more, or asks for more, keeps every promise.
LEMMA PromiseGrows ==
    ASSUME NEW s, NEW c, NEW t, NEW R, Placed(s, c, t), Promised(s, c, t, R),
           NEW d \in Nat, NEW u \in Nat, \A i \in 1..Len(s) : d < i /\ u < i => c < i /\ t < i
    PROVE  Promised(s, d, u, R)
<1> SUFFICES ASSUME NEW r \in R
             PROVE  /\ r.history \in SUBSET (1..Len(s))
                    /\ r.room \in Rooms
                    /\ Tokens(RenderingsOf(s), {i \in r.history : d < i /\ u < i}) <= r.room
  BY DEF Promised
<1> DEFINE old == {i \in r.history : c < i /\ t < i}
           rest == {i \in r.history : d < i /\ u < i}
<1>1. r.history \in SUBSET (1..Len(s)) /\ r.room \in Rooms /\ Tokens(RenderingsOf(s), old) <= r.room
  BY DEF Promised
<1>2. rest \in SUBSET old /\ old \in SUBSET (1..Len(s))
  BY <1>1
<1> HIDE DEF rest, old
<1>3. Measured(RenderingsOf(s), old)
  BY <1>2, MessagesMeasured, TokensOfParts DEF Placed
<1>4. /\ Tokens(RenderingsOf(s), rest) <= Tokens(RenderingsOf(s), old)
      /\ Tokens(RenderingsOf(s), rest) \in Nat /\ Tokens(RenderingsOf(s), old) \in Nat
  BY <1>2, <1>3, TokensOfParts
<1>5. r.room \in Nat
  BY <1>1, Policies
<1> QED BY <1>1, <1>4, <1>5 DEF rest

\* A prompt that does not fit sets a target that can be kept.
LEMMA RefuseKeepsPlan ==
    ASSUME NEW s, NEW c, NEW t, NEW R, Placed(s, c, t), Promised(s, c, t, R),
           NEW room \in Rooms, NEW goal,
           goal = CompactionTarget(EstimatesOf(s), RenderingsOf(s),
                                   WindowOf(s, room) \cap Ahead(s, c), room),
           goal > 0
    PROVE  /\ Placed(s, c, LargerTarget(t, goal))
           /\ Promised(s, c, LargerTarget(t, goal), R \cup {[history |-> HistoryOf(s), room |-> room]})
<1> DEFINE W == EstimatesOf(s)
           V == RenderingsOf(s)
           U == WindowOf(s, room) \cap Ahead(s, c)
           A == Ahead(s, c) \cap HistoryOf(s)
           n == Len(s)
<1>1. s \in Seq(Sizes) /\ c \in Nat /\ t \in Nat /\ room \in Nat
  BY Policies DEF Placed
<1>2. n \in Nat /\ Measured(W, 1..n) /\ Measured(V, 1..n)
  BY <1>1, MessagesMeasured
<1>3. /\ HistoryOf(s) \in SUBSET (1..n)
      /\ U \in SUBSET A /\ \A i \in U, j \in A : i <= j => j \in U
  BY <1>1, WindowReaches
<1>4. \A i \in 1..n : (i \in Ahead(s, c) <=> i > c) /\ (i \in HistoryOf(s) <=> i <= n - 1)
  BY <1>2 DEF Ahead, HistoryOf
<1>5. A \in SUBSET (1..n) /\ Measured(W, A) /\ Measured(V, A) /\ Measured(W, U) /\ Measured(V, U)
  <2>1. A \in SUBSET (1..n) /\ U \in SUBSET (1..n)
    BY <1>3
  <2> HIDE DEF A, U
  <2> QED BY <1>2, <2>1, TokensOfParts
<1> DEFINE P == Protected(W, U)
           kept == Tokens(V, P)
           ends == {i \in U \ P : Tokens(V, From(U, i) \ {i}) <= HistoryBudget(kept, room)}
<1>6. goal = IF kept > room \/ ends = {} THEN 0 ELSE Min(ends)
  BY DEF CompactionTarget
<1>7. ~(kept > room) /\ ends # {} /\ goal = Min(ends)
  <2> HIDE DEF ends, kept
  <2>1. goal # 0
    BY <1>6
  <2> QED BY <1>6, <2>1
<1>8. P \in SUBSET U /\ \A i \in U : i \in P <=> Tokens(W, From(U, i) \ {i}) < Recent
  <2> HIDE DEF U, W
  <2> QED BY <1>5, ProtectedText
<1>9. kept \in Nat
  <2> HIDE DEF U, P, V
  <2> QED BY <1>5, <1>8, TokensOfParts DEF kept
<1>10. goal \in ends
  <2>1. ends \in SUBSET U
    OBVIOUS
  <2> HIDE DEF ends, U, V
  <2> QED BY <1>5, <1>7, <2>1, Bounds
<1>11. goal \in U /\ goal \notin P /\ Tokens(V, From(U, goal) \ {goal}) <= HistoryBudget(kept, room)
  BY <1>10
<1> HIDE DEF W, V, U, A, P, kept, ends
<1>12. HistoryBudget(kept, room) \in Nat /\ HistoryBudget(kept, room) <= room
  BY <1>1, <1>7, <1>9, Policies DEF HistoryBudget
<1>13. goal \in Nat /\ goal \in A /\ goal <= n - 1 /\ goal > c /\ goal # 0
  <2>1. goal \in A /\ goal \in 1..n
    BY <1>3, <1>5, <1>11
  <2> QED BY <1>1, <1>2, <1>4, <2>1 DEF A
<1>14. From(U, goal) \ {goal} = {i \in HistoryOf(s) : c < i /\ goal < i}
  <2>1. \A i \in A : i >= goal => i \in U
    BY <1>3, <1>5, <1>11, <1>13
  <2>2. \A i \in U : i \in A /\ i \in 1..n
    BY <1>3, <1>5
  <2>3. \A i \in HistoryOf(s) : i \in 1..n
    BY <1>3
  <2>4. \A i : i \in From(U, goal) \ {goal} => i \in HistoryOf(s) /\ c < i /\ goal < i
    BY <1>1, <1>4, <1>13, <2>2 DEF From, A
  <2>5. \A i \in HistoryOf(s) : c < i /\ goal < i => i \in From(U, goal) \ {goal}
    <3> SUFFICES ASSUME NEW i \in HistoryOf(s), c < i, goal < i
                 PROVE  i \in From(U, goal) \ {goal}
      OBVIOUS
    <3>1. i \in 1..n /\ i \in Nat /\ i >= goal /\ i # goal
      BY <1>2, <1>13, <2>3
    <3>2. i \in A
      BY <1>4, <3>1 DEF A
    <3> QED BY <2>1, <3>1, <3>2 DEF From
  <2> QED BY <2>4, <2>5
<1>15. ~(Tokens(W, From(U, goal) \ {goal}) < Recent)
  BY <1>8, <1>11
<1>16. Tokens(W, (goal + 1)..n) >= Recent
  <2> DEFINE later == (goal + 1)..n
             after == From(U, goal) \ {goal}
  <2>1. after \in SUBSET later /\ later \in SUBSET (1..n)
    <3>1. later \in SUBSET (1..n)
      BY <1>2, <1>13
    <3>2. \A i \in HistoryOf(s) : goal < i => i \in later
      BY <1>2, <1>3, <1>13
    <3> QED BY <1>14, <3>1, <3>2
  <2> HIDE DEF later, after
  <2>2. Measured(W, later)
    BY <1>2, <2>1, TokensOfParts
  <2>3. Tokens(W, after) <= Tokens(W, later) /\ Tokens(W, after) \in Nat /\ Tokens(W, later) \in Nat
    BY <2>1, <2>2, TokensOfParts
  <2>4. ~(Tokens(W, after) < Recent)
    BY <1>15 DEF after
  <2>5. Tokens(W, later) >= Recent
    BY <2>3, <2>4, Policies
  <2> QED BY <2>5 DEF later
<1> DEFINE u == LargerTarget(t, goal)
<1>17. u \in Nat /\ u # 0 /\ u >= t /\ u >= goal /\ (u = t \/ u = goal)
  BY <1>1, <1>13 DEF LargerTarget
<1> HIDE DEF u
<1>18. Placed(s, c, u)
  <2>1. u <= n - 1 /\ Tokens(W, (u + 1)..n) >= Recent
    <3>1. CASE u = goal
      BY <1>13, <1>16, <3>1
    <3>2. CASE u = t
      BY <1>17, <3>2 DEF Placed, W
    <3> QED BY <1>17, <3>1, <3>2
  <2> QED BY <1>1, <1>17, <2>1 DEF Placed, W
<1>19. Promised(s, c, u, R)
  <2>1. \A i \in 1..n : c < i /\ u < i => c < i /\ t < i
    BY <1>1, <1>2, <1>17
  <2> QED BY <1>1, <1>17, <2>1, PromiseGrows
<1>20. Tokens(V, {i \in HistoryOf(s) : c < i /\ u < i}) <= room
  <2> DEFINE due == {i \in HistoryOf(s) : c < i /\ goal < i}
             rest == {i \in HistoryOf(s) : c < i /\ u < i}
  <2>1. rest \in SUBSET due /\ due \in SUBSET (1..n)
    <3>1. \A i \in HistoryOf(s) : u < i => goal < i
      BY <1>3, <1>13, <1>17
    <3> QED BY <1>3, <3>1
  <2>2. Tokens(V, due) <= HistoryBudget(kept, room)
    BY <1>11, <1>14
  <2> HIDE DEF due, rest
  <2>3. Measured(V, due)
    BY <1>2, <2>1, TokensOfParts
  <2>4. Tokens(V, rest) <= Tokens(V, due) /\ Tokens(V, rest) \in Nat /\ Tokens(V, due) \in Nat
    BY <2>1, <2>3, TokensOfParts
  <2>5. Tokens(V, rest) <= room
    BY <1>1, <1>12, <2>2, <2>4
  <2> QED BY <2>5 DEF rest
<1>21. Promised(s, c, u, R \cup {[history |-> HistoryOf(s), room |-> room]})
  <2> DEFINE new == [history |-> HistoryOf(s), room |-> room]
  <2>1. new.history = HistoryOf(s) /\ new.room = room
    OBVIOUS
  <2> HIDE DEF new
  <2>2. /\ new.history \in SUBSET (1..Len(s)) /\ new.room \in Rooms
        /\ Tokens(RenderingsOf(s), {i \in new.history : c < i /\ u < i}) <= new.room
    BY <1>3, <1>20, <2>1 DEF V
  <2>3. Promised(s, c, u, R \cup {new})
    BY <1>19, <2>2 DEF Promised
  <2> QED BY <2>3 DEF new
<1> QED BY <1>18, <1>21 DEF u

\* A batch that is summarised keeps what the targets promise.
LEMMA SummariseKeepsPlan ==
    ASSUME NEW s, NEW c, NEW t, NEW R, Placed(s, c, t), Promised(s, c, t, R),
           NEW batch, batch = Selected(EstimatesOf(s), Loaded(EstimatesOf(s), Ahead(s, c)), t),
           NEW d, d = (IF batch = {} THEN c ELSE Max(batch)),
           NEW u, u = (IF MoreAfter(EstimatesOf(s), Ahead(s, c), batch, t) THEN t ELSE 0)
    PROVE  Placed(s, d, u) /\ Promised(s, d, u, R)
<1> DEFINE W == EstimatesOf(s)
           S == Ahead(s, c)
<1>1. s \in Seq(Sizes) /\ c \in Nat /\ t \in Nat /\ Len(s) \in Nat
  BY MessagesMeasured DEF Placed
<1>2. Measured(W, S) /\ S \in SUBSET (1..Len(s)) /\ \A k \in S : k \in Nat
  BY <1>1, AheadMeasured DEF Measured
<1>3. batch = Selected(W, S, t)
  BY <1>1, <1>2, WindowsDecide
<1>4. \A i \in batch : i \in S /\ i \in Nat /\ i <= Len(s) - 1 /\ i > c
  BY <1>3, BatchIsOld DEF Ahead
<1>5. batch # {} => d \in batch /\ \A i \in batch : i <= d
  BY <1>2, <1>4, Bounds
<1>6. d \in Nat /\ d >= c /\ (d = 0 \/ d <= Len(s) - 1)
  <2>1. CASE batch = {}
    BY <1>1, <2>1 DEF Placed
  <2>2. CASE batch # {}
    BY <1>1, <1>4, <1>5, <2>2
  <2> QED BY <2>1, <2>2
<1>7. u \in Nat /\ (u = t \/ u = 0)
  BY <1>1
<1>8. Placed(s, d, u)
  BY <1>1, <1>6, <1>7 DEF Placed
<1>9. Placed(s, d, t)
  BY <1>1, <1>6 DEF Placed
<1>10. CASE u = t
  <2>1. \A i \in 1..Len(s) : d < i /\ u < i => c < i /\ t < i
    BY <1>1, <1>6, <1>10
  <2> QED BY <1>6, <1>7, <1>8, <2>1, PromiseGrows
<1>11. CASE u # t
  <2>1. u = 0 /\ ~MoreAfter(W, S, batch, t)
    BY <1>11
  <2>2. ~Required(Ahead(s, d), t)
    <3>1. CASE batch = {}
      <4>1. ~Required(S, t)
        BY <1>3, <3>1, TargetLeavesBatch
      <4> QED BY <3>1, <4>1
    <3>2. CASE batch # {}
      <4>1. /\ OldestFirst(W, S, Lookahead) = S
            /\ Selected(W, {i \in Loaded(W, S) : i > Max(batch)}, t) = {}
        BY <2>1, <3>2 DEF MoreAfter
      <4>2. Loaded(W, S) = S
        BY <4>1 DEF Loaded
      <4>3. {i \in S : i > d} = Ahead(s, d)
        <5>1. \A i \in 1..Len(s) : i > d => i > c
          BY <1>1, <1>6
        <5> QED BY <5>1 DEF Ahead
      <4>4. Selected(W, Ahead(s, d), t) = {}
        BY <3>2, <4>1, <4>2, <4>3
      <4> QED BY <1>9, <4>4, TargetLeavesBatch
    <3> QED BY <3>1, <3>2
  <2>3. \A i \in 1..Len(s) : d < i /\ u < i => c < i /\ t < i
    <3> SUFFICES ASSUME NEW i \in 1..Len(s), d < i PROVE c < i /\ t < i
      OBVIOUS
    <3>1. i \in Ahead(s, d)
      BY DEF Ahead
    <3>2. ~(i <= t)
      BY <2>2, <3>1 DEF Required, UpTo
    <3> QED BY <1>1, <1>6, <3>2
  <2> QED BY <1>6, <1>7, <1>8, <2>3, PromiseGrows
<1> QED BY <1>10, <1>11

SuffixOf(V, S, budget) == {i \in S : Tokens(V, From(S, i)) <= budget}

\* The longest suffix that fits is a suffix, and fits.
LEMMA SuffixFits ==
    ASSUME NEW V, NEW S, Measured(V, S), NEW budget \in Nat
    PROVE  /\ SuffixOf(V, S, budget) \in SUBSET S
           /\ \A i \in SuffixOf(V, S, budget), j \in S : i <= j => j \in SuffixOf(V, S, budget)
           /\ Tokens(V, SuffixOf(V, S, budget)) <= budget
           /\ Tokens(V, SuffixOf(V, S, budget)) \in Nat
<1> DEFINE X == SuffixOf(V, S, budget)
<1>1. X \in SUBSET S /\ \A i \in S : i \in X <=> Tokens(V, From(S, i)) <= budget
  BY DEF SuffixOf
<1>2. \A i \in S : i \in Nat
  BY DEF Measured
<1> HIDE DEF X
<1>3. ASSUME NEW i \in X, NEW j \in S, i <= j PROVE j \in X
  <2>1. From(S, j) \in SUBSET From(S, i) /\ From(S, i) \in SUBSET S
    BY <1>1, <1>2, <1>3 DEF From
  <2>2. Measured(V, From(S, i))
    BY <2>1, TokensOfParts
  <2>3. /\ Tokens(V, From(S, j)) <= Tokens(V, From(S, i))
        /\ Tokens(V, From(S, j)) \in Nat /\ Tokens(V, From(S, i)) \in Nat
    BY <2>1, <2>2, TokensOfParts
  <2> QED BY <1>1, <2>3
<1>4. Tokens(V, X) <= budget
  <2>1. CASE X = {}
    BY <2>1, TokensOfNone
  <2>2. CASE X # {}
    <3> DEFINE m == Min(X)
    <3>1. m \in X /\ \A y \in X : m <= y
      BY <1>1, <2>2, Bounds
    <3> HIDE DEF m
    <3>2. X = From(S, m)
      <4>1. \A j \in S : m <= j <=> j \in X
        BY <1>3, <3>1
      <4>2. \A j \in S : j >= m <=> m <= j
        BY <1>1, <1>2, <3>1
      <4> QED BY <1>1, <4>1, <4>2 DEF From
    <3>3. Tokens(V, From(S, m)) <= budget
      BY <1>1, <3>1
    <3> QED BY <3>2, <3>3
  <2> QED BY <2>1, <2>2
<1>5. Tokens(V, X) \in Nat
  BY <1>1, TokensOfParts
<1> QED BY <1>1, <1>3, <1>4, <1>5 DEF X

\* The parts of a prompt: what is not summarised, the summarised text nearest to it,
\* the room that leaves for memories, and the messages that are repeated raw.
Unread(s, c, room) == WindowOf(s, room) \cap Ahead(s, c)
AlreadyRead(s, c, room) == WindowOf(s, room) \ Ahead(s, c)
Needed(s, c, room) == Tokens(RenderingsOf(s), Unread(s, c, room))

RecentlyRead(s, c, room) ==
    SuffixOf(RenderingsOf(s), AlreadyRead(s, c, room), LesserOf(Recent, room - Needed(s, c, room)))

RoomForMemories(s, c, room) ==
    LesserOf(MemoryBudget,
             room - Needed(s, c, room) - Tokens(RenderingsOf(s), RecentlyRead(s, c, room)))

RawOf(s, c, room, memories) ==
    SuffixOf(RenderingsOf(s), AlreadyRead(s, c, room), room - Needed(s, c, room) - memories)
      \cup Unread(s, c, room)

\* A prompt that is built holds all that is pending, without a gap, and fits.
LEMMA PromptHolds ==
    ASSUME NEW s \in Seq(Sizes), NEW c \in Nat, NEW room \in Nat, Needed(s, c, room) <= room,
           NEW memories \in 0..RoomForMemories(s, c, room)
    PROVE  /\ Ahead(s, c) \cap HistoryOf(s) \in SUBSET RawOf(s, c, room, memories)
           /\ RawOf(s, c, room, memories) # {}
                => \A i \in Min(RawOf(s, c, room, memories))..Max(RawOf(s, c, room, memories)) :
                     i \in RawOf(s, c, room, memories)
           /\ memories + Tokens(RenderingsOf(s), RawOf(s, c, room, memories)) <= room
           /\ RawOf(s, c, room, memories) \in SUBSET HistoryOf(s)
<1> DEFINE U == Unread(s, c, room)
           Q == AlreadyRead(s, c, room)
           needed == Needed(s, c, room)
           recent == RecentlyRead(s, c, room)
           raw == RawOf(s, c, room, memories)
<1>0. /\ U = WindowOf(s, room) \cap Ahead(s, c) /\ Q = WindowOf(s, room) \ Ahead(s, c)
      /\ needed = Tokens(RenderingsOf(s), U) /\ needed <= room
      /\ recent = SuffixOf(RenderingsOf(s), Q, LesserOf(Recent, room - needed))
      /\ memories \in 0..LesserOf(MemoryBudget, room - needed - Tokens(RenderingsOf(s), recent))
      /\ raw = SuffixOf(RenderingsOf(s), Q, room - needed - memories) \cup U
  BY DEF Unread, AlreadyRead, Needed, RecentlyRead, RoomForMemories, RawOf
<1> HIDE DEF U, Q, needed, recent, raw
<1> DEFINE V == RenderingsOf(s)
           H == HistoryOf(s)
           A == Ahead(s, c) \cap H
           N == WindowOf(s, room)
<1>1. /\ H \in SUBSET (1..Len(s)) /\ N \in SUBSET H
      /\ \A i \in N, j \in H : i <= j => j \in N
      /\ U \in SUBSET A
      /\ U # A => Tokens(V, U) > room
  BY <1>0, WindowReaches
<1>2. Len(s) \in Nat /\ Measured(V, 1..Len(s))
  BY MessagesMeasured
<1>3. /\ \A i \in 1..Len(s) : i \in Ahead(s, c) <=> i > c
      /\ H = 1..(Len(s) - 1)
  BY DEF Ahead, HistoryOf
<1>4. U \in SUBSET H /\ Q \in SUBSET H /\ Q \cap U = {} /\ N = Q \cup U /\ Q \cap Ahead(s, c) = {}
  BY <1>0, <1>1 DEF N
<1> HIDE DEF V, H, A, N
<1>5. Measured(V, U) /\ Measured(V, Q) /\ Measured(V, H)
  BY <1>1, <1>2, <1>4, TokensOfParts
<1>6. needed \in Nat
  BY <1>0, <1>5, TokensOfParts DEF V
<1>7. U = A
  <2>1. ~(Tokens(V, U) > room)
    BY <1>0, <1>6 DEF V
  <2> QED BY <1>1, <2>1
<1> DEFINE extra == room - needed - memories
           X == SuffixOf(V, Q, extra)
<1>8. Tokens(V, recent) \in Nat /\ Tokens(V, recent) <= room - needed
  <2> DEFINE b == LesserOf(Recent, room - needed)
  <2>1. b \in Nat /\ b <= room - needed
    BY <1>0, <1>6, Policies DEF LesserOf
  <2> HIDE DEF b
  <2>2. recent = SuffixOf(V, Q, b)
    BY <1>0 DEF V, b
  <2>3. Tokens(V, SuffixOf(V, Q, b)) <= b /\ Tokens(V, SuffixOf(V, Q, b)) \in Nat
    BY <1>5, <2>1, SuffixFits
  <2> QED BY <1>6, <2>1, <2>2, <2>3
<1>9. memories \in Nat /\ extra \in Nat
  <2> DEFINE left == room - needed - Tokens(V, recent)
  <2>1. left \in Nat /\ left <= room - needed
    BY <1>6, <1>8
  <2>2. memories \in 0..LesserOf(MemoryBudget, left)
    BY <1>0 DEF V
  <2> HIDE DEF left
  <2>3. memories \in Nat /\ memories <= left
    BY <2>1, <2>2, Policies DEF LesserOf
  <2> QED BY <1>6, <2>1, <2>3
<1>10. raw = X \cup U
  BY <1>0 DEF V
<1> HIDE DEF extra, X
<1>11. /\ X \in SUBSET Q
       /\ \A i \in X, j \in Q : i <= j => j \in X
       /\ Tokens(V, X) <= extra /\ Tokens(V, X) \in Nat
  <2>1. Measured(V, Q) /\ extra \in Nat
    BY <1>5, <1>9
  <2>2. X \in SUBSET Q
    BY <2>1, SuffixFits DEF X
  <2>3. \A i \in X, j \in Q : i <= j => j \in X
    BY <2>1, SuffixFits DEF X
  <2>4. Tokens(V, X) <= extra /\ Tokens(V, X) \in Nat
    BY <2>1, SuffixFits DEF X
  <2> QED BY <2>2, <2>3, <2>4
<1>12. raw \in SUBSET H /\ A \in SUBSET raw
  BY <1>4, <1>7, <1>10, <1>11
<1>13. memories + Tokens(V, raw) <= room
  <2>1. Measured(V, X) /\ X \cap U = {}
    BY <1>4, <1>5, <1>11, TokensOfParts
  <2>2. Tokens(V, X \cup U) = Tokens(V, X) + Tokens(V, U)
    BY <1>5, <2>1, TokensOfTwo
  <2>3. Tokens(V, U) = needed
    BY <1>0 DEF V
  <2>4. Tokens(V, X) <= room - needed - memories
    BY <1>11 DEF extra
  <2>5. Tokens(V, raw) = Tokens(V, X) + needed
    BY <1>10, <2>2, <2>3
  <2>6. Tokens(V, X) \in Nat
    BY <1>11
  <2> QED BY <1>6, <1>9, <2>4, <2>5, <2>6
<1>14. ASSUME raw # {}, NEW i \in Min(raw)..Max(raw) PROVE i \in raw
  <2> DEFINE k == Min(raw)
             l == Max(raw)
  <2>1. k \in raw /\ l \in raw
    <3>1. raw \in SUBSET H /\ raw # {}
      BY <1>12, <1>14
    <3> QED BY <1>5, <3>1, Bounds
  <2>2. i \in k..l
    BY <1>14
  <2> HIDE DEF k, l
  <2>3. k \in 1..Len(s) /\ l \in H
    BY <1>1, <1>12, <2>1
  <2>4. i \in H /\ k <= i /\ i \in 1..Len(s)
    BY <1>2, <1>3, <2>2, <2>3
  <2>5. CASE i > c
    BY <1>3, <1>7, <1>10, <2>4, <2>5 DEF A
  <2>6. CASE ~(i > c)
    <3>1. k \notin U /\ k \in X
      <4>1. ~(k > c)
        BY <2>3, <2>4, <2>6
      <4> QED BY <1>3, <1>7, <1>10, <2>1, <2>3, <4>1 DEF A
    <3>2. i \in N
      BY <1>1, <1>4, <1>11, <2>4, <3>1
    <3>3. i \in Q
      BY <1>3, <1>4, <1>7, <2>4, <2>6, <3>2 DEF A
    <3> QED BY <1>10, <1>11, <2>4, <3>1, <3>3
  <2> QED BY <2>5, <2>6
<1> QED BY <1>12, <1>13, <1>14 DEF V, H, A, raw

\* The operators of the model, with their state as an argument.
LEMMA Renamed ==
    /\ Estimates = EstimatesOf(sizes) /\ Renderings = RenderingsOf(sizes)
    /\ History = HistoryOf(sizes)
    /\ \A room : Window(room) = WindowOf(sizes, room)
    /\ \A S, budget : Suffix(S, budget) = SuffixOf(Renderings, S, budget)
    /\ sizes \in Seq(Sizes) => PendingMessages = Ahead(sizes, covered)
<1>1. sizes \in Seq(Sizes) => DOMAIN sizes = 1..Len(sizes)
  OBVIOUS
<1> QED BY <1>1 DEF Estimates, EstimatesOf, Renderings, RenderingsOf, History, HistoryOf, Window, WindowOf,
                    Suffix, SuffixOf, PendingMessages, Ahead

\* The compaction starts soundly.
LEMMA PlanInvInit == CompactionInit => PlanInv
<1> SUFFICES ASSUME CompactionInit PROVE PlanInv
  OBVIOUS
<1> USE DEF CompactionInit
<1>1. Placed(sizes, covered, target)
  BY DEF Placed
<1>2. Promised(sizes, covered, target, refused)
  BY DEF Promised
<1>3. PromptIsWhole /\ lastPrompt.raw = {}
  BY DEF PromptIsWhole, NoPrompt
<1> QED BY <1>1, <1>2, <1>3 DEF PlanInv

\* Every step of the compaction keeps its invariant.
LEMMA PlanInvStep == PlanInv /\ [CompactionNext]_compactionVars => PlanInv'
<1> SUFFICES ASSUME PlanInv, [CompactionNext]_compactionVars PROVE PlanInv'
  OBVIOUS
<1>1. /\ Placed(sizes, covered, target)
      /\ Promised(sizes, covered, target, refused)
      /\ PromptIsWhole
      /\ lastPrompt.raw \in SUBSET (1..LargerTarget(0, Len(sizes) - 1))
  BY DEF PlanInv
<1>2. sizes \in Seq(Sizes) /\ covered \in Nat /\ target \in Nat /\ Len(sizes) \in Nat
  BY <1>1, MessagesMeasured DEF Placed
<1>3. PendingMessages = Ahead(sizes, covered) /\ Estimates = EstimatesOf(sizes)
      /\ Renderings = RenderingsOf(sizes) /\ History = HistoryOf(sizes)
  BY <1>2, Renamed
<1>4. CASE AddMessage
  <2>1. PICK x \in Sizes : sizes' = Append(sizes, x)
    BY <1>4 DEF AddMessage
  <2>2. covered' = covered /\ target' = target /\ refused' = refused /\ lastPrompt' = lastPrompt
    BY <1>4 DEF AddMessage
  <2>3. Placed(sizes', covered', target') /\ Promised(sizes', covered', target', refused')
    BY <1>1, <2>1, <2>2, AddKeepsPlan
  <2>4. PromptIsWhole'
    BY <1>1, <2>2 DEF PromptIsWhole
  <2>5. 1..LargerTarget(0, Len(sizes) - 1) \in SUBSET (1..LargerTarget(0, Len(sizes') - 1))
    BY <1>2, <2>1 DEF LargerTarget
  <2> QED BY <1>1, <2>2, <2>3, <2>4, <2>5 DEF PlanInv
<1>5. ASSUME NEW room \in Rooms, RefusePrompt(room) PROVE PlanInv'
  <2> DEFINE goal == CompactionTarget(Estimates, Renderings, Window(room) \cap PendingMessages, room)
  <2>1. /\ goal > 0 /\ target' = LargerTarget(target, goal)
        /\ refused' = refused \cup {[history |-> History, room |-> room]}
        /\ sizes' = sizes /\ covered' = covered /\ lastPrompt' = lastPrompt
    BY <1>5 DEF RefusePrompt
  <2>2. goal = CompactionTarget(EstimatesOf(sizes), RenderingsOf(sizes),
                                WindowOf(sizes, room) \cap Ahead(sizes, covered), room)
    BY <1>3, Renamed
  <2> HIDE DEF goal
  <2>3. Placed(sizes, covered, target') /\ Promised(sizes, covered, target', refused')
    BY <1>1, <1>3, <1>5, <2>1, <2>2, RefuseKeepsPlan
  <2>4. PromptIsWhole'
    BY <1>1, <2>1 DEF PromptIsWhole
  <2> QED BY <1>1, <2>1, <2>3, <2>4 DEF PlanInv
<1>6. ASSUME NEW room \in Rooms, BuildPrompt(room) PROVE PlanInv'
  <2> DEFINE U == Window(room) \cap PendingMessages
             Q == Window(room) \ PendingMessages
             needed == Tokens(Renderings, U)
             recent == Suffix(Q, LesserOf(Recent, room - needed))
             left == room - needed - Tokens(Renderings, recent)
  <2>1. /\ needed <= room
        /\ sizes' = sizes /\ covered' = covered /\ target' = target /\ refused' = refused
    BY <1>6 DEF BuildPrompt
  <2>2. PICK memories \in 0..LesserOf(MemoryBudget, left) :
          lastPrompt' = [raw |-> Suffix(Q, RawBudget(room, needed, memories)) \cup U,
                         whole |-> PendingMessages \cap History, room |-> room,
                         tokens |-> memories + Tokens(Renderings,
                                       Suffix(Q, RawBudget(room, needed, memories)) \cup U)]
    BY <1>6 DEF BuildPrompt
  <2> DEFINE raw == Suffix(Q, RawBudget(room, needed, memories)) \cup U
  <2>3. U = Unread(sizes, covered, room) /\ Q = AlreadyRead(sizes, covered, room)
    BY <1>3, Renamed DEF Unread, AlreadyRead
  <2>4. needed = Needed(sizes, covered, room)
    BY <1>3, <2>3 DEF Needed
  <2>5. recent = RecentlyRead(sizes, covered, room)
    BY <1>3, <2>3, <2>4, Renamed DEF RecentlyRead
  <2>6. memories \in 0..RoomForMemories(sizes, covered, room)
    BY <1>3, <2>2, <2>4, <2>5 DEF RoomForMemories
  <2>7. raw = RawOf(sizes, covered, room, memories)
    BY <1>3, <2>3, <2>4, Renamed DEF RawBudget, RawOf
  <2>8. /\ lastPrompt'.raw = raw /\ lastPrompt'.whole = Ahead(sizes, covered) \cap HistoryOf(sizes)
        /\ lastPrompt'.room = room
        /\ lastPrompt'.tokens = memories + Tokens(RenderingsOf(sizes), raw)
    BY <1>3, <2>2
  <2>9. room \in Nat /\ Needed(sizes, covered, room) <= room
    BY <2>1, <2>4, Policies
  <2> HIDE DEF U, Q, needed, recent, raw
  <2>10. /\ Ahead(sizes, covered) \cap HistoryOf(sizes) \in SUBSET raw
         /\ raw # {} => \A i \in Min(raw)..Max(raw) : i \in raw
         /\ memories + Tokens(RenderingsOf(sizes), raw) <= room
         /\ raw \in SUBSET HistoryOf(sizes)
    BY <1>2, <2>6, <2>7, <2>9, PromptHolds
  <2>11. PromptIsWhole'
    BY <2>8, <2>10 DEF PromptIsWhole
  <2>12. HistoryOf(sizes) \in SUBSET (1..LargerTarget(0, Len(sizes) - 1))
    BY <1>2 DEF HistoryOf, LargerTarget
  <2>13. lastPrompt'.raw \in SUBSET (1..LargerTarget(0, Len(sizes') - 1))
    BY <2>1, <2>8, <2>10, <2>12
  <2> QED BY <1>1, <2>1, <2>11, <2>13 DEF PlanInv
<1>7. CASE Summarise
  <2> DEFINE batch == Selected(Estimates, Loaded(Estimates, PendingMessages), target)
  <2>1. /\ covered' = (IF batch = {} THEN covered ELSE Max(batch))
        /\ target' = (IF MoreAfter(Estimates, PendingMessages, batch, target) THEN target ELSE 0)
        /\ sizes' = sizes /\ refused' = refused /\ lastPrompt' = lastPrompt
    BY <1>7 DEF Summarise
  <2>2. batch = Selected(EstimatesOf(sizes), Loaded(EstimatesOf(sizes), Ahead(sizes, covered)), target)
    BY <1>3
  <2> HIDE DEF batch
  <2>3. target' = (IF MoreAfter(EstimatesOf(sizes), Ahead(sizes, covered), batch, target)
                   THEN target ELSE 0)
    BY <1>3, <2>1
  <2>4. Placed(sizes, covered', target') /\ Promised(sizes, covered', target', refused)
    BY <1>1, <2>1, <2>2, <2>3, SummariseKeepsPlan
  <2>5. PromptIsWhole'
    BY <1>1, <2>1 DEF PromptIsWhole
  <2> QED BY <1>1, <2>1, <2>4, <2>5 DEF PlanInv
<1>8. CASE UNCHANGED compactionVars
  <2>1. /\ sizes' = sizes /\ covered' = covered /\ target' = target /\ refused' = refused
        /\ lastPrompt' = lastPrompt
    BY <1>8 DEF compactionVars
  <2> QED BY <1>1, <2>1 DEF PlanInv, PromptIsWhole
<1> QED BY <1>4, <1>5, <1>6, <1>7, <1>8 DEF CompactionNext

\* The invariant says what a prompt promises.
LEMMA PlanInvIsSound == PlanInv => PlansAreSound
<1> SUFFICES ASSUME PlanInv PROVE PlansAreSound
  OBVIOUS
<1>1. /\ Placed(sizes, covered, target)
      /\ Promised(sizes, covered, target, refused)
      /\ PromptIsWhole
      /\ lastPrompt.raw \in SUBSET (1..LargerTarget(0, Len(sizes) - 1))
  BY DEF PlanInv
<1>2. sizes \in Seq(Sizes) /\ covered \in Nat /\ target \in Nat /\ Len(sizes) \in Nat
      /\ DOMAIN sizes = 1..Len(sizes)
  BY <1>1, MessagesMeasured DEF Placed
<1>3. PendingMessages = Ahead(sizes, covered) /\ Estimates = EstimatesOf(sizes)
      /\ Renderings = RenderingsOf(sizes) /\ History = HistoryOf(sizes)
      /\ \A room : Window(room) = WindowOf(sizes, room)
  BY <1>2, Renamed
<1>4. /\ Measured(EstimatesOf(sizes), Ahead(sizes, covered))
      /\ Measured(RenderingsOf(sizes), Ahead(sizes, covered))
      /\ Ahead(sizes, covered) \in SUBSET (1..Len(sizes))
  BY <1>2, AheadMeasured
<1>5. CompactionTypeOK
  <2>1. covered \in 0..LargerTarget(0, Len(sizes) - 1) /\ target \in 0..LargerTarget(0, Len(sizes) - 1)
    <3>1. (covered = 0 \/ covered <= Len(sizes) - 1) /\ (target = 0 \/ target <= Len(sizes) - 1)
      BY <1>1 DEF Placed
    <3> QED BY <1>2, <3>1 DEF LargerTarget
  <2>2. \A r \in refused : r.history \subseteq DOMAIN sizes /\ r.room \in Rooms
    BY <1>1, <1>2 DEF Promised
  <2> QED BY <1>1, <1>2, <2>1, <2>2 DEF CompactionTypeOK
<1>6. \A t \in {0, target} :
        Selected(Estimates, Loaded(Estimates, PendingMessages), t) = Selected(Estimates, PendingMessages, t)
  BY <1>2, <1>3, <1>4, WindowsDecide
<1>7. ASSUME NEW room \in Rooms
      PROVE  CompactionTarget(Estimates, Renderings, Window(room) \cap PendingMessages, room)
               = CompactionTarget(Estimates, Renderings, PendingMessages \cap History, room)
  <2> DEFINE W == EstimatesOf(sizes)
             V == RenderingsOf(sizes)
             U == WindowOf(sizes, room) \cap Ahead(sizes, covered)
             A == Ahead(sizes, covered) \cap HistoryOf(sizes)
  <2>1. room \in Nat
    BY Policies
  <2>2. /\ U \in SUBSET A /\ \A i \in U, j \in A : i <= j => j \in U
        /\ U # A => Tokens(V, U) > room
    BY <1>2, <2>1, WindowReaches
  <2>3. A \in SUBSET Ahead(sizes, covered)
    OBVIOUS
  <2> HIDE DEF A, U, W, V
  <2>4. Measured(W, A) /\ Measured(V, A)
    BY <1>4, <2>3, TokensOfParts DEF W, V
  <2>5. CompactionTarget(W, V, U, room) = CompactionTarget(W, V, A, room)
    BY <2>1, <2>2, <2>4, SuffixDecides
  <2> QED BY <1>3, <2>5 DEF W, V, U, A
<1>8. WindowsDecideAlike
  BY <1>6, <1>7 DEF WindowsDecideAlike
<1>9. TargetIsReachable
  <2>1. Required(Ahead(sizes, covered), target)
          => Selected(EstimatesOf(sizes), Ahead(sizes, covered), target) # {}
    BY <1>1, TargetLeavesBatch
  <2> QED BY <1>3, <1>6, <2>1 DEF TargetIsReachable
<1>10. RefusedPromptsFit
  <2> SUFFICES ASSUME target = 0, NEW r \in refused
               PROVE  Tokens(Renderings, r.history \cap PendingMessages) <= r.room
    BY DEF RefusedPromptsFit
  <2>1. /\ r.history \in SUBSET (1..Len(sizes))
        /\ Tokens(RenderingsOf(sizes), {i \in r.history : covered < i /\ target < i}) <= r.room
    BY <1>1 DEF Promised
  <2>2. {i \in r.history : covered < i /\ target < i} = r.history \cap Ahead(sizes, covered)
    <3>1. \A i \in r.history : i \in 1..Len(sizes) /\ i \in Nat /\ i > 0
      BY <1>2, <2>1
    <3>2. \A i \in r.history : covered < i /\ target < i <=> i > covered
      BY <1>2, <3>1
    <3> QED BY <3>1, <3>2 DEF Ahead
  <2> QED BY <1>3, <2>1, <2>2
<1> QED BY <1>1, <1>5, <1>8, <1>9, <1>10 DEF PlansAreSound

\* What is planned from the two windows that are read is what would be planned from
\* the whole conversation; a target that is set can always be reached, and makes the
\* room it was set for; and a prompt holds all that is not summarised, in one piece
\* and within its budget (prepare_answer_context, process_memory_work).
THEOREM PlansStaySound == CompactionSpec => []PlansAreSound
BY PlanInvInit, PlanInvStep, PlanInvIsSound, PTL DEF CompactionSpec

-----------------------------------------------------------------------------
(* The memory jobs *)

\* Where nothing is selected, nothing of any part of it would be.
LEMMA NothingLeft ==
    ASSUME NEW W, NEW S, Measured(W, S), \A i \in S : i > 0, NEW t \in Nat,
           Selected(W, S, t) = {}, ~Conflicts(W, S, t)
    PROVE  /\ ~Required(S, t)
           /\ \A T \in SUBSET S : Selected(W, T, 0) = {}
<1> DEFINE E == Eligible(W, S, t)
<1>0. \A i \in S : i \in Nat
  BY DEF Measured
<1>1. E \in SUBSET S /\ (E # {} => Min(E) \in E)
  <2>1. E \in SUBSET S
    BY DEF Eligible, UpTo
  <2> HIDE DEF E
  <2> QED BY <2>1, Bounds
<1>2. E # {} => BatchOf(W, E) # {}
  <2> HIDE DEF E
  <2>1. E # {} => Min(E) \in BatchOf(W, E)
    BY <1>1 DEF BatchOf
  <2> QED BY <2>1
<1>3. ~Required(S, t)
  <2> SUFFICES ASSUME Required(S, t) PROVE FALSE
    OBVIOUS
  <2>1. PICK j \in S : j <= t
    BY DEF Required, UpTo
  <2>2. j \notin Protected(W, S)
    BY <2>1 DEF Conflicts, Required, UpTo
  <2>3. j \in E
    BY <2>1, <2>2 DEF Eligible, UpTo
  <2>4. Selected(W, S, t) = BatchOf(W, E)
    BY DEF Selected
  <2> QED BY <1>2, <2>3, <2>4
<1>4. Tokens(W, S) < Threshold \/ Protected(W, S) = S
  <2> SUFFICES ASSUME ~(Tokens(W, S) < Threshold) PROVE Protected(W, S) = S
    OBVIOUS
  <2>1. E = S \ Protected(W, S)
    BY <1>3 DEF Eligible
  <2>2. Selected(W, S, t) = BatchOf(W, E)
    BY DEF Selected
  <2>3. E = {}
    BY <1>2, <2>2
  <2>4. Protected(W, S) \in SUBSET S
    BY ProtectedText
  <2> QED BY <2>1, <2>3, <2>4
<1>5. ASSUME NEW T \in SUBSET S PROVE Selected(W, T, 0) = {}
  <2>1. Measured(W, T) /\ Tokens(W, T) <= Tokens(W, S) /\ Tokens(W, T) \in Nat /\ Tokens(W, S) \in Nat
    BY TokensOfParts
  <2>2. ~Required(T, 0)
    BY <1>0 DEF Required, UpTo
  <2>3. CASE Tokens(W, S) < Threshold
    <3>1. Tokens(W, T) < Threshold
      BY <2>1, <2>3, LookaheadReaches
    <3> QED BY <2>2, <3>1 DEF Selected
  <2>4. CASE Protected(W, S) = S
    <3>1. \A i \in T : i \in Protected(W, T)
      <4> SUFFICES ASSUME NEW i \in T PROVE i \in Protected(W, T)
        OBVIOUS
      <4>1. Tokens(W, From(S, i) \ {i}) < Recent
        BY <2>4, ProtectedText
      <4>2. From(T, i) \ {i} \in SUBSET (From(S, i) \ {i}) /\ From(S, i) \ {i} \in SUBSET S
        BY DEF From
      <4>3. Measured(W, From(S, i) \ {i})
        BY <4>2, TokensOfParts
      <4>4. /\ Tokens(W, From(T, i) \ {i}) <= Tokens(W, From(S, i) \ {i})
            /\ Tokens(W, From(T, i) \ {i}) \in Nat /\ Tokens(W, From(S, i) \ {i}) \in Nat
        BY <4>2, <4>3, TokensOfParts
      <4>5. Tokens(W, From(T, i) \ {i}) < Recent
        BY <4>1, <4>4, LookaheadReaches
      <4> QED BY <2>1, <4>5, ProtectedText
    <3>2. Eligible(W, T, 0) = {}
      BY <2>2, <3>1 DEF Eligible
    <3>3. BatchOf(W, Eligible(W, T, 0)) = {}
      BY <3>2 DEF BatchOf
    <3> QED BY <3>3 DEF Selected
  <2> QED BY <1>4, <2>3, <2>4
<1> QED BY <1>3, <1>5

\* A batch takes the oldest messages, and all that is protected comes after it.
LEMMA BatchIsOldest ==
    ASSUME NEW W, NEW S, Measured(W, S), NEW t \in Nat, Selected(W, S, t) # {}
    PROVE  /\ Selected(W, S, t) \in SUBSET S
           /\ Min(Selected(W, S, t)) = Min(S)
           /\ ~Conflicts(W, S, t)
           /\ \A i \in Protected(W, S) : i > Max(Selected(W, S, t))
<1> DEFINE E == Eligible(W, S, t)
           B == Selected(W, S, t)
<1>0. \A i \in S : i \in Nat
  BY DEF Measured
<1>1. B = BatchOf(W, E) /\ ~Conflicts(W, S, t)
  BY DEF Selected
<1>2. E \in SUBSET S /\ \A i \in E : i \notin Protected(W, S)
  BY DEF Eligible, UpTo
<1>3. \A i \in E, j \in S : j <= i => j \in E
  <2> SUFFICES ASSUME NEW i \in E, NEW j \in S, j <= i PROVE j \in E
    OBVIOUS
  <2>1. i \in S /\ i \notin Protected(W, S)
    BY <1>2
  <2>2. j \notin Protected(W, S)
    BY <2>1, ProtectedIsSuffix
  <2>3. Required(S, t) => i <= t
    BY DEF Eligible, UpTo
  <2>4. Required(S, t) => j <= t
    BY <1>0, <2>1, <2>3
  <2> QED BY <2>2, <2>4 DEF Eligible, UpTo
<1>4. B \in SUBSET E /\ B # {}
  BY <1>1 DEF BatchOf
<1> HIDE DEF E, B
<1>5. /\ Max(B) \in B /\ Min(B) \in B /\ \A y \in B : Min(B) <= y
      /\ Min(E) \in E /\ \A y \in E : Min(E) <= y
      /\ Min(S) \in S /\ \A y \in S : Min(S) <= y
  <2>1. B \in SUBSET S /\ E # {} /\ S # {}
    BY <1>2, <1>4
  <2> QED BY <1>2, <1>4, <2>1, Bounds
<1>6. Min(E) \in B
  BY <1>1, <1>5 DEF BatchOf
<1>7. Min(B) = Min(S)
  <2>1. Min(S) \in E
    BY <1>2, <1>3, <1>5
  <2>2. Min(B) \in Nat /\ Min(E) \in Nat /\ Min(S) \in Nat
    BY <1>0, <1>2, <1>4, <1>5
  <2>3. Min(S) <= Min(B) /\ Min(B) <= Min(E) /\ Min(E) <= Min(S)
    BY <1>2, <1>4, <1>5, <1>6, <2>1
  <2> QED BY <2>2, <2>3
<1>8. ASSUME NEW i \in Protected(W, S) PROVE i > Max(B)
  <2>1. i \in S
    BY ProtectedText
  <2>2. Max(B) \in S /\ Max(B) \notin Protected(W, S)
    BY <1>2, <1>4, <1>5
  <2>3. ~(i <= Max(B))
    BY <2>2, ProtectedIsSuffix
  <2> QED BY <1>0, <2>1, <2>2, <2>3
<1>9. B \in SUBSET S
  BY <1>2, <1>4
<1> QED BY <1>1, <1>7, <1>8, <1>9 DEF B

\* The bounds of the model are numbers.
LEMMA Bounded ==
    /\ MaxLength \in Nat /\ MaxMemoryAttempts \in Nat /\ MaxClaims \in Nat
    /\ MaxRequests \in Nat /\ MaxSourceRevision \in Nat /\ NoMemoryClaim \notin ClaimTokens
BY MemoryAssumption

\* What the planner of the worker weighs is measured in numbers.
LEMMA RanksMeasured ==
    ASSUME NEW c \in 0..MaxLength, NEW n \in 0..MaxLength
    PROVE  /\ Measured(Weight, Unsummarised(c, n))
           /\ \A i : i \in Unsummarised(c, n) <=> i \in Nat /\ c < i /\ i <= n
<1>1. c \in Nat /\ n \in Nat /\ n <= MaxLength /\ MaxLength \in Nat
  BY Bounded
<1>2. \A i : i \in Unsummarised(c, n) <=> i \in Nat /\ c < i /\ i <= n
  BY <1>1 DEF Unsummarised
<1>3. IsFiniteSet(Unsummarised(c, n))
  BY <1>1, FS_Interval DEF Unsummarised
<1>4. \A i \in Unsummarised(c, n) : Weight[i] \in Nat
  <2> SUFFICES ASSUME NEW i \in Unsummarised(c, n) PROVE Weight[i] \in Nat
    OBVIOUS
  <2>1. i \in 1..MaxLength
    BY <1>1, <1>2
  <2> QED BY <2>1, MemoryAssumption
<1>5. Unsummarised(c, n) \subseteq Nat
  BY <1>2
<1> QED BY <1>2, <1>3, <1>4, <1>5 DEF Measured

\* Nothing is due after c of what there was at length a.
NoneDue(c, a) == Selected(Weight, Unsummarised(c, a), 0) = {}

\* What the plan of a claim says of its batch, and of the end of the work.
LEMMA PlanSettles ==
    ASSUME NEW c \in 0..MaxLength, NEW n \in 0..MaxLength, c <= n, NEW t \in 0..MaxLength
    PROVE  /\ ~Plan[c][n][t].conflict /\ Plan[c][n][t].batch = {} /\ t <= n
                => t <= c /\ \A a \in 0..n : NoneDue(c, a)
           /\ Plan[c][n][t].batch # {}
                => LET last == Max(Plan[c][n][t].batch)
                   IN  /\ Min(Plan[c][n][t].batch) = c + 1
                       /\ last \in Nat /\ c < last /\ last <= n
                       /\ ~Plan[c][n][t].more /\ t <= n
                            => t <= last /\ \A a \in 0..n : NoneDue(last, a)
<1> DEFINE S == Unsummarised(c, n)
           L == Loaded(Weight, S)
           P == Plan[c][n][t]
<1>1. Measured(Weight, S) /\ \A i : i \in S <=> i \in Nat /\ c < i /\ i <= n
  BY RanksMeasured
<1>2. c \in Nat /\ n \in Nat /\ t \in Nat /\ MaxLength \in Nat /\ n <= MaxLength
  BY Bounded
<1>3. P = [conflict |-> Conflicts(Weight, L, t), batch |-> Selected(Weight, L, t),
           more |-> MoreAfter(Weight, S, Selected(Weight, L, t), t)]
  BY DEF Plan
<1> HIDE DEF P
<1>4. /\ P.conflict = Conflicts(Weight, L, t) /\ P.batch = Selected(Weight, L, t)
      /\ P.more = MoreAfter(Weight, S, Selected(Weight, L, t), t)
  BY <1>3
<1> HIDE DEF S
<1>5. (Conflicts(Weight, L, t) <=> Conflicts(Weight, S, t)) /\ Selected(Weight, L, t) = Selected(Weight, S, t)
  BY <1>1, <1>2, WindowsDecide
<1> HIDE DEF L
\* Whatever is left of S from d on is settled, if nothing of it is selected.
<1>6. ASSUME NEW d \in Nat, c <= d, d <= n, t <= n,
             Selected(Weight, {i \in S : i > d}, t) = {}, ~Conflicts(Weight, {i \in S : i > d}, t)
      PROVE  t <= d /\ \A a \in 0..n : NoneDue(d, a)
  <2> DEFINE R == {i \in S : i > d}
  <2>1. R \in SUBSET S /\ (\A i \in R : i > 0) /\ \A i : i \in R <=> i \in Nat /\ d < i /\ i <= n
    BY <1>1, <1>2, <1>6
  <2> HIDE DEF R
  <2>2. Measured(Weight, R)
    BY <1>1, <2>1, TokensOfParts
  <2>3. Selected(Weight, R, t) = {} /\ ~Conflicts(Weight, R, t)
    BY <1>6 DEF R
  <2>4. ~Required(R, t) /\ \A T \in SUBSET R : Selected(Weight, T, 0) = {}
    BY <1>2, <2>1, <2>2, <2>3, NothingLeft
  <2>5. t <= d
    <3> SUFFICES ASSUME ~(t <= d) PROVE FALSE
      OBVIOUS
    <3>1. t \in R /\ t <= t
      BY <1>2, <1>6, <2>1
    <3> QED BY <2>4, <3>1 DEF Required, UpTo
  <2>6. ASSUME NEW a \in 0..n PROVE NoneDue(d, a)
    <3>1. a \in 0..MaxLength /\ d \in 0..MaxLength /\ a \in Nat /\ a <= n
      BY <1>2, <1>6
    <3>2. \A i : i \in Unsummarised(d, a) <=> i \in Nat /\ d < i /\ i <= a
      BY <3>1, RanksMeasured
    <3>3. Unsummarised(d, a) \in SUBSET R
      <4> SUFFICES ASSUME NEW i \in Unsummarised(d, a) PROVE i \in R
        OBVIOUS
      <4>1. i \in Nat /\ d < i /\ i <= a
        BY <3>2
      <4>2. i <= n
        BY <1>2, <3>1, <4>1
      <4> QED BY <2>1, <4>1, <4>2
    <3> QED BY <2>4, <3>3 DEF NoneDue
  <2> QED BY <2>5, <2>6
<1>7. ASSUME ~P.conflict, P.batch = {}, t <= n
      PROVE  t <= c /\ \A a \in 0..n : NoneDue(c, a)
  <2>1. {i \in S : i > c} = S
    <3>1. \A i \in S : i > c
      BY <1>1, <1>2
    <3> QED BY <3>1
  <2>2. Selected(Weight, {i \in S : i > c}, t) = {} /\ ~Conflicts(Weight, {i \in S : i > c}, t)
    BY <1>4, <1>5, <1>7, <2>1
  <2>3. c <= c
    BY <1>2
  <2> QED BY <1>2, <1>6, <1>7, <2>2, <2>3
<1> DEFINE B == Selected(Weight, S, t)
           last == Max(B)
<1>8. ASSUME P.batch # {}
      PROVE  /\ Min(P.batch) = c + 1
             /\ Max(P.batch) \in Nat /\ c < Max(P.batch) /\ Max(P.batch) <= n
             /\ ~P.more /\ t <= n
                  => t <= Max(P.batch) /\ \A a \in 0..n : NoneDue(Max(P.batch), a)
  <2>1. B # {} /\ P.batch = B
    BY <1>4, <1>5, <1>8
  <2>2. /\ B \in SUBSET S /\ Min(B) = Min(S) /\ ~Conflicts(Weight, S, t)
        /\ \A i \in Protected(Weight, S) : i > Max(B)
    BY <1>1, <1>2, <2>1, BatchIsOldest
  <2> HIDE DEF B
  <2>3. Min(S) = c + 1
    <3>1. S # {} /\ S \in SUBSET S
      BY <2>1, <2>2
    <3>2. Min(S) \in S /\ \A y \in S : Min(S) <= y
      BY <1>1, <3>1, Bounds
    <3>3. c + 1 \in S
      <4>1. Min(S) \in Nat /\ c < Min(S) /\ Min(S) <= n
        BY <1>1, <3>2
      <4>2. c + 1 \in Nat /\ c < c + 1 /\ c + 1 <= n
        BY <1>2, <4>1
      <4> QED BY <1>1, <4>2
    <3>4. Min(S) \in Nat /\ c < Min(S) /\ Min(S) <= c + 1
      BY <1>1, <3>2, <3>3
    <3> QED BY <1>2, <3>4
  <2>4. last \in B
    BY <1>1, <2>1, <2>2, Bounds
  <2> HIDE DEF last
  <2>5. last \in Nat /\ c < last /\ last <= n
    BY <1>1, <2>2, <2>4
  <2>6. ASSUME ~P.more, t <= n PROVE t <= last /\ \A a \in 0..n : NoneDue(last, a)
    <3>1. ~MoreAfter(Weight, S, B, t)
      BY <1>4, <1>5, <2>6 DEF B
    <3>2. OldestFirst(Weight, S, Lookahead) = S /\ Selected(Weight, {i \in L : i > Max(B)}, t) = {}
      BY <2>1, <3>1 DEF MoreAfter, L
    <3>3. L = S
      BY <3>2 DEF Loaded, L
    <3> DEFINE R == {i \in S : i > last}
    <3>4. Selected(Weight, R, t) = {}
      BY <3>2, <3>3 DEF last
    <3>5. ~Conflicts(Weight, R, t)
      <4>1. R \in SUBSET S /\ \A i \in R, j \in S : i <= j => j \in R
        <5>1. \A i \in S, j \in S : i > last /\ i <= j => j > last
          <6>1. \A i \in S : i \in Nat
            BY <1>1
          <6> QED BY <2>5, <6>1
        <5> QED BY <5>1
      <4> HIDE DEF R
      <4>2. Protected(Weight, R) = Protected(Weight, S) \cap R
        BY <1>1, <4>1, SuffixProtects
      <4> QED BY <2>2, <4>2 DEF Conflicts, Required, UpTo
    <3>6. c <= last
      BY <1>2, <2>5
    <3> QED BY <1>6, <2>5, <2>6, <3>4, <3>5, <3>6
  <2> QED BY <2>1, <2>2, <2>3, <2>5, <2>6 DEF last
<1> QED BY <1>7, <1>8 DEF P

CoveredBy(M) == Max({0} \cup {m.to : m \in M})
UnindexedOf(M) == {m \in M : ~m.ready}
Holds(m, i) == m.from <= i /\ i <= m.to

SummaryRow == [from: Nat, to: Nat, revision: Nat, ready: BOOLEAN]

\* The summaries of the current text, side by side from its start; only the last of
\* them may wait for its embedding.
Tiles(M, revision, n) ==
    /\ \A m \in M : /\ m \in SummaryRow
                    /\ m.revision = revision
                    /\ 1 <= m.from /\ m.from <= m.to /\ m.to <= n
                    /\ ~m.ready => m.to = CoveredBy(M)
    /\ \A i \in 1..CoveredBy(M) : \E m \in M : Holds(m, i)
    /\ \A m, other \in M : \A i \in Nat : Holds(m, i) /\ Holds(other, i) => m = other

\* The last summarised message is the end of a summary, or there is none.
LEMMA CoveredBounds ==
    ASSUME NEW M, NEW n \in Nat, \A m \in M : m.to \in Nat /\ m.to <= n
    PROVE  /\ CoveredBy(M) \in Nat /\ CoveredBy(M) <= n
           /\ \A m \in M : m.to <= CoveredBy(M)
           /\ CoveredBy(M) = 0 \/ \E m \in M : m.to = CoveredBy(M)
<1> DEFINE E == {0} \cup {m.to : m \in M}
<1>1. E \subseteq 0..n /\ E # {}
  OBVIOUS
<1>2. IsFiniteSet(E) /\ E \subseteq Int
  <2> HIDE DEF E
  <2>1. IsFiniteSet(0..n)
    BY FS_Interval
  <2>2. IsFiniteSet(E)
    BY <1>1, <2>1, FS_Subset
  <2>3. E \subseteq Int
    BY <1>1
  <2> QED BY <2>2, <2>3
<1>3. Max(E) \in E /\ \A y \in E : y <= Max(E)
  <2> HIDE DEF E
  <2> QED BY <1>1, <1>2, HasMax
<1>4. \A m \in M : m.to \in E
  OBVIOUS
<1>5. Max(E) \in 0..n
  <2> HIDE DEF E
  <2> QED BY <1>1, <1>3
<1>6. Max(E) = 0 \/ \E m \in M : m.to = Max(E)
  BY <1>3
<1>7. CoveredBy(M) = Max(E)
  BY DEF CoveredBy
<1> HIDE DEF E
<1>8. CoveredBy(M) \in Nat /\ CoveredBy(M) <= n
  BY <1>5, <1>7
<1>9. \A m \in M : m.to <= CoveredBy(M)
  BY <1>3, <1>4, <1>7
<1> QED BY <1>6, <1>7, <1>8, <1>9

\* And it is the only number with this property.
LEMMA CoveredIs ==
    ASSUME NEW M, NEW n \in Nat, \A m \in M : m.to \in Nat /\ m.to <= n,
           NEW c \in Nat, \A m \in M : m.to <= c, c = 0 \/ \E m \in M : m.to = c
    PROVE  CoveredBy(M) = c
<1>1. /\ CoveredBy(M) \in Nat
      /\ \A m \in M : m.to <= CoveredBy(M)
      /\ CoveredBy(M) = 0 \/ \E m \in M : m.to = CoveredBy(M)
  BY CoveredBounds
<1>2. c <= CoveredBy(M)
  BY <1>1
<1>3. CoveredBy(M) <= c
  BY <1>1
<1> QED BY <1>1, <1>2, <1>3

\* What summaries side by side say of each of them.
LEMMA TilesBounds ==
    ASSUME NEW M, NEW r \in Nat, NEW n \in Nat, Tiles(M, r, n)
    PROVE  /\ CoveredBy(M) \in Nat /\ CoveredBy(M) <= n
           /\ \A m \in M : m.to <= CoveredBy(M)
           /\ CoveredBy(M) = 0 \/ \E m \in M : m.to = CoveredBy(M)
           /\ \A m \in M : /\ m \in SummaryRow /\ m.from \in Nat /\ m.to \in Nat /\ m.to <= n
                           /\ m.revision = r /\ 1 <= m.from /\ m.from <= m.to
<1>1. \A m \in M : /\ m \in SummaryRow /\ m.from \in Nat /\ m.to \in Nat /\ m.to <= n
                   /\ m.revision = r /\ 1 <= m.from /\ m.from <= m.to
  BY DEF Tiles, SummaryRow
<1> QED BY <1>1, CoveredBounds

\* No summary at all, as after an edit, is a tiling too.
LEMMA NoTiles ==
    ASSUME NEW r \in Nat, NEW n \in Nat
    PROVE  Tiles({}, r, n) /\ CoveredBy({}) = 0 /\ UnindexedOf({}) = {}
<1>1. CoveredBy({}) = 0
  BY CoveredBounds
<1>2. \A i \in 1..CoveredBy({}) : FALSE
  BY <1>1
<1> QED BY <1>1, <1>2 DEF Tiles, UnindexedOf

\* New messages leave the summaries side by side.
LEMMA TilesGrow ==
    ASSUME NEW M, NEW r \in Nat, NEW n \in Nat, Tiles(M, r, n), NEW k \in Nat, n <= k
    PROVE  Tiles(M, r, k)
<1>1. \A m \in M : m.to \in Nat /\ m.to <= n
  BY TilesBounds
<1>2. \A m \in M : m.to <= k
  BY <1>1
<1> QED BY <1>2 DEF Tiles

Joined(M, s, r, n) ==
    LET K == M \cup {Stored(s, FALSE)}
    IN  /\ Stored(s, TRUE) \notin M
        /\ Tiles(K, r, n)
        /\ CoveredBy(K) = s.to
        /\ UnindexedOf(K) = {Stored(s, FALSE)}

\* The next summary joins the others.
LEMMA TilesJoin ==
    ASSUME NEW M, NEW r \in Nat, NEW n \in Nat, Tiles(M, r, n), UnindexedOf(M) = {},
           NEW s \in SummaryRange, s.revision = r, s.from = CoveredBy(M) + 1,
           s.from <= s.to, s.to <= n
    PROVE  Joined(M, s, r, n)
<1> DEFINE a == Stored(s, FALSE)
           c == CoveredBy(M)
           K == M \cup {a}
<1>1. /\ c \in Nat /\ c <= n /\ \A m \in M : m.to <= c
      /\ \A m \in M : /\ m \in SummaryRow /\ m.from \in Nat /\ m.to \in Nat /\ m.to <= n
                      /\ m.revision = r /\ 1 <= m.from /\ m.from <= m.to
  BY TilesBounds
<1>2. s.from \in Nat /\ s.to \in Nat /\ s.from = c + 1 /\ c < s.to
  BY <1>1 DEF SummaryRange
<1>3. /\ a \in SummaryRow /\ a.from = s.from /\ a.to = s.to /\ a.revision = r /\ a.ready = FALSE
      /\ Stored(s, TRUE).to = s.to
  BY DEF Stored, SummaryRow, SummaryRange
<1>4. Stored(s, TRUE) \notin M
  <2> SUFFICES ASSUME Stored(s, TRUE) \in M PROVE FALSE
    OBVIOUS
  <2>1. Stored(s, TRUE).to <= c
    BY <1>1
  <2>2. Stored(s, TRUE).to = s.to
    BY DEF Stored
  <2>3. s.to <= c /\ c < s.to /\ c \in Nat /\ s.to \in Nat
    BY <1>1, <1>2, <2>1, <2>2
  <2> HIDE DEF c
  <2> QED BY <2>3
<1> HIDE DEF a, c
<1>5. CoveredBy(K) = s.to
  <2>1. \A m \in K : m.to \in Nat /\ m.to <= n /\ m.to <= s.to
    BY <1>1, <1>2, <1>3
  <2>2. \E m \in K : m.to = s.to
    BY <1>3
  <2> HIDE DEF K
  <2> QED BY <1>2, <2>1, <2>2, CoveredIs
<1>6. \A m \in M : m.ready
  BY DEF UnindexedOf
<1>7. UnindexedOf(K) = {a}
  BY <1>3, <1>6 DEF UnindexedOf
<1>8. \A m \in K : /\ m \in SummaryRow /\ m.revision = r
                   /\ 1 <= m.from /\ m.from <= m.to /\ m.to <= n
                   /\ ~m.ready => m.to = CoveredBy(K)
  BY <1>1, <1>2, <1>3, <1>5, <1>6
<1>9. \A i \in 1..CoveredBy(K) : \E m \in K : Holds(m, i)
  <2> SUFFICES ASSUME NEW i \in 1..s.to PROVE \E m \in K : Holds(m, i)
    BY <1>5
  <2>1. CASE i <= c
    <3>1. i \in 1..CoveredBy(M)
      BY <1>1, <2>1 DEF c
    <3>2. \E m \in M : Holds(m, i)
      BY <3>1 DEF Tiles
    <3> QED BY <3>2
  <2>2. CASE ~(i <= c)
    <3>1. a.from <= i /\ i <= a.to
      BY <1>1, <1>2, <1>3, <2>2
    <3> QED BY <3>1 DEF Holds
  <2> QED BY <2>1, <2>2
<1>10. ASSUME NEW m \in K, NEW other \in K, NEW i \in Nat, Holds(m, i), Holds(other, i)
       PROVE  m = other
  <2>1. \A x \in M : ~(Holds(x, i) /\ Holds(a, i))
    <3> SUFFICES ASSUME NEW x \in M, Holds(x, i), Holds(a, i) PROVE FALSE
      OBVIOUS
    <3>1. i <= x.to /\ x.to <= c /\ x.to \in Nat /\ a.from <= i /\ a.from = c + 1
      BY <1>1, <1>2, <1>3 DEF Holds
    <3> QED BY <1>1, <3>1
  <2>2. \A x, y \in M : Holds(x, i) /\ Holds(y, i) => x = y
    BY DEF Tiles
  <2> QED BY <1>10, <2>1, <2>2
<1> HIDE DEF K
<1>11. Tiles(K, r, n)
  BY <1>8, <1>9, <1>10 DEF Tiles
<1> QED BY <1>4, <1>5, <1>7, <1>11 DEF K, a, Joined

Indexed(M, s, r, n) ==
    LET K == (M \ {Stored(s, FALSE)}) \cup {Stored(s, TRUE)}
    IN  Tiles(K, r, n) /\ CoveredBy(K) = CoveredBy(M) /\ UnindexedOf(K) = {}

\* Its embedding changes nothing but that it is there.
LEMMA TilesIndexed ==
    ASSUME NEW M, NEW r \in Nat, NEW n \in Nat, Tiles(M, r, n), NEW s \in SummaryRange,
           Stored(s, FALSE) \in M, UnindexedOf(M) = {Stored(s, FALSE)}
    PROVE  Indexed(M, s, r, n)
<1> DEFINE a == Stored(s, FALSE)
           b == Stored(s, TRUE)
           c == CoveredBy(M)
           K == (M \ {a}) \cup {b}
<1>1. /\ c \in Nat /\ c <= n /\ \A m \in M : m.to <= c
      /\ c = 0 \/ \E m \in M : m.to = c
      /\ \A m \in M : /\ m \in SummaryRow /\ m.from \in Nat /\ m.to \in Nat /\ m.to <= n
                      /\ m.revision = r /\ 1 <= m.from /\ m.from <= m.to
  BY TilesBounds
<1>2. /\ a.from = s.from /\ a.to = s.to /\ a.revision = s.revision /\ a.ready = FALSE
      /\ b.from = s.from /\ b.to = s.to /\ b.revision = s.revision /\ b.ready = TRUE
      /\ b \in SummaryRow /\ a \in M
  BY DEF Stored, SummaryRow, SummaryRange
<1>3. K = (M \ {a}) \cup {b} /\ UnindexedOf(M) = {a}
  OBVIOUS
<1> HIDE DEF a, b, c, K
<1>4. \A m \in M \ {a} : m \in K /\ m.ready
  BY <1>3 DEF UnindexedOf
<1>5. \A m \in K : m = b \/ (m \in M /\ m # a /\ m.ready)
  BY <1>3, <1>4
<1>6. \A m \in K : /\ m \in SummaryRow /\ m.revision = r /\ m.to \in Nat /\ m.to <= c
                   /\ 1 <= m.from /\ m.from <= m.to /\ m.to <= n /\ m.ready
  BY <1>1, <1>2, <1>5
<1>7. \A i : Holds(a, i) <=> Holds(b, i)
  BY <1>2 DEF Holds
<1>8. \A m \in M : \E k \in K : k.to = m.to /\ \A i : Holds(m, i) <=> Holds(k, i)
  BY <1>2, <1>3, <1>4, <1>7
<1>9. CoveredBy(K) = c
  <2>1. c = 0 \/ \E k \in K : k.to = c
    BY <1>1, <1>8
  <2> QED BY <1>1, <1>6, <2>1, CoveredIs
<1>10. \A i \in 1..CoveredBy(K) : \E k \in K : Holds(k, i)
  <2> SUFFICES ASSUME NEW i \in 1..CoveredBy(M) PROVE \E k \in K : Holds(k, i)
    BY <1>9 DEF c
  <2>1. \E m \in M : Holds(m, i)
    BY DEF Tiles
  <2> QED BY <1>8, <2>1
<1>11. \A k, other \in K : \A i \in Nat : Holds(k, i) /\ Holds(other, i) => k = other
  <2> SUFFICES ASSUME NEW k \in K, NEW other \in K, NEW i \in Nat, Holds(k, i), Holds(other, i)
               PROVE  k = other
    OBVIOUS
  <2>1. \A x, y \in M : Holds(x, i) /\ Holds(y, i) => x = y
    BY DEF Tiles
  <2>2. \A x \in M : x # a => ~(Holds(x, i) /\ Holds(b, i))
    BY <1>2, <1>7, <2>1
  <2> QED BY <1>5, <2>1, <2>2
<1>12. Tiles(K, r, n)
  BY <1>6, <1>10, <1>11 DEF Tiles
<1>13. UnindexedOf(K) = {}
  BY <1>6 DEF UnindexedOf
<1> QED BY <1>9, <1>12, <1>13 DEF a, b, c, K, Indexed

\* Summaries side by side are what a reader of the memory relies on.
LEMMA TilesSay ==
    ASSUME NEW M, NEW r \in Nat, NEW n \in Nat, Tiles(M, r, n)
    PROVE  /\ \A m \in M : m.revision = r /\ m.from <= m.to
           /\ \A i \in 1..CoveredBy(M) : Cardinality({m \in M : m.from <= i /\ i <= m.to}) = 1
           /\ CoveredBy(M) <= n
           /\ \A m \in UnindexedOf(M) : m.to = CoveredBy(M) /\ Cardinality(UnindexedOf(M)) = 1
<1>1. /\ CoveredBy(M) \in Nat /\ CoveredBy(M) <= n
      /\ \A m \in M : /\ m.from \in Nat /\ m.to \in Nat /\ m.revision = r
                      /\ 1 <= m.from /\ m.from <= m.to
  BY TilesBounds
<1>2. ASSUME NEW i \in 1..CoveredBy(M)
      PROVE  Cardinality({m \in M : m.from <= i /\ i <= m.to}) = 1
  <2>1. PICK m \in M : Holds(m, i)
    BY DEF Tiles
  <2>2. \A other \in M : Holds(other, i) => other = m
    BY <1>1, <2>1 DEF Tiles
  <2>3. {x \in M : x.from <= i /\ i <= x.to} = {m}
    BY <2>1, <2>2 DEF Holds
  <2> QED BY <2>3, FS_Singleton
<1>3. ASSUME NEW m \in UnindexedOf(M)
      PROVE  m.to = CoveredBy(M) /\ Cardinality(UnindexedOf(M)) = 1
  <2>1. \A x \in UnindexedOf(M) : x \in M /\ x.to = CoveredBy(M) /\ Holds(x, CoveredBy(M))
    BY <1>1 DEF UnindexedOf, Tiles, Holds
  <2>2. \A x \in UnindexedOf(M) : x = m
    BY <1>1, <2>1 DEF Tiles
  <2>3. UnindexedOf(M) = {m}
    BY <2>2
  <2> QED BY <2>1, <2>3, FS_Singleton
<1> QED BY <1>1, <1>2, <1>3

Claims == ClaimTokens \cup {NoMemoryClaim}

JobRow == [status: {"absent", "pending", "running", "idle", "failed"},
           requested: Nat, completed: Nat, scope: Nat, attempts: Nat,
           token: Claims, leaseOver: BOOLEAN, due: BOOLEAN, target: Nat]

WorkRow == [token: Claims, scope: Nat, attempts: Nat, target: Nat]

WorkerRow == [at: {"idle", "read_pending", "read", "summarise", "save_summary", "embed",
                   "save_embedding", "complete", "fail"},
              work: WorkRow, summary: SummaryRange, after: {"none", "read", "complete"},
              more: BOOLEAN, retryable: BOOLEAN]

JobShape(j, n) ==
    /\ j \in JobRow
    /\ j.completed <= j.requested /\ j.scope <= j.requested /\ j.target <= n
    /\ j.status = "running" => j.token \in ClaimTokens

WorkerShape(W) ==
    /\ W \in WorkerRow
    /\ W.work.target <= MaxLength
    /\ IF W.at = "idle" THEN W = Free ELSE W.work.token \in ClaimTokens
    /\ W.at \in {"summarise", "save_summary"} => W.after = "complete"
    /\ W.at \in {"embed", "save_embedding"} => W.after \in {"read", "complete"}

\* No two slots hold the same claim.
WorkersShape(slots) ==
    /\ slots \in [MemoryWorkers -> WorkerRow]
    /\ \A w \in MemoryWorkers : WorkerShape(slots[w])
    /\ \A w, x \in MemoryWorkers :
         slots[w].work.token = slots[x].work.token /\ slots[w].work.token # NoMemoryClaim => w = x

OwnsJob(W, j) == j.status = "running" /\ j.scope = W.work.scope /\ j.token = W.work.token

\* With c messages summarised, nothing that was asked for is owed.
NothingOwed(c, a) == a.target <= c /\ NoneDue(c, a.length)

\* The attempt will end the work, unless more is requested before.
Ends(W, j) == ~W.more /\ j.requested = W.work.scope

\* What the owner of the job relies on between its transactions: nobody else touches
\* the summaries, and whoever edits the history takes its claim away.
OwnerKnows(W, j, M, a, r, n) ==
    /\ j.requested = W.work.scope => j.target = W.work.target
    /\ W.at \in {"read", "summarise", "save_summary", "complete"} => UnindexedOf(M) = {}
    /\ W.at \in {"summarise", "save_summary"} =>
         /\ W.summary.revision = r /\ W.summary.from = CoveredBy(M) + 1
         /\ W.summary.from <= W.summary.to /\ W.summary.to <= n
         /\ Ends(W, j) => NothingOwed(W.summary.to, a)
    /\ W.at \in {"embed", "save_embedding"} => UnindexedOf(M) = {Stored(W.summary, FALSE)}
    /\ W.at = "complete" \/ (W.at \in {"embed", "save_embedding"} /\ W.after = "complete") =>
         (Ends(W, j) => NothingOwed(CoveredBy(M), a))

Owed(j, M, a) ==
    j.status = "idle" => /\ j.completed = j.requested
                         /\ UnindexedOf(M) = {}
                         /\ NothingOwed(CoveredBy(M), a)

AskedShape(a, j, M, n) ==
    /\ a \in [length: Nat, target: Nat]
    /\ a.length <= n
    /\ a.target <= CoveredBy(M) \/ a.target <= j.target

MemoryInv ==
    /\ length \in 0..MaxLength
    /\ sourceRevision \in Nat
    /\ Tiles(summaries, sourceRevision, length)
    /\ JobShape(job, length)
    /\ AskedShape(asked, job, summaries, length)
    /\ WorkersShape(memoryWorker)
    /\ \A w \in MemoryWorkers : OwnsJob(memoryWorker[w], job) =>
         OwnerKnows(memoryWorker[w], job, summaries, asked, sourceRevision, length)
    /\ Owed(job, summaries, asked)

\* The invariant, with the numbers it is about.
LEMMA InvSays ==
    ASSUME MemoryInv
    PROVE  /\ length \in Nat /\ length <= MaxLength /\ MaxLength \in Nat /\ sourceRevision \in Nat
           /\ Tiles(summaries, sourceRevision, length)
           /\ JobShape(job, length)
           /\ AskedShape(asked, job, summaries, length)
           /\ WorkersShape(memoryWorker)
           /\ \A w \in MemoryWorkers : OwnsJob(memoryWorker[w], job) =>
                OwnerKnows(memoryWorker[w], job, summaries, asked, sourceRevision, length)
           /\ Owed(job, summaries, asked)
           /\ CoveredBy(summaries) \in Nat /\ CoveredBy(summaries) <= length
           /\ Covered = CoveredBy(summaries) /\ Unindexed = UnindexedOf(summaries)
<1>1. /\ length \in Nat /\ length <= MaxLength /\ MaxLength \in Nat /\ sourceRevision \in Nat
      /\ Tiles(summaries, sourceRevision, length)
  BY Bounded DEF MemoryInv
<1>2. CoveredBy(summaries) \in Nat /\ CoveredBy(summaries) <= length
  BY <1>1, TilesBounds
<1> QED BY <1>1, <1>2 DEF MemoryInv, Covered, CoveredBy, Unindexed, UnindexedOf

\* A new conversation starts with it.
LEMMA MemoryInvInit == MemoryInit => MemoryInv
<1> SUFFICES ASSUME MemoryInit PROVE MemoryInv
  OBVIOUS
<1> USE DEF MemoryInit
<1>1. length \in 0..MaxLength /\ sourceRevision \in Nat
  BY Bounded
<1>2. Tiles(summaries, sourceRevision, length) /\ CoveredBy(summaries) = 0
  BY NoTiles
<1>3. JobShape(job, length)
  BY Bounded DEF JobShape, JobRow, NoJob, Claims
<1>4. AskedShape(asked, job, summaries, length)
  BY <1>2 DEF AskedShape, NothingAsked
<1>5. WorkerShape(Free) /\ Free \in WorkerRow /\ Free.work.token = NoMemoryClaim
  BY Bounded DEF WorkerShape, WorkerRow, WorkRow, Claims, SummaryRange, Free, NoWork, NoSummary
<1>6. WorkersShape(memoryWorker)
  BY <1>5 DEF WorkersShape
<1>7. job.status = "absent"
  BY DEF NoJob
<1> QED BY <1>1, <1>2, <1>3, <1>4, <1>6, <1>7 DEF MemoryInv, OwnsJob, Owed

\* A claim keeps every other slot's, and an ended one is forgotten.
LEMMA SlotMoves ==
    ASSUME NEW slots, WorkersShape(slots), NEW w \in MemoryWorkers, NEW W, WorkerShape(W),
           W.work.token = NoMemoryClaim
             \/ \A x \in MemoryWorkers : x # w => slots[x].work.token # W.work.token
    PROVE  WorkersShape([slots EXCEPT ![w] = W])
<1> DEFINE new == [slots EXCEPT ![w] = W]
<1>1. slots \in [MemoryWorkers -> WorkerRow] /\ W \in WorkerRow
  BY DEF WorkersShape, WorkerShape
<1>2. /\ new \in [MemoryWorkers -> WorkerRow] /\ new[w] = W
      /\ \A x \in MemoryWorkers : x # w => new[x] = slots[x]
  BY <1>1
<1> HIDE DEF new
<1>3. \A x \in MemoryWorkers : WorkerShape(new[x])
  BY <1>2 DEF WorkersShape
<1>4. ASSUME NEW x \in MemoryWorkers, NEW y \in MemoryWorkers,
             new[x].work.token = new[y].work.token, new[x].work.token # NoMemoryClaim
      PROVE  x = y
  <2>1. CASE x = w
    BY <1>2, <1>4, <2>1
  <2>2. CASE y = w
    BY <1>2, <1>4, <2>2
  <2>3. CASE x # w /\ y # w
    BY <1>2, <1>4, <2>3 DEF WorkersShape
  <2> QED BY <2>1, <2>2, <2>3
<1> QED BY <1>2, <1>3, <1>4 DEF WorkersShape, new

\* At most one worker owns the job.
LEMMA OwnersAreOne ==
    ASSUME NEW slots, WorkersShape(slots), NEW j, NEW n, JobShape(j, n),
           NEW w \in MemoryWorkers, OwnsJob(slots[w], j)
    PROVE  /\ slots[w].at # "idle"
           /\ \A x \in MemoryWorkers : OwnsJob(slots[x], j) => x = w
<1>1. slots[w].work.token \in ClaimTokens /\ slots[w].work.token # NoMemoryClaim
  BY Bounded DEF OwnsJob, JobShape
<1>2. slots[w].at = "idle" => slots[w].work.token = NoMemoryClaim
  BY DEF WorkersShape, WorkerShape, Free, NoWork
<1> QED BY <1>1, <1>2 DEF OwnsJob, WorkersShape

\* An attempt moves on, and the store stays as it is.
LEMMA SlotStep ==
    ASSUME MemoryInv, UNCHANGED memoryStore, NEW w \in MemoryWorkers, NEW W,
           memoryWorker' = [memoryWorker EXCEPT ![w] = W], WorkerShape(W),
           W.work.token \in {NoMemoryClaim, memoryWorker[w].work.token},
           OwnsJob(W, job) => OwnerKnows(W, job, summaries, asked, sourceRevision, length)
    PROVE  MemoryInv'
<1>1. /\ WorkersShape(memoryWorker)
      /\ \A x \in MemoryWorkers : OwnsJob(memoryWorker[x], job) =>
           OwnerKnows(memoryWorker[x], job, summaries, asked, sourceRevision, length)
  BY DEF MemoryInv
<1>2. W.work.token = NoMemoryClaim
        \/ \A x \in MemoryWorkers : x # w => memoryWorker[x].work.token # W.work.token
  BY <1>1 DEF WorkersShape
<1>3. /\ WorkersShape(memoryWorker') /\ memoryWorker'[w] = W
      /\ \A x \in MemoryWorkers : x # w => memoryWorker'[x] = memoryWorker[x]
  <2>1. WorkersShape([memoryWorker EXCEPT ![w] = W])
    BY <1>1, <1>2, SlotMoves
  <2>2. memoryWorker \in [MemoryWorkers -> WorkerRow]
    BY <1>1 DEF WorkersShape
  <2> QED BY <2>1, <2>2
<1>4. /\ length' = length /\ sourceRevision' = sourceRevision /\ summaries' = summaries
      /\ job' = job /\ asked' = asked
  BY DEF memoryStore
<1>5. \A x \in MemoryWorkers : OwnsJob(memoryWorker'[x], job) =>
        OwnerKnows(memoryWorker'[x], job, summaries, asked, sourceRevision, length)
  BY <1>1, <1>3
<1> QED BY <1>3, <1>4, <1>5 DEF MemoryInv

\* A message of the user asks nothing of the queue.
LEMMA HistoryGrows ==
    ASSUME MemoryInv, GrowHistory
    PROVE  MemoryInv'
<1>1. /\ length < MaxLength /\ length' = length + 1
      /\ sourceRevision' = sourceRevision /\ summaries' = summaries /\ job' = job /\ asked' = asked
      /\ memoryWorker' = memoryWorker
  BY DEF GrowHistory
<1>2. /\ length \in Nat /\ MaxLength \in Nat /\ sourceRevision \in Nat
      /\ Tiles(summaries, sourceRevision, length)
      /\ JobShape(job, length) /\ AskedShape(asked, job, summaries, length)
      /\ WorkersShape(memoryWorker) /\ Owed(job, summaries, asked)
      /\ \A w \in MemoryWorkers : OwnsJob(memoryWorker[w], job) =>
           OwnerKnows(memoryWorker[w], job, summaries, asked, sourceRevision, length)
  BY InvSays
<1>3. length' \in 0..MaxLength /\ length' \in Nat /\ length <= length'
  BY <1>1, <1>2
<1>4. Tiles(summaries, sourceRevision, length')
  BY <1>2, <1>3, TilesGrow
<1>5. JobShape(job, length')
  BY <1>2, <1>3 DEF JobShape, JobRow
<1>6. AskedShape(asked, job, summaries, length')
  BY <1>2, <1>3 DEF AskedShape
<1>7. ASSUME NEW w \in MemoryWorkers, OwnsJob(memoryWorker[w], job)
      PROVE  OwnerKnows(memoryWorker[w], job, summaries, asked, sourceRevision, length')
  <2>1. memoryWorker[w].summary.to \in Nat
    BY <1>2 DEF WorkersShape, WorkerRow, SummaryRange
  <2>2. OwnerKnows(memoryWorker[w], job, summaries, asked, sourceRevision, length)
    BY <1>2, <1>7
  <2>3. memoryWorker[w].summary.to <= length => memoryWorker[w].summary.to <= length'
    BY <1>2, <1>3, <2>1
  <2> QED BY <2>2, <2>3 DEF OwnerKnows
<1> QED BY <1>1, <1>2, <1>3, <1>4, <1>5, <1>6, <1>7 DEF MemoryInv

\* Who asks for work: no attempt under way ends the work any more.
LEMMA Scheduled ==
    ASSUME MemoryInv, NEW goal \in Nat, Schedule(goal), NEW n \in Nat, length <= n, goal <= n
    PROVE  /\ JobShape(job', n)
           /\ job'.target \in Nat /\ job.target <= job'.target /\ goal <= job'.target
           /\ job'.status # "idle"
           /\ \A w \in MemoryWorkers : OwnsJob(memoryWorker[w], job') =>
                /\ OwnsJob(memoryWorker[w], job)
                /\ job'.requested # memoryWorker[w].work.scope
<1>1. JobShape(job, length) /\ length \in Nat
  BY InvSays
<1>2. /\ job \in JobRow /\ job.completed <= job.requested /\ job.scope <= job.requested
      /\ job.target <= length /\ (job.status = "running" => job.token \in ClaimTokens)
  BY <1>1 DEF JobShape
<1>3. /\ job' \in JobRow
      /\ job'.requested = job.requested + 1 /\ job'.target = Later(job.target, goal)
      /\ job'.completed = job.completed /\ job'.scope = job.scope /\ job'.token = job.token
      /\ job'.status = IF job.status = "running" THEN "running" ELSE "pending"
  <2>1. Later(job.target, goal) \in Nat
    BY <1>2 DEF Later, JobRow
  <2>2. job' = [status |-> IF job.status = "running" THEN "running" ELSE "pending",
                requested |-> job.requested + 1, completed |-> job.completed, scope |-> job.scope,
                attempts |-> IF job.status = "failed" THEN 0 ELSE job.attempts,
                token |-> job.token, leaseOver |-> job.leaseOver,
                due |-> IF job.status = "running" THEN job.due ELSE TRUE,
                target |-> Later(job.target, goal)]
    BY <1>2 DEF Schedule, JobRow
  <2>3. /\ job.requested + 1 \in Nat
        /\ (IF job.status = "failed" THEN 0 ELSE job.attempts) \in Nat
        /\ (IF job.status = "running" THEN job.due ELSE TRUE) \in BOOLEAN
        /\ job.completed \in Nat /\ job.scope \in Nat /\ job.token \in Claims /\ job.leaseOver \in BOOLEAN
    <3>1. /\ job.requested \in Nat /\ job.attempts \in Nat /\ job.due \in BOOLEAN
          /\ job.completed \in Nat /\ job.scope \in Nat /\ job.token \in Claims
          /\ job.leaseOver \in BOOLEAN
      BY <1>2 DEF JobRow
    <3>2. job.status = "running" \/ job.status # "running"
      OBVIOUS
    <3>3. (IF job.status = "running" THEN job.due ELSE TRUE) \in BOOLEAN
      BY <3>1, <3>2, Zenon
    <3>4. job.requested + 1 \in Nat /\ (IF job.status = "failed" THEN 0 ELSE job.attempts) \in Nat
      BY <3>1
    <3> QED BY <3>1, <3>3, <3>4, Zenon
  <2> QED BY <2>1, <2>2, <2>3 DEF JobRow
<1>4. job'.target \in Nat /\ job.target <= job'.target /\ goal <= job'.target /\ job'.target <= n
  BY <1>1, <1>2, <1>3 DEF Later, JobRow
<1>5. JobShape(job', n)
  BY <1>2, <1>3, <1>4 DEF JobShape, JobRow
<1>6. ASSUME NEW w \in MemoryWorkers, OwnsJob(memoryWorker[w], job')
      PROVE  OwnsJob(memoryWorker[w], job) /\ job'.requested # memoryWorker[w].work.scope
  <2>1. OwnsJob(memoryWorker[w], job)
    BY <1>3, <1>6 DEF OwnsJob
  <2>2. job.scope = memoryWorker[w].work.scope
    BY <2>1 DEF OwnsJob
  <2> QED BY <1>2, <1>3, <2>1, <2>2 DEF JobRow
<1> QED BY <1>3, <1>4, <1>5, <1>6

\* An owner is not misled by a request that came after its claim.
LEMMA RequestKeepsOwner ==
    ASSUME NEW W, W \in WorkerRow, NEW j, NEW k, NEW M, NEW a, NEW b, NEW r,
           NEW m \in Nat, NEW n \in Nat, m <= n, OwnerKnows(W, j, M, a, r, m),
           k.requested # W.work.scope
    PROVE  OwnerKnows(W, k, M, b, r, n)
<1>1. W.summary.to \in Nat
  BY DEF WorkerRow, SummaryRange
<1>2. W.summary.to <= m => W.summary.to <= n
  BY <1>1
<1>3. ~Ends(W, k)
  BY DEF Ends
<1> QED BY <1>2, <1>3 DEF OwnerKnows

\* An answer commits with a request for the work it makes due.
LEMMA AnswerDelivered ==
    ASSUME MemoryInv, DeliverAnswer
    PROVE  MemoryInv'
<1>1. /\ length < MaxLength /\ length' = length + 1 /\ Schedule(0)
      /\ asked' = [asked EXCEPT !.length = length + 1]
      /\ sourceRevision' = sourceRevision /\ summaries' = summaries /\ memoryWorker' = memoryWorker
  BY DEF DeliverAnswer
<1>2. /\ length \in Nat /\ MaxLength \in Nat /\ sourceRevision \in Nat
      /\ Tiles(summaries, sourceRevision, length)
      /\ AskedShape(asked, job, summaries, length)
      /\ WorkersShape(memoryWorker)
      /\ \A w \in MemoryWorkers : OwnsJob(memoryWorker[w], job) =>
           OwnerKnows(memoryWorker[w], job, summaries, asked, sourceRevision, length)
      /\ job.target \in Nat /\ CoveredBy(summaries) \in Nat
  BY InvSays DEF JobShape, JobRow
<1>3. length' \in 0..MaxLength /\ length' \in Nat /\ length <= length' /\ 0 <= length'
  BY <1>1, <1>2
<1>4. Tiles(summaries, sourceRevision, length')
  BY <1>2, <1>3, TilesGrow
<1>5. /\ JobShape(job', length')
      /\ job'.target \in Nat /\ job.target <= job'.target
      /\ job'.status # "idle"
      /\ \A w \in MemoryWorkers : OwnsJob(memoryWorker[w], job') =>
           /\ OwnsJob(memoryWorker[w], job)
           /\ job'.requested # memoryWorker[w].work.scope
  BY <1>1, <1>3, Scheduled
<1>6. AskedShape(asked', job', summaries, length')
  <2>1. asked'.length = length + 1 /\ asked'.target = asked.target /\ asked' \in [length: Nat, target: Nat]
    BY <1>1, <1>2 DEF AskedShape
  <2> QED BY <1>1, <1>2, <1>3, <1>5, <2>1 DEF AskedShape
<1>7. ASSUME NEW w \in MemoryWorkers, OwnsJob(memoryWorker[w], job')
      PROVE  OwnerKnows(memoryWorker[w], job', summaries, asked', sourceRevision, length')
  <2>1. OwnerKnows(memoryWorker[w], job, summaries, asked, sourceRevision, length)
    BY <1>2, <1>5, <1>7
  <2>2. memoryWorker[w] \in WorkerRow /\ job'.requested # memoryWorker[w].work.scope
    BY <1>2, <1>5, <1>7 DEF WorkersShape
  <2> QED BY <1>2, <1>3, <2>1, <2>2, RequestKeepsOwner
<1>8. Owed(job', summaries, asked')
  BY <1>5 DEF Owed
<1> QED BY <1>1, <1>2, <1>3, <1>4, <1>5, <1>6, <1>7, <1>8 DEF MemoryInv

\* A prompt that does not fit asks for its target to be summarised.
LEMMA SummaryRequired ==
    ASSUME MemoryInv, RequireSummary
    PROVE  MemoryInv'
<1>1. PICK goal \in 1..length \ Protected(Weight, 1..length) :
        /\ Schedule(goal)
        /\ asked' = [length |-> length, target |-> Later(asked.target, goal)]
  BY DEF RequireSummary
<1>2. /\ length' = length /\ sourceRevision' = sourceRevision /\ summaries' = summaries
      /\ memoryWorker' = memoryWorker
  BY DEF RequireSummary
<1>3. /\ length \in Nat /\ length <= MaxLength /\ MaxLength \in Nat /\ sourceRevision \in Nat
      /\ Tiles(summaries, sourceRevision, length)
      /\ AskedShape(asked, job, summaries, length)
      /\ WorkersShape(memoryWorker)
      /\ \A w \in MemoryWorkers : OwnsJob(memoryWorker[w], job) =>
           OwnerKnows(memoryWorker[w], job, summaries, asked, sourceRevision, length)
      /\ job.target \in Nat /\ CoveredBy(summaries) \in Nat
  BY InvSays DEF JobShape, JobRow
<1>4. goal \in Nat /\ goal <= length /\ length <= length
  BY <1>1, <1>3
<1>5. /\ JobShape(job', length)
      /\ job'.target \in Nat /\ job.target <= job'.target /\ goal <= job'.target
      /\ job'.status # "idle"
      /\ \A w \in MemoryWorkers : OwnsJob(memoryWorker[w], job') =>
           /\ OwnsJob(memoryWorker[w], job)
           /\ job'.requested # memoryWorker[w].work.scope
  BY <1>1, <1>3, <1>4, Scheduled
<1>6. AskedShape(asked', job', summaries, length)
  <2>1. asked.target \in Nat /\ (asked.target <= CoveredBy(summaries) \/ asked.target <= job.target)
    BY <1>3 DEF AskedShape
  <2>2. asked'.length = length /\ asked'.target = Later(asked.target, goal)
        /\ asked' \in [length: Nat, target: Nat]
    BY <1>1, <1>3, <1>4, <2>1 DEF Later
  <2>3. asked'.target = asked.target \/ asked'.target = goal
    BY <2>2 DEF Later
  <2> QED BY <1>3, <1>4, <1>5, <2>1, <2>2, <2>3 DEF AskedShape
<1>7. ASSUME NEW w \in MemoryWorkers, OwnsJob(memoryWorker[w], job')
      PROVE  OwnerKnows(memoryWorker[w], job', summaries, asked', sourceRevision, length)
  <2>1. OwnerKnows(memoryWorker[w], job, summaries, asked, sourceRevision, length)
    BY <1>3, <1>5, <1>7
  <2>2. memoryWorker[w] \in WorkerRow /\ job'.requested # memoryWorker[w].work.scope
    BY <1>3, <1>5, <1>7 DEF WorkersShape
  <2> QED BY <1>3, <1>4, <2>1, <2>2, RequestKeepsOwner
<1>8. Owed(job', summaries, asked')
  BY <1>5 DEF Owed
<1>9. length \in 0..MaxLength
  BY <1>3
<1> QED BY <1>2, <1>3, <1>5, <1>6, <1>7, <1>8, <1>9 DEF MemoryInv

\* An edit drops the summaries and takes the job away from its worker.
LEMMA HistoryEdited ==
    ASSUME MemoryInv, EditHistory
    PROVE  MemoryInv'
<1>1. /\ length' \in 0..length /\ sourceRevision' = sourceRevision + 1
      /\ summaries' = {} /\ job' = NoJob /\ asked' = NothingAsked /\ memoryWorker' = memoryWorker
  BY DEF EditHistory
<1>2. length \in Nat /\ length <= MaxLength /\ MaxLength \in Nat /\ sourceRevision \in Nat
      /\ WorkersShape(memoryWorker)
  BY InvSays
<1>3. length' \in 0..MaxLength /\ length' \in Nat /\ sourceRevision' \in Nat
  BY <1>1, <1>2
<1>4. Tiles({}, sourceRevision', length') /\ CoveredBy({}) = 0
  BY <1>3, NoTiles
<1>5. JobShape(NoJob, length') /\ NoJob.status = "absent"
  BY <1>3 DEF JobShape, JobRow, NoJob, Claims
<1>6. AskedShape(NothingAsked, NoJob, {}, length')
  BY <1>3, <1>4 DEF AskedShape, NothingAsked, NoJob
<1>7. \A w \in MemoryWorkers : ~OwnsJob(memoryWorker[w], NoJob)
  BY <1>5 DEF OwnsJob
<1> QED BY <1>1, <1>2, <1>3, <1>4, <1>5, <1>6, <1>7 DEF MemoryInv, Owed

\* The end of a lease or of a delay makes a job due, and no more.
LEMMA TimePasses ==
    ASSUME MemoryInv, MemoryLeaseExpires \/ MemoryBackoffElapses
    PROVE  MemoryInv'
<1>1. /\ length' = length /\ sourceRevision' = sourceRevision /\ summaries' = summaries
      /\ asked' = asked /\ memoryWorker' = memoryWorker
  BY DEF MemoryLeaseExpires, MemoryBackoffElapses
<1>2. /\ JobShape(job, length) /\ AskedShape(asked, job, summaries, length)
      /\ Owed(job, summaries, asked)
      /\ \A w \in MemoryWorkers : OwnsJob(memoryWorker[w], job) =>
           OwnerKnows(memoryWorker[w], job, summaries, asked, sourceRevision, length)
  BY InvSays
<1>3. /\ job' \in JobRow /\ job'.status = job.status /\ job'.requested = job.requested
      /\ job'.completed = job.completed /\ job'.scope = job.scope /\ job'.token = job.token
      /\ job'.target = job.target
  BY <1>2 DEF MemoryLeaseExpires, MemoryBackoffElapses, JobShape, JobRow
<1>4. JobShape(job', length) /\ AskedShape(asked, job', summaries, length) /\ Owed(job', summaries, asked)
  BY <1>2, <1>3 DEF JobShape, AskedShape, Owed
<1>5. \A w \in MemoryWorkers : OwnsJob(memoryWorker[w], job') =>
        OwnerKnows(memoryWorker[w], job', summaries, asked, sourceRevision, length)
  BY <1>2, <1>3 DEF OwnsJob, OwnerKnows, Ends
<1> QED BY <1>1, <1>4, <1>5 DEF MemoryInv

\* The claims that are out are too few to use up the tokens.
LEMMA ClaimIsNew ==
    ASSUME MemoryInv, NEW w \in MemoryWorkers, memoryWorker[w].at = "idle"
    PROVE  NewToken \in ClaimTokens /\ NewToken \notin HeldTokens
<1> DEFINE Others == MemoryWorkers \ {w}
           OfOthers == {memoryWorker[x].work.token : x \in Others}
           Out == OfOthers \cup {job.token}
<1>1. WorkersShape(memoryWorker)
  BY InvSays
<1>2. memoryWorker[w].work.token = NoMemoryClaim
  BY <1>1 DEF WorkersShape, WorkerShape, Free, NoWork
<1>3. HeldTokens \subseteq Out \cup {NoMemoryClaim}
  BY <1>2 DEF HeldTokens
<1>4. /\ IsFiniteSet(Others) /\ Cardinality(Others) \in Nat
      /\ Cardinality(Others) = Cardinality(MemoryWorkers) - 1
      /\ Cardinality(MemoryWorkers) \in Nat
      /\ IsFiniteSet(ClaimTokens) /\ Cardinality(ClaimTokens) \in Nat
      /\ Cardinality(ClaimTokens) > Cardinality(MemoryWorkers)
  BY MemoryAssumption, FS_RemoveElement, FS_CardinalityType
<1>5. IsFiniteSet(OfOthers) /\ Cardinality(OfOthers) <= Cardinality(Others)
  <2>1. [x \in Others |-> memoryWorker[x].work.token] \in Surjection(Others, OfOthers)
    BY DEF Surjection
  <2> HIDE DEF Others, OfOthers
  <2> QED BY <1>4, <2>1, FS_Surjection
<1>6. /\ IsFiniteSet(Out) /\ Cardinality(Out) <= Cardinality(OfOthers) + 1
      /\ Cardinality(Out) \in Nat /\ Cardinality(OfOthers) \in Nat
  <2> HIDE DEF OfOthers
  <2>1. Cardinality(OfOthers) \in Nat
    BY <1>5, FS_CardinalityType
  <2>2. IsFiniteSet(Out) /\ (Cardinality(Out) = Cardinality(OfOthers) \/ Cardinality(Out) = Cardinality(OfOthers) + 1)
    BY <1>5, FS_AddElement
  <2> QED BY <2>1, <2>2
<1>7. ~(ClaimTokens \subseteq Out)
  <2> HIDE DEF Out, OfOthers, Others
  <2>1. ClaimTokens \subseteq Out => Cardinality(ClaimTokens) <= Cardinality(Out)
    BY <1>6, FS_Subset
  <2> QED BY <1>4, <1>5, <1>6, <2>1
<1>8. PICK token \in ClaimTokens : token \notin HeldTokens
  BY <1>3, <1>7, Bounded
<1> QED BY <1>8 DEF NewToken

\* A worker without a claim.
LEMMA FreeSlot ==
    /\ WorkerShape(Free) /\ Free.work.token = NoMemoryClaim
    /\ \A j, n : JobShape(j, n) => ~OwnsJob(Free, j)
<1>1. WorkerShape(Free) /\ Free.work.token = NoMemoryClaim
  BY Bounded DEF WorkerShape, WorkerRow, WorkRow, Claims, SummaryRange, Free, NoWork, NoSummary
<1> QED BY <1>1, Bounded DEF JobShape, OwnsJob

\* A claim takes a token that nobody holds, and the job with it.
LEMMA WorkClaimed ==
    ASSUME MemoryInv, NEW w \in MemoryWorkers, ClaimMemoryWork(w)
    PROVE  MemoryInv'
<1> DEFINE token == NewToken
           work == [token |-> token, scope |-> job.requested,
                    attempts |-> job.attempts + 1, target |-> job.target]
           W == [Free EXCEPT !.at = "read_pending", !.work = work]
<1>1. /\ memoryWorker[w].at = "idle"
      /\ job' = [job EXCEPT !.status = "running", !.scope = job.requested,
                            !.attempts = @ + 1, !.token = token, !.leaseOver = FALSE]
      /\ memoryWorker' = [memoryWorker EXCEPT ![w] = W]
      /\ length' = length /\ sourceRevision' = sourceRevision /\ summaries' = summaries
      /\ asked' = asked
  BY DEF ClaimMemoryWork
<1>2. token \in ClaimTokens /\ token \notin HeldTokens
  BY <1>1, ClaimIsNew
<1>3. \A x \in MemoryWorkers : memoryWorker[x].work.token # token
  BY <1>2 DEF HeldTokens
<1> HIDE DEF token
<1>4. /\ JobShape(job, length) /\ job \in JobRow /\ WorkersShape(memoryWorker)
      /\ AskedShape(asked, job, summaries, length) /\ length \in Nat /\ length <= MaxLength
      /\ MaxLength \in Nat
  BY InvSays DEF JobShape
<1>4a. job.requested \in Nat /\ job.attempts + 1 \in Nat /\ job.target \in Nat /\ job.target <= MaxLength
  BY <1>4 DEF JobShape, JobRow
<1>4b. /\ work \in WorkRow /\ work.token = token /\ work.scope = job.requested
       /\ work.target = job.target
  BY <1>4a, <1>2 DEF WorkRow, Claims
<1> HIDE DEF work
<1>4c. W \in WorkerRow /\ W.at = "read_pending" /\ W.work = work
  BY <1>4b, FreeSlot DEF WorkerShape, WorkerRow
<1>5. W \in WorkerRow /\ WorkerShape(W)
  BY <1>4a, <1>2, <1>4b, <1>4c DEF WorkerShape
<1>6. W.work.token = token /\ W.at = "read_pending" /\ W.work.scope = job.requested
      /\ W.work.target = job.target
  BY <1>4b, <1>4c
<1> HIDE DEF W
<1>7. /\ WorkersShape(memoryWorker') /\ memoryWorker'[w] = W
      /\ \A x \in MemoryWorkers : x # w => memoryWorker'[x] = memoryWorker[x]
  <2>1. WorkersShape([memoryWorker EXCEPT ![w] = W])
    BY <1>3, <1>4, <1>5, <1>6, SlotMoves
  <2>2. memoryWorker \in [MemoryWorkers -> WorkerRow]
    BY <1>4 DEF WorkersShape
  <2> QED BY <1>1, <2>1, <2>2
<1>8. /\ job' \in JobRow /\ job'.status = "running" /\ job'.scope = job.requested
      /\ job'.token = token /\ job'.requested = job.requested /\ job'.completed = job.completed
      /\ job'.target = job.target
  <2>1. job.requested \in Nat /\ job.attempts + 1 \in Nat /\ token \in Claims
    BY <1>4a, <1>2 DEF Claims
  <2> QED BY <1>1, <1>4, <2>1 DEF JobRow
<1>9. JobShape(job', length)
  BY <1>2, <1>4, <1>8 DEF JobShape, JobRow
<1>10. AskedShape(asked, job', summaries, length) /\ Owed(job', summaries, asked)
  BY <1>4, <1>8 DEF AskedShape, Owed
<1>11. ASSUME NEW x \in MemoryWorkers, OwnsJob(memoryWorker'[x], job')
       PROVE  OwnerKnows(memoryWorker'[x], job', summaries, asked, sourceRevision, length)
  <2>1. x = w
    BY <1>3, <1>7, <1>8, <1>11 DEF OwnsJob
  <2> QED BY <1>6, <1>7, <1>8, <2>1 DEF OwnerKnows
<1> QED BY <1>1, <1>7, <1>9, <1>10, <1>11 DEF MemoryInv

\* A worker that stops with its claim leaves the job to its lease.
LEMMA AttemptDropped ==
    ASSUME MemoryInv, UNCHANGED memoryStore, NEW w \in MemoryWorkers,
           memoryWorker' = [memoryWorker EXCEPT ![w] = Free]
    PROVE  MemoryInv'
<1>1. JobShape(job, length)
  BY InvSays
<1> QED BY <1>1, FreeSlot, SlotStep

\* What an exception leaves of an attempt
Failed(W, retryable) ==
    [Free EXCEPT !.at = "fail", !.work = W.work, !.retryable = retryable]

\* The slot of a worker whose attempt failed keeps its claim.
LEMMA FailedSlot ==
    ASSUME NEW slots, WorkersShape(slots), NEW w \in MemoryWorkers, slots[w].at # "idle",
           NEW retryable \in BOOLEAN
    PROVE  /\ WorkerShape(Failed(slots[w], retryable))
           /\ Failed(slots[w], retryable).at = "fail"
           /\ Failed(slots[w], retryable).work = slots[w].work
<1>1. slots[w].work \in WorkRow /\ slots[w].work.target <= MaxLength
      /\ slots[w].work.token \in ClaimTokens
  BY DEF WorkersShape, WorkerShape, WorkerRow
<1>2. /\ Failed(slots[w], retryable) \in WorkerRow
      /\ Failed(slots[w], retryable).at = "fail"
      /\ Failed(slots[w], retryable).work = slots[w].work
  BY <1>1, FreeSlot DEF WorkerShape, WorkerRow, Failed
<1> QED BY <1>1, <1>2 DEF WorkerShape

\* An attempt that fails touches nothing but the slot of its worker.
LEMMA AttemptRaises ==
    ASSUME MemoryInv, UNCHANGED memoryStore, NEW w \in MemoryWorkers, memoryWorker[w].at # "idle",
           NEW retryable \in BOOLEAN, Raise(w, retryable)
    PROVE  MemoryInv'
<1> DEFINE W == Failed(memoryWorker[w], retryable)
<1>1. /\ WorkersShape(memoryWorker)
      /\ OwnsJob(memoryWorker[w], job) =>
           OwnerKnows(memoryWorker[w], job, summaries, asked, sourceRevision, length)
  BY InvSays
<1>2. WorkerShape(W) /\ W.at = "fail" /\ W.work = memoryWorker[w].work
  BY <1>1, FailedSlot
<1>2a. memoryWorker' = [memoryWorker EXCEPT ![w] = W]
  BY DEF Raise, Failed
<1> HIDE DEF W
<1>3. OwnsJob(W, job) => OwnerKnows(W, job, summaries, asked, sourceRevision, length)
  BY <1>1, <1>2 DEF OwnsJob, OwnerKnows
<1> QED BY <1>2, <1>2a, <1>3, SlotStep

\* Only `at` changes.
LEMMA AttemptGoes ==
    ASSUME MemoryInv, UNCHANGED memoryStore, NEW w \in MemoryWorkers, NEW at,
           MemoryGoto(w, at), NEW W, W = [memoryWorker[w] EXCEPT !.at = at], WorkerShape(W),
           OwnsJob(W, job) => OwnerKnows(W, job, summaries, asked, sourceRevision, length)
    PROVE  MemoryInv'
<1>1. memoryWorker \in [MemoryWorkers -> WorkerRow]
  BY InvSays DEF WorkersShape
<1>2. memoryWorker' = [memoryWorker EXCEPT ![w] = W]
  BY <1>1 DEF MemoryGoto
<1>3. W.work = memoryWorker[w].work
  BY <1>1 DEF WorkerRow
<1> QED BY <1>2, <1>3, SlotStep

\* At most one summary waits for its embedding.
LEMMA OneLast ==
    ASSUME NEW M, NEW r \in Nat, NEW n \in Nat, Tiles(M, r, n), NEW m \in UnindexedOf(M)
    PROVE  UnindexedOf(M) = {m} /\ m \in SummaryRow /\ m.ready = FALSE
<1>1. /\ CoveredBy(M) \in Nat
      /\ \A x \in M : x \in SummaryRow /\ x.from <= x.to
  BY TilesBounds
<1>2. \A x \in UnindexedOf(M) : x \in M /\ ~x.ready /\ x.to = CoveredBy(M)
  BY DEF UnindexedOf, Tiles
<1>3. \A x \in UnindexedOf(M) : Holds(x, CoveredBy(M))
  <2>1. \A x \in M : x.to \in Nat
    BY <1>1 DEF SummaryRow
  <2> QED BY <1>1, <1>2, <2>1 DEF Holds
<1>4. \A x \in UnindexedOf(M) : x = m
  BY <1>1, <1>2, <1>3 DEF Tiles
<1>5. m \in SummaryRow /\ m.ready = FALSE
  BY <1>1, <1>2 DEF SummaryRow
<1> QED BY <1>4, <1>5

\* Facts of a slot under way
LEMMA SlotSays ==
    ASSUME MemoryInv, NEW w \in MemoryWorkers
    PROVE  /\ memoryWorker \in [MemoryWorkers -> WorkerRow]
           /\ memoryWorker[w] \in WorkerRow /\ WorkerShape(memoryWorker[w])
           /\ OwnsJob(memoryWorker[w], job) =>
                OwnerKnows(memoryWorker[w], job, summaries, asked, sourceRevision, length)
BY InvSays DEF WorkersShape

\* The worker that finds a summary without embedding takes it up.
LEMMA PendingIndexRead ==
    ASSUME MemoryInv, NEW w \in MemoryWorkers, ReadPendingIndex(w)
    PROVE  MemoryInv'
<1>1. memoryWorker[w].at = "read_pending" /\ UNCHANGED memoryStore
  BY DEF ReadPendingIndex
<1>2. /\ memoryWorker \in [MemoryWorkers -> WorkerRow]
      /\ memoryWorker[w] \in WorkerRow /\ WorkerShape(memoryWorker[w])
      /\ OwnsJob(memoryWorker[w], job) =>
           OwnerKnows(memoryWorker[w], job, summaries, asked, sourceRevision, length)
  BY SlotSays
<1>3. /\ Tiles(summaries, sourceRevision, length) /\ Unindexed = UnindexedOf(summaries)
      /\ length \in Nat /\ sourceRevision \in Nat
  BY InvSays
<1>4. CASE Unindexed = {}
  <2> DEFINE W == [memoryWorker[w] EXCEPT !.at = "read"]
  <2>1. MemoryGoto(w, "read")
    BY <1>4 DEF ReadPendingIndex
  <2>2. /\ W \in WorkerRow /\ W.at = "read" /\ W.work = memoryWorker[w].work
    BY <1>2 DEF WorkerRow
  <2> HIDE DEF W
  <2>3. WorkerShape(W)
    BY <1>1, <1>2, <2>2 DEF WorkerShape
  <2>4. OwnsJob(W, job) => OwnerKnows(W, job, summaries, asked, sourceRevision, length)
    BY <1>2, <1>3, <1>4, <2>2 DEF OwnsJob, OwnerKnows
  <2> QED BY <1>1, <2>1, <2>3, <2>4, AttemptGoes DEF W
<1>5. CASE Unindexed # {}
  <2>1. PICK m \in Unindexed :
          memoryWorker' = [memoryWorker EXCEPT ![w].at = "embed", ![w].after = "read",
                             ![w].summary = [from |-> m.from, to |-> m.to, revision |-> m.revision]]
    BY <1>5 DEF ReadPendingIndex
  <2> DEFINE s == [from |-> m.from, to |-> m.to, revision |-> m.revision]
             W == [memoryWorker[w] EXCEPT !.at = "embed", !.after = "read", !.summary = s]
  <2>2. UnindexedOf(summaries) = {m} /\ m \in SummaryRow /\ m.ready = FALSE
    BY <1>3, OneLast
  <2>3. s \in SummaryRange /\ Stored(s, FALSE) = m
    BY <2>2 DEF SummaryRange, SummaryRow, Stored
  <2>4. memoryWorker' = [memoryWorker EXCEPT ![w] = W]
    BY <1>2, <2>1
  <2> HIDE DEF s
  <2>5. /\ W \in WorkerRow /\ W.at = "embed" /\ W.after = "read" /\ W.summary = s
        /\ W.work = memoryWorker[w].work
    BY <1>2, <2>3 DEF WorkerRow
  <2> HIDE DEF W
  <2>6. WorkerShape(W)
    BY <1>1, <1>2, <2>5 DEF WorkerShape
  <2>7. OwnsJob(W, job) => OwnerKnows(W, job, summaries, asked, sourceRevision, length)
    BY <1>2, <2>2, <2>3, <2>5 DEF OwnsJob, OwnerKnows
  <2> QED BY <1>1, <2>4, <2>5, <2>6, <2>7, SlotStep
<1> QED BY <1>4, <1>5

\* The planner says of every batch whether it is the last.
LEMMA PlanTypes ==
    ASSUME NEW c \in 0..MaxLength, NEW n \in 0..MaxLength, NEW t \in 0..MaxLength
    PROVE  Plan[c][n][t].more \in BOOLEAN
<1>1. Plan[c][n][t].more = MoreAfter(Weight, Unsummarised(c, n),
                             Selected(Weight, Loaded(Weight, Unsummarised(c, n)), t), t)
  BY DEF Plan
<1> QED BY <1>1 DEF MoreAfter

\* The plan of an owner that will end the work leaves nothing due.
LEMMA SourceRead ==
    ASSUME MemoryInv, NEW w \in MemoryWorkers, ReadSource(w)
    PROVE  MemoryInv'
<1> DEFINE t == memoryWorker[w].work.target
           c == CoveredBy(summaries)
           plan == Plan[c][length][t]
<1>1. memoryWorker[w].at = "read" /\ UNCHANGED memoryStore
  BY DEF ReadSource
<1>2. /\ memoryWorker \in [MemoryWorkers -> WorkerRow]
      /\ memoryWorker[w] \in WorkerRow /\ WorkerShape(memoryWorker[w])
      /\ OwnsJob(memoryWorker[w], job) =>
           OwnerKnows(memoryWorker[w], job, summaries, asked, sourceRevision, length)
  BY SlotSays
<1>3. /\ length \in Nat /\ length <= MaxLength /\ MaxLength \in Nat /\ sourceRevision \in Nat
      /\ JobShape(job, length) /\ AskedShape(asked, job, summaries, length)
      /\ c \in Nat /\ c <= length /\ Covered = c
  BY InvSays
<1>4. t \in Nat /\ t <= MaxLength
  BY <1>2 DEF WorkerShape, WorkerRow, WorkRow
<1>5. /\ c \in 0..MaxLength /\ length \in 0..MaxLength /\ t \in 0..MaxLength
      /\ asked.length \in 0..length /\ asked.target \in Nat /\ job.target \in Nat
      /\ job.target <= length /\ (asked.target <= c \/ asked.target <= job.target)
  BY <1>3, <1>4 DEF JobShape, JobRow, AskedShape
<1>6. plan = Plan[Covered][length][memoryWorker[w].work.target]
  BY <1>3
<1> HIDE DEF c
<1>7. /\ ~plan.conflict /\ plan.batch = {} /\ t <= length
           => t <= c /\ \A a \in 0..length : NoneDue(c, a)
      /\ plan.batch # {}
           => /\ Min(plan.batch) = c + 1
              /\ Max(plan.batch) \in Nat /\ c < Max(plan.batch) /\ Max(plan.batch) <= length
              /\ ~plan.more /\ t <= length
                   => t <= Max(plan.batch) /\ \A a \in 0..length : NoneDue(Max(plan.batch), a)
  BY <1>3, <1>5, PlanSettles
<1>8. plan.more \in BOOLEAN
  BY <1>5, PlanTypes
<1>9. IF plan.conflict THEN Raise(w, FALSE)
      ELSE IF plan.batch = {} THEN MemoryGoto(w, "complete")
      ELSE memoryWorker' = [memoryWorker EXCEPT
             ![w].at = "summarise", ![w].after = "complete", ![w].more = plan.more,
             ![w].summary = [from |-> Min(plan.batch), to |-> Max(plan.batch),
                             revision |-> sourceRevision]]
  BY <1>6 DEF ReadSource
<1> HIDE DEF plan, t
<1>10. OwnsJob(memoryWorker[w], job) =>
         /\ UnindexedOf(summaries) = {}
         /\ job.requested = memoryWorker[w].work.scope => job.target = t
  BY <1>1, <1>2 DEF OwnerKnows, t
<1>11. CASE plan.conflict
  <2>1. Raise(w, FALSE)
    BY <1>9, <1>11
  <2> QED BY <1>1, <2>1, AttemptRaises
<1>12. CASE ~plan.conflict /\ plan.batch = {}
  <2> DEFINE W == [memoryWorker[w] EXCEPT !.at = "complete"]
  <2>1. MemoryGoto(w, "complete")
    BY <1>9, <1>12
  <2>2. W \in WorkerRow /\ W.at = "complete" /\ W.work = memoryWorker[w].work
    BY <1>2 DEF WorkerRow
  <2> HIDE DEF W
  <2>3. WorkerShape(W)
    BY <1>1, <1>2, <2>2 DEF WorkerShape
  <2>4. ASSUME OwnsJob(W, job) PROVE OwnerKnows(W, job, summaries, asked, sourceRevision, length)
    <3>1. UnindexedOf(summaries) = {} /\ (job.requested = W.work.scope => job.target = t)
      BY <1>10, <2>2, <2>4 DEF OwnsJob
    <3>2. ASSUME Ends(W, job) PROVE NothingOwed(c, asked)
      <4>1. job.target = t
        BY <3>1, <3>2 DEF Ends
      <4>2. t <= length /\ t <= c /\ NoneDue(c, asked.length)
        BY <1>5, <1>7, <1>12, <4>1
      <4>3. asked.target <= c
        BY <1>3, <1>4, <1>5, <4>1, <4>2
      <4> QED BY <4>2, <4>3 DEF NothingOwed
    <3>3. job.requested = W.work.scope => job.target = W.work.target
      BY <2>2, <3>1 DEF t
    <3> QED BY <2>2, <3>1, <3>2, <3>3 DEF OwnerKnows, c
  <2> QED BY <1>1, <2>1, <2>3, <2>4, AttemptGoes DEF W
<1>13. CASE ~plan.conflict /\ plan.batch # {}
  <2> DEFINE s == [from |-> Min(plan.batch), to |-> Max(plan.batch), revision |-> sourceRevision]
             W == [memoryWorker[w] EXCEPT !.at = "summarise", !.after = "complete",
                                          !.more = plan.more, !.summary = s]
  <2>1. memoryWorker' = [memoryWorker EXCEPT ![w] = W]
    BY <1>2, <1>9, <1>13
  <2>2. /\ Min(plan.batch) = c + 1
        /\ Max(plan.batch) \in Nat /\ c < Max(plan.batch) /\ Max(plan.batch) <= length
        /\ ~plan.more /\ t <= length
             => t <= Max(plan.batch) /\ \A a \in 0..length : NoneDue(Max(plan.batch), a)
    BY <1>7, <1>13
  <2>3. /\ s \in SummaryRange /\ s.from = c + 1 /\ s.to = Max(plan.batch)
        /\ s.revision = sourceRevision
    BY <1>3, <2>2 DEF SummaryRange
  <2> HIDE DEF s
  <2>4. /\ W \in WorkerRow /\ W.at = "summarise" /\ W.after = "complete"
        /\ W.more = plan.more /\ W.summary = s /\ W.work = memoryWorker[w].work
    BY <1>2, <1>8, <2>3 DEF WorkerRow
  <2> HIDE DEF W
  <2>5. WorkerShape(W)
    BY <1>1, <1>2, <2>4 DEF WorkerShape
  <2>6. ASSUME OwnsJob(W, job) PROVE OwnerKnows(W, job, summaries, asked, sourceRevision, length)
    <3>1. UnindexedOf(summaries) = {} /\ (job.requested = W.work.scope => job.target = t)
      BY <1>10, <2>4, <2>6 DEF OwnsJob
    <3>2. ASSUME Ends(W, job) PROVE NothingOwed(s.to, asked)
      <4>1. job.target = t /\ ~plan.more
        BY <2>4, <3>1, <3>2 DEF Ends
      <4>2. t <= length /\ t <= s.to /\ NoneDue(s.to, asked.length)
        BY <1>5, <2>2, <2>3, <4>1
      <4>3. asked.target <= s.to
        BY <1>3, <1>4, <1>5, <2>2, <2>3, <4>1, <4>2
      <4> QED BY <4>2, <4>3 DEF NothingOwed
    <3>3. job.requested = W.work.scope => job.target = W.work.target
      BY <2>4, <3>1 DEF t
    <3>4. s.from <= s.to /\ s.to <= length
      BY <1>3, <2>2, <2>3
    <3> QED BY <2>3, <2>4, <3>1, <3>2, <3>3, <3>4 DEF OwnerKnows, c
  <2> QED BY <1>1, <2>1, <2>4, <2>5, <2>6, SlotStep
<1> QED BY <1>11, <1>12, <1>13

\* A call to a provider changes nothing but the slot of its worker.
LEMMA ProviderCalled ==
    ASSUME MemoryInv, NEW w \in MemoryWorkers, CallMemoryProvider(w)
    PROVE  MemoryInv'
<1> DEFINE at == IF memoryWorker[w].at = "summarise" THEN "save_summary" ELSE "save_embedding"
           W == [memoryWorker[w] EXCEPT !.at = at]
<1>1. /\ memoryWorker[w].at \in {"summarise", "embed"} /\ UNCHANGED memoryStore
      /\ MemoryGoto(w, at)
  BY DEF CallMemoryProvider
<1>2. /\ memoryWorker[w] \in WorkerRow /\ WorkerShape(memoryWorker[w])
      /\ OwnsJob(memoryWorker[w], job) =>
           OwnerKnows(memoryWorker[w], job, summaries, asked, sourceRevision, length)
  BY SlotSays
<1>3. \/ memoryWorker[w].at = "summarise" /\ at = "save_summary"
      \/ memoryWorker[w].at = "embed" /\ at = "save_embedding"
  BY <1>1
<1> HIDE DEF at
<1>4. /\ W \in WorkerRow /\ W.at = at /\ W.work = memoryWorker[w].work
      /\ W.summary = memoryWorker[w].summary /\ W.more = memoryWorker[w].more
      /\ W.after = memoryWorker[w].after
  BY <1>2, <1>3 DEF WorkerRow
<1> HIDE DEF W
<1>5. WorkerShape(W)
  BY <1>2, <1>3, <1>4 DEF WorkerShape
<1>6. OwnsJob(W, job) => OwnerKnows(W, job, summaries, asked, sourceRevision, length)
  <2>1. Ends(W, job) <=> Ends(memoryWorker[w], job)
    BY <1>4 DEF Ends
  <2> QED BY <1>2, <1>3, <1>4, <2>1 DEF OwnsJob, OwnerKnows
<1> QED BY <1>1, <1>5, <1>6, AttemptGoes DEF W

\* The owner of the job writes summaries: nobody else relies on them.
LEMMA SummariesWritten ==
    ASSUME MemoryInv, NEW w \in MemoryWorkers, OwnsJob(memoryWorker[w], job),
           UNCHANGED <<length, sourceRevision, job, asked>>,
           Tiles(summaries', sourceRevision, length),
           CoveredBy(summaries) <= CoveredBy(summaries'),
           NEW W, memoryWorker' = [memoryWorker EXCEPT ![w] = W], WorkerShape(W),
           W.work = memoryWorker[w].work,
           OwnerKnows(W, job, summaries', asked, sourceRevision, length)
    PROVE  MemoryInv'
<1>1. /\ JobShape(job, length) /\ AskedShape(asked, job, summaries, length)
      /\ WorkersShape(memoryWorker) /\ length \in Nat /\ sourceRevision \in Nat
      /\ CoveredBy(summaries) \in Nat
  BY InvSays
<1>2. /\ memoryWorker[w].at # "idle"
      /\ \A x \in MemoryWorkers : OwnsJob(memoryWorker[x], job) => x = w
  BY <1>1, OwnersAreOne
<1>3. W.work.token = NoMemoryClaim
        \/ \A x \in MemoryWorkers : x # w => memoryWorker[x].work.token # W.work.token
  BY <1>1 DEF WorkersShape
<1>4. /\ WorkersShape(memoryWorker') /\ memoryWorker'[w] = W
      /\ \A x \in MemoryWorkers : x # w => memoryWorker'[x] = memoryWorker[x]
  <2>1. WorkersShape([memoryWorker EXCEPT ![w] = W])
    BY <1>1, <1>3, SlotMoves
  <2>2. memoryWorker \in [MemoryWorkers -> WorkerRow]
    BY <1>1 DEF WorkersShape
  <2> QED BY <2>1, <2>2
<1>5. /\ length' = length /\ sourceRevision' = sourceRevision /\ job' = job /\ asked' = asked
  OBVIOUS
<1>6. \A x \in MemoryWorkers : OwnsJob(memoryWorker'[x], job) =>
        OwnerKnows(memoryWorker'[x], job, summaries', asked, sourceRevision, length)
  BY <1>2, <1>4
<1>7. AskedShape(asked, job, summaries', length)
  <2>1. CoveredBy(summaries') \in Nat
    BY <1>1, TilesBounds
  <2>2. asked.target \in Nat
    BY <1>1 DEF AskedShape
  <2> QED BY <1>1, <2>1, <2>2 DEF AskedShape
<1>8. Owed(job, summaries', asked)
  BY DEF Owed, OwnsJob
<1>9. length \in 0..MaxLength
  BY DEF MemoryInv
<1> QED BY <1>1, <1>4, <1>5, <1>6, <1>7, <1>8, <1>9 DEF MemoryInv

\* The job ends with the claim: nobody owns it.
LEMMA ClaimEnded ==
    ASSUME MemoryInv, NEW w \in MemoryWorkers,
           UNCHANGED <<length, sourceRevision, summaries, asked>>,
           JobShape(job', length), job'.status # "running",
           AskedShape(asked, job', summaries, length), Owed(job', summaries, asked),
           NEW W, memoryWorker' = [memoryWorker EXCEPT ![w] = W], WorkerShape(W),
           W.work.token \in {NoMemoryClaim, memoryWorker[w].work.token}
    PROVE  MemoryInv'
<1>1. WorkersShape(memoryWorker)
  BY InvSays
<1>2. W.work.token = NoMemoryClaim
        \/ \A x \in MemoryWorkers : x # w => memoryWorker[x].work.token # W.work.token
  BY <1>1 DEF WorkersShape
<1>3. WorkersShape(memoryWorker')
  BY <1>1, <1>2, SlotMoves
<1>4. \A x \in MemoryWorkers : ~OwnsJob(memoryWorker'[x], job')
  BY DEF OwnsJob
<1> QED BY <1>3, <1>4 DEF MemoryInv

\* The transaction that saves a summary, with or without its claim.
LEMMA SummarySaved ==
    ASSUME MemoryInv, NEW w \in MemoryWorkers, SaveSummary(w)
    PROVE  MemoryInv'
<1> DEFINE s == memoryWorker[w].summary
<1>1. memoryWorker[w].at = "save_summary" /\ UNCHANGED <<length, sourceRevision, job, asked>>
  BY DEF SaveSummary
<1>2. /\ memoryWorker \in [MemoryWorkers -> WorkerRow]
      /\ memoryWorker[w] \in WorkerRow /\ WorkerShape(memoryWorker[w])
      /\ OwnsJob(memoryWorker[w], job) =>
           OwnerKnows(memoryWorker[w], job, summaries, asked, sourceRevision, length)
  BY SlotSays
<1>3. /\ Tiles(summaries, sourceRevision, length) /\ length \in Nat /\ sourceRevision \in Nat
      /\ CoveredBy(summaries) \in Nat /\ WorkersShape(memoryWorker)
  BY InvSays
<1>4. s \in SummaryRange
  BY <1>2 DEF WorkerRow
<1> HIDE DEF s
<1>5. CASE SourceUnchanged(w) /\ Owns(w)
  <2>1. OwnsJob(memoryWorker[w], job)
    BY <1>5 DEF Owns, OwnsJob
  <2>2. /\ UnindexedOf(summaries) = {}
        /\ s.revision = sourceRevision /\ s.from = CoveredBy(summaries) + 1
        /\ s.from <= s.to /\ s.to <= length
        /\ Ends(memoryWorker[w], job) => NothingOwed(s.to, asked)
        /\ job.requested = memoryWorker[w].work.scope => job.target = memoryWorker[w].work.target
    BY <1>1, <1>2, <2>1 DEF OwnerKnows, s
  <2>3. /\ Stored(s, TRUE) \notin summaries
        /\ Tiles(summaries \cup {Stored(s, FALSE)}, sourceRevision, length)
        /\ CoveredBy(summaries \cup {Stored(s, FALSE)}) = s.to
        /\ UnindexedOf(summaries \cup {Stored(s, FALSE)}) = {Stored(s, FALSE)}
    <3>1. Joined(summaries, s, sourceRevision, length)
      BY <1>3, <1>4, <2>2, TilesJoin
    <3> QED BY <3>1 DEF Joined
  <2>4. summaries' = summaries \cup {Stored(s, FALSE)}
    BY <1>5, <2>3 DEF SaveSummary, s
  <2>5. CoveredBy(summaries) <= CoveredBy(summaries') /\ Tiles(summaries', sourceRevision, length)
    <3>1. s.to \in Nat /\ s.from \in Nat
      BY <1>4 DEF SummaryRange
    <3>2. CoveredBy(summaries) <= s.to
      BY <1>3, <2>2, <3>1
    <3> QED BY <2>3, <2>4, <3>2
  <2>6. CASE MemoryGoto(w, "embed")
    <3> DEFINE W == [memoryWorker[w] EXCEPT !.at = "embed"]
    <3>1. memoryWorker' = [memoryWorker EXCEPT ![w] = W]
      BY <1>2, <2>6 DEF MemoryGoto
    <3>2. /\ W \in WorkerRow /\ W.at = "embed" /\ W.work = memoryWorker[w].work
          /\ W.summary = s /\ W.more = memoryWorker[w].more /\ W.after = memoryWorker[w].after
      BY <1>2 DEF WorkerRow, s
    <3> HIDE DEF W
    <3>3. WorkerShape(W)
      BY <1>1, <1>2, <3>2 DEF WorkerShape
    <3>4. Ends(W, job) <=> Ends(memoryWorker[w], job)
      BY <3>2 DEF Ends
    <3>5. OwnerKnows(W, job, summaries', asked, sourceRevision, length)
      BY <2>2, <2>3, <2>4, <3>2, <3>4 DEF OwnerKnows
    <3> QED BY <1>1, <2>1, <2>5, <3>1, <3>2, <3>3, <3>5, SummariesWritten
  <2>7. CASE Raise(w, FALSE)
    <3> DEFINE W == Failed(memoryWorker[w], FALSE)
    <3>1. WorkerShape(W) /\ W.at = "fail" /\ W.work = memoryWorker[w].work
      BY <1>1, <1>3, FailedSlot
    <3>2. memoryWorker' = [memoryWorker EXCEPT ![w] = W]
      BY <2>7 DEF Raise, Failed
    <3> HIDE DEF W
    <3>3. OwnerKnows(W, job, summaries', asked, sourceRevision, length)
      BY <2>2, <3>1 DEF OwnerKnows
    <3> QED BY <1>1, <2>1, <2>5, <3>1, <3>2, <3>3, SummariesWritten
  <2> QED BY <1>5, <2>6, <2>7 DEF SaveSummary
<1>6. CASE ~(SourceUnchanged(w) /\ Owns(w))
  <2>1. summaries' = summaries /\ Raise(w, FALSE)
    BY <1>6 DEF SaveSummary
  <2>2. UNCHANGED memoryStore
    BY <1>1, <2>1 DEF memoryStore
  <2> QED BY <1>1, <2>1, <2>2, AttemptRaises
<1> QED BY <1>5, <1>6

\* The transaction that saves an embedding, with or without its claim.
LEMMA EmbeddingSaved ==
    ASSUME MemoryInv, NEW w \in MemoryWorkers, SaveEmbedding(w)
    PROVE  MemoryInv'
<1> DEFINE s == memoryWorker[w].summary
           after == memoryWorker[w].after
<1>1. memoryWorker[w].at = "save_embedding" /\ UNCHANGED <<length, sourceRevision, job, asked>>
  BY DEF SaveEmbedding
<1>2. /\ memoryWorker \in [MemoryWorkers -> WorkerRow]
      /\ memoryWorker[w] \in WorkerRow /\ WorkerShape(memoryWorker[w])
      /\ OwnsJob(memoryWorker[w], job) =>
           OwnerKnows(memoryWorker[w], job, summaries, asked, sourceRevision, length)
  BY SlotSays
<1>3. /\ Tiles(summaries, sourceRevision, length) /\ length \in Nat /\ sourceRevision \in Nat
      /\ CoveredBy(summaries) \in Nat /\ WorkersShape(memoryWorker)
  BY InvSays
<1>4. s \in SummaryRange /\ after \in {"read", "complete"}
  BY <1>1, <1>2 DEF WorkerRow, WorkerShape
<1> HIDE DEF s
<1>5. CASE SourceUnchanged(w) /\ Owns(w) /\ Stored(s, FALSE) \in summaries
  <2>1. OwnsJob(memoryWorker[w], job)
    BY <1>5 DEF Owns, OwnsJob
  <2>2. /\ UnindexedOf(summaries) = {Stored(s, FALSE)}
        /\ after = "complete" /\ Ends(memoryWorker[w], job) => NothingOwed(CoveredBy(summaries), asked)
        /\ job.requested = memoryWorker[w].work.scope => job.target = memoryWorker[w].work.target
    BY <1>1, <1>2, <2>1 DEF OwnerKnows, s
  <2>3. summaries' = (summaries \ {Stored(s, FALSE)}) \cup {Stored(s, TRUE)}
    BY <1>5 DEF SaveEmbedding, s
  <2>4. /\ Tiles(summaries', sourceRevision, length)
        /\ CoveredBy(summaries') = CoveredBy(summaries) /\ UnindexedOf(summaries') = {}
    <3>1. Indexed(summaries, s, sourceRevision, length)
      BY <1>3, <1>4, <1>5, <2>2, TilesIndexed
    <3> QED BY <2>3, <3>1 DEF Indexed
  <2>5. CoveredBy(summaries) <= CoveredBy(summaries')
    BY <1>3, <2>4
  <2>6. CASE MemoryGoto(w, after)
    <3> DEFINE W == [memoryWorker[w] EXCEPT !.at = after]
    <3>1. memoryWorker' = [memoryWorker EXCEPT ![w] = W]
      BY <1>2, <2>6 DEF MemoryGoto
    <3>2. /\ W \in WorkerRow /\ W.at = after /\ W.work = memoryWorker[w].work
          /\ W.summary = s /\ W.more = memoryWorker[w].more /\ W.after = after
      BY <1>2, <1>4 DEF WorkerRow, s
    <3> HIDE DEF W, after
    <3>3. WorkerShape(W)
      BY <1>1, <1>2, <1>4, <3>2 DEF WorkerShape
    <3>4. Ends(W, job) <=> Ends(memoryWorker[w], job)
      BY <3>2 DEF Ends
    <3>5. OwnerKnows(W, job, summaries', asked, sourceRevision, length)
      BY <1>4, <2>2, <2>4, <3>2, <3>4 DEF OwnerKnows
    <3> QED BY <1>1, <2>1, <2>4, <2>5, <3>1, <3>2, <3>3, <3>5, SummariesWritten
  <2>7. CASE Raise(w, FALSE)
    <3> DEFINE W == Failed(memoryWorker[w], FALSE)
    <3>1. WorkerShape(W) /\ W.at = "fail" /\ W.work = memoryWorker[w].work
      BY <1>1, <1>3, FailedSlot
    <3>2. memoryWorker' = [memoryWorker EXCEPT ![w] = W]
      BY <2>7 DEF Raise, Failed
    <3> HIDE DEF W
    <3>3. OwnerKnows(W, job, summaries', asked, sourceRevision, length)
      BY <2>2, <3>1 DEF OwnerKnows
    <3> QED BY <1>1, <2>1, <2>4, <2>5, <3>1, <3>2, <3>3, SummariesWritten
  <2> QED BY <1>5, <2>6, <2>7 DEF SaveEmbedding, s
<1>6. CASE ~(SourceUnchanged(w) /\ Owns(w) /\ Stored(s, FALSE) \in summaries)
  <2>1. summaries' = summaries /\ Raise(w, FALSE)
    BY <1>6 DEF SaveEmbedding, s
  <2>2. UNCHANGED memoryStore
    BY <1>1, <2>1 DEF memoryStore
  <2> QED BY <1>1, <2>1, <2>2, AttemptRaises
<1> QED BY <1>5, <1>6

\* The transaction that completes the work: idle, unless more was requested.
LEMMA WorkCompleted ==
    ASSUME MemoryInv, NEW w \in MemoryWorkers, CompleteMemoryWork(w)
    PROVE  MemoryInv'
<1>1. /\ memoryWorker[w].at = "complete" /\ UNCHANGED <<length, sourceRevision, summaries, asked>>
      /\ memoryWorker' = [memoryWorker EXCEPT ![w] = Free] \/ Raise(w, FALSE)
  BY DEF CompleteMemoryWork
<1>2. /\ memoryWorker[w] \in WorkerRow /\ WorkerShape(memoryWorker[w])
      /\ OwnsJob(memoryWorker[w], job) =>
           OwnerKnows(memoryWorker[w], job, summaries, asked, sourceRevision, length)
  BY SlotSays
<1>3. /\ JobShape(job, length) /\ AskedShape(asked, job, summaries, length)
      /\ WorkersShape(memoryWorker) /\ length \in Nat
  BY InvSays
<1>4. CASE ~Owns(w)
  <2>1. UNCHANGED memoryStore
    BY <1>1, <1>4 DEF CompleteMemoryWork, memoryStore
  <2> QED BY <1>1, <2>1, AttemptDropped, AttemptRaises
<1>5. CASE Owns(w)
  <2>1. /\ OwnsJob(memoryWorker[w], job) /\ job.scope = memoryWorker[w].work.scope
    BY <1>5 DEF Owns, OwnsJob
  <2>2. /\ UnindexedOf(summaries) = {}
        /\ Ends(memoryWorker[w], job) => NothingOwed(CoveredBy(summaries), asked)
    BY <1>1, <1>2, <2>1 DEF OwnerKnows
  <2>3. /\ job \in JobRow /\ job.scope \in Nat /\ job.requested \in Nat /\ job.scope <= job.requested
        /\ job.target \in Nat /\ job.target <= length
    BY <1>3 DEF JobShape, JobRow
  <2>4. ~MoreRequested(w) => Ends(memoryWorker[w], job)
    BY <2>1, <2>3 DEF MoreRequested, Ends
  <2>5. job' = [job EXCEPT !.completed = memoryWorker[w].work.scope,
                 !.status = IF MoreRequested(w) THEN "pending" ELSE "idle",
                 !.target = IF MoreRequested(w) THEN @ ELSE 0,
                 !.attempts = 0, !.token = NoMemoryClaim, !.scope = 0,
                 !.leaseOver = FALSE, !.due = TRUE]
    BY <1>5 DEF CompleteMemoryWork, CompletedThrough
  <2>6. /\ job' \in JobRow /\ job'.completed = job.scope /\ job'.requested = job.requested
        /\ job'.scope = 0 /\ job'.status = (IF MoreRequested(w) THEN "pending" ELSE "idle")
        /\ job'.target = (IF MoreRequested(w) THEN job.target ELSE 0)
    BY <2>1, <2>3, <2>5 DEF JobRow, Claims
  <2>7. JobShape(job', length) /\ job'.status # "running"
    BY <1>3, <2>3, <2>6 DEF JobShape
  <2>8. AskedShape(asked, job', summaries, length)
    <3>1. CASE MoreRequested(w)
      BY <1>3, <2>6, <3>1 DEF AskedShape
    <3>2. CASE ~MoreRequested(w)
      BY <1>3, <2>2, <2>4, <3>2 DEF AskedShape, NothingOwed
    <3> QED BY <3>1, <3>2
  <2>9. Owed(job', summaries, asked)
    <3> SUFFICES ASSUME ~MoreRequested(w)
                 PROVE  /\ job'.completed = job'.requested
                        /\ UnindexedOf(summaries) = {}
                        /\ NothingOwed(CoveredBy(summaries), asked)
      BY <2>6 DEF Owed
    <3> QED BY <2>1, <2>2, <2>4, <2>6 DEF Ends
  <2>10. CASE memoryWorker' = [memoryWorker EXCEPT ![w] = Free]
    BY <1>1, <2>7, <2>8, <2>9, <2>10, FreeSlot, ClaimEnded
  <2>11. CASE Raise(w, FALSE)
    <3> DEFINE W == Failed(memoryWorker[w], FALSE)
    <3>1. WorkerShape(W) /\ W.work = memoryWorker[w].work
      BY <1>1, <1>3, FailedSlot
    <3>2. memoryWorker' = [memoryWorker EXCEPT ![w] = W]
      BY <2>11 DEF Raise, Failed
    <3> HIDE DEF W
    <3> QED BY <1>1, <2>7, <2>8, <2>9, <3>1, <3>2, ClaimEnded
  <2> QED BY <1>1, <2>10, <2>11
<1> QED BY <1>4, <1>5

\* The transaction that records a failure: a retry, or the end of the attempts.
LEMMA WorkFailed ==
    ASSUME MemoryInv, NEW w \in MemoryWorkers, Fail(w)
    PROVE  MemoryInv'
<1>1. /\ UNCHANGED <<length, sourceRevision, summaries, asked>>
      /\ memoryWorker' = [memoryWorker EXCEPT ![w] = Free]
  BY DEF Fail
<1>2. /\ JobShape(job, length) /\ AskedShape(asked, job, summaries, length)
  BY InvSays
<1>3. CASE job' = job
  <2>1. UNCHANGED memoryStore
    BY <1>1, <1>3 DEF memoryStore
  <2> QED BY <1>1, <2>1, AttemptDropped
<1>4. CASE job' # job
  <2>1. job' = [job EXCEPT !.status = IF MayRetry(w) THEN "pending" ELSE "failed",
                 !.token = NoMemoryClaim, !.scope = 0, !.leaseOver = FALSE, !.due = FALSE]
    BY <1>4 DEF Fail
  <2>2. job \in JobRow
    BY <1>2 DEF JobShape
  <2>3. /\ job' \in JobRow /\ job'.completed = job.completed /\ job'.requested = job.requested
        /\ job'.scope = 0 /\ job'.target = job.target
        /\ job'.status \in {"pending", "failed"}
    BY <2>1, <2>2 DEF JobRow, Claims
  <2>4. JobShape(job', length) /\ job'.status # "running"
    BY <1>2, <2>3 DEF JobShape, JobRow
  <2>5. AskedShape(asked, job', summaries, length) /\ Owed(job', summaries, asked)
    BY <1>2, <2>3 DEF AskedShape, Owed
  <2> QED BY <1>1, <2>4, <2>5, FreeSlot, ClaimEnded
<1> QED BY <1>3, <1>4

\* Every step of the memory work keeps its invariant.
LEMMA MemoryInvStep == MemoryInv /\ [MemoryNext]_memoryVars => MemoryInv'
<1> SUFFICES ASSUME MemoryInv, [MemoryNext]_memoryVars PROVE MemoryInv'
  OBVIOUS
<1>1. CASE GrowHistory \/ DeliverAnswer \/ RequireSummary \/ EditHistory
  BY <1>1, HistoryGrows, AnswerDelivered, SummaryRequired, HistoryEdited
<1>2. ASSUME NEW w \in MemoryWorkers, Work(w) PROVE MemoryInv'
  <2>1. CASE ClaimMemoryWork(w)
    BY <2>1, WorkClaimed
  <2>2. CASE ReadPendingIndex(w)
    BY <2>2, PendingIndexRead
  <2>3. CASE ReadSource(w)
    BY <2>3, SourceRead
  <2>4. CASE CallMemoryProvider(w)
    BY <2>4, ProviderCalled
  <2>5. CASE SaveSummary(w)
    BY <2>5, SummarySaved
  <2>6. CASE SaveEmbedding(w)
    BY <2>6, EmbeddingSaved
  <2>7. CASE CompleteMemoryWork(w)
    BY <2>7, WorkCompleted
  <2>8. CASE Fail(w)
    BY <2>8, WorkFailed
  <2> QED BY <1>2, <2>1, <2>2, <2>3, <2>4, <2>5, <2>6, <2>7, <2>8 DEF Work
<1>3. ASSUME NEW w \in MemoryWorkers, Fault(w) PROVE MemoryInv'
  <2>1. PICK retryable \in BOOLEAN : Raise(w, retryable)
    BY <1>3 DEF Fault
  <2>2. memoryWorker[w].at # "idle" /\ UNCHANGED memoryStore
    BY <1>3 DEF Fault
  <2> QED BY <2>1, <2>2, AttemptRaises
<1>4. ASSUME NEW w \in MemoryWorkers, StopMemoryWorker(w) PROVE MemoryInv'
  BY <1>4, AttemptDropped DEF StopMemoryWorker
<1>5. CASE MemoryLeaseExpires \/ MemoryBackoffElapses
  BY <1>5, TimePasses
<1>6. CASE UNCHANGED memoryVars
  BY <1>6 DEF memoryVars, MemoryInv
<1> QED BY <1>1, <1>2, <1>3, <1>4, <1>5, <1>6 DEF MemoryNext

\* The invariant says what the runs check.
LEMMA MemoryInvIsSound == MemoryInv => SummariesAreSound /\ IdleOwesNothing
<1> SUFFICES ASSUME MemoryInv PROVE SummariesAreSound /\ IdleOwesNothing
  OBVIOUS
<1>1. /\ length \in Nat /\ sourceRevision \in Nat
      /\ Tiles(summaries, sourceRevision, length)
      /\ JobShape(job, length) /\ AskedShape(asked, job, summaries, length)
      /\ WorkersShape(memoryWorker) /\ Owed(job, summaries, asked)
      /\ Covered = CoveredBy(summaries) /\ Unindexed = UnindexedOf(summaries)
      /\ CoveredBy(summaries) \in Nat
  BY InvSays
<1>2. MemoryTypeOK
  <2>1. summaries \subseteq [from: Nat, to: Nat, revision: Nat, ready: BOOLEAN]
    BY <1>1 DEF Tiles, SummaryRow
  <2>2. job \in JobRow /\ job.completed <= job.requested /\ asked \in [length: Nat, target: Nat]
    BY <1>1 DEF JobShape, AskedShape
  <2>3. memoryWorker \in [MemoryWorkers -> WorkerRow]
    BY <1>1 DEF WorkersShape
  <2> QED BY <1>1, <2>1, <2>2, <2>3 DEF MemoryTypeOK, JobRow, WorkerRow, WorkRow, Claims
<1>3. /\ \A m \in summaries : m.revision = sourceRevision /\ m.from <= m.to
      /\ \A i \in 1..CoveredBy(summaries) :
           Cardinality({m \in summaries : m.from <= i /\ i <= m.to}) = 1
      /\ CoveredBy(summaries) <= length
      /\ \A m \in UnindexedOf(summaries) :
           m.to = CoveredBy(summaries) /\ Cardinality(UnindexedOf(summaries)) = 1
  BY <1>1, TilesSay
<1>4. SummariesTile /\ OneUnindexed
  BY <1>1, <1>3 DEF SummariesTile, OneUnindexed
<1>5. IdleOwesNothing
  <2> SUFFICES ASSUME job.status = "idle"
               PROVE  /\ job.completed = job.requested
                      /\ Unindexed = {}
                      /\ Covered >= asked.target
                      /\ Selected(Weight, Unsummarised(Covered, asked.length), 0) = {}
    BY DEF IdleOwesNothing
  <2>1. asked.target \in Nat
    BY <1>1 DEF AskedShape
  <2> QED BY <1>1, <2>1 DEF Owed, NothingOwed, NoneDue
<1> QED BY <1>2, <1>4, <1>5 DEF SummariesAreSound

\* However claims are lost, taken over, retried or edited away, the summaries are of
\* the current text and lie side by side from its start, the newest at most without
\* an embedding (_persist_summary, _index_summary).
THEOREM SummariesStaySound == MemorySpec => []SummariesAreSound
BY MemoryInvInit, MemoryInvStep, MemoryInvIsSound, PTL DEF MemorySpec

\* A job that rests has summarised all that was ever asked of it, the requests that
\* came during its last claim too (complete_memory_work).
THEOREM IdleStillOwesNothing == MemorySpec => []IdleOwesNothing
BY MemoryInvInit, MemoryInvStep, MemoryInvIsSound, PTL DEF MemorySpec

-----------------------------------------------------------------------------
(* The mail outbox *)

(* How often a mail was accepted says nothing about the workers that still *)
(* hold it: after its lease is over it may be held by several.  So they    *)
(* are counted together: what was accepted and what may still be sent      *)
(* never exceeds the attempts that the row has counted.                    *)

USE DEF Waiting, Settled

Senders(m) == {w \in MailWorkers : mailWorker[w].at = "send" /\ mailWorker[w].mail = m}

\* Times a mail was accepted, and may be with the claims that are out.
Load(m) == delivered[m] + Cardinality(Senders(m))

\* A worker under way has a mail.
WorkersHaveMail == \A w \in MailWorkers : mailWorker[w].at # "idle" => mailWorker[w].mail \in Mails

RowsAndWorkers == MailTypeOK /\ WorkersHaveMail

\* Mails that were never asked for have an empty row, and all have their proof.
ProofsHaveRows ==
    \A m \in Mails : /\ proof[m] = "absent" <=> mail[m].status = "absent"
                     /\ mail[m].status = "absent" => mail[m] = NoMail

LoadIsCounted ==
    \A m \in Mails : /\ Load(m) <= MaxMailAttempts
                     /\ mail[m].status # "deleted" => Load(m) <= mail[m].attempts

MailInv == RowsAndWorkers /\ SecretsAreCleared /\ ProofsHaveRows /\ LoadIsCounted

-----------------------------------------------------------------------------
(* Types *)

\* The claims of rows and workers are too few to use up the tokens.
LEMMA TokenIsNew ==
    ASSUME MailTypeOK
    PROVE  NewMailToken \in MailTokens
<1> DEFINE OfMails == {mail[m].claim : m \in Mails}
           OfWorkers == {mailWorker[w].claim : w \in MailWorkers}
<1>1. IsFiniteSet(OfMails) /\ Cardinality(OfMails) <= Cardinality(Mails)
  <2>1. [m \in Mails |-> mail[m].claim] \in Surjection(Mails, OfMails)
    BY DEF Surjection
  <2> QED BY <2>1, FS_Surjection, MailAssumption
<1>2. IsFiniteSet(OfWorkers) /\ Cardinality(OfWorkers) <= Cardinality(MailWorkers)
  <2>1. [w \in MailWorkers |-> mailWorker[w].claim] \in Surjection(MailWorkers, OfWorkers)
    BY DEF Surjection
  <2> QED BY <2>1, FS_Surjection, MailAssumption
<1>3. HeldMailTokens = OfMails \cup OfWorkers
  BY DEF HeldMailTokens
<1> HIDE DEF OfMails, OfWorkers
<1>4. /\ IsFiniteSet(HeldMailTokens)
      /\ Cardinality(HeldMailTokens) <= Cardinality(OfMails) + Cardinality(OfWorkers)
  <2>1. IsFiniteSet(OfMails \cap OfWorkers)
    BY <1>1, FS_Intersection
  <2>2. /\ Cardinality(OfMails) \in Nat /\ Cardinality(OfWorkers) \in Nat
        /\ Cardinality(OfMails \cap OfWorkers) \in Nat
    BY <1>1, <1>2, <2>1, FS_CardinalityType
  <2>3. /\ IsFiniteSet(OfMails \cup OfWorkers)
        /\ Cardinality(OfMails \cup OfWorkers) =
             Cardinality(OfMails) + Cardinality(OfWorkers) - Cardinality(OfMails \cap OfWorkers)
    BY <1>1, <1>2, FS_Union
  <2> QED BY <1>3, <2>2, <2>3
<1>5. /\ Cardinality(MailTokens) \in Nat /\ Cardinality(Mails) \in Nat
      /\ Cardinality(MailWorkers) \in Nat /\ Cardinality(HeldMailTokens) \in Nat
      /\ Cardinality(OfMails) \in Nat /\ Cardinality(OfWorkers) \in Nat
  BY <1>1, <1>2, <1>4, FS_CardinalityType, MailAssumption
<1>6. ~(MailTokens \subseteq HeldMailTokens)
  <2>1. MailTokens \subseteq HeldMailTokens
          => Cardinality(MailTokens) <= Cardinality(HeldMailTokens)
    BY <1>4, FS_Subset
  <2> QED BY <2>1, <1>1, <1>2, <1>4, <1>5, MailAssumption
<1> QED BY <1>6 DEF NewMailToken

Row == [status: {"absent"} \cup Waiting \cup Settled, attempts: 0..MaxMailAttempts,
        claim: MailTokens \cup {NoMailToken}, leaseOver: BOOLEAN, due: BOOLEAN, secret: BOOLEAN]

\* A row that is given up keeps its attempts and nothing to send.
LEMMA GivenUpShape ==
    ASSUME NEW m \in Mails, mail[m] \in Row, NEW status \in Settled
    PROVE  /\ GivenUp(m, status) \in Row
           /\ GivenUp(m, status).status = status
           /\ GivenUp(m, status).attempts = mail[m].attempts
           /\ ~GivenUp(m, status).secret
BY DEF GivenUp, Row

\* A completed row has settled without its secret, or waits again with it.
LEMMA CompletedShape ==
    ASSUME NEW m \in Mails, mail[m] \in Row, NEW outcome, NEW outlives
    PROVE  LET row == Completed(m, outcome, outlives)
           IN  /\ row \in Row
               /\ row.status \in {"pending", "sent", "failed", "cancelled"}
               /\ row.attempts = mail[m].attempts
               /\ row.secret <=> row.status = "pending" /\ mail[m].secret
<1> DEFINE row == Completed(m, outcome, outlives)
           again == [mail[m] EXCEPT !.status = "pending", !.claim = NoMailToken,
                                    !.leaseOver = FALSE, !.due = FALSE]
<1>1. /\ again \in Row /\ again.status = "pending"
      /\ again.attempts = mail[m].attempts /\ again.secret = mail[m].secret
  BY DEF Row
<1>2. row \in {again, GivenUp(m, "sent"), GivenUp(m, "failed"), GivenUp(m, "cancelled")}
  BY DEF Completed
<1> HIDE DEF again, row
<1>3. CASE row = again
  BY <1>1, <1>3 DEF row
<1>4. ASSUME NEW status \in {"sent", "failed", "cancelled"}, row = GivenUp(m, status)
      PROVE  /\ row \in Row /\ row.status = status
             /\ row.attempts = mail[m].attempts /\ ~row.secret
  BY <1>4, GivenUpShape
<1> QED BY <1>2, <1>3, <1>4 DEF row

-----------------------------------------------------------------------------
(* Rows.  Every action either leaves a mail's row alone or is one of these.  *)

Requested(m) == /\ mail[m].status = "absent"
                /\ mail'[m] = [NoMail EXCEPT !.status = "pending", !.secret = TRUE]
Removed(m) == proof[m] = "spent" /\ mail'[m] = [NoMail EXCEPT !.status = "deleted"]

\* A row that is at work goes on, or ends; it counts an attempt more if it is claimed.
Moved(m, counted) ==
    /\ mail[m].status \in Waiting
    /\ mail'[m] \in Row
    /\ mail'[m].status \in Waiting \cup {"sent", "failed", "cancelled"}
    /\ mail'[m].attempts = mail[m].attempts + counted
    /\ mail'[m].secret <=> mail'[m].status \in Waiting

Kept(m) == mail'[m] = mail[m]

\* Only the mail with which a worker claims counts an attempt.
LEMMA ClaimMoves ==
    ASSUME MailInv, NEW w \in MailWorkers, ClaimMail(w)
    PROVE  /\ mail' \in [Mails -> Row]
           /\ \/ /\ UNCHANGED mailWorker
                 /\ \A m \in Mails : Kept(m) \/ Moved(m, 0)
              \/ \E m \in Mails :
                    /\ mailWorker' = [mailWorker EXCEPT ![w] =
                         [MailWorkerFree EXCEPT !.at = "send", !.mail = m, !.claim = NewMailToken]]
                    /\ Moved(m, 1)
                    /\ \A n \in Mails \ {m} : Kept(n)
<1>1. mail \in [Mails -> Row] /\ MailTypeOK /\ SecretsAreCleared
  BY DEF MailInv, RowsAndWorkers, MailTypeOK, Row
<1>2. PICK m \in Mails : Due(m) /\
        \/ /\ mail' \in {[mail EXCEPT ![m] = GivenUp(m, "failed")],
                         [mail EXCEPT ![m] = GivenUp(m, "cancelled")]}
           /\ UNCHANGED mailWorker
        \/ /\ ~Exhausted(m)
           /\ mail' = [mail EXCEPT ![m].status = "processing", ![m].attempts = @ + 1,
                                   ![m].claim = NewMailToken, ![m].leaseOver = FALSE]
           /\ mailWorker' = [mailWorker EXCEPT ![w] =
                [MailWorkerFree EXCEPT !.at = "send", !.mail = m, !.claim = NewMailToken]]
  BY DEF ClaimMail, AttemptsAfterClaim
<1>3. mail[m] \in Row /\ mail[m].status \in Waiting /\ mail[m].secret
  BY <1>1, <1>2 DEF Due, SecretsAreCleared
<1>4. ASSUME NEW status \in {"failed", "cancelled"}, mail' = [mail EXCEPT ![m] = GivenUp(m, status)]
      PROVE  mail' \in [Mails -> Row] /\ \A n \in Mails : Kept(n) \/ Moved(n, 0)
  <2>1. GivenUp(m, status) \in Row /\ GivenUp(m, status).status = status
        /\ GivenUp(m, status).attempts = mail[m].attempts /\ ~GivenUp(m, status).secret
    BY <1>3, GivenUpShape
  <2>2. mail' \in [Mails -> Row] /\ mail'[m] = GivenUp(m, status)
        /\ \A n \in Mails \ {m} : Kept(n)
    BY <1>1, <1>4, <2>1 DEF Kept
  <2>3. mail[m].attempts \in Nat
    BY <1>3 DEF Row
  <2>4. Moved(m, 0)
    BY <1>3, <2>1, <2>2, <2>3 DEF Moved
  <2> QED BY <2>2, <2>4
<1>5. ASSUME ~Exhausted(m),
             mail' = [mail EXCEPT ![m].status = "processing", ![m].attempts = @ + 1,
                                  ![m].claim = NewMailToken, ![m].leaseOver = FALSE]
      PROVE  mail' \in [Mails -> Row] /\ Moved(m, 1) /\ \A n \in Mails \ {m} : Kept(n)
  <2> DEFINE row == [mail[m] EXCEPT !.status = "processing", !.attempts = @ + 1,
                                    !.claim = NewMailToken, !.leaseOver = FALSE]
  <2>1. mail[m].attempts + 1 \in 0..MaxMailAttempts
    BY <1>3, <1>5, MailAssumption DEF Row, Exhausted
  <2>2. NewMailToken \in MailTokens
    BY <1>1, TokenIsNew
  <2>3. row \in Row /\ row.status = "processing" /\ row.attempts = mail[m].attempts + 1
        /\ row.secret
    BY <1>3, <2>1, <2>2 DEF Row
  <2>4. mail' = [mail EXCEPT ![m] = row]
    BY <1>1, <1>5
  <2> HIDE DEF row
  <2>5. mail' \in [Mails -> Row] /\ mail'[m] = row /\ \A n \in Mails \ {m} : Kept(n)
    BY <1>1, <2>3, <2>4 DEF Kept
  <2> QED BY <1>3, <2>3, <2>5 DEF Moved
<1> QED BY <1>2, <1>4, <1>5

\* A lost claim changes nothing; a claim that stands settles its mail or lets it wait.
LEMMA CompleteMoves ==
    ASSUME MailInv, NEW w \in MailWorkers, CompleteMail(w)
    PROVE  mail' \in [Mails -> Row] /\ \A m \in Mails : Kept(m) \/ Moved(m, 0)
<1> DEFINE m == mailWorker[w].mail
<1>1. mail \in [Mails -> Row] /\ SecretsAreCleared /\ m \in Mails
  BY DEF MailInv, RowsAndWorkers, WorkersHaveMail, MailTypeOK, Row, CompleteMail
<1> HIDE DEF m
<1>2. CASE mail' = mail
  BY <1>1, <1>2 DEF Kept
<1>3. CASE OwnsMail(w) /\ mail' # mail
  <2>1. PICK outcome, outlives : mail' = [mail EXCEPT ![m] = Completed(m, outcome, outlives)]
    BY <1>3 DEF CompleteMail, m
  <2>2. mail[m] \in Row /\ mail[m].status = "processing" /\ mail[m].secret
        /\ mail[m].attempts \in Nat
    BY <1>1, <1>3 DEF OwnsMail, SecretsAreCleared, m, Row
  <2> DEFINE row == Completed(m, outcome, outlives)
  <2>3. /\ row \in Row /\ row.status \in {"pending", "sent", "failed", "cancelled"}
        /\ row.attempts = mail[m].attempts
        /\ row.secret <=> row.status = "pending" /\ mail[m].secret
    BY <1>1, <2>2, CompletedShape
  <2> HIDE DEF row
  <2>4. mail' \in [Mails -> Row] /\ mail'[m] = row /\ \A n \in Mails \ {m} : Kept(n)
    BY <1>1, <2>1, <2>3 DEF Kept, row
  <2>5. Moved(m, 0)
    BY <2>2, <2>3, <2>4 DEF Moved
  <2> QED BY <2>4, <2>5
<1> QED BY <1>2, <1>3 DEF CompleteMail

\* What any step does to rows: the claim alone needs a free worker.
LEMMA RowsMove ==
    ASSUME MailInv, MailNext
    PROVE  /\ mail' \in [Mails -> Row]
           /\ \A m \in Mails : \/ Kept(m) \/ Requested(m) \/ Removed(m) \/ Moved(m, 0)
                               \/ Moved(m, 1)
<1>1. mail \in [Mails -> Row] /\ SecretsAreCleared
  BY DEF MailInv, RowsAndWorkers, MailTypeOK, Row
<1>2. NoMail \in Row /\ [NoMail EXCEPT !.status = "pending", !.secret = TRUE] \in Row
      /\ [NoMail EXCEPT !.status = "deleted"] \in Row
  <2>1. NoMail \in Row
    BY MailAssumption DEF NoMail, Row
  <2> QED BY <2>1 DEF Row
<1>3. ASSUME NEW m \in Mails, RequestMail(m)
      PROVE  mail' \in [Mails -> Row] /\ \A n \in Mails : Kept(n) \/ Requested(n)
  BY <1>1, <1>2, <1>3 DEF RequestMail, Kept, Requested, MailInv, ProofsHaveRows
<1>4. ASSUME NEW m \in Mails, CleanUp(m)
      PROVE  mail' \in [Mails -> Row] /\ \A n \in Mails : Kept(n) \/ Removed(n)
  BY <1>1, <1>2, <1>4 DEF CleanUp, Kept, Removed
<1>5. ASSUME NEW m \in Mails, MailLeaseExpires(m) \/ MailBackoffElapses(m)
      PROVE  mail' \in [Mails -> Row] /\ \A n \in Mails : Kept(n) \/ Moved(n, 0)
  <2> DEFINE late == [mail[m] EXCEPT !.leaseOver = TRUE]
             due == [mail[m] EXCEPT !.due = TRUE]
  <2>1. mail[m] \in Row /\ mail[m].status \in Waiting /\ mail[m].secret
        /\ mail[m].attempts \in Nat
    BY <1>1, <1>5 DEF MailLeaseExpires, MailBackoffElapses, SecretsAreCleared, Row
  <2>2. ASSUME NEW row \in {late, due}
        PROVE  row \in Row /\ row.status = mail[m].status /\ row.secret
               /\ row.attempts = mail[m].attempts
    BY <2>1 DEF Row
  <2>3. PICK row \in {late, due} : mail' = [mail EXCEPT ![m] = row]
    BY <1>1, <1>5 DEF MailLeaseExpires, MailBackoffElapses
  <2> HIDE DEF late, due
  <2>4. mail' \in [Mails -> Row] /\ mail'[m] = row /\ \A n \in Mails \ {m} : Kept(n)
    BY <1>1, <2>2, <2>3 DEF Kept
  <2> QED BY <2>1, <2>2, <2>4 DEF Moved
<1>6. ASSUME NEW w \in MailWorkers, ClaimMail(w)
      PROVE  mail' \in [Mails -> Row]
             /\ \A m \in Mails : Kept(m) \/ Moved(m, 0) \/ Moved(m, 1)
  BY <1>6, ClaimMoves
<1>7. ASSUME NEW w \in MailWorkers, CompleteMail(w)
      PROVE  mail' \in [Mails -> Row] /\ \A m \in Mails : Kept(m) \/ Moved(m, 0)
  BY <1>7, CompleteMoves
<1>8. CASE UNCHANGED mail
  BY <1>1, <1>8 DEF Kept
<1> QED
  BY <1>3, <1>4, <1>5, <1>6, <1>7, <1>8
     DEF MailNext, WorkMail, SpendProof, ChangeEligibility, Send, Crash

-----------------------------------------------------------------------------
(* The invariant *)

\* A worker has the mail it claimed until it is free again.
LEMMA WorkersStep ==
    ASSUME MailInv, MailNext
    PROVE  /\ mailWorker' \in [MailWorkers ->
                [at: {"idle", "send", "complete"}, mail: Mails \cup {NoMailToken},
                 claim: MailTokens \cup {NoMailToken},
                 outcome: {"none", "sent", "retry", "failed"}]]
           /\ WorkersHaveMail'
           /\ delivered' \in [Mails -> Nat]
<1> DEFINE Places == [at: {"idle", "send", "complete"}, mail: Mails \cup {NoMailToken},
                      claim: MailTokens \cup {NoMailToken},
                      outcome: {"none", "sent", "retry", "failed"}]
           HasMail(place) == place.at # "idle" => place.mail \in Mails
<1>1. /\ mailWorker \in [MailWorkers -> Places] /\ \A w \in MailWorkers : HasMail(mailWorker[w])
      /\ delivered \in [Mails -> Nat] /\ MailTypeOK
  BY DEF MailInv, RowsAndWorkers, WorkersHaveMail, MailTypeOK
<1>2. MailWorkerFree \in Places /\ HasMail(MailWorkerFree)
  BY DEF MailWorkerFree
<1>3. SUFFICES /\ delivered' \in [Mails -> Nat]
               /\ \/ UNCHANGED mailWorker
                  \/ \E w \in MailWorkers, place \in Places :
                        HasMail(place) /\ mailWorker' = [mailWorker EXCEPT ![w] = place]
  BY <1>1 DEF WorkersHaveMail
<1>4. CASE UNCHANGED <<mailWorker, delivered>>
  BY <1>1, <1>4
<1>5. ASSUME NEW w \in MailWorkers, ClaimMail(w), mailWorker' # mailWorker
      PROVE  \E place \in Places :
               HasMail(place) /\ mailWorker' = [mailWorker EXCEPT ![w] = place]
  <2>1. NewMailToken \in MailTokens
    BY <1>1, TokenIsNew
  <2>2. PICK m \in Mails : mailWorker' = [mailWorker EXCEPT ![w] =
           [MailWorkerFree EXCEPT !.at = "send", !.mail = m, !.claim = NewMailToken]]
    BY <1>5, ClaimMoves
  <2>3. LET place == [MailWorkerFree EXCEPT !.at = "send", !.mail = m, !.claim = NewMailToken]
        IN  place \in Places /\ HasMail(place)
    BY <2>1 DEF MailWorkerFree
  <2> QED BY <2>2, <2>3
<1>6. ASSUME NEW w \in MailWorkers, Send(w)
      PROVE  /\ delivered' \in [Mails -> Nat]
             /\ \E place \in Places :
                  HasMail(place) /\ mailWorker' = [mailWorker EXCEPT ![w] = place]
  <2>1. PICK outcome \in {"sent", "retry", "failed"} :
           mailWorker' = [mailWorker EXCEPT ![w].at = "complete", ![w].outcome = outcome]
    BY <1>6 DEF Send, Reports
  <2> DEFINE place == [mailWorker[w] EXCEPT !.at = "complete", !.outcome = outcome]
  <2>2. mailWorker[w] \in Places /\ mailWorker[w].mail \in Mails
    BY <1>1, <1>6 DEF Send
  <2>3. place \in Places /\ place.mail \in Mails
    BY <2>2
  <2>4. mailWorker' = [mailWorker EXCEPT ![w] = place]
    BY <1>1, <2>1
  <2>5. delivered' \in [Mails -> Nat]
    BY <1>1, <1>6, <2>2 DEF Send
  <2> QED BY <2>3, <2>4, <2>5
<1>7. ASSUME NEW w \in MailWorkers, CompleteMail(w) \/ Crash(w)
      PROVE  mailWorker' = [mailWorker EXCEPT ![w] = MailWorkerFree] /\ UNCHANGED delivered
  BY <1>7 DEF CompleteMail, Crash
<1>8. ASSUME NEW w \in MailWorkers, ClaimMail(w)
      PROVE  UNCHANGED delivered
  BY <1>8 DEF ClaimMail
<1> HIDE DEF Places, HasMail
<1> QED
  BY <1>1, <1>2, <1>4, <1>5, <1>6, <1>7, <1>8
     DEF MailNext, WorkMail, RequestMail, SpendProof, CleanUp, ChangeEligibility,
         MailLeaseExpires, MailBackoffElapses

\* Every step keeps the types of the outbox.
LEMMA TypesStep ==
    ASSUME MailInv, MailNext
    PROVE  RowsAndWorkers'
<1>1. mail' \in [Mails -> Row]
  BY RowsMove
<1>2. eligible' \in BOOLEAN /\ proof' \in [Mails -> {"absent", "usable", "spent", "deleted"}]
  BY ZenonT(40)
     DEF MailInv, RowsAndWorkers, MailTypeOK, MailNext, WorkMail, RequestMail, SpendProof, CleanUp,
         ChangeEligibility, ClaimMail, Send, CompleteMail, Crash, MailLeaseExpires,
         MailBackoffElapses
<1> QED BY <1>1, <1>2, WorkersStep DEF RowsAndWorkers, MailTypeOK, Row

\* Every step keeps the rows and the secrets of the proofs in step.
LEMMA SecretsStep ==
    ASSUME MailInv, MailNext
    PROVE  SecretsAreCleared'
<1> SUFFICES ASSUME NEW m \in Mails
             PROVE  mail'[m].secret <=> mail'[m].status \in Waiting
  BY DEF SecretsAreCleared
<1>1. CASE Kept(m)
  BY <1>1 DEF Kept, MailInv, SecretsAreCleared
<1>2. CASE Requested(m) \/ Removed(m)
  BY <1>2 DEF Requested, Removed, NoMail
<1>3. CASE Moved(m, 0) \/ Moved(m, 1)
  BY <1>3 DEF Moved
<1> QED BY <1>1, <1>2, <1>3, RowsMove

\* A proof is written with its mail, and neither is ever absent again.
LEMMA ProofsStep ==
    ASSUME MailInv, MailNext
    PROVE  ProofsHaveRows'
<1> SUFFICES ASSUME NEW m \in Mails
             PROVE  /\ proof'[m] = "absent" <=> mail'[m].status = "absent"
                    /\ mail'[m].status = "absent" => mail'[m] = NoMail
  BY DEF ProofsHaveRows
<1>1. /\ proof \in [Mails -> {"absent", "usable", "spent", "deleted"}]
      /\ mail \in [Mails -> Row]
      /\ proof[m] = "absent" <=> mail[m].status = "absent"
      /\ mail[m].status = "absent" => mail[m] = NoMail
  BY DEF MailInv, RowsAndWorkers, MailTypeOK, Row, ProofsHaveRows
<1>2. ASSUME NEW n \in Mails, RequestMail(n)
      PROVE  proof'[m] = "absent" <=> mail'[m].status = "absent"
  BY <1>1, <1>2 DEF RequestMail, NoMail
<1>3. ASSUME NEW n \in Mails, CleanUp(n)
      PROVE  proof'[m] = "absent" <=> mail'[m].status = "absent"
  BY <1>1, <1>3 DEF CleanUp, NoMail
<1>4. ASSUME proof'[m] = "absent" <=> proof[m] = "absent", Kept(m) \/ Moved(m, 0) \/ Moved(m, 1)
      PROVE  proof'[m] = "absent" <=> mail'[m].status = "absent"
  BY <1>1, <1>4 DEF Kept, Moved
<1>5. ASSUME NEW n \in Mails, SpendProof(n)
      PROVE  (proof'[m] = "absent" <=> proof[m] = "absent") /\ Kept(m)
  BY <1>1, <1>5 DEF SpendProof, Kept
<1>6. ASSUME NEW w \in MailWorkers, WorkMail(w) \/ Crash(w)
      PROVE  UNCHANGED proof /\ (Kept(m) \/ Moved(m, 0) \/ Moved(m, 1))
  BY <1>6, ClaimMoves, CompleteMoves
     DEF WorkMail, ClaimMail, Send, CompleteMail, Crash, Kept
<1>7. ASSUME NEW n \in Mails, MailLeaseExpires(n) \/ MailBackoffElapses(n)
      PROVE  UNCHANGED proof /\ mail'[m].status = mail[m].status
  BY <1>1, <1>7 DEF MailLeaseExpires, MailBackoffElapses, Row
<1>8. CASE ChangeEligibility
  BY <1>1, <1>8 DEF ChangeEligibility
<1>9. proof'[m] = "absent" <=> mail'[m].status = "absent"
  BY <1>1, <1>2, <1>3, <1>4, <1>5, <1>6, <1>7, <1>8 DEF MailNext
<1>10. mail'[m].status = "absent" => Kept(m)
  BY <1>1, RowsMove DEF Requested, Removed, Moved, NoMail
<1> QED BY <1>1, <1>9, <1>10 DEF Kept

\* Any set of workers is finite.
LEMMA SendersCount ==
    ASSUME NEW S \in SUBSET MailWorkers
    PROVE  IsFiniteSet(S) /\ Cardinality(S) \in Nat
BY FS_Subset, FS_CardinalityType, MailAssumption

\* A claim adds a sender to its mail.  A mail accepted, or not, has a sender less.
LEMMA LoadStep ==
    ASSUME MailInv, MailNext, NEW m \in Mails
    PROVE  Load(m)' <= Load(m) \/ (Load(m)' = Load(m) + 1 /\ Moved(m, 1))
<1>1. /\ MailTypeOK /\ delivered[m] \in Nat /\ delivered'[m] \in Nat
      /\ \A S \in SUBSET MailWorkers : IsFiniteSet(S) /\ Cardinality(S) \in Nat
      /\ Senders(m) \in SUBSET MailWorkers
      /\ Cardinality(Senders(m)) \in Nat /\ Load(m) \in Nat
  BY WorkersStep, SendersCount DEF MailInv, RowsAndWorkers, MailTypeOK, Senders, Load
<1>2. ASSUME UNCHANGED <<mailWorker, delivered>>
      PROVE  Load(m)' <= Load(m)
  <2>1. Load(m)' = Load(m)
    BY <1>2 DEF Load, Senders
  <2> QED BY <1>1, <2>1
<1>3. ASSUME NEW w \in MailWorkers, mailWorker' = [mailWorker EXCEPT ![w] = MailWorkerFree],
             UNCHANGED delivered
      PROVE  Load(m)' <= Load(m)
  <2>1. Senders(m)' = Senders(m) \ {w}
    BY <1>1, <1>3 DEF Senders, MailWorkerFree, MailTypeOK
  <2>2. Cardinality(Senders(m) \ {w}) <= Cardinality(Senders(m))
    BY <1>1, FS_RemoveElement
  <2>3. Cardinality(Senders(m) \ {w}) \in Nat
    BY <1>1
  <2> QED BY <1>1, <1>3, <2>1, <2>2, <2>3 DEF Load
<1>4. ASSUME NEW w \in MailWorkers, ClaimMail(w), mailWorker' # mailWorker
      PROVE  Load(m)' <= Load(m) \/ (Load(m)' = Load(m) + 1 /\ Moved(m, 1))
  <2>1. PICK n \in Mails :
          /\ mailWorker' = [mailWorker EXCEPT ![w] =
               [MailWorkerFree EXCEPT !.at = "send", !.mail = n, !.claim = NewMailToken]]
          /\ Moved(n, 1)
    BY <1>4, ClaimMoves
  <2>2. UNCHANGED delivered /\ w \notin Senders(m)
    BY <1>4 DEF ClaimMail, Senders
  <2>3. CASE n = m
    <3>1. Senders(m)' = Senders(m) \cup {w}
      BY <1>1, <2>1, <2>3 DEF Senders, MailWorkerFree, MailTypeOK
    <3>2. Cardinality(Senders(m) \cup {w}) = Cardinality(Senders(m)) + 1
      BY <1>1, <2>2, FS_AddElement
    <3> QED BY <1>1, <2>1, <2>2, <2>3, <3>1, <3>2 DEF Load
  <2>4. CASE n # m
    <3>1. Senders(m)' = Senders(m)
      BY <1>1, <1>4, <2>1, <2>4 DEF Senders, MailWorkerFree, MailTypeOK, ClaimMail
    <3>2. Load(m)' = Load(m)
      BY <2>2, <3>1 DEF Load
    <3> QED BY <1>1, <3>2
  <2> QED BY <2>3, <2>4
<1>5. ASSUME NEW w \in MailWorkers, Send(w)
      PROVE  Load(m)' <= Load(m)
  <2>1. PICK outcome : mailWorker' = [mailWorker EXCEPT ![w].at = "complete",
                                                      ![w].outcome = outcome]
    BY <1>5 DEF Send
  <2>2. Senders(m)' = Senders(m) \ {w}
    BY <1>1, <2>1 DEF Senders, MailTypeOK
  <2>3. Cardinality(Senders(m) \ {w}) =
           IF w \in Senders(m) THEN Cardinality(Senders(m)) - 1 ELSE Cardinality(Senders(m))
    BY <1>1, FS_RemoveElement
  <2>4. delivered'[m] <= delivered[m] + (IF w \in Senders(m) THEN 1 ELSE 0)
    BY <1>1, <1>5 DEF Send, Senders, MailTypeOK, MailInv, RowsAndWorkers, WorkersHaveMail
  <2>5. Cardinality(Senders(m) \ {w}) \in Nat
    BY <1>1
  <2> QED BY <1>1, <2>2, <2>3, <2>4, <2>5 DEF Load
<1>6. ASSUME NEW w \in MailWorkers, CompleteMail(w) \/ Crash(w)
      PROVE  Load(m)' <= Load(m)
  BY <1>3, <1>6 DEF CompleteMail, Crash
<1>7. ASSUME NEW w \in MailWorkers, ClaimMail(w)
      PROVE  Load(m)' <= Load(m) \/ (Load(m)' = Load(m) + 1 /\ Moved(m, 1))
  BY <1>2, <1>4, <1>7 DEF ClaimMail
<1>8. CASE UNCHANGED <<mailWorker, delivered>>
  BY <1>2, <1>8
<1> QED
  BY <1>5, <1>6, <1>7, <1>8
     DEF MailNext, WorkMail, RequestMail, SpendProof, CleanUp,
         ChangeEligibility, MailLeaseExpires, MailBackoffElapses

\* No row is absent while someone has its mail: the load of a row that comes to be is 0.
LEMMA CountStep ==
    ASSUME MailInv, MailNext
    PROVE  LoadIsCounted'
<1> SUFFICES ASSUME NEW m \in Mails
             PROVE  /\ Load(m)' <= MaxMailAttempts
                    /\ mail'[m].status # "deleted" => Load(m)' <= mail'[m].attempts
  BY DEF LoadIsCounted
<1>1. /\ mail[m] \in Row /\ mail'[m] \in Row
      /\ mail[m].attempts \in Nat /\ mail'[m].attempts \in 0..MaxMailAttempts
      /\ MaxMailAttempts \in Nat
  BY RowsMove, MailAssumption DEF MailInv, RowsAndWorkers, MailTypeOK, Row
<1>2. /\ Load(m) <= MaxMailAttempts
      /\ mail[m].status # "deleted" => Load(m) <= mail[m].attempts
      /\ mail[m].status = "absent" => mail[m] = NoMail
  BY DEF MailInv, LoadIsCounted, ProofsHaveRows
<1>3. Load(m) \in Nat /\ Load(m)' \in Nat
  <2>1. delivered[m] \in Nat /\ delivered'[m] \in Nat
    BY WorkersStep DEF MailInv, RowsAndWorkers, MailTypeOK
  <2>2. Senders(m) \in SUBSET MailWorkers /\ Senders(m)' \in SUBSET MailWorkers
    BY DEF Senders
  <2>3. Cardinality(Senders(m)) \in Nat /\ Cardinality(Senders(m)') \in Nat
    BY <2>2, SendersCount
  <2> QED BY <2>1, <2>3 DEF Load
<1>4. CASE Load(m)' = Load(m) + 1 /\ Moved(m, 1)
  BY <1>1, <1>2, <1>3, <1>4 DEF Moved
<1>5. CASE Load(m)' <= Load(m)
  <2>1. CASE Kept(m)
    BY <1>1, <1>2, <1>3, <1>5, <2>1 DEF Kept
  <2>2. CASE Requested(m)
    BY <1>1, <1>2, <1>3, <1>5, <2>2 DEF Requested, NoMail
  <2>3. CASE Removed(m)
    BY <1>1, <1>2, <1>3, <1>5, <2>3 DEF Removed, NoMail
  <2>4. CASE Moved(m, 0) \/ Moved(m, 1)
    BY <1>1, <1>2, <1>3, <1>5, <2>4 DEF Moved
  <2> QED BY <2>1, <2>2, <2>3, <2>4, RowsMove
<1> QED BY <1>4, <1>5, LoadStep

\* The outbox starts empty.
LEMMA InitialMailInv == MailInit => MailInv
<1> SUFFICES ASSUME MailInit PROVE MailInv
  OBVIOUS
<1>1. NoMail \in Row /\ NoMail.status = "absent" /\ NoMail.attempts = 0 /\ ~NoMail.secret
  BY MailAssumption DEF NoMail, Row
<1>2. RowsAndWorkers
  <2>1. MailWorkerFree \in [at: {"idle", "send", "complete"}, mail: Mails \cup {NoMailToken},
          claim: MailTokens \cup {NoMailToken}, outcome: {"none", "sent", "retry", "failed"}]
        /\ MailWorkerFree.at = "idle"
    BY DEF MailWorkerFree
  <2> QED BY <1>1, <2>1 DEF MailInit, RowsAndWorkers, MailTypeOK, WorkersHaveMail, Row
<1>3. SecretsAreCleared /\ ProofsHaveRows
  BY <1>1 DEF MailInit, SecretsAreCleared, ProofsHaveRows
<1>4. ASSUME NEW m \in Mails
      PROVE  Load(m) = 0
  <2>1. Senders(m) = {}
    BY DEF MailInit, Senders, MailWorkerFree
  <2> QED BY <2>1, FS_EmptySet DEF Load, MailInit
<1>5. LoadIsCounted
  BY <1>1, <1>4, MailAssumption DEF LoadIsCounted, MailInit
<1> QED BY <1>2, <1>3, <1>5 DEF MailInv

\* Every step of the outbox keeps its invariant.
LEMMA MailStep == MailInv /\ [MailNext]_mailVars => MailInv'
<1> SUFFICES ASSUME MailInv, [MailNext]_mailVars PROVE MailInv'
  OBVIOUS
<1>1. CASE MailNext
  BY <1>1, TypesStep, SecretsStep, ProofsStep, CountStep DEF MailInv
<1>2. CASE UNCHANGED mailVars
  BY <1>2 DEF mailVars, MailInv, RowsAndWorkers, MailTypeOK, WorkersHaveMail, SecretsAreCleared,
       ProofsHaveRows, LoadIsCounted, Load, Senders
<1> QED BY <1>1, <1>2

-----------------------------------------------------------------------------
(* Theorems *)

\* What one step may not do to a settled row.
LEMMA SettledStep ==
    ASSUME MailInv, [MailNext]_mailVars, NEW m \in Mails, mail[m].status \in Settled
    PROVE  mail'[m].status \in {mail[m].status, "deleted"}
<1>1. CASE MailNext
  BY <1>1, RowsMove DEF Kept, Requested, Removed, Moved, NoMail
<1>2. CASE UNCHANGED mailVars
  BY <1>2 DEF mailVars
<1> QED BY <1>1, <1>2

\* However many workers deliver however many mails, die, or report late
\* (deliver_next_mail): nobody is mailed more often than MAX_ATTEMPTS, a proof is kept
\* encrypted exactly while its mail may be sent, and what is settled stays so.
THEOREM MailStaysSafe == MailSpec => MailIsSafe
<1>1. MailInv => MailTypeOK /\ DeliveriesAreBounded /\ SecretsAreCleared
  <2> SUFFICES ASSUME MailInv, NEW m \in Mails
               PROVE  delivered[m] <= MaxMailAttempts
    BY DEF MailInv, RowsAndWorkers, DeliveriesAreBounded
  <2>1. delivered[m] \in Nat /\ Senders(m) \in SUBSET MailWorkers
    BY DEF MailInv, RowsAndWorkers, MailTypeOK, Senders
  <2>2. Cardinality(Senders(m)) \in Nat
    BY <2>1, SendersCount
  <2>3. Load(m) <= MaxMailAttempts
    BY DEF MailInv, LoadIsCounted
  <2> QED BY <2>1, <2>2, <2>3, MailAssumption DEF Load
<1> DEFINE Stays == \A m \in Mails : mail[m].status \in Settled =>
                      mail'[m].status \in {mail[m].status, "deleted"}
<1>2. MailInv /\ [MailNext]_mailVars => [Stays]_mailVars
  BY SettledStep
<1>3. MailSpec => [][Stays]_mailVars
  BY <1>2, InitialMailInv, MailStep, PTL DEF MailSpec
<1>4. MailSpec => SettledStays
  BY <1>3 DEF SettledStays
<1>5. MailSpec => [](MailTypeOK /\ DeliveriesAreBounded /\ SecretsAreCleared)
  BY <1>1, InitialMailInv, MailStep, PTL DEF MailSpec
<1> QED BY <1>4, <1>5 DEF MailIsSafe
=============================================================================
