----------------------------- MODULE FiniteSums -----------------------------
(***************************************************************************)
(* What proofs about this project need to know of finite sets and of sums  *)
(* over them.  The sums of the community modules are folds, recursive      *)
(* functions over the subsets of a set; the theorems on recursion of the   *)
(* library take operators, so that the table a fold builds is shown to     *)
(* exist and to be the only one here, by induction on finite sets.         *)
(***************************************************************************)
EXTENDS Integers, FiniteSetsExt, FiniteSetTheorems, WellFoundedInduction, TLAPS

-----------------------------------------------------------------------------
(* Induction on finite sets *)

\* Where a family of subsets of a finite set is not empty, one of them has no
\* other one inside: induction on finite sets, without an operator to pass.
LEMMA SmallestBad ==
    ASSUME NEW S, IsFiniteSet(S), NEW Bad, Bad \subseteq SUBSET S, Bad # {}
    PROVE  \E T \in Bad : \A U \in (SUBSET T) \ {T} : U \notin Bad
<1>1. IsWellFoundedOn(StrictSubsetOrdering(S), FiniteSubsetsOf(S))
  BY FS_StrictSubsetOrderingWellFounded
<1>2. FiniteSubsetsOf(S) = SUBSET S
  BY FS_FiniteSubsetsOfFinite
<1>3. PICK T \in Bad : \A U \in Bad : ~(<<U, T>> \in StrictSubsetOrdering(S))
  BY <1>1, <1>2, WFMin
<1>4. ASSUME NEW U \in SUBSET T, U # T, U \in Bad PROVE FALSE
  BY <1>3, <1>4 DEF StrictSubsetOrdering
<1> QED  BY <1>3, <1>4

-----------------------------------------------------------------------------
(* Sums *)

\* What the values W of the elements of S add up to.
Sum(W, S) == MapThenSumSet(LAMBDA x : W[x], S)

\* The element a fold takes next.
First(s) == CHOOSE x \in s : TRUE

\* f is the table of the sums of all subsets of S.
Table(W, S, f) ==
    f = [s \in SUBSET S |-> IF s = {} THEN 0 ELSE W[First(s)] + f[s \ {First(s)}]]

LEMMA FirstIsIn == \A s : s # {} => First(s) \in s
BY DEF First

LEMMA SumUnfolds ==
    ASSUME NEW W, NEW S
    PROVE  Sum(W, S) = (CHOOSE f : Table(W, S, f))[S]
BY DEF Sum, MapThenSumSet, MapThenFoldSet, Table, First

LEMMA OneTable ==
    ASSUME NEW W, NEW S, NEW T, IsFiniteSet(S), NEW f, NEW g, Table(W, S, f), Table(W, T, g),
           NEW U \in SUBSET (S \cap T)
    PROVE  f[U] = g[U]
<1> DEFINE Bad == {V \in SUBSET (S \cap T) : f[V] # g[V]}
<1>1. SUFFICES ASSUME Bad # {} PROVE FALSE
  OBVIOUS
<1>2. IsFiniteSet(S \cap T) /\ Bad \subseteq SUBSET (S \cap T)
  BY FS_Subset
<1>3. PICK V \in Bad : \A X \in (SUBSET V) \ {V} : X \notin Bad
  <2> HIDE DEF Bad
  <2> QED BY <1>1, <1>2, SmallestBad
<1>4. V \in SUBSET S /\ V \in SUBSET T
  OBVIOUS
<1>5. /\ f[V] = IF V = {} THEN 0 ELSE W[First(V)] + f[V \ {First(V)}]
      /\ g[V] = IF V = {} THEN 0 ELSE W[First(V)] + g[V \ {First(V)}]
  BY <1>4 DEF Table
<1>6. V # {}
  BY <1>5
<1>7. V \ {First(V)} \in (SUBSET V) \ {V}
  BY <1>6, FirstIsIn
<1>8. f[V \ {First(V)}] = g[V \ {First(V)}]
  BY <1>3, <1>7
<1> QED BY <1>5, <1>8

\* Every finite set has its table of sums.
LEMMA HasTable ==
    ASSUME NEW W, NEW S, IsFiniteSet(S)
    PROVE  \E f : Table(W, S, f)
<1> DEFINE Bad == {T \in SUBSET S : ~\E f : Table(W, T, f)}
<1>1. SUFFICES ASSUME Bad # {} PROVE FALSE
  OBVIOUS
<1>2. PICK T \in Bad : \A U \in (SUBSET T) \ {T} : U \notin Bad
  <2>1. Bad \subseteq SUBSET S
    OBVIOUS
  <2> HIDE DEF Bad
  <2> QED BY <1>1, <2>1, SmallestBad
<1> DEFINE tableOf == [U \in (SUBSET T) \ {T} |-> CHOOSE f : Table(W, U, f)]
           value(U) == tableOf[U][U]
           sum == [s \in SUBSET T |-> IF s = {} THEN 0 ELSE W[First(s)] + value(s \ {First(s)})]
<1>3. \A U \in (SUBSET T) \ {T} : Table(W, U, tableOf[U])
  BY <1>2
<1>4. \A U \in (SUBSET T) \ {T} : IsFiniteSet(U)
  BY FS_Subset
<1>5. ASSUME NEW s \in (SUBSET T) \ {T} PROVE value(s) = sum[s]
  <2>1. tableOf[s][s] = IF s = {} THEN 0 ELSE W[First(s)] + tableOf[s][s \ {First(s)}]
    <3> HIDE DEF tableOf
    <3> QED BY <1>3, <1>5 DEF Table
  <2>2. CASE s # {}
    <3> DEFINE r == s \ {First(s)}
    <3>1. r \in (SUBSET T) \ {T} /\ r \in SUBSET (s \cap r)
      BY <2>2, FirstIsIn
    <3>2. tableOf[s][r] = tableOf[r][r]
      <4>1. Table(W, s, tableOf[s]) /\ Table(W, r, tableOf[r]) /\ IsFiniteSet(s)
        BY <1>3, <1>4, <1>5, <3>1
      <4>2. r \in SUBSET (s \cap r)
        BY <3>1
      <4>3. \A a, b : Table(W, s, a) /\ Table(W, r, b) => a[r] = b[r]
        <5> HIDE DEF r
        <5> QED BY <4>1, <4>2, OneTable
      <4> HIDE DEF tableOf, r
      <4> QED BY <4>1, <4>3
    <3> QED BY <2>1, <2>2, <3>2
  <2> QED BY <2>1, <2>2
<1>6. Table(W, T, sum)
  <2>1. ASSUME NEW s \in SUBSET T, s # {}
        PROVE  value(s \ {First(s)}) = sum[s \ {First(s)}]
    <3>1. s \ {First(s)} \in (SUBSET T) \ {T}
      BY <2>1, FirstIsIn
    <3> HIDE DEF value, sum
    <3> QED BY <1>5, <3>1
  <2> HIDE DEF value
  <2> QED BY <2>1 DEF Table
<1> QED BY <1>6

\* One step of a fold.
LEMMA SumStep ==
    ASSUME NEW W, NEW S, IsFiniteSet(S), S # {}
    PROVE  Sum(W, S) = W[First(S)] + Sum(W, S \ {First(S)})
<1> DEFINE R == S \ {First(S)}
           f == CHOOSE h : Table(W, S, h)
           g == CHOOSE h : Table(W, R, h)
<1>1. IsFiniteSet(R) /\ R \in SUBSET (S \cap R)
  BY FS_Subset
<1>2. Table(W, S, f) /\ Table(W, R, g)
  <2> HIDE DEF R
  <2> QED BY <1>1, HasTable
<1>3. f[R] = g[R]
  <2> HIDE DEF f, g, R
  <2> QED BY <1>1, <1>2, OneTable
<1>4. f[S] = W[First(S)] + f[R]
  <2> HIDE DEF f
  <2> QED BY <1>2 DEF Table
<1>5. Sum(W, S) = f[S] /\ Sum(W, R) = g[R]
  <2> HIDE DEF R
  <2> QED BY SumUnfolds
<1> QED BY <1>3, <1>4, <1>5

LEMMA SumEmpty == \A W : Sum(W, {}) = 0
<1> SUFFICES ASSUME NEW W PROVE Sum(W, {}) = 0
  OBVIOUS
<1> DEFINE f == CHOOSE h : Table(W, {}, h)
<1>1. Table(W, {}, f)
  BY HasTable, FS_EmptySet
<1>2. f[{}] = 0
  <2> HIDE DEF f
  <2> QED BY <1>1 DEF Table
<1> QED BY <1>2, SumUnfolds

\* A sum of integers is one, whichever element is taken out of it first.
LEMMA SumParts ==
    ASSUME NEW W, NEW S, IsFiniteSet(S), \A x \in S : W[x] \in Int
    PROVE  /\ Sum(W, S) \in Int
           /\ \A x \in S : Sum(W, S) = W[x] + Sum(W, S \ {x})
<1> DEFINE Good(T) == /\ Sum(W, T) \in Int
                      /\ \A x \in T : Sum(W, T) = W[x] + Sum(W, T \ {x})
           Bad == {T \in SUBSET S : ~Good(T)}
<1>1. SUFFICES ASSUME Bad # {} PROVE FALSE
  OBVIOUS
<1>2. PICK T \in Bad : \A U \in (SUBSET T) \ {T} : U \notin Bad
  <2>1. Bad \subseteq SUBSET S
    OBVIOUS
  <2> HIDE DEF Bad
  <2> QED BY <1>1, <2>1, SmallestBad
<1>3. T \in SUBSET S /\ ~Good(T) /\ \A U \in (SUBSET T) \ {T} : Good(U)
  BY <1>2
<1> HIDE DEF Bad
<1>4. T # {}
  <2>1. Good({})
    BY SumEmpty
  <2> QED BY <1>3, <2>1
<1> DEFINE c == First(T)
<1>5. c \in T /\ T \ {c} \in (SUBSET T) \ {T} /\ W[c] \in Int
  BY <1>3, <1>4, FirstIsIn
<1>6. Sum(W, T) = W[c] + Sum(W, T \ {c})
  BY <1>3, <1>4, SumStep, FS_Subset
<1> HIDE DEF c
<1>7. Sum(W, T) \in Int
  BY <1>3, <1>5, <1>6
<1>8. ASSUME NEW x \in T PROVE Sum(W, T) = W[x] + Sum(W, T \ {x})
  <2>1. CASE x = c
    BY <1>6, <2>1
  <2>2. CASE x # c
    <3>1. /\ x \in T \ {c} /\ c \in T \ {x} /\ T \ {x} \in (SUBSET T) \ {T}
          /\ (T \ {c}) \ {x} = (T \ {x}) \ {c} /\ (T \ {x}) \ {c} \in (SUBSET T) \ {T}
      BY <1>5, <2>2
    <3>2. Good(T \ {c}) /\ Good(T \ {x}) /\ Good((T \ {x}) \ {c})
      BY <1>3, <1>5, <3>1
    <3>3. /\ Sum(W, T \ {c}) = W[x] + Sum(W, (T \ {x}) \ {c})
          /\ Sum(W, T \ {x}) = W[c] + Sum(W, (T \ {x}) \ {c})
          /\ Sum(W, (T \ {x}) \ {c}) \in Int
      BY <3>1, <3>2
    <3>4. W[x] \in Int
      BY <1>3
    <3> HIDE DEF Good
    <3> QED BY <1>5, <1>6, <3>3, <3>4
  <2> QED BY <2>1, <2>2
<1> QED BY <1>3, <1>7, <1>8

LEMMA SumAdd ==
    ASSUME NEW W, NEW S, IsFiniteSet(S), \A x \in S : W[x] \in Int, NEW y, y \notin S, W[y] \in Int
    PROVE  Sum(W, S \cup {y}) = W[y] + Sum(W, S)
<1> DEFINE T == S \cup {y}
<1>1. IsFiniteSet(T) /\ (\A x \in T : W[x] \in Int) /\ y \in T /\ T \ {y} = S
  BY FS_AddElement
<1> HIDE DEF T
<1>2. Sum(W, T) = W[y] + Sum(W, T \ {y})
  BY <1>1, SumParts
<1> QED BY <1>1, <1>2 DEF T

\* Only the values of the elements matter.
LEMMA SumAgrees ==
    ASSUME NEW V, NEW W, NEW S, IsFiniteSet(S), \A x \in S : V[x] = W[x]
    PROVE  Sum(V, S) = Sum(W, S)
<1> DEFINE Bad == {T \in SUBSET S : Sum(V, T) # Sum(W, T)}
<1>1. SUFFICES ASSUME Bad # {} PROVE FALSE
  OBVIOUS
<1>2. PICK T \in Bad : \A U \in (SUBSET T) \ {T} : U \notin Bad
  <2>1. Bad \subseteq SUBSET S
    OBVIOUS
  <2> HIDE DEF Bad
  <2> QED BY <1>1, <2>1, SmallestBad
<1>3. T \in SUBSET S /\ IsFiniteSet(T) /\ Sum(V, T) # Sum(W, T)
  BY <1>2, FS_Subset
<1>4. T # {}
  BY <1>3, SumEmpty
<1>5. First(T) \in T /\ T \ {First(T)} \in (SUBSET T) \ {T}
  BY <1>4, FirstIsIn
<1>6. Sum(V, T \ {First(T)}) = Sum(W, T \ {First(T)})
  BY <1>2, <1>5
<1> HIDE DEF Bad
<1> QED BY <1>3, <1>4, <1>5, <1>6, SumStep

\* A sum over two sets is the sum over the one and over the other.
LEMMA SumOfTwo ==
    ASSUME NEW W, NEW S, NEW T, IsFiniteSet(S), IsFiniteSet(T), S \cap T = {},
           \A x \in S \cup T : W[x] \in Int
    PROVE  Sum(W, S \cup T) = Sum(W, S) + Sum(W, T)
<1> DEFINE Bad == {U \in SUBSET T : Sum(W, S \cup U) # Sum(W, S) + Sum(W, U)}
<1>1. SUFFICES ASSUME Bad # {} PROVE FALSE
  OBVIOUS
<1>2. PICK U \in Bad : \A X \in (SUBSET U) \ {U} : X \notin Bad
  <2>1. Bad \subseteq SUBSET T
    OBVIOUS
  <2> HIDE DEF Bad
  <2> QED BY <1>1, <2>1, SmallestBad
<1>3. U \in SUBSET T /\ Sum(W, S \cup U) # Sum(W, S) + Sum(W, U)
  BY <1>2
<1>4. Sum(W, S) \in Int
  BY SumParts
<1>5. U # {}
  <2>1. SUFFICES ASSUME U = {} PROVE FALSE
    OBVIOUS
  <2>2. S \cup U = S /\ Sum(W, U) = 0
    BY <2>1, SumEmpty
  <2>3. Sum(W, S) + 0 = Sum(W, S)
    BY <1>4
  <2> QED BY <1>3, <2>2, <2>3
<1>6. PICK y \in U : TRUE
  BY <1>5
<1> DEFINE R == U \ {y}
<1>7. Sum(W, S \cup R) = Sum(W, S) + Sum(W, R)
  <2>1. R \in (SUBSET U) \ {U} /\ R \in SUBSET T
    BY <1>3
  <2> QED BY <1>2, <2>1
<1>8. /\ IsFiniteSet(R) /\ IsFiniteSet(S \cup R) /\ W[y] \in Int
      /\ \A x \in S \cup R : W[x] \in Int
      /\ y \notin R /\ y \notin S \cup R
      /\ R \cup {y} = U /\ (S \cup R) \cup {y} = S \cup U
  BY <1>3, FS_Subset, FS_Union
<1> HIDE DEF R, Bad
<1>9. Sum(W, U) = W[y] + Sum(W, R) /\ Sum(W, S \cup U) = W[y] + Sum(W, S \cup R)
  <2>1. Sum(W, R \cup {y}) = W[y] + Sum(W, R)
    BY <1>8, SumAdd
  <2>2. Sum(W, (S \cup R) \cup {y}) = W[y] + Sum(W, S \cup R)
    BY <1>8, SumAdd
  <2> QED BY <1>8, <2>1, <2>2
<1>10. Sum(W, R) \in Int
  BY <1>8, SumParts
<1> QED BY <1>3, <1>4, <1>7, <1>8, <1>9, <1>10

\* Nothing negative is added.
LEMMA SumIsNat ==
    ASSUME NEW W, NEW S, IsFiniteSet(S), \A x \in S : W[x] \in Nat
    PROVE  Sum(W, S) \in Nat
<1> DEFINE Bad == {T \in SUBSET S : Sum(W, T) \notin Nat}
<1>1. SUFFICES ASSUME Bad # {} PROVE FALSE
  OBVIOUS
<1>2. PICK T \in Bad : \A U \in (SUBSET T) \ {T} : U \notin Bad
  <2>1. Bad \subseteq SUBSET S
    OBVIOUS
  <2> HIDE DEF Bad
  <2> QED BY <1>1, <2>1, SmallestBad
<1>3. T \in SUBSET S /\ IsFiniteSet(T) /\ Sum(W, T) \notin Nat
  BY <1>2, FS_Subset
<1>4. T # {}
  BY <1>3, SumEmpty
<1>5. First(T) \in T /\ T \ {First(T)} \in (SUBSET T) \ {T}
  BY <1>4, FirstIsIn
<1>6. Sum(W, T \ {First(T)}) \in Nat /\ W[First(T)] \in Nat
  BY <1>2, <1>3, <1>5
<1> HIDE DEF Bad
<1>7. Sum(W, T) = W[First(T)] + Sum(W, T \ {First(T)})
  BY <1>3, <1>4, SumStep
<1> QED BY <1>3, <1>6, <1>7

LEMMA SumGrows ==
    ASSUME NEW W, NEW S, IsFiniteSet(S), \A x \in S : W[x] \in Nat, NEW T \in SUBSET S
    PROVE  Sum(W, T) <= Sum(W, S)
<1>1. IsFiniteSet(T) /\ IsFiniteSet(S \ T) /\ T \cap (S \ T) = {} /\ T \cup (S \ T) = S
      /\ \A x \in T \cup (S \ T) : W[x] \in Int
  BY FS_Subset
<1>2. Sum(W, T \cup (S \ T)) = Sum(W, T) + Sum(W, S \ T)
  BY <1>1, SumOfTwo
<1>3. Sum(W, T) \in Nat /\ Sum(W, S \ T) \in Nat
  BY <1>1, SumIsNat
<1>4. Sum(W, S) = Sum(W, T) + Sum(W, S \ T)
  BY <1>1, <1>2
<1> QED BY <1>3, <1>4

\* The sum of a function's values, and what one more of them adds to it.
LEMMA SumOfFunction == \A f : SumFunction(f) = Sum(f, DOMAIN f)
BY DEF SumFunction, SumFunctionOnSet, FoldFunctionOnSet, Sum, MapThenSumSet

LEMMA SumWith ==
    ASSUME NEW f, NEW g, NEW y, IsFiniteSet(DOMAIN f), y \notin DOMAIN f,
           DOMAIN g = (DOMAIN f) \cup {y}, g[y] \in Int,
           \A x \in DOMAIN f : f[x] \in Int /\ g[x] = f[x]
    PROVE  SumFunction(g) = SumFunction(f) + g[y] /\ SumFunction(f) \in Int
<1> DEFINE S == DOMAIN f
<1>1. Sum(g, S) = Sum(f, S) /\ Sum(f, S) \in Int
  BY SumAgrees, SumParts
<1>2. Sum(g, S \cup {y}) = g[y] + Sum(g, S)
  BY SumAdd
<1>3. SumFunction(f) = Sum(f, S) /\ SumFunction(g) = Sum(g, S \cup {y})
  BY SumOfFunction
<1> QED BY <1>1, <1>2, <1>3

\* A sum of larger values is larger.
LEMMA SumRises ==
    ASSUME NEW V, NEW W, NEW S, IsFiniteSet(S),
           \A x \in S : V[x] \in Int /\ W[x] \in Int /\ V[x] <= W[x]
    PROVE  Sum(V, S) <= Sum(W, S)
<1> DEFINE D == [x \in S |-> W[x] - V[x]]
           Bad == {T \in SUBSET S : ~(Sum(V, T) <= Sum(W, T))}
<1>1. SUFFICES ASSUME Bad # {} PROVE FALSE
  OBVIOUS
<1>2. PICK T \in Bad : \A U \in (SUBSET T) \ {T} : U \notin Bad
  <2>1. Bad \subseteq SUBSET S
    OBVIOUS
  <2> HIDE DEF Bad
  <2> QED BY <1>1, <2>1, SmallestBad
<1>3. T \in SUBSET S /\ IsFiniteSet(T) /\ ~(Sum(V, T) <= Sum(W, T))
  BY <1>2, FS_Subset
<1>4. T # {}
  <2>1. SUFFICES ASSUME T = {} PROVE FALSE
    OBVIOUS
  <2>2. Sum(V, T) = 0 /\ Sum(W, T) = 0
    BY <2>1, SumEmpty
  <2> QED BY <1>3, <2>2
<1>5. PICK y \in T : TRUE
  BY <1>4
<1>6. Sum(V, T \ {y}) <= Sum(W, T \ {y})
  BY <1>2
<1> HIDE DEF Bad
<1>7. Sum(V, T) = V[y] + Sum(V, T \ {y}) /\ Sum(W, T) = W[y] + Sum(W, T \ {y})
  BY <1>3, SumParts
<1>8. Sum(V, T \ {y}) \in Int /\ Sum(W, T \ {y}) \in Int
  <2>1. IsFiniteSet(T \ {y}) /\ T \ {y} \in SUBSET S
    BY <1>3, FS_Subset
  <2> QED BY <2>1, SumParts
<1>9. V[y] \in Int /\ W[y] \in Int /\ V[y] <= W[y]
  BY <1>3
<1> QED BY <1>3, <1>6, <1>7, <1>8, <1>9

\* A set is counted by a sum of ones.
LEMMA SumOfOnes ==
    ASSUME NEW W, NEW S, IsFiniteSet(S), \A x \in S : W[x] = 1
    PROVE  Sum(W, S) = Cardinality(S)
<1> DEFINE Bad == {T \in SUBSET S : Sum(W, T) # Cardinality(T)}
<1>1. SUFFICES ASSUME Bad # {} PROVE FALSE
  OBVIOUS
<1>2. PICK T \in Bad : \A U \in (SUBSET T) \ {T} : U \notin Bad
  <2>1. Bad \subseteq SUBSET S
    OBVIOUS
  <2> HIDE DEF Bad
  <2> QED BY <1>1, <2>1, SmallestBad
<1>3. T \in SUBSET S /\ IsFiniteSet(T) /\ Sum(W, T) # Cardinality(T)
  BY <1>2, FS_Subset
<1>4. T # {}
  BY <1>3, SumEmpty, FS_EmptySet
<1>5. PICK y \in T : TRUE
  BY <1>4
<1>6. Sum(W, T \ {y}) = Cardinality(T \ {y})
  BY <1>2
<1> HIDE DEF Bad
<1>7. Sum(W, T) = W[y] + Sum(W, T \ {y}) /\ W[y] = 1
  BY <1>3, SumParts
<1>8. Cardinality(T) = Cardinality(T \ {y}) + 1 /\ Cardinality(T \ {y}) \in Nat
  <2>1. IsFiniteSet(T \ {y}) /\ y \notin T \ {y} /\ (T \ {y}) \cup {y} = T
    BY <1>3, FS_Subset
  <2>2. Cardinality((T \ {y}) \cup {y}) = Cardinality(T \ {y}) + 1
    BY <2>1, FS_AddElement
  <2> QED BY <2>1, <2>2, FS_CardinalityType
<1> QED BY <1>3, <1>6, <1>7, <1>8

\* The union of the parts X.
Whole(X, R) == UNION {X[d] : d \in R}

LEMMA WholeIsFinite ==
    ASSUME NEW X, NEW R, IsFiniteSet(R), \A d \in R : IsFiniteSet(X[d])
    PROVE  IsFiniteSet(Whole(X, R))
<1> DEFINE Bad == {T \in SUBSET R : ~IsFiniteSet(Whole(X, T))}
<1>1. SUFFICES ASSUME Bad # {} PROVE FALSE
  OBVIOUS
<1>2. PICK T \in Bad : \A U \in (SUBSET T) \ {T} : U \notin Bad
  <2>1. Bad \subseteq SUBSET R
    OBVIOUS
  <2> HIDE DEF Bad
  <2> QED BY <1>1, <2>1, SmallestBad
<1>3. T \in SUBSET R /\ ~IsFiniteSet(Whole(X, T))
  BY <1>2
<1>4. T # {}
  <2>1. SUFFICES ASSUME T = {} PROVE FALSE
    OBVIOUS
  <2>2. Whole(X, T) = {}
    BY <2>1 DEF Whole
  <2> QED BY <1>3, <2>2, FS_EmptySet
<1>5. PICK d \in T : TRUE
  BY <1>4
<1>6. IsFiniteSet(Whole(X, T \ {d})) /\ IsFiniteSet(X[d])
  BY <1>2, <1>3
<1>7. Whole(X, T) = Whole(X, T \ {d}) \cup X[d]
  BY DEF Whole
<1> QED BY <1>3, <1>6, <1>7, FS_Union

\* What the parts add up to is the sum over their union.
LEMMA SumOfSums ==
    ASSUME NEW W, NEW X, NEW t, NEW R, IsFiniteSet(R),
           \A d \in R : IsFiniteSet(X[d]) /\ t[d] = Sum(W, X[d]),
           \A d \in R : \A x \in X[d] : W[x] \in Int,
           \A d, e \in R : d # e => X[d] \cap X[e] = {}
    PROVE  Sum(t, R) = Sum(W, Whole(X, R))
<1> DEFINE Bad == {T \in SUBSET R : Sum(t, T) # Sum(W, Whole(X, T))}
<1>1. SUFFICES ASSUME Bad # {} PROVE FALSE
  OBVIOUS
<1>2. PICK T \in Bad : \A U \in (SUBSET T) \ {T} : U \notin Bad
  <2>1. Bad \subseteq SUBSET R
    OBVIOUS
  <2> HIDE DEF Bad
  <2> QED BY <1>1, <2>1, SmallestBad
<1>3. T \in SUBSET R /\ IsFiniteSet(T) /\ Sum(t, T) # Sum(W, Whole(X, T))
  BY <1>2, FS_Subset
<1>4. T # {}
  <2>1. SUFFICES ASSUME T = {} PROVE FALSE
    OBVIOUS
  <2>2. Whole(X, T) = {}
    BY <2>1 DEF Whole
  <2> QED BY <1>3, <2>1, <2>2, SumEmpty
<1>5. PICK d \in T : TRUE
  BY <1>4
<1> DEFINE U == T \ {d}
<1>6. Sum(t, U) = Sum(W, Whole(X, U)) /\ U \in SUBSET R /\ IsFiniteSet(U)
  BY <1>2, <1>3, FS_Subset
<1>7. Whole(X, T) = Whole(X, U) \cup X[d] /\ Whole(X, U) \cap X[d] = {}
  <2>1. Whole(X, T) = Whole(X, U) \cup X[d]
    BY DEF Whole
  <2>2. \A e \in U : X[e] \cap X[d] = {}
    BY <1>3
  <2> QED BY <2>1, <2>2 DEF Whole
<1>8. IsFiniteSet(Whole(X, U)) /\ IsFiniteSet(X[d])
  BY <1>3, <1>6, WholeIsFinite
<1>9. \A x \in Whole(X, U) \cup X[d] : W[x] \in Int
  BY <1>3 DEF Whole
<1> HIDE DEF Bad, U
<1>10. Sum(W, Whole(X, T)) = Sum(W, Whole(X, U)) + Sum(W, X[d])
  BY <1>7, <1>8, <1>9, SumOfTwo
<1>11. Sum(t, T) = t[d] + Sum(t, U)
  <2>1. \A e \in T : t[e] \in Int
    BY <1>3, SumParts
  <2> QED BY <1>3, <2>1, SumParts DEF U
<1>12. t[d] = Sum(W, X[d]) /\ t[d] \in Int /\ Sum(W, Whole(X, U)) \in Int
  BY <1>3, <1>8, <1>9, SumParts
<1> QED BY <1>3, <1>6, <1>10, <1>11, <1>12

\* The image of a finite set under a function.
LEMMA ImageIsFinite ==
    ASSUME NEW W, NEW S, IsFiniteSet(S)
    PROVE  IsFiniteSet({W[x] : x \in S})
<1> DEFINE Bad == {T \in SUBSET S : ~IsFiniteSet({W[x] : x \in T})}
<1>1. SUFFICES ASSUME Bad # {} PROVE FALSE
  OBVIOUS
<1>2. PICK T \in Bad : \A U \in (SUBSET T) \ {T} : U \notin Bad
  <2>1. Bad \subseteq SUBSET S
    OBVIOUS
  <2> HIDE DEF Bad
  <2> QED BY <1>1, <2>1, SmallestBad
<1>3. T \in SUBSET S /\ ~IsFiniteSet({W[x] : x \in T})
  BY <1>2
<1>4. T # {}
  <2>1. SUFFICES ASSUME T = {} PROVE FALSE
    OBVIOUS
  <2>2. {W[x] : x \in T} = {}
    BY <2>1
  <2> QED BY <1>3, <2>2, FS_EmptySet
<1>5. PICK y \in T : TRUE
  BY <1>4
<1>6. IsFiniteSet({W[x] : x \in T \ {y}})
  BY <1>2, <1>3
<1>7. {W[x] : x \in T} = {W[x] : x \in T \ {y}} \cup {W[y]}
  OBVIOUS
<1> DEFINE I == {W[x] : x \in T \ {y}}
<1>8. IsFiniteSet(I \cup {W[y]})
  <2> HIDE DEF I
  <2> QED BY <1>6, FS_AddElement DEF I
<1> QED BY <1>3, <1>7, <1>8

\* Disjoint parts are counted by adding up their sizes.
LEMMA CardOfParts ==
    ASSUME NEW X, NEW t, NEW R, IsFiniteSet(R),
           \A d \in R : IsFiniteSet(X[d]) /\ t[d] = Cardinality(X[d]),
           \A d, e \in R : d # e => X[d] \cap X[e] = {}
    PROVE  Sum(t, R) = Cardinality(Whole(X, R))
<1> DEFINE W == [x \in Whole(X, R) |-> 1]
<1>1. IsFiniteSet(Whole(X, R))
  BY WholeIsFinite
<1>2. \A d \in R : \A x \in X[d] : W[x] = 1
  BY DEF Whole
<1>3. \A x \in Whole(X, R) : W[x] = 1
  OBVIOUS
<1> HIDE DEF W
<1>4. \A d \in R : IsFiniteSet(X[d]) /\ t[d] = Sum(W, X[d])
  BY <1>2, SumOfOnes
<1>5. \A d \in R : \A x \in X[d] : W[x] \in Int
  BY <1>2
<1>6. Sum(t, R) = Sum(W, Whole(X, R))
  BY <1>4, <1>5, SumOfSums
<1>7. Sum(W, Whole(X, R)) = Cardinality(Whole(X, R))
  <2> DEFINE Z == Whole(X, R)
  <2> HIDE DEF Z
  <2> QED BY <1>1, <1>3, SumOfOnes DEF Z
<1> QED BY <1>6, <1>7

-----------------------------------------------------------------------------
(* Finite sets of numbers, which are listed by CHOOSE *)

\* q lists the elements of S, the smallest first.
Increasing(S, q) ==
    /\ q \in [1 .. Cardinality(S) -> S]
    /\ \A i, j \in 1 .. Cardinality(S) : i < j => q[i] < q[j]
    /\ \A x \in S : \E i \in 1 .. Cardinality(S) : q[i] = x

\* A finite set of numbers has a largest.
LEMMA LargestOfFinite ==
    ASSUME NEW S, S \subseteq Nat, IsFiniteSet(S), S # {}
    PROVE  \E m \in S : \A x \in S : x <= m
<1> DEFINE Good(T) == \E m \in T : \A x \in T : x <= m
           Bad == {T \in SUBSET S : T # {} /\ ~Good(T)}
<1>1. SUFFICES ASSUME Bad # {} PROVE FALSE
  OBVIOUS
<1>2. Bad \subseteq SUBSET S
  OBVIOUS
<1>3. PICK T \in Bad : \A U \in (SUBSET T) \ {T} : U \notin Bad
  <2> HIDE DEF Bad
  <2> QED  BY <1>1, <1>2, SmallestBad
<1>4. PICK y \in T : TRUE
  OBVIOUS
<1>5. T \ {y} # {}
  <2>1. SUFFICES ASSUME T \ {y} = {} PROVE FALSE OBVIOUS
  <2>2. \A x \in T : x <= y  BY <2>1
  <2> QED BY <2>2
<1>6. Good(T \ {y})
  BY <1>3, <1>5
<1>7. PICK m \in T \ {y} : \A x \in T \ {y} : x <= m
  BY <1>6
<1>8. m \in Nat /\ y \in Nat
  OBVIOUS
<1>9. CASE y <= m
  <2>1. \A x \in T : x <= m BY <1>7, <1>9
  <2> QED BY <2>1
<1>10. CASE m < y
  <2>1. \A x \in T : x <= y BY <1>7, <1>8, <1>10
  <2> QED BY <2>1
<1> QED  BY <1>8, <1>9, <1>10

\* Every finite set of numbers is listed by some increasing function.
LEMMA Enumeration ==
    ASSUME NEW S, S \subseteq Nat, IsFiniteSet(S)
    PROVE  \E q : Increasing(S, q)
<1> DEFINE Good(T) == \E q : Increasing(T, q)
           Bad == {T \in SUBSET S : ~Good(T)}
<1>1. SUFFICES ASSUME Bad # {} PROVE FALSE
  OBVIOUS
<1>2. Bad \subseteq SUBSET S
  OBVIOUS
<1>3. PICK T \in Bad : \A U \in (SUBSET T) \ {T} : U \notin Bad
  <2> HIDE DEF Bad
  <2> QED  BY <1>1, <1>2, SmallestBad
<1>4. T \subseteq Nat /\ IsFiniteSet(T) /\ Cardinality(T) \in Nat
  BY FS_Subset, FS_CardinalityType
<1>5. T # {}
  <2>1. SUFFICES ASSUME T = {} PROVE Good(T)
    OBVIOUS
  <2>2. Cardinality(T) = 0  BY <2>1, FS_EmptySet
  <2>3. Increasing(T, [i \in 1 .. 0 |-> 0])  BY <2>1, <2>2 DEF Increasing
  <2> QED  BY <2>3
<1>6. PICK m \in T : \A x \in T : x <= m
  BY <1>4, <1>5, LargestOfFinite
<1> DEFINE U == T \ {m}
           n == Cardinality(T)
<1>7. IsFiniteSet(U) /\ Cardinality(U) = n - 1 /\ n \in Nat /\ n > 0
  <2>1. IsFiniteSet(U) /\ Cardinality(U) = n - 1  BY <1>4, FS_RemoveElement
  <2>2. Cardinality(U) \in Nat  BY <2>1, FS_CardinalityType
  <2> QED  BY <2>1, <2>2, <1>4
<1>8. PICK p : Increasing(U, p)
  <2>1. U \in (SUBSET T) \ {T}  BY <1>6
  <2>2. U \notin Bad  BY <2>1, <1>3
  <2> QED  BY <2>2
<1> DEFINE q == [i \in 1 .. n |-> IF i = n THEN m ELSE p[i]]
<1> HIDE DEF U, n
<1>9. /\ p \in [1 .. n - 1 -> U]
      /\ \A i, j \in 1 .. n - 1 : i < j => p[i] < p[j]
      /\ \A x \in U : \E i \in 1 .. n - 1 : p[i] = x
  BY <1>7, <1>8 DEF Increasing
<1>10. U = T \ {m}
  BY DEF U
<1>11. q \in [1 .. n -> T]
  BY <1>7, <1>9, <1>10
<1>12. ASSUME NEW i \in 1 .. n, NEW j \in 1 .. n, i < j PROVE q[i] < q[j]
  <2>1. i \in 1 .. n - 1  BY <1>7, <1>12
  <2>2. p[i] \in Nat /\ p[i] <= m /\ p[i] # m /\ m \in Nat BY <2>1, <1>9, <1>10, <1>6, <1>4
  <2>3. CASE j = n  BY <2>1, <2>2, <2>3, <1>7
  <2>4. CASE j # n
    <3>1. j \in 1 .. n - 1  BY <2>4, <1>7
    <3> QED  BY <3>1, <2>1, <1>7, <1>9, <1>12
  <2> QED  BY <2>3, <2>4
<1>13. ASSUME NEW x \in T PROVE \E i \in 1 .. n : q[i] = x
  <2>1. CASE x = m
    <3>1. n \in 1 .. n /\ q[n] = x BY <2>1, <1>7
    <3> QED BY <3>1
  <2>2. CASE x # m
    <3>1. PICK i \in 1 .. n - 1 : p[i] = x  BY <2>2, <1>9, <1>10
    <3>2. i \in 1 .. n /\ q[i] = x  BY <3>1, <1>7
    <3> QED BY <3>2
  <2> QED  BY <2>1, <2>2
<1> HIDE DEF q
<1>14. Increasing(T, q)
  BY <1>11, <1>12, <1>13 DEF Increasing, n
<1> QED  BY <1>14

\* What CHOOSE may pick as the sorted list is a list of all elements.
LEMMA Ordering ==
    ASSUME NEW S, S \subseteq Nat, IsFiniteSet(S)
    PROVE  /\ Cardinality(S) \in Nat
           /\ \E q \in [1 .. Cardinality(S) -> S] : \A i, j \in 1 .. Cardinality(S) : i < j => q[i] < q[j]
           /\ \A q \in [1 .. Cardinality(S) -> S] :
                 (\A i, j \in 1 .. Cardinality(S) : i < j => q[i] < q[j]) => Increasing(S, q)
<1> DEFINE n == Cardinality(S)
<1>1. n \in Nat
  BY FS_CardinalityType
<1>2. \E q \in [1 .. n -> S] : \A i, j \in 1 .. n : i < j => q[i] < q[j]
  BY Enumeration DEF Increasing
<1>3. ASSUME NEW q \in [1 .. n -> S], \A i, j \in 1 .. n : i < j => q[i] < q[j]
      PROVE  Increasing(S, q)
  <2>1. q \in Injection(1 .. n, S)
    <3>1. ASSUME NEW i \in 1 .. n, NEW j \in 1 .. n, q[i] = q[j] PROVE i = j
      <4>1. q[i] \in Nat /\ q[j] \in Nat
        OBVIOUS
      <4>2. ~(i < j) /\ ~(j < i)
        BY <4>1, <1>3, <3>1
      <4> QED  BY <4>2, <1>1
    <3> QED  BY <3>1 DEF Injection, IsInjective
  <2>2. Cardinality(1 .. n) = n
    BY <1>1, FS_Interval
  <2>3. q \in Surjection(1 .. n, S)
    BY <2>1, <2>2, FS_Injection
  <2>4. \A x \in S : \E i \in 1 .. n : q[i] = x
    BY <2>3 DEF Surjection
  <2> QED  BY <1>3, <2>4 DEF Increasing
<1> QED  BY <1>1, <1>2, <1>3
=============================================================================
