----------------------------- MODULE SumLemmas -----------------------------
(***************************************************************************)
(* Sums of the values of a function over a finite set: what becomes of     *)
(* them when a value or the set changes.  SumFunctionOnSet is defined by   *)
(* recursion over the subsets of the set, and the lemmas by induction      *)
(* over them, which is stated for a set of sets, not for an operator.      *)
(***************************************************************************)
EXTENDS Integers, Functions, FiniteSetTheorems, WellFoundedInduction, TLAPS

(***************************************************************************)
(* Induction over the subsets of a finite set.                             *)
(***************************************************************************)
LEMMA SubsetInduction ==
    ASSUME NEW S, IsFiniteSet(S), NEW G,
           \A T \in SUBSET S : (\A x \in T : T \ {x} \in G) => T \in G
    PROVE  S \in G
<1> DEFINE Bad == {n \in Nat : \E T \in SUBSET S : T \notin G /\ Cardinality(T) = n}
<1>1. SUFFICES ASSUME Bad # {} PROVE FALSE
  BY FS_CardinalityType
<1>2. PICK n \in Bad : \A m \in Bad : ~(<<m, n>> \in OpToRel(<, Nat))
  <2>1. Bad \subseteq Nat
    OBVIOUS
  <2> HIDE DEF Bad
  <2> QED BY <1>1, <2>1, NatLessThanWellFounded, WFMin
<1>3. PICK T \in SUBSET S : T \notin G /\ Cardinality(T) = n
  BY <1>2
<1>4. IsFiniteSet(T) /\ Cardinality(T) \in Nat
  BY FS_Subset, FS_CardinalityType
<1>5. ASSUME NEW x \in T PROVE T \ {x} \in G
  <2>1. IsFiniteSet(T \ {x}) /\ Cardinality(T \ {x}) = Cardinality(T) - 1
    BY <1>4, FS_RemoveElement
  <2>2. Cardinality(T \ {x}) \in Nat
    BY <2>1, FS_CardinalityType
  <2>3. n - 1 \in Nat /\ Cardinality(T \ {x}) = n - 1
    BY <1>3, <2>1, <2>2
  <2>4. <<n - 1, n>> \in OpToRel(<, Nat)
    BY <1>2, <2>3 DEF OpToRel
  <2>5. n - 1 \notin Bad
    BY <1>2, <2>4
  <2> QED BY <2>3, <2>5
<1> QED BY <1>3, <1>5

(***************************************************************************)
(* The recursive definition defines a function, and only one.              *)
(***************************************************************************)
\* g holds the sum of f over each subset of T.
IsTable(f, T, g) ==
    g = [U \in SUBSET T |-> IF U = {} THEN 0
                            ELSE LET x == CHOOSE x \in U : TRUE IN f[x] + g[U \ {x}]]

Table(f, T) == CHOOSE g : IsTable(f, T, g)

LEMMA SumIsInTable == \A f, T : SumFunctionOnSet(f, T) = Table(f, T)[T]
BY DEF SumFunctionOnSet, FoldFunctionOnSet, MapThenFoldSet, Table, IsTable

LEMMA OneTable ==
    ASSUME NEW f, NEW S, IsFiniteSet(S), NEW g, NEW h, IsTable(f, S, g), IsTable(f, S, h)
    PROVE  g = h
<1> DEFINE G == {T \in SUBSET S : g[T] = h[T]}
<1>1. ASSUME NEW T \in SUBSET S PROVE T \in G
  <2>1. IsFiniteSet(T)
    BY FS_Subset
  <2>2. ASSUME NEW U \in SUBSET T, \A x \in U : U \ {x} \in G PROVE U \in G
    <3> DEFINE c == CHOOSE x \in U : TRUE
    <3>1. CASE U = {}
      BY <3>1 DEF IsTable
    <3>2. CASE U # {}
      <4>1. c \in U
        BY <3>2
      <4>2. g[U \ {c}] = h[U \ {c}]
        BY <2>2, <4>1
      <4>3. g[U] = f[c] + g[U \ {c}] /\ h[U] = f[c] + h[U \ {c}]
        BY <3>2 DEF IsTable
      <4> QED BY <4>2, <4>3
    <3> QED BY <3>1, <3>2
  <2> HIDE DEF G
  <2> QED BY <2>1, <2>2, SubsetInduction
<1>2. g = [T \in SUBSET S |-> g[T]] /\ h = [T \in SUBSET S |-> h[T]]
  BY DEF IsTable
<1> QED BY <1>1, <1>2

LEMMA TableOfSubset ==
    ASSUME NEW f, NEW S, NEW g, IsTable(f, S, g), NEW T \in SUBSET S
    PROVE  IsTable(f, T, [U \in SUBSET T |-> g[U]])
<1> DEFINE h == [U \in SUBSET T |-> g[U]]
<1>1. ASSUME NEW U \in SUBSET T
      PROVE  h[U] = IF U = {} THEN 0
                    ELSE LET x == CHOOSE x \in U : TRUE IN f[x] + h[U \ {x}]
  <2>1. U \in SUBSET S
    OBVIOUS
  <2>2. g[U] = IF U = {} THEN 0
               ELSE LET x == CHOOSE x \in U : TRUE IN f[x] + g[U \ {x}]
    BY <2>1 DEF IsTable
  <2>3. h[U] = g[U] /\ \A x \in U : h[U \ {x}] = g[U \ {x}]
    OBVIOUS
  <2> QED BY <2>2, <2>3
<1> QED BY <1>1 DEF IsTable

LEMMA SumOfSubset ==
    ASSUME NEW f, NEW S, IsFiniteSet(S), NEW g, IsTable(f, S, g), NEW T \in SUBSET S
    PROVE  SumFunctionOnSet(f, T) = g[T]
<1> DEFINE h == [U \in SUBSET T |-> g[U]]
<1>1. IsTable(f, T, h)
  BY TableOfSubset
<1>2. IsFiniteSet(T)
  BY FS_Subset
<1>3. IsTable(f, T, Table(f, T))
  BY <1>1 DEF Table
<1>4. Table(f, T) = h
  <2> HIDE DEF h
  <2> QED BY <1>1, <1>2, <1>3, OneTable
<1> QED BY <1>4, SumIsInTable

LEMMA TableExists ==
    ASSUME NEW f, NEW S, IsFiniteSet(S)
    PROVE  \E g : IsTable(f, S, g)
<1> DEFINE G == {T \in SUBSET S : \E g : IsTable(f, T, g)}
<1>1. ASSUME NEW T \in SUBSET S, \A x \in T : T \ {x} \in G PROVE T \in G
  <2> DEFINE Step(U) == IF U = {} THEN 0
                        ELSE LET x == CHOOSE x \in U : TRUE
                             IN  f[x] + SumFunctionOnSet(f, U \ {x})
             h == [U \in SUBSET T |-> Step(U)]
  <2>1. ASSUME NEW U \in SUBSET T, NEW x \in U
        PROVE  h[U \ {x}] = SumFunctionOnSet(f, U \ {x})
    <3> DEFINE V == U \ {x}
               c == CHOOSE y \in V : TRUE
    <3>1. PICK g : IsTable(f, T \ {x}, g)
      BY <1>1, <2>1
    <3>2. IsFiniteSet(T \ {x}) /\ V \in SUBSET (T \ {x})
      BY FS_Subset
    <3>3. SumFunctionOnSet(f, V) = g[V]
      <4> HIDE DEF V
      <4> QED BY <3>1, <3>2, SumOfSubset
    <3>4. CASE V = {}
      <4>1. g[V] = 0
        BY <3>1, <3>2, <3>4 DEF IsTable
      <4> QED BY <3>3, <3>4, <4>1
    <3>5. CASE V # {}
      <4>1. c \in V
        BY <3>5
      <4>2. V \ {c} \in SUBSET (T \ {x})
        OBVIOUS
      <4>3. SumFunctionOnSet(f, V \ {c}) = g[V \ {c}]
        <5> HIDE DEF V, c
        <5> QED BY <3>1, <3>2, <4>2, SumOfSubset
      <4>4. g[V] = f[c] + g[V \ {c}]
        <5> HIDE DEF V
        <5> QED BY <3>1, <3>2, <3>5 DEF IsTable
      <4>5. h[V] = f[c] + SumFunctionOnSet(f, V \ {c})
        <5>1. V \in SUBSET T
          OBVIOUS
        <5>2. h[V] = Step(V)
          BY <5>1
        <5> QED BY <3>5, <5>2
      <4> QED BY <3>3, <4>3, <4>4, <4>5
    <3> QED BY <3>4, <3>5
  <2>2. ASSUME NEW U \in SUBSET T
        PROVE  h[U] = IF U = {} THEN 0
                      ELSE LET x == CHOOSE x \in U : TRUE IN f[x] + h[U \ {x}]
    <3>1. CASE U = {}
      BY <3>1
    <3>2. CASE U # {}
      <4> DEFINE c == CHOOSE x \in U : TRUE
      <4>1. c \in U
        BY <3>2
      <4>2. h[U \ {c}] = SumFunctionOnSet(f, U \ {c})
        <5> HIDE DEF c, h
        <5> QED BY <4>1, <2>1
      <4>3. h[U] = f[c] + SumFunctionOnSet(f, U \ {c})
        BY <3>2
      <4> QED BY <3>2, <4>2, <4>3
    <3> QED BY <3>1, <3>2
  <2>3. IsTable(f, T, h)
    <3>1. h = [U \in SUBSET T |-> h[U]]
      OBVIOUS
    <3> HIDE DEF h
    <3> QED BY <2>2, <3>1 DEF IsTable
  <2> QED BY <2>3
<1> HIDE DEF G
<1>2. S \in G
  BY <1>1, SubsetInduction
<1> QED BY <1>2 DEF G

LEMMA SumUnfolds ==
    ASSUME NEW f, NEW S, IsFiniteSet(S)
    PROVE  SumFunctionOnSet(f, S) =
             IF S = {} THEN 0
             ELSE LET x == CHOOSE x \in S : TRUE IN f[x] + SumFunctionOnSet(f, S \ {x})
<1>1. PICK g : IsTable(f, S, g)
  BY TableExists
<1>2. \A T \in SUBSET S : SumFunctionOnSet(f, T) = g[T]
  BY <1>1, SumOfSubset
<1> DEFINE c == CHOOSE x \in S : TRUE
<1>3. g[S] = IF S = {} THEN 0 ELSE f[c] + g[S \ {c}]
  BY <1>1 DEF IsTable
<1>4. SumFunctionOnSet(f, S) = g[S] /\ SumFunctionOnSet(f, S \ {c}) = g[S \ {c}]
  <2>1. S \in SUBSET S /\ S \ {c} \in SUBSET S
    OBVIOUS
  <2> HIDE DEF c
  <2> QED BY <1>2, <2>1
<1> QED BY <1>3, <1>4

(***************************************************************************)
(* What the other modules use.                                             *)
(***************************************************************************)
LEMMA SumOfNone == ASSUME NEW f PROVE SumFunctionOnSet(f, {}) = 0
BY SumUnfolds, FS_EmptySet

LEMMA SumIsInt ==
    ASSUME NEW f, NEW S, IsFiniteSet(S), \A x \in S : f[x] \in Int
    PROVE  SumFunctionOnSet(f, S) \in Int
<1> DEFINE G == {T \in SUBSET S : SumFunctionOnSet(f, T) \in Int}
<1>1. ASSUME NEW T \in SUBSET S, \A x \in T : T \ {x} \in G PROVE T \in G
  <2> DEFINE c == CHOOSE x \in T : TRUE
  <2>1. SumFunctionOnSet(f, T) = IF T = {} THEN 0
                                 ELSE f[c] + SumFunctionOnSet(f, T \ {c})
    BY SumUnfolds, FS_Subset
  <2>2. CASE T = {}
    BY <2>1, <2>2
  <2>3. CASE T # {}
    <3>1. c \in T /\ T \ {c} \in G /\ f[c] \in Int
      BY <1>1, <2>3
    <3> HIDE DEF c
    <3> QED BY <2>1, <2>3, <3>1
  <2> QED BY <2>2, <2>3
<1> HIDE DEF G
<1>2. S \in G
  BY <1>1, SubsetInduction
<1> QED BY <1>2 DEF G

\* Any element may be the one that is added last.
LEMMA SumTakesOut ==
    ASSUME NEW f, NEW S, IsFiniteSet(S), \A x \in S : f[x] \in Int, NEW x \in S
    PROVE  SumFunctionOnSet(f, S) = f[x] + SumFunctionOnSet(f, S \ {x})
<1> DEFINE G == {T \in SUBSET S : \A y \in T :
                   SumFunctionOnSet(f, T) = f[y] + SumFunctionOnSet(f, T \ {y})}
<1>1. ASSUME NEW T \in SUBSET S, \A y \in T : T \ {y} \in G PROVE T \in G
  <2>1. SUFFICES ASSUME NEW y \in T
                 PROVE  SumFunctionOnSet(f, T) = f[y] + SumFunctionOnSet(f, T \ {y})
    OBVIOUS
  <2> DEFINE c == CHOOSE z \in T : TRUE
  <2>2. c \in T
    BY <2>1
  <2>3. SumFunctionOnSet(f, T) = f[c] + SumFunctionOnSet(f, T \ {c})
    BY <2>1, SumUnfolds, FS_Subset
  <2> HIDE DEF c
  <2>4. CASE y = c
    BY <2>3, <2>4
  <2>5. CASE y # c
    <3>1. y \in T \ {c} /\ c \in T \ {y} /\ (T \ {c}) \ {y} = (T \ {y}) \ {c}
      BY <2>1, <2>2, <2>5
    <3>2. SumFunctionOnSet(f, T \ {c}) = f[y] + SumFunctionOnSet(f, (T \ {c}) \ {y})
      BY <1>1, <2>2, <3>1
    <3>3. SumFunctionOnSet(f, T \ {y}) = f[c] + SumFunctionOnSet(f, (T \ {y}) \ {c})
      BY <1>1, <2>1, <3>1
    <3>4. IsFiniteSet((T \ {c}) \ {y})
      BY FS_Subset
    <3>5. f[y] \in Int /\ f[c] \in Int /\ SumFunctionOnSet(f, (T \ {c}) \ {y}) \in Int
      BY <2>1, <2>2, <3>4, SumIsInt
    <3>6. SumFunctionOnSet(f, (T \ {c}) \ {y}) = SumFunctionOnSet(f, (T \ {y}) \ {c})
      BY <3>1
    <3> QED BY <2>3, <3>2, <3>3, <3>5, <3>6
  <2> QED BY <2>4, <2>5
<1> HIDE DEF G
<1>2. S \in G
  BY <1>1, SubsetInduction
<1> QED BY <1>2 DEF G

LEMMA SumsAgree ==
    ASSUME NEW f, NEW g, NEW S, IsFiniteSet(S), \A x \in S : f[x] = g[x]
    PROVE  SumFunctionOnSet(f, S) = SumFunctionOnSet(g, S)
<1> DEFINE G == {T \in SUBSET S : SumFunctionOnSet(f, T) = SumFunctionOnSet(g, T)}
<1>1. ASSUME NEW T \in SUBSET S, \A x \in T : T \ {x} \in G PROVE T \in G
  <2> DEFINE c == CHOOSE x \in T : TRUE
  <2>1. /\ SumFunctionOnSet(f, T) = IF T = {} THEN 0
                                    ELSE f[c] + SumFunctionOnSet(f, T \ {c})
        /\ SumFunctionOnSet(g, T) = IF T = {} THEN 0
                                    ELSE g[c] + SumFunctionOnSet(g, T \ {c})
    BY SumUnfolds, FS_Subset
  <2>2. CASE T = {}
    BY <2>1, <2>2
  <2>3. CASE T # {}
    <3>1. c \in T /\ T \ {c} \in G /\ f[c] = g[c]
      BY <1>1, <2>3
    <3> HIDE DEF c
    <3> QED BY <2>1, <2>3, <3>1
  <2> QED BY <2>2, <2>3
<1> HIDE DEF G
<1>2. S \in G
  BY <1>1, SubsetInduction
<1> QED BY <1>2 DEF G

\* One value changes: the sum changes by the difference.
LEMMA SumChanges ==
    ASSUME NEW f, NEW g, NEW S, IsFiniteSet(S), NEW x \in S,
           \A y \in S : f[y] \in Int, g[x] \in Int, \A y \in S \ {x} : g[y] = f[y]
    PROVE  SumFunctionOnSet(g, S) = SumFunctionOnSet(f, S) + g[x] - f[x]
<1>1. \A y \in S : g[y] \in Int
  OBVIOUS
<1>2. IsFiniteSet(S \ {x})
  BY FS_Subset
<1>3. /\ SumFunctionOnSet(f, S) = f[x] + SumFunctionOnSet(f, S \ {x})
      /\ SumFunctionOnSet(g, S) = g[x] + SumFunctionOnSet(g, S \ {x})
  BY <1>1, SumTakesOut
<1>4. SumFunctionOnSet(f, S \ {x}) = SumFunctionOnSet(g, S \ {x})
  BY <1>2, SumsAgree
<1>5. SumFunctionOnSet(f, S \ {x}) \in Int
  BY <1>2, SumIsInt
<1> QED BY <1>3, <1>4, <1>5

LEMMA SumOfZeros ==
    ASSUME NEW f, NEW S, IsFiniteSet(S), \A x \in S : f[x] = 0
    PROVE  SumFunctionOnSet(f, S) = 0
<1> DEFINE G == {T \in SUBSET S : SumFunctionOnSet(f, T) = 0}
<1>1. ASSUME NEW T \in SUBSET S, \A x \in T : T \ {x} \in G PROVE T \in G
  <2> DEFINE c == CHOOSE x \in T : TRUE
  <2>1. SumFunctionOnSet(f, T) = IF T = {} THEN 0
                                 ELSE f[c] + SumFunctionOnSet(f, T \ {c})
    BY SumUnfolds, FS_Subset
  <2>2. CASE T = {}
    BY <2>1, <2>2
  <2>3. CASE T # {}
    <3>1. c \in T /\ T \ {c} \in G /\ f[c] = 0
      BY <1>1, <2>3
    <3> HIDE DEF c
    <3> QED BY <2>1, <2>3, <3>1
  <2> QED BY <2>2, <2>3
<1> HIDE DEF G
<1>2. S \in G
  BY <1>1, SubsetInduction
<1> QED BY <1>2 DEF G

LEMMA SumsCompare ==
    ASSUME NEW f, NEW g, NEW S, IsFiniteSet(S),
           \A x \in S : f[x] \in Int /\ g[x] \in Int /\ f[x] <= g[x]
    PROVE  SumFunctionOnSet(f, S) <= SumFunctionOnSet(g, S)
<1> DEFINE G == {T \in SUBSET S : SumFunctionOnSet(f, T) <= SumFunctionOnSet(g, T)}
<1>1. ASSUME NEW T \in SUBSET S, \A x \in T : T \ {x} \in G PROVE T \in G
  <2>1. CASE T = {}
    BY <2>1, SumOfNone
  <2>2. CASE T # {}
    <3>1. PICK c \in T : TRUE
      BY <2>2
    <3>2. IsFiniteSet(T) /\ IsFiniteSet(T \ {c}) /\ T \ {c} \in G
      BY <1>1, FS_Subset
    <3>3. \A x \in T : f[x] \in Int /\ g[x] \in Int /\ f[x] <= g[x]
      OBVIOUS
    <3>4. /\ SumFunctionOnSet(f, T) = f[c] + SumFunctionOnSet(f, T \ {c})
          /\ SumFunctionOnSet(g, T) = g[c] + SumFunctionOnSet(g, T \ {c})
      BY <3>2, <3>3, SumTakesOut
    <3>5. SumFunctionOnSet(f, T \ {c}) \in Int /\ SumFunctionOnSet(g, T \ {c}) \in Int
      BY <3>2, <3>3, SumIsInt
    <3> QED BY <3>2, <3>3, <3>4, <3>5
  <2> QED BY <2>1, <2>2
<1> HIDE DEF G
<1>2. S \in G
  BY <1>1, SubsetInduction
<1> QED BY <1>2 DEF G

\* The sum over a subset is a sum over the set that leaves the others out.
LEMMA SumOverPart ==
    ASSUME NEW f, NEW g, NEW S, IsFiniteSet(S), NEW T \in SUBSET S,
           \A x \in S : f[x] \in Int,
           \A x \in S : g[x] = IF x \in T THEN f[x] ELSE 0
    PROVE  SumFunctionOnSet(f, T) = SumFunctionOnSet(g, S)
<1> DEFINE G == {U \in SUBSET S : SumFunctionOnSet(f, U \cap T) = SumFunctionOnSet(g, U)}
<1>1. ASSUME NEW U \in SUBSET S, \A x \in U : U \ {x} \in G PROVE U \in G
  <2>1. CASE U = {}
    <3>1. U \cap T = {}
      BY <2>1
    <3> QED BY <2>1, <3>1, SumOfNone
  <2>2. CASE U # {}
    <3>1. PICK c \in U : TRUE
      BY <2>2
    <3>2. IsFiniteSet(U) /\ IsFiniteSet(U \cap T) /\ U \ {c} \in G
      BY <1>1, FS_Subset
    <3>3. SumFunctionOnSet(g, U) = g[c] + SumFunctionOnSet(g, U \ {c})
      BY <3>2, SumTakesOut
    <3>4. SumFunctionOnSet(g, U \ {c}) \in Int
      BY <3>2, FS_RemoveElement, SumIsInt
    <3>5. CASE c \in T
      <4>1. (U \ {c}) \cap T = (U \cap T) \ {c}
        OBVIOUS
      <4>2. SumFunctionOnSet(f, U \cap T) = f[c] + SumFunctionOnSet(f, (U \cap T) \ {c})
        BY <3>2, <3>5, SumTakesOut
      <4> QED BY <3>2, <3>3, <3>5, <4>1, <4>2
    <3>6. CASE c \notin T
      <4>1. (U \ {c}) \cap T = U \cap T
        BY <3>6
      <4>2. g[c] = 0
        BY <3>6
      <4>3. SumFunctionOnSet(g, U) = SumFunctionOnSet(g, U \ {c})
        BY <3>3, <3>4, <4>2
      <4>4. SumFunctionOnSet(f, (U \ {c}) \cap T) = SumFunctionOnSet(g, U \ {c})
        BY <3>2
      <4>5. SumFunctionOnSet(f, U \cap T) = SumFunctionOnSet(g, U)
        BY <4>1, <4>3, <4>4
      <4> QED BY <4>5
    <3> QED BY <3>5, <3>6
  <2> QED BY <2>1, <2>2
<1>2. S \in G
  <2> HIDE DEF G
  <2> QED BY <1>1, SubsetInduction
<1>3. S \cap T = T
  OBVIOUS
<1> QED BY <1>2, <1>3

LEMMA SumOverBoth ==
    ASSUME NEW f, NEW S, NEW T, IsFiniteSet(S), IsFiniteSet(T), S \cap T = {},
           \A x \in S \cup T : f[x] \in Int
    PROVE  /\ IsFiniteSet(S \cup T)
           /\ SumFunctionOnSet(f, S \cup T) = SumFunctionOnSet(f, S) + SumFunctionOnSet(f, T)
<1> DEFINE G == {U \in SUBSET S : /\ IsFiniteSet(U \cup T)
                                  /\ SumFunctionOnSet(f, U \cup T)
                                       = SumFunctionOnSet(f, U) + SumFunctionOnSet(f, T)}
<1>1. ASSUME NEW U \in SUBSET S, \A x \in U : U \ {x} \in G PROVE U \in G
  <2>1. CASE U = {}
    <3>1. U \cup T = T
      BY <2>1
    <3>2. SumFunctionOnSet(f, T) \in Int
      BY SumIsInt
    <3> QED BY <2>1, <3>1, <3>2, SumOfNone
  <2>2. CASE U # {}
    <3>1. PICK c \in U : TRUE
      BY <2>2
    <3>2. /\ c \notin T /\ U \cup T = ((U \ {c}) \cup T) \cup {c}
          /\ (U \ {c}) \cup T = (U \cup T) \ {c}
      BY <3>1
    <3>3. IsFiniteSet((U \ {c}) \cup T) /\ U \ {c} \in G
      BY <1>1
    <3>4. IsFiniteSet(U \cup T) /\ IsFiniteSet(U) /\ IsFiniteSet(U \ {c})
      BY <3>2, <3>3, FS_AddElement, FS_Subset
    <3>5. SumFunctionOnSet(f, U \cup T) = f[c] + SumFunctionOnSet(f, (U \cup T) \ {c})
      BY <3>4, SumTakesOut
    <3>6. SumFunctionOnSet(f, U) = f[c] + SumFunctionOnSet(f, U \ {c})
      BY <3>4, SumTakesOut
    <3>7. /\ f[c] \in Int /\ SumFunctionOnSet(f, U \ {c}) \in Int
          /\ SumFunctionOnSet(f, T) \in Int
      BY <3>4, SumIsInt
    <3>8. SumFunctionOnSet(f, (U \cup T) \ {c})
            = SumFunctionOnSet(f, U \ {c}) + SumFunctionOnSet(f, T)
      BY <3>2, <3>3
    <3> QED BY <3>4, <3>5, <3>6, <3>7, <3>8
  <2> QED BY <2>1, <2>2
<1> HIDE DEF G
<1>2. S \in G
  BY <1>1, SubsetInduction
<1> QED BY <1>2 DEF G
=============================================================================
