---------------------------- MODULE SumTheorems ----------------------------
(***************************************************************************)
(* Sums over finite sets: what MapThenSumSet gives when a member is added, *)
(* removed or changed.  Induction is over a set of naturals that has 0 and *)
(* the successor of each of its members.                                   *)
(***************************************************************************)
EXTENDS FiniteSetsExt, FiniteSetTheorems, WellFoundedInduction, TLAPS

\* A set of naturals that is not empty has a smallest member.
LEMMA Smallest ==
  ASSUME NEW S \in SUBSET Nat, S # {}
  PROVE  \E x \in S : \A y \in S : x <= y
<1>1. PICK x \in S : \A y \in S : <<y, x>> \notin OpToRel(<, Nat)
  BY NatLessThanWellFounded, WFMin
<1>2. ASSUME NEW y \in S PROVE x <= y
  <2>1. <<y, x>> \in Nat \X Nat
    OBVIOUS
  <2>2. ~(<<y, x>>[1] < <<y, x>>[2])
    BY <1>1, <2>1, Zenon DEF OpToRel
  <2> QED
    BY <2>2
<1> QED
  BY <1>2

\* Induction, over a set.
LEMMA AllNaturals ==
  ASSUME NEW N, 0 \in N, \A n \in Nat : n \in N => n + 1 \in N
  PROVE  \A n \in Nat : n \in N
<1> DEFINE Rest == Nat \ N
<1>1. SUFFICES ASSUME Rest # {} PROVE FALSE
  OBVIOUS
<1>2. PICK n \in Rest : \A m \in Rest : n <= m
  BY <1>1, Smallest
<1>3. n - 1 \in Nat /\ n - 1 \notin Rest
  BY <1>2
<1> QED
  BY <1>2, <1>3

\* The sum of the values of g over S.
SumOver(g, S) == MapThenSumSet(LAMBDA i : g[i], S)

Chosen(s) == CHOOSE x \in s : TRUE
Adds(h, g, s) == h[s] = IF s = {} THEN 0 ELSE g[Chosen(s)] + h[s \ {Chosen(s)}]
IsSum(h, g, S) == h = [s \in SUBSET S |-> IF s = {} THEN 0 ELSE g[Chosen(s)] + h[s \ {Chosen(s)}]]

LEMMA SumIs == ASSUME NEW g, NEW S PROVE SumOver(g, S) = (CHOOSE h : IsSum(h, g, S))[S]
BY DEF SumOver, MapThenSumSet, MapThenFoldSet, IsSum, Chosen

LEMMA ChosenIn == ASSUME NEW s, s # {} PROVE Chosen(s) \in s
BY DEF Chosen

\* The function that adds one member after the other exists.
LEMMA SumExists ==
  ASSUME NEW g, NEW S, IsFiniteSet(S)
  PROVE  \E h : IsSum(h, g, S)
<1> DEFINE Few(n) == {s \in SUBSET S : Cardinality(s) <= n}
           N == {n \in Nat : \E h : DOMAIN h = SUBSET S /\ \A s \in Few(n) : Adds(h, g, s)}
<1>1. \A s \in SUBSET S : IsFiniteSet(s) /\ Cardinality(s) \in Nat /\ Cardinality(s) <= Cardinality(S)
  BY FS_Subset, FS_CardinalityType
<1>2. 0 \in N
  <2> DEFINE h == [s \in SUBSET S |-> 0]
  <2>1. ASSUME NEW s \in Few(0) PROVE Adds(h, g, s)
    <3>1. Cardinality(s) = 0
      BY <1>1
    <3>2. s = {}
      BY <1>1, <3>1, FS_EmptySet
    <3> QED
      BY <3>2 DEF Adds
  <2>2. DOMAIN h = SUBSET S
    OBVIOUS
  <2> HIDE DEF h
  <2> QED
    BY <2>1, <2>2
<1>3. ASSUME NEW n \in Nat, n \in N PROVE n + 1 \in N
  <2>1. PICK h : DOMAIN h = SUBSET S /\ \A s \in Few(n) : Adds(h, g, s)
    BY <1>3
  <2> DEFINE k == [s \in SUBSET S |-> IF Cardinality(s) <= n THEN h[s] ELSE g[Chosen(s)] + h[s \ {Chosen(s)}]]
  <2>2. \A s \in Few(n) : k[s] = h[s]
    OBVIOUS
  <2>3. ASSUME NEW s \in SUBSET S, s # {}, Cardinality(s) <= n + 1 PROVE s \ {Chosen(s)} \in Few(n)
    <3>1. Chosen(s) \in s /\ IsFiniteSet(s) /\ Cardinality(s) \in Nat
      BY <1>1, <2>3, ChosenIn
    <3>2. Cardinality(s \ {Chosen(s)}) = Cardinality(s) - 1
      BY <3>1, FS_RemoveElement
    <3> QED
      BY <2>3, <3>1, <3>2
  <2>4. ASSUME NEW s \in Few(n + 1) PROVE Adds(k, g, s)
    <3>1. CASE s \in Few(n)
      <4>1. s # {} => k[s \ {Chosen(s)}] = h[s \ {Chosen(s)}]
        BY <2>2, <2>3, <2>4
      <4> QED
        BY <2>1, <2>2, <3>1, <4>1 DEF Adds
    <3>2. CASE s \notin Few(n)
      <4>1. s # {}
        BY <3>2, FS_EmptySet
      <4>2. k[s] = g[Chosen(s)] + h[s \ {Chosen(s)}]
        BY <3>2
      <4>3. k[s \ {Chosen(s)}] = h[s \ {Chosen(s)}]
        BY <2>2, <2>3, <2>4, <4>1
      <4> QED
        BY <4>1, <4>2, <4>3 DEF Adds
    <3> QED
      BY <3>1, <3>2
  <2>5. DOMAIN k = SUBSET S
    OBVIOUS
  <2> HIDE DEF k
  <2> QED
    BY <2>4, <2>5
<1>4. Cardinality(S) \in Nat
  BY FS_CardinalityType
<1> HIDE DEF N
<1>5. Cardinality(S) \in N
  BY <1>2, <1>3, <1>4, AllNaturals
<1>6. PICK h : DOMAIN h = SUBSET S /\ \A s \in Few(Cardinality(S)) : Adds(h, g, s)
  BY <1>5 DEF N
<1>7. \A s \in SUBSET S : Adds(h, g, s)
  BY <1>1, <1>6
<1> DEFINE k == [s \in SUBSET S |-> h[s]]
<1>8. \A s \in SUBSET S : k[s] = IF s = {} THEN 0 ELSE g[Chosen(s)] + k[s \ {Chosen(s)}]
  BY <1>7 DEF Adds
<1>9. k = [s \in SUBSET S |-> k[s]]
  OBVIOUS
<1> HIDE DEF k
<1>10. IsSum(k, g, S)
  BY <1>8, <1>9 DEF IsSum
<1> QED
  BY <1>10

\* A set with a member more than n.
LEMMA OneLess ==
  ASSUME NEW s, IsFiniteSet(s), NEW n \in Nat, Cardinality(s) = n + 1
  PROVE  s # {} /\ \A x \in s : IsFiniteSet(s \ {x}) /\ Cardinality(s \ {x}) = n
<1>1. s # {}
  <2>1. Cardinality({}) = 0
    BY FS_EmptySet
  <2> QED
    BY <2>1
<1>2. ASSUME NEW x \in s PROVE IsFiniteSet(s \ {x}) /\ Cardinality(s \ {x}) = n
  <2>1. IsFiniteSet(s \ {x}) /\ Cardinality(s \ {x}) = Cardinality(s) - 1
    BY FS_RemoveElement
  <2> QED
    BY <2>1
<1> QED
  BY <1>1, <1>2

\* All such functions agree on the sets they share.
LEMMA SumUnique ==
  ASSUME NEW g, NEW S, IsFiniteSet(S), NEW T, IsFiniteSet(T), NEW h, IsSum(h, g, S), NEW k, IsSum(k, g, T)
  PROVE  \A s \in SUBSET S : s \in SUBSET T => h[s] = k[s]
<1> DEFINE N == {n \in Nat : \A s \in SUBSET S : s \in SUBSET T /\ Cardinality(s) = n => h[s] = k[s]}
<1>1. \A s \in SUBSET S : IsFiniteSet(s) /\ Cardinality(s) \in Nat
  BY FS_Subset, FS_CardinalityType
<1>2. \A s \in SUBSET S : h[s] = IF s = {} THEN 0 ELSE g[Chosen(s)] + h[s \ {Chosen(s)}]
  BY DEF IsSum
<1>3. \A s \in SUBSET T : k[s] = IF s = {} THEN 0 ELSE g[Chosen(s)] + k[s \ {Chosen(s)}]
  BY DEF IsSum
<1>4. 0 \in N
  BY <1>1, <1>2, <1>3, FS_EmptySet
<1>5. ASSUME NEW n \in Nat, n \in N PROVE n + 1 \in N
  <2>1. SUFFICES ASSUME NEW s \in SUBSET S, s \in SUBSET T, Cardinality(s) = n + 1 PROVE h[s] = k[s]
    OBVIOUS
  <2>2. s # {} /\ \A x \in s : Cardinality(s \ {x}) = n
    BY <1>1, <2>1, OneLess
  <2>3. Chosen(s) \in s
    BY <2>2, ChosenIn
  <2>4. Cardinality(s \ {Chosen(s)}) = n
    BY <2>2, <2>3
  <2>5. h[s \ {Chosen(s)}] = k[s \ {Chosen(s)}]
    BY <1>5, <2>1, <2>4
  <2>6. h[s] = g[Chosen(s)] + h[s \ {Chosen(s)}]
    BY <1>2, <2>2
  <2>7. k[s] = g[Chosen(s)] + k[s \ {Chosen(s)}]
    BY <1>3, <2>1, <2>2
  <2> QED
    BY <2>5, <2>6, <2>7, Zenon
<1> HIDE DEF N
<1>6. \A n \in Nat : n \in N
  BY <1>4, <1>5, AllNaturals
<1> QED
  BY <1>1, <1>6 DEF N

\* A sum is the sum of the rest and the member that is taken first.
LEMMA SumFirst ==
  ASSUME NEW g, NEW S, IsFiniteSet(S)
  PROVE  /\ SumOver(g, {}) = 0
         /\ S # {} => SumOver(g, S) = g[Chosen(S)] + SumOver(g, S \ {Chosen(S)})
<1>1. ASSUME NEW T, IsFiniteSet(T) PROVE \E h : IsSum(h, g, T) /\ SumOver(g, T) = h[T]
  BY <1>1, SumExists, SumIs
<1>2. SumOver(g, {}) = 0
  <2>1. PICK h : IsSum(h, g, {}) /\ SumOver(g, {}) = h[{}]
    BY <1>1, FS_EmptySet
  <2> QED
    BY <2>1 DEF IsSum
<1>3. ASSUME S # {} PROVE SumOver(g, S) = g[Chosen(S)] + SumOver(g, S \ {Chosen(S)})
  <2> DEFINE T == S \ {Chosen(S)}
  <2>1. IsFiniteSet(T)
    BY FS_Subset
  <2>2. PICK h : IsSum(h, g, S) /\ SumOver(g, S) = h[S]
    BY <1>1
  <2>3. PICK k : IsSum(k, g, T) /\ SumOver(g, T) = k[T]
    BY <1>1, <2>1
  <2>5. h[S] = g[Chosen(S)] + h[T]
    BY <1>3, <2>2 DEF IsSum
  <2>9. T \subseteq S
    OBVIOUS
  <2> HIDE DEF T
  <2>7. IsSum(h, g, S) /\ IsSum(k, g, T)
    BY <2>2, <2>3
  <2>8. \A s \in SUBSET S : s \in SUBSET T => h[s] = k[s]
    BY <2>1, <2>7, SumUnique
  <2>6. T \in SUBSET S /\ T \in SUBSET T
    BY <2>9
  <2>4. h[T] = k[T]
    BY <2>6, <2>8
  <2> QED
    BY <2>2, <2>3, <2>4, <2>5, Zenon DEF T
<1> QED
  BY <1>2, <1>3

\* Nothing to add.
LEMMA SumNone ==
  ASSUME NEW g
  PROVE  SumOver(g, {}) = 0
BY SumFirst, FS_EmptySet

LEMMA SumInt ==
  ASSUME NEW g, NEW S, IsFiniteSet(S), \A x \in S : g[x] \in Int
  PROVE  SumOver(g, S) \in Int
<1> DEFINE N == {n \in Nat : \A s \in SUBSET S : Cardinality(s) = n => SumOver(g, s) \in Int}
<1>1. \A s \in SUBSET S : IsFiniteSet(s) /\ Cardinality(s) \in Nat
  BY FS_Subset, FS_CardinalityType
<1>2. 0 \in N
  <2>1. \A s \in SUBSET S : Cardinality(s) = 0 => s = {}
    BY <1>1, FS_EmptySet
  <2>2. SumOver(g, {}) = 0
    BY SumFirst
  <2> QED
    BY <2>1, <2>2
<1>3. ASSUME NEW n \in Nat, n \in N PROVE n + 1 \in N
  <2>1. SUFFICES ASSUME NEW s \in SUBSET S, Cardinality(s) = n + 1 PROVE SumOver(g, s) \in Int
    OBVIOUS
  <2>2. s # {} /\ IsFiniteSet(s) /\ \A x \in s : Cardinality(s \ {x}) = n
    BY <1>1, <2>1, OneLess
  <2>3. Chosen(s) \in s
    BY <2>2, ChosenIn
  <2>4. Cardinality(s \ {Chosen(s)}) = n
    BY <2>2, <2>3
  <2>5. SumOver(g, s \ {Chosen(s)}) \in Int /\ g[Chosen(s)] \in Int
    BY <1>3, <2>3, <2>4
  <2>6. SumOver(g, s) = g[Chosen(s)] + SumOver(g, s \ {Chosen(s)})
    BY <2>2, SumFirst
  <2> QED
    BY <2>5, <2>6
<1> HIDE DEF N
<1>4. \A n \in Nat : n \in N
  BY <1>2, <1>3, AllNaturals
<1> QED
  BY <1>1, <1>4 DEF N

\* Whichever member is taken first.
LEMMA SumRest ==
  ASSUME NEW g, NEW S, IsFiniteSet(S), \A x \in S : g[x] \in Int, NEW e \in S
  PROVE  SumOver(g, S) = g[e] + SumOver(g, S \ {e})
<1> DEFINE N == {n \in Nat : \A s \in SUBSET S : Cardinality(s) = n =>
                   \A x \in s : SumOver(g, s) = g[x] + SumOver(g, s \ {x})}
<1>1. \A s \in SUBSET S : IsFiniteSet(s) /\ Cardinality(s) \in Nat /\ SumOver(g, s) \in Int
  <2>1. ASSUME NEW s \in SUBSET S PROVE IsFiniteSet(s)
    BY FS_Subset
  <2>2. ASSUME NEW s \in SUBSET S PROVE SumOver(g, s) \in Int
    BY <2>1, SumInt
  <2> QED
    BY <2>1, <2>2, FS_CardinalityType
<1>2. 0 \in N
  BY <1>1, FS_EmptySet
<1>3. ASSUME NEW n \in Nat, n \in N PROVE n + 1 \in N
  <2>1. SUFFICES ASSUME NEW s \in SUBSET S, Cardinality(s) = n + 1, NEW x \in s
                 PROVE  SumOver(g, s) = g[x] + SumOver(g, s \ {x})
    OBVIOUS
  <2> DEFINE c == Chosen(s)
  <2>2. c \in s /\ IsFiniteSet(s)
    BY <1>1, ChosenIn
  <2> HIDE DEF c
  <2>3. Cardinality(s \ {c}) = n /\ Cardinality(s \ {x}) = n
    BY <1>1, <2>1, <2>2, OneLess
  <2>4. SumOver(g, s) = g[c] + SumOver(g, s \ {c})
    BY <2>1, <2>2, SumFirst DEF c
  <2>5. CASE x = c
    BY <2>4, <2>5
  <2>6. CASE x # c
    <3>1. SumOver(g, s \ {c}) = g[x] + SumOver(g, (s \ {c}) \ {x})
      BY <1>3, <2>3, <2>6
    <3>2. SumOver(g, s \ {x}) = g[c] + SumOver(g, (s \ {x}) \ {c})
      BY <1>3, <2>2, <2>3, <2>6
    <3>3. (s \ {c}) \ {x} = (s \ {x}) \ {c}
      OBVIOUS
    <3>4. SumOver(g, (s \ {c}) \ {x}) \in Int /\ g[x] \in Int /\ g[c] \in Int
      BY <1>1, <2>2
    <3> DEFINE a == SumOver(g, (s \ {c}) \ {x})
    <3>5. SumOver(g, s \ {x}) = g[c] + a /\ SumOver(g, s \ {c}) = g[x] + a
      BY <3>1, <3>2, <3>3
    <3>6. a \in Int
      BY <3>4
    <3> HIDE DEF a
    <3> QED
      BY <2>4, <3>4, <3>5, <3>6
  <2> QED
    BY <2>5, <2>6
<1> HIDE DEF N
<1>4. \A n \in Nat : n \in N
  BY <1>2, <1>3, AllNaturals
<1> QED
  BY <1>1, <1>4 DEF N

\* A member more.
LEMMA SumMore ==
  ASSUME NEW g, NEW S, IsFiniteSet(S), NEW e, e \notin S, \A x \in S \cup {e} : g[x] \in Int
  PROVE  SumOver(g, S \cup {e}) = SumOver(g, S) + g[e]
<1>1. IsFiniteSet(S \cup {e}) /\ (S \cup {e}) \ {e} = S
  BY FS_AddElement
<1>2. SumOver(g, S \cup {e}) = g[e] + SumOver(g, S)
  BY <1>1, SumRest
<1>3. SumOver(g, S) \in Int
  BY SumInt
<1> QED
  BY <1>2, <1>3

\* Values no smaller give a sum no smaller, and none below 0 one not below 0.
LEMMA SumGrows ==
  ASSUME NEW f, NEW g, NEW S, IsFiniteSet(S), \A x \in S : f[x] \in Int /\ g[x] \in Int /\ f[x] <= g[x]
  PROVE  SumOver(f, S) <= SumOver(g, S)
<1> DEFINE N == {n \in Nat : \A s \in SUBSET S : Cardinality(s) = n => SumOver(f, s) <= SumOver(g, s)}
<1>1. \A s \in SUBSET S : IsFiniteSet(s) /\ Cardinality(s) \in Nat /\ SumOver(f, s) \in Int /\ SumOver(g, s) \in Int
  <2>1. ASSUME NEW s \in SUBSET S PROVE IsFiniteSet(s)
    BY FS_Subset
  <2>2. ASSUME NEW s \in SUBSET S PROVE SumOver(f, s) \in Int /\ SumOver(g, s) \in Int
    BY <2>1, SumInt
  <2> QED
    BY <2>1, <2>2, FS_CardinalityType
<1>2. 0 \in N
  <2>1. \A s \in SUBSET S : Cardinality(s) = 0 => s = {}
    BY <1>1, FS_EmptySet
  <2>2. SumOver(f, {}) = 0 /\ SumOver(g, {}) = 0
    BY SumFirst
  <2> QED
    BY <2>1, <2>2
<1>3. ASSUME NEW n \in Nat, n \in N PROVE n + 1 \in N
  <2>1. SUFFICES ASSUME NEW s \in SUBSET S, Cardinality(s) = n + 1 PROVE SumOver(f, s) <= SumOver(g, s)
    OBVIOUS
  <2>2. s # {} /\ IsFiniteSet(s) /\ \A x \in s : Cardinality(s \ {x}) = n
    BY <1>1, <2>1, OneLess
  <2>3. PICK x \in s : TRUE
    BY <2>2
  <2>4. Cardinality(s \ {x}) = n
    BY <2>2, <2>3
  <2>5. SumOver(f, s \ {x}) <= SumOver(g, s \ {x})
    BY <1>3, <2>4
  <2>6. SumOver(f, s) = f[x] + SumOver(f, s \ {x}) /\ SumOver(g, s) = g[x] + SumOver(g, s \ {x})
    BY <2>2, <2>3, SumRest
  <2>7. SumOver(f, s \ {x}) \in Int /\ SumOver(g, s \ {x}) \in Int /\ f[x] \in Int /\ g[x] \in Int /\ f[x] <= g[x]
    BY <1>1, <2>3
  <2> QED
    BY <2>5, <2>6, <2>7
<1> HIDE DEF N
<1>4. \A n \in Nat : n \in N
  BY <1>2, <1>3, AllNaturals
<1> QED
  BY <1>1, <1>4 DEF N

\* The same values.
LEMMA SumSame ==
  ASSUME NEW f, NEW g, NEW S, IsFiniteSet(S), \A x \in S : f[x] \in Int /\ g[x] = f[x]
  PROVE  SumOver(f, S) = SumOver(g, S)
<1>1. SumOver(f, S) <= SumOver(g, S) /\ SumOver(g, S) <= SumOver(f, S)
  BY SumGrows
<1>2. SumOver(f, S) \in Int /\ SumOver(g, S) \in Int
  BY SumInt
<1> QED
  BY <1>1, <1>2

\* Nothing but zeros.
LEMMA SumZero ==
  ASSUME NEW g, NEW S, IsFiniteSet(S), \A x \in S : g[x] = 0
  PROVE  SumOver(g, S) = 0
<1> DEFINE N == {n \in Nat : \A s \in SUBSET S : Cardinality(s) = n => SumOver(g, s) = 0}
<1>1. \A s \in SUBSET S : IsFiniteSet(s) /\ Cardinality(s) \in Nat
  BY FS_Subset, FS_CardinalityType
<1>2. 0 \in N
  <2>1. \A s \in SUBSET S : Cardinality(s) = 0 => s = {}
    BY <1>1, FS_EmptySet
  <2>2. SumOver(g, {}) = 0
    BY SumFirst
  <2> QED
    BY <2>1, <2>2
<1>3. ASSUME NEW n \in Nat, n \in N PROVE n + 1 \in N
  <2>1. SUFFICES ASSUME NEW s \in SUBSET S, Cardinality(s) = n + 1 PROVE SumOver(g, s) = 0
    OBVIOUS
  <2>2. s # {} /\ IsFiniteSet(s) /\ \A x \in s : Cardinality(s \ {x}) = n
    BY <1>1, <2>1, OneLess
  <2>3. Chosen(s) \in s
    BY <2>2, ChosenIn
  <2>4. Cardinality(s \ {Chosen(s)}) = n
    BY <2>2, <2>3
  <2>5. SumOver(g, s \ {Chosen(s)}) = 0 /\ g[Chosen(s)] = 0
    BY <1>3, <2>3, <2>4
  <2>6. SumOver(g, s) = g[Chosen(s)] + SumOver(g, s \ {Chosen(s)})
    BY <2>2, SumFirst
  <2> QED
    BY <2>5, <2>6
<1> HIDE DEF N
<1>4. \A n \in Nat : n \in N
  BY <1>2, <1>3, AllNaturals
<1> QED
  BY <1>1, <1>4 DEF N

LEMMA SumNat ==
  ASSUME NEW g, NEW S, IsFiniteSet(S), \A x \in S : g[x] \in Nat
  PROVE  SumOver(g, S) \in Nat /\ \A x \in S : g[x] <= SumOver(g, S)
<1> DEFINE N == {n \in Nat : \A s \in SUBSET S : Cardinality(s) = n => SumOver(g, s) \in Nat}
<1>1. \A s \in SUBSET S : IsFiniteSet(s) /\ Cardinality(s) \in Nat
  BY FS_Subset, FS_CardinalityType
<1>2. 0 \in N
  <2>1. \A s \in SUBSET S : Cardinality(s) = 0 => s = {}
    BY <1>1, FS_EmptySet
  <2>2. SumOver(g, {}) = 0
    BY SumFirst
  <2> QED
    BY <2>1, <2>2
<1>3. ASSUME NEW n \in Nat, n \in N PROVE n + 1 \in N
  <2>1. SUFFICES ASSUME NEW s \in SUBSET S, Cardinality(s) = n + 1 PROVE SumOver(g, s) \in Nat
    OBVIOUS
  <2>2. s # {} /\ IsFiniteSet(s) /\ \A x \in s : Cardinality(s \ {x}) = n
    BY <1>1, <2>1, OneLess
  <2>3. Chosen(s) \in s
    BY <2>2, ChosenIn
  <2>4. Cardinality(s \ {Chosen(s)}) = n
    BY <2>2, <2>3
  <2>5. SumOver(g, s \ {Chosen(s)}) \in Nat /\ g[Chosen(s)] \in Nat
    BY <1>3, <2>3, <2>4
  <2>6. SumOver(g, s) = g[Chosen(s)] + SumOver(g, s \ {Chosen(s)})
    BY <2>2, SumFirst
  <2> QED
    BY <2>5, <2>6
<1> HIDE DEF N
<1>4. \A n \in Nat : n \in N
  BY <1>2, <1>3, AllNaturals
<1>5. \A s \in SUBSET S : SumOver(g, s) \in Nat
  BY <1>1, <1>4 DEF N
<1>6. ASSUME NEW x \in S PROVE g[x] <= SumOver(g, S)
  <2>1. SumOver(g, S) = g[x] + SumOver(g, S \ {x})
    BY SumRest
  <2>2. SumOver(g, S \ {x}) \in Nat /\ g[x] \in Nat
    BY <1>5
  <2> QED
    BY <2>1, <2>2
<1> QED
  BY <1>5, <1>6

\* One value changed.
LEMMA SumChanged ==
  ASSUME NEW f, NEW g, NEW S, IsFiniteSet(S), NEW e \in S,
         \A x \in S : f[x] \in Int /\ g[x] \in Int, \A x \in S \ {e} : g[x] = f[x]
  PROVE  SumOver(g, S) = SumOver(f, S) - f[e] + g[e]
<1> DEFINE T == S \ {e}
<1>1. IsFiniteSet(T)
  BY FS_Subset
<1>2. SumOver(f, S) = f[e] + SumOver(f, T) /\ SumOver(g, S) = g[e] + SumOver(g, T)
  BY SumRest
<1>3. SumOver(f, T) = SumOver(g, T)
  BY <1>1, SumSame
<1>4. SumOver(f, T) \in Int
  BY <1>1, SumInt
<1> QED
  BY <1>2, <1>3, <1>4

\* A member gets v more, one that is not there yet from 0.
LEMMA SumPut ==
  ASSUME NEW f, NEW g, NEW S, IsFiniteSet(S), NEW e, NEW v \in Int, \A x \in S : f[x] \in Int,
         \A x \in S \ {e} : g[x] = f[x], g[e] = (IF e \in S THEN f[e] ELSE 0) + v
  PROVE  IsFiniteSet(S \cup {e}) /\ SumOver(g, S \cup {e}) = SumOver(f, S) + v
<1>1. IsFiniteSet(S \cup {e})
  BY FS_AddElement
<1>2. g[e] \in Int /\ \A x \in S : g[x] \in Int
  OBVIOUS
<1>3. SumOver(f, S) \in Int
  BY SumInt
<1>4. CASE e \in S
  <2>1. SumOver(g, S) = SumOver(f, S) - f[e] + g[e]
    BY <1>2, <1>4, SumChanged
  <2>2. S \cup {e} = S
    BY <1>4
  <2>3. g[e] = f[e] + v /\ f[e] \in Int
    BY <1>4
  <2>4. SumOver(g, S) = SumOver(f, S) + v
    BY <1>3, <2>1, <2>3
  <2> QED
    BY <1>1, <2>2, <2>4
<1>5. CASE e \notin S
  <2>1. \A x \in S \cup {e} : g[x] \in Int
    BY <1>2
  <2>2. SumOver(g, S \cup {e}) = SumOver(g, S) + g[e]
    BY <1>5, <2>1, SumMore
  <2>3. SumOver(f, S) = SumOver(g, S)
    BY <1>5, SumSame
  <2>4. g[e] = v
    BY <1>5
  <2> QED
    BY <1>1, <1>3, <2>2, <2>3, <2>4
<1> QED
  BY <1>4, <1>5

\* More members, and values no smaller.
LEMMA SumWider ==
  ASSUME NEW f, NEW g, NEW T, IsFiniteSet(T), NEW S \in SUBSET T,
         \A x \in S : f[x] \in Nat /\ f[x] <= g[x], \A x \in T : g[x] \in Nat
  PROVE  SumOver(f, S) <= SumOver(g, T)
<1> DEFINE N == {n \in Nat : \A s \in SUBSET T : S \subseteq s /\ Cardinality(s \ S) = n =>
                   SumOver(f, S) <= SumOver(g, s)}
<1>1. \A s \in SUBSET T : IsFiniteSet(s) /\ IsFiniteSet(s \ S) /\ Cardinality(s \ S) \in Nat
                          /\ SumOver(g, s) \in Nat
  <2>1. ASSUME NEW s \in SUBSET T PROVE IsFiniteSet(s) /\ IsFiniteSet(s \ S)
    BY FS_Subset
  <2>2. ASSUME NEW s \in SUBSET T PROVE SumOver(g, s) \in Nat
    BY <2>1, SumNat
  <2> QED
    BY <2>1, <2>2, FS_CardinalityType
<1>2. 0 \in N
  <2>1. ASSUME NEW s \in SUBSET T, S \subseteq s, Cardinality(s \ S) = 0
        PROVE  s = S
    <3>1. s \ S = {}
      BY <1>1, <2>1, FS_EmptySet
    <3> QED
      BY <2>1, <3>1
  <2>2. SumOver(f, S) <= SumOver(g, S)
    <3>1. IsFiniteSet(S)
      BY FS_Subset
    <3>2. \A x \in S : f[x] \in Int /\ g[x] \in Int /\ f[x] <= g[x]
      OBVIOUS
    <3> QED
      BY <3>1, <3>2, SumGrows
  <2> QED
    BY <2>1, <2>2
<1>3. ASSUME NEW n \in Nat, n \in N PROVE n + 1 \in N
  <2>1. SUFFICES ASSUME NEW s \in SUBSET T, S \subseteq s, Cardinality(s \ S) = n + 1
                 PROVE  SumOver(f, S) <= SumOver(g, s)
    OBVIOUS
  <2>2. s \ S # {} /\ \A x \in s \ S : Cardinality((s \ S) \ {x}) = n
    <3> DEFINE r == s \ S
    <3>1. IsFiniteSet(r) /\ Cardinality(r) = n + 1
      BY <1>1, <2>1
    <3> HIDE DEF r
    <3>2. r # {} /\ \A x \in r : Cardinality(r \ {x}) = n
      BY <3>1, OneLess
    <3> QED
      BY <3>2 DEF r
  <2>3. PICK x \in s \ S : TRUE
    BY <2>2
  <2>4. (s \ S) \ {x} = (s \ {x}) \ S /\ S \subseteq s \ {x} /\ s \ {x} \in SUBSET T
    BY <2>1
  <2>5. SumOver(f, S) <= SumOver(g, s \ {x})
    BY <1>3, <2>2, <2>4
  <2>6. SumOver(g, s) = g[x] + SumOver(g, s \ {x})
    <3>1. x \in s /\ \A y \in s : g[y] \in Int
      OBVIOUS
    <3>2. IsFiniteSet(s)
      BY <1>1, <2>1
    <3> QED
      BY <3>1, <3>2, SumRest
  <2>7. g[x] \in Nat /\ SumOver(g, s \ {x}) \in Nat /\ SumOver(f, S) \in Nat
    <3>1. IsFiniteSet(S)
      BY FS_Subset
    <3>2. SumOver(f, S) \in Nat
      BY <3>1, SumNat
    <3> QED
      BY <1>1, <2>4, <3>2
  <2> QED
    BY <2>5, <2>6, <2>7
<1> HIDE DEF N
<1>4. \A n \in Nat : n \in N
  BY <1>2, <1>3, AllNaturals
<1>5. Cardinality(T \ S) \in N /\ T \in SUBSET T
  BY <1>1, <1>4
<1> QED
  BY <1>5 DEF N
=============================================================================
