-------------------------- MODULE AxelHoldersProofs --------------------------
(***************************************************************************)
(* The holders together and each of them, for any finite number of wallets *)
(* and any sequence of deposits, transfers, claims, recoveries and         *)
(* reopened positions: shares and revenue add up over all the positions,   *)
(* refunds and claims never fail, nobody is paid or owed more than the     *)
(* auditor's exact part, what rounding loses is bounded, and the backend's *)
(* replay of the events equals the program's positions.                    *)
(***************************************************************************)
EXTENDS PayoutReplay, AxelProjectProofs, FiniteSetTheorems,
        WellFoundedInduction

-----------------------------------------------------------------------------
(* Sums over a finite set.  The induction theorems of the library take an  *)
(* operator, so an induction here goes over the set of the numbers, or of  *)
(* the sets of arguments, for which the claim holds.                       *)

(* Induction with the set of numbers for which the claim holds.            *)
LEMMA InductionOverNat ==
  ASSUME NEW S \in SUBSET Nat, 0 \in S, \A n \in S : n + 1 \in S
  PROVE  S = Nat
<1> SUFFICES ASSUME Nat \ S # {} PROVE FALSE
  OBVIOUS
<1> DEFINE Less == OpToRel(<, Nat)
<1>1. IsWellFoundedOn(Less, Nat)
  BY NatLessThanWellFounded
<1>2. \A x, y \in Nat : x < y => <<x, y>> \in Less
  BY DEF OpToRel
<1> HIDE DEF Less
<1>3. PICK n \in Nat \ S : \A m \in Nat \ S : <<m, n>> \notin Less
  BY <1>1, WFMin
<1>4. n - 1 \in Nat /\ n - 1 \notin S
  BY <1>3
<1>5. <<n - 1, n>> \in Less
  BY <1>2, <1>4
<1>6. QED
  BY <1>3, <1>4, <1>5

(* F adds up the values of g over every set of its arguments. *)
Adds(F, g) ==
  F = [s \in SUBSET DOMAIN g |->
         IF s = {} THEN 0
         ELSE LET x == CHOOSE x \in s : TRUE IN g[x] + F[s \ {x}]]

(* The subsets of S with at most n elements.                               *)
UpTo(S, n) == {s \in SUBSET S : Cardinality(s) <= n}

(* F adds up the values of g over every set of at most n arguments.        *)
AddsUpTo(F, g, n) ==
  F = [s \in UpTo(DOMAIN g, n) |->
         IF s = {} THEN 0
         ELSE LET x == CHOOSE x \in s : TRUE IN g[x] + F[s \ {x}]]

LEMMA AddsOneMore ==
  ASSUME NEW g, IsFiniteSet(DOMAIN g), NEW n \in Nat, NEW F, AddsUpTo(F, g, n)
  PROVE  \E H : AddsUpTo(H, g, n + 1)
<1> DEFINE x(s) == CHOOSE x \in s : TRUE
           H == [s \in UpTo(DOMAIN g, n + 1) |->
                   IF s = {} THEN 0 ELSE g[x(s)] + F[s \ {x(s)}]]
<1>1. \A s \in SUBSET DOMAIN g : s # {} =>
        /\ x(s) \in s /\ IsFiniteSet(s)
        /\ Cardinality(s) \in Nat /\ s \ {x(s)} \in SUBSET DOMAIN g
        /\ Cardinality(s \ {x(s)}) = Cardinality(s) - 1
  BY FS_Subset, FS_RemoveElement, FS_CardinalityType
<1>2. \A s \in UpTo(DOMAIN g, n + 1) :
        s # {} => s \ {x(s)} \in UpTo(DOMAIN g, n)
  BY <1>1 DEF UpTo
<1>3. \A s \in UpTo(DOMAIN g, n) :
        s # {} => F[s] = g[x(s)] + F[s \ {x(s)}]
  BY DEF AddsUpTo
<1>4. \A s \in UpTo(DOMAIN g, n) : s = {} => F[s] = 0
  BY DEF AddsUpTo
<1>5. \A s \in UpTo(DOMAIN g, n) : s \in UpTo(DOMAIN g, n + 1)
  BY FS_Subset, FS_CardinalityType DEF UpTo
<1>6. \A s \in UpTo(DOMAIN g, n) : H[s] = F[s]
  BY <1>3, <1>4, <1>5
<1>7. \A s \in UpTo(DOMAIN g, n + 1) :
        s # {} => H[s \ {x(s)}] = F[s \ {x(s)}]
  BY <1>2, <1>6
<1>8. H = [s \in UpTo(DOMAIN g, n + 1) |->
             IF s = {} THEN 0 ELSE g[x(s)] + H[s \ {x(s)}]]
  <2> DEFINE A(s) == IF s = {} THEN 0 ELSE g[x(s)] + F[s \ {x(s)}]
             B(s) == IF s = {} THEN 0 ELSE g[x(s)] + H[s \ {x(s)}]
  <2>1. H = [s \in UpTo(DOMAIN g, n + 1) |-> A(s)]
    OBVIOUS
  <2> HIDE DEF H
  <2>2. \A s \in UpTo(DOMAIN g, n + 1) : A(s) = B(s)
    BY <1>7
  <2> HIDE DEF A, B
  <2>3. [s \in UpTo(DOMAIN g, n + 1) |-> A(s)]
          = [s \in UpTo(DOMAIN g, n + 1) |-> B(s)]
    BY <2>2
  <2>4. QED
    BY <2>1, <2>3 DEF B
<1> HIDE DEF H
<1>9. QED
  BY <1>8 DEF AddsUpTo

LEMMA SumsExist ==
  ASSUME NEW g, IsFiniteSet(DOMAIN g)
  PROVE  \E F : Adds(F, g)
<1> DEFINE S == {n \in Nat : \E F : AddsUpTo(F, g, n)}
<1>1. 0 \in S
  <2> DEFINE F == [s \in UpTo(DOMAIN g, 0) |-> 0]
  <2>1. \A s \in UpTo(DOMAIN g, 0) : s = {}
    BY FS_EmptySet, FS_Subset, FS_CardinalityType DEF UpTo
  <2>2. AddsUpTo(F, g, 0)
    BY <2>1 DEF AddsUpTo
  <2>3. QED
    BY <2>2
<1>2. \A n \in S : n + 1 \in S
  BY AddsOneMore
<1> HIDE DEF S
<1>3. S \in SUBSET Nat
  BY DEF S
<1>4. Cardinality(DOMAIN g) \in S
  BY <1>1, <1>2, <1>3, InductionOverNat, FS_CardinalityType
<1>5. UpTo(DOMAIN g, Cardinality(DOMAIN g)) = SUBSET DOMAIN g
  BY FS_Subset DEF UpTo
<1>6. QED
  BY <1>4, <1>5 DEF S, AddsUpTo, Adds

LEMMA SumIsAdded ==
  ASSUME NEW g, IsFiniteSet(DOMAIN g)
  PROVE  \E F : Adds(F, g) /\ SumFunction(g) = F[DOMAIN g]
<1> DEFINE E(F) == F = [s \in SUBSET DOMAIN g |->
         IF s = {} THEN 0
         ELSE LET x == CHOOSE x \in s : TRUE IN g[x] + F[s \ {x}]]
<1>1. \E F : E(F)
  BY SumsExist DEF Adds
<1>2. E(CHOOSE F : E(F))
  BY <1>1
<1>3. SumFunction(g) = (CHOOSE F : E(F))[DOMAIN g]
  BY DEF SumFunction, SumFunctionOnSet, FoldFunctionOnSet, MapThenFoldSet
<1>4. QED
  BY <1>2, <1>3 DEF Adds

(* The element that a sum takes next.                                      *)
AnyOf(s) == CHOOSE x \in s : TRUE

LEMMA AnyOfIsIn == \A s : s # {} => AnyOf(s) \in s
  BY DEF AnyOf

(* Induction over the subsets of a finite set, the order of a sum.         *)
LEMMA InductionOverSubsets ==
  ASSUME NEW D, IsFiniteSet(D), NEW C, {} \in C,
         \A s \in SUBSET D :
           s # {} /\ s \ {AnyOf(s)} \in C => s \in C
  PROVE  \A s \in SUBSET D : s \in C
<1> DEFINE S == {n \in Nat : \A s \in UpTo(D, n) : s \in C}
<1>1. 0 \in S
  <2>1. \A s \in UpTo(D, 0) : s = {}
    BY FS_EmptySet, FS_Subset, FS_CardinalityType DEF UpTo
  <2>2. QED
    BY <2>1
<1>2. ASSUME NEW n \in S PROVE n + 1 \in S
  <2> SUFFICES ASSUME NEW s \in UpTo(D, n + 1), s # {} PROVE s \in C
    OBVIOUS
  <2> DEFINE y == AnyOf(s)
  <2>1. s \in SUBSET D /\ y \in s
    BY AnyOfIsIn DEF UpTo
  <2> HIDE DEF y
  <2>2. /\ IsFiniteSet(s) /\ Cardinality(s) \in Nat
        /\ Cardinality(s \ {y}) = Cardinality(s) - 1
    BY <2>1, FS_Subset, FS_RemoveElement, FS_CardinalityType
  <2>3. s \ {y} \in UpTo(D, n)
    BY <1>2, <2>1, <2>2 DEF UpTo
  <2>4. s \ {y} \in C
    BY <2>3
  <2>5. QED
    BY <2>1, <2>4 DEF y
<1> HIDE DEF S
<1>3. S \in SUBSET Nat
  BY DEF S
<1>4. Cardinality(D) \in S
  BY <1>1, <1>2, <1>3, InductionOverNat, FS_CardinalityType
<1>5. UpTo(D, Cardinality(D)) = SUBSET D
  BY FS_Subset DEF UpTo
<1>6. QED
  BY <1>4, <1>5 DEF S

SumsUp(F, g, D) ==
  /\ SumFunction(g) = F[D] /\ F[{}] = 0
  /\ \A s \in SUBSET D : F[s] \in Int
  /\ \A s \in SUBSET D : s # {} => F[s] = g[AnyOf(s)] + F[s \ {AnyOf(s)}]

(* A sum: over no argument it is zero, and one argument adds its value.    *)
LEMMA SumSteps ==
  ASSUME NEW D, IsFiniteSet(D), NEW g \in [D -> Int]
  PROVE  \E F : SumsUp(F, g, D)
<1>1. DOMAIN g = D
  OBVIOUS
<1>2. PICK F : Adds(F, g) /\ SumFunction(g) = F[D]
  BY <1>1, SumIsAdded
<1>3. F[{}] = 0
  BY <1>2 DEF Adds
<1>4. \A s \in SUBSET D : s # {} =>
        F[s] = g[AnyOf(s)] + F[s \ {AnyOf(s)}]
  BY <1>1, <1>2 DEF Adds, AnyOf
<1> DEFINE C == {s \in SUBSET D : F[s] \in Int}
<1>5. {} \in C
  BY <1>3
<1>6. ASSUME NEW s \in SUBSET D, s # {}, s \ {AnyOf(s)} \in C
      PROVE  s \in C
  <2> DEFINE y == AnyOf(s)
  <2>1. y \in s
    BY <1>6, AnyOfIsIn
  <2>2. F[s] = g[y] + F[s \ {y}] /\ F[s \ {y}] \in Int
    BY <1>4, <1>6
  <2> HIDE DEF y
  <2>3. QED
    BY <2>1, <2>2
<1> HIDE DEF C
<1>7. \A s \in SUBSET D : s \in C
  BY <1>5, <1>6, InductionOverSubsets
<1>8. QED
  BY <1>2, <1>3, <1>4, <1>7 DEF C, SumsUp

LEMMA SumIsLinear ==
  ASSUME NEW D, IsFiniteSet(D), NEW g \in [D -> Int], NEW h \in [D -> Int],
         NEW k \in [D -> Int], NEW c \in Int,
         \A o \in D : h[o] = g[o] + k[o] * c
  PROVE  SumFunction(h) = SumFunction(g) + SumFunction(k) * c
<1>1. PICK G : SumsUp(G, g, D)
  BY SumSteps
<1>2. PICK H : SumsUp(H, h, D)
  BY SumSteps
<1>3. PICK K : SumsUp(K, k, D)
  BY SumSteps
<1> DEFINE C == {s \in SUBSET D : H[s] = G[s] + K[s] * c}
<1>4. {} \in C
  BY <1>1, <1>2, <1>3 DEF SumsUp
<1>5. ASSUME NEW s \in SUBSET D, s # {}, s \ {AnyOf(s)} \in C
      PROVE  s \in C
  <2> DEFINE y == AnyOf(s)
  <2>1. y \in D
    BY <1>5, AnyOfIsIn
  <2>2. H[s \ {y}] = G[s \ {y}] + K[s \ {y}] * c
    BY <1>5
  <2>3. /\ H[s] = h[y] + H[s \ {y}] /\ G[s] = g[y] + G[s \ {y}]
        /\ K[s] = k[y] + K[s \ {y}]
    BY <1>1, <1>2, <1>3, <1>5 DEF SumsUp
  <2>4. G[s \ {y}] \in Int /\ K[s \ {y}] \in Int
    BY <1>1, <1>3 DEF SumsUp
  <2> HIDE DEF y
  <2>5. h[y] = g[y] + k[y] * c /\ g[y] \in Int /\ k[y] \in Int
    BY <2>1
  <2>6. \A a, b \in Int : (a + b) * c = a * c + b * c
    OBVIOUS
  <2>7. (k[y] + K[s \ {y}]) * c = k[y] * c + K[s \ {y}] * c
    BY <2>4, <2>5, <2>6
  <2>8. k[y] * c \in Int /\ K[s \ {y}] * c \in Int
    BY <2>4, <2>5
  <2>9. H[s] = G[s] + K[s] * c
    BY <2>2, <2>3, <2>4, <2>5, <2>7, <2>8
  <2>10. QED
    BY <2>9
<1> HIDE DEF C, SumsUp
<1>6. \A s \in SUBSET D : s \in C
  BY <1>4, <1>5, InductionOverSubsets
<1>7. QED
  BY <1>1, <1>2, <1>3, <1>6 DEF C, SumsUp

LEMMA SumIsMonotonic ==
  ASSUME NEW D, IsFiniteSet(D), NEW g \in [D -> Int], NEW h \in [D -> Int],
         \A o \in D : g[o] <= h[o]
  PROVE  SumFunction(g) <= SumFunction(h)
<1>1. PICK G : SumsUp(G, g, D)
  BY SumSteps
<1>2. PICK H : SumsUp(H, h, D)
  BY SumSteps
<1> DEFINE C == {s \in SUBSET D : G[s] <= H[s]}
<1>3. {} \in C
  BY <1>1, <1>2 DEF SumsUp
<1>4. ASSUME NEW s \in SUBSET D, s # {}, s \ {AnyOf(s)} \in C
      PROVE  s \in C
  <2> DEFINE y == AnyOf(s)
  <2>1. y \in D
    BY <1>4, AnyOfIsIn
  <2>2. G[s \ {y}] <= H[s \ {y}]
    BY <1>4
  <2>3. H[s] = h[y] + H[s \ {y}] /\ G[s] = g[y] + G[s \ {y}]
    BY <1>1, <1>2, <1>4 DEF SumsUp
  <2>4. G[s \ {y}] \in Int /\ H[s \ {y}] \in Int
    BY <1>1, <1>2 DEF SumsUp
  <2> HIDE DEF y
  <2>5. g[y] <= h[y] /\ g[y] \in Int /\ h[y] \in Int
    BY <2>1
  <2>6. QED
    BY <2>2, <2>3, <2>4, <2>5
<1> HIDE DEF C, SumsUp
<1>5. \A s \in SUBSET D : s \in C
  BY <1>3, <1>4, InductionOverSubsets
<1>6. QED
  BY <1>1, <1>2, <1>5 DEF C, SumsUp

LEMMA SumOfOneChange ==
  ASSUME NEW D, IsFiniteSet(D), NEW g \in [D -> Int], NEW h \in [D -> Int],
         NEW o \in D, \A p \in D : p # o => h[p] = g[p]
  PROVE  SumFunction(h) = SumFunction(g) - g[o] + h[o]
<1>1. PICK G : SumsUp(G, g, D)
  BY SumSteps
<1>2. PICK H : SumsUp(H, h, D)
  BY SumSteps
<1> DEFINE C == {s \in SUBSET D : H[s] = IF o \in s THEN G[s] - g[o] + h[o]
                                         ELSE G[s]}
<1>3. {} \in C
  BY <1>1, <1>2 DEF SumsUp
<1>4. ASSUME NEW s \in SUBSET D, s # {}, s \ {AnyOf(s)} \in C
      PROVE  s \in C
  <2> DEFINE y == AnyOf(s)
  <2>1. y \in D /\ y \in s
    BY <1>4, AnyOfIsIn
  <2>2. H[s \ {y}] = IF o \in s \ {y} THEN G[s \ {y}] - g[o] + h[o]
                     ELSE G[s \ {y}]
    BY <1>4
  <2>3. H[s] = h[y] + H[s \ {y}] /\ G[s] = g[y] + G[s \ {y}]
    BY <1>1, <1>2, <1>4 DEF SumsUp
  <2>4. G[s \ {y}] \in Int /\ H[s \ {y}] \in Int
    BY <1>1, <1>2 DEF SumsUp
  <2> HIDE DEF y
  <2>5. g[y] \in Int /\ h[y] \in Int /\ g[o] \in Int /\ h[o] \in Int
    BY <2>1
  <2>6. CASE y = o
    BY <2>1, <2>2, <2>3, <2>4, <2>5, <2>6
  <2>7. CASE y # o
    BY <2>1, <2>2, <2>3, <2>4, <2>5, <2>7
  <2>8. QED
    BY <2>6, <2>7
<1> HIDE DEF C, SumsUp
<1>5. \A s \in SUBSET D : s \in C
  BY <1>3, <1>4, InductionOverSubsets
<1>6. QED
  BY <1>1, <1>2, <1>5 DEF C, SumsUp

LEMMA SumIsInt ==
  ASSUME NEW D, IsFiniteSet(D), NEW g \in [D -> Int]
  PROVE  SumFunction(g) \in Int
<1>1. PICK G : SumsUp(G, g, D)
  BY SumSteps
<1>2. QED
  BY <1>1 DEF SumsUp

LEMMA SumOfZeros ==
  ASSUME NEW D, IsFiniteSet(D), NEW g \in [D -> Int], \A o \in D : g[o] = 0
  PROVE  SumFunction(g) = 0
<1>1. SumFunction(g) = SumFunction(g) + SumFunction(g) * 1
  BY SumIsLinear
<1>2. QED
  BY <1>1, SumIsInt

(* A sum of naturals is natural, and no less than each of them.            *)
LEMMA SumOfNaturals ==
  ASSUME NEW D, IsFiniteSet(D), NEW g \in [D -> Nat]
  PROVE  /\ SumFunction(g) \in Nat
         /\ \A o \in D : g[o] <= SumFunction(g)
<1>1. g \in [D -> Int]
  OBVIOUS
<1>2. ASSUME NEW h \in [D -> Nat] PROVE SumFunction(h) \in Nat
  <2> DEFINE zero == [o \in D |-> 0]
  <2>1. /\ zero \in [D -> Int] /\ h \in [D -> Int]
        /\ \A o \in D : zero[o] = 0 /\ zero[o] <= h[o]
    OBVIOUS
  <2> HIDE DEF zero
  <2>2. SumFunction(zero) = 0 /\ SumFunction(zero) <= SumFunction(h)
    BY <2>1, SumOfZeros, SumIsMonotonic
  <2>3. QED
    BY <2>1, <2>2, SumIsInt
<1>3. ASSUME NEW o \in D PROVE g[o] <= SumFunction(g)
  <2> DEFINE h == [g EXCEPT ![o] = 0]
  <2>1. /\ h \in [D -> Int] /\ h \in [D -> Nat] /\ h[o] = 0
        /\ \A p \in D : p # o => h[p] = g[p]
    OBVIOUS
  <2> HIDE DEF h
  <2>2. SumFunction(h) = SumFunction(g) - g[o] + h[o]
    BY <1>1, <2>1, SumOfOneChange
  <2>3. SumFunction(h) \in Nat /\ SumFunction(g) \in Nat
    BY <1>2, <2>1
  <2>4. QED
    BY <2>1, <2>2, <2>3
<1>4. QED
  BY <1>2, <1>3

LEMMA SumOfTwoChanges ==
  ASSUME NEW D, IsFiniteSet(D), NEW g \in [D -> Int], NEW h \in [D -> Int],
         NEW a \in D, NEW b \in D, a # b,
         \A o \in D : o # a /\ o # b => h[o] = g[o]
  PROVE  SumFunction(h) = SumFunction(g) - g[a] + h[a] - g[b] + h[b]
<1> DEFINE m == [g EXCEPT ![a] = h[a]]
<1>1. /\ m \in [D -> Int] /\ m[a] = h[a] /\ m[b] = g[b]
      /\ \A o \in D : o # a => m[o] = g[o]
      /\ \A o \in D : o # b => h[o] = m[o]
  OBVIOUS
<1> HIDE DEF m
<1>2. /\ SumFunction(m) = SumFunction(g) - g[a] + m[a]
      /\ SumFunction(h) = SumFunction(m) - m[b] + h[b]
  BY <1>1, SumOfOneChange
<1>3. /\ SumFunction(g) \in Int /\ g[a] \in Int /\ g[b] \in Int
      /\ h[a] \in Int /\ h[b] \in Int
  BY SumIsInt
<1>4. QED
  BY <1>1, <1>2, <1>3

(* A sum whose terms are at most m, and nothing outside a set S.           *)
LEMMA SumIsCounted ==
  ASSUME NEW D, IsFiniteSet(D), NEW g \in [D -> Int], NEW S \in SUBSET D,
         NEW m \in Nat,
         \A o \in D : /\ o \in S => g[o] <= m
                      /\ o \notin S => g[o] <= 0
  PROVE  Cardinality(S) \in Nat /\ SumFunction(g) <= m * Cardinality(S)
<1>1. PICK G : SumsUp(G, g, D)
  BY SumSteps
<1> DEFINE C == {s \in SUBSET D : G[s] <= m * Cardinality(s \cap S)}
<1>2. {} \in C
  <2>1. Cardinality({} \cap S) = 0
    BY FS_EmptySet
  <2>2. QED
    BY <1>1, <2>1 DEF SumsUp
<1>3. ASSUME NEW s \in SUBSET D, s # {}, s \ {AnyOf(s)} \in C
      PROVE  s \in C
  <2> DEFINE y == AnyOf(s)
             c == Cardinality((s \ {y}) \cap S)
  <2>1. y \in D /\ y \in s
    BY <1>3, AnyOfIsIn
  <2>2. G[s \ {y}] <= m * c
    BY <1>3
  <2>3. /\ G[s] = g[y] + G[s \ {y}] /\ G[s \ {y}] \in Int
        /\ g[y] \in Int
    BY <1>1, <1>3, <2>1 DEF SumsUp
  <2>4. IsFiniteSet((s \ {y}) \cap S) /\ c \in Nat
    BY FS_Subset, FS_CardinalityType
  <2>5. CASE y \in S
    <3>1. s \cap S = ((s \ {y}) \cap S) \cup {y} /\ y \notin (s \ {y}) \cap S
      BY <2>1, <2>5
    <3>2. Cardinality(s \cap S) = c + 1
      BY <2>4, <3>1, FS_AddElement
    <3> HIDE DEF y, c
    <3>3. m * (c + 1) = m * c + m /\ m * c \in Nat
      BY <2>4
    <3>4. g[y] <= m
      BY <2>1, <2>5
    <3>5. G[s] <= m * (c + 1)
      BY <2>2, <2>3, <3>3, <3>4
    <3>6. QED
      BY <3>2, <3>5
  <2>6. CASE y \notin S
    <3>1. s \cap S = (s \ {y}) \cap S
      BY <2>6
    <3>2. Cardinality(s \cap S) = c
      BY <3>1
    <3> HIDE DEF y, c
    <3>3. g[y] <= 0 /\ m * c \in Nat
      BY <2>1, <2>4, <2>6
    <3>4. G[s] <= m * c
      BY <2>2, <2>3, <3>3
    <3>5. QED
      BY <3>2, <3>4
  <2>7. QED
    BY <2>5, <2>6
<1> HIDE DEF C
<1>4. \A s \in SUBSET D : s \in C
  BY <1>2, <1>3, InductionOverSubsets
<1>5. D \in C /\ D \cap S = S
  BY <1>4
<1>6. QED
  BY <1>1, <1>5, FS_Subset, FS_CardinalityType DEF C, SumsUp
-----------------------------------------------------------------------------
(* The shares of all the owners.                                           *)

(* The shares of every owner, as a function that can be summed.            *)
SharesOf == [o \in Owners |-> position[o].shares]

SharesTyped ==
  /\ SharesOf \in [Owners -> Int] /\ burned \in [Owners -> Int]
  /\ SharesOf \in [Owners -> Nat] /\ burned \in [Owners -> Nat]
  /\ \A o \in Owners : SharesOf[o] = position[o].shares
  /\ SumFunction(SharesOf) \in Nat /\ SumFunction(burned) \in Nat
  /\ SharesHeld = SumFunction(SharesOf)
  /\ sharesSold \in Nat /\ sharesRefunded \in Nat
  /\ sharesRetired \in Nat /\ supply \in Nat

LEMMA SharesAreTyped == TypeInv => SharesTyped
<1> SUFFICES ASSUME TypeInv PROVE SharesTyped
  OBVIOUS
<1>1. \A o \in Owners : position[o].shares \in Nat
  BY PositionTypes
<1>2. SharesOf \in [Owners -> Nat] /\ burned \in [Owners -> Nat]
  BY <1>1 DEF SharesOf, TypeInv, TypeOK, WorldTypeOK
<1>3. SumFunction(SharesOf) \in Nat /\ SumFunction(burned) \in Nat
  BY <1>2, OwnersAssumption, SumOfNaturals
<1>4. /\ sharesSold \in Nat /\ sharesRefunded \in Nat
      /\ sharesRetired \in Nat /\ supply \in Nat
  BY ConstantsAreFine DEF TypeInv, TypeOK, RaiseTypeOK, LedgerTypeOK
<1>5. SharesHeld = SumFunction(SharesOf)
  BY DEF SharesHeld, SharesOf
<1>6. \A o \in Owners : SharesOf[o] = position[o].shares
  BY DEF SharesOf
<1>7. SharesOf \in [Owners -> Int] /\ burned \in [Owners -> Int]
  BY <1>2
<1>8. QED
  BY <1>2, <1>3, <1>4, <1>5, <1>6, <1>7 DEF SharesTyped

LEMMA SharesStayTyped == TypeInv' => SharesTyped'
  BY SharesAreTyped, PTL

(* What a step does to the shares of the owners it touches is what it does *)
(* to their sum.                                                           *)
LEMMA HeldAfterOne ==
  ASSUME TypeInv, TypeInv', NEW o \in Owners,
         \A p \in Owners \ {o} : position'[p] = position[p]
  PROVE  SharesHeld' = SharesHeld - position[o].shares + position'[o].shares
<1>1. SharesTyped /\ SharesTyped'
  BY SharesAreTyped, SharesStayTyped
<1>2. \A p \in Owners : p # o => SharesOf'[p] = SharesOf[p]
  BY <1>1 DEF SharesTyped
<1>3. SumFunction(SharesOf')
        = SumFunction(SharesOf) - SharesOf[o] + SharesOf'[o]
  BY <1>1, <1>2, SumOfOneChange, OwnersAssumption DEF SharesTyped
<1>4. QED
  BY <1>1, <1>3 DEF SharesTyped

LEMMA HeldAfterTwo ==
  ASSUME TypeInv, TypeInv', NEW a \in Owners, NEW b \in Owners, a # b,
         \A o \in Owners \ {a, b} : position'[o] = position[o]
  PROVE  SharesHeld' = SharesHeld - position[a].shares + position'[a].shares
                         - position[b].shares + position'[b].shares
<1>1. SharesTyped /\ SharesTyped'
  BY SharesAreTyped, SharesStayTyped
<1>2. \A o \in Owners : o # a /\ o # b => SharesOf'[o] = SharesOf[o]
  BY <1>1 DEF SharesTyped
<1>3. SumFunction(SharesOf')
        = SumFunction(SharesOf) - SharesOf[a] + SharesOf'[a]
            - SharesOf[b] + SharesOf'[b]
  BY <1>1, <1>2, SumOfTwoChanges, OwnersAssumption DEF SharesTyped
<1>4. QED
  BY <1>1, <1>3 DEF SharesTyped

LEMMA HeldByTheSame ==
  ASSUME position' = position
  PROVE  SharesHeld' = SharesHeld
  BY DEF SharesHeld

(* The amounts that decide whether the shares add up.                      *)
countVars == <<sharesSold, sharesRefunded, sharesRetired, supply, burned>>

LEMMA StillAddUp ==
  ASSUME SharesAddUp, SharesHeld' = SharesHeld, UNCHANGED countVars
  PROVE  SharesAddUp'
  BY DEF SharesAddUp, OutstandingShares, countVars


LEMMA InitSharesAddUp == Init => SharesAddUp
<1> SUFFICES ASSUME Init PROVE SharesAddUp
  OBVIOUS
<1>1. TypeInv
  BY InitTypeInv
<1>2. /\ \A o \in Owners : SharesOf[o] = 0 /\ burned[o] = 0
      /\ SharesTyped
  BY <1>1, SharesAreTyped DEF Init, SharesTyped, NoPosition
<1>3. SumFunction(SharesOf) = 0 /\ SumFunction(burned) = 0
  BY <1>2, SumOfZeros, OwnersAssumption DEF SharesTyped
<1>4. QED
  BY <1>2, <1>3 DEF Init, SharesAddUp, SharesTyped, OutstandingShares

LEMMA BuyAddsUp ==
  ASSUME TypeInv, TypeInv', LedgerInv, SharesAddUp,
         NEW o \in Owners, NEW n \in BuyAmounts, BuyShares(o, n)
  PROVE  SharesAddUp'
<1>1. /\ position'[o].shares = position[o].shares + n /\ n \in Nat
      /\ \A p \in Owners \ {o} : position'[p] = position[p]
      /\ sharesSold' = sharesSold + n /\ supply' = supply + n
      /\ UNCHANGED <<sharesRefunded, sharesRetired, burned>>
  BY OwnStepsMoveShares
  DEF BuyShares, TypeInv, TypeOK, LedgerTypeOK, refundVars, world, outsideVars
<1>2. SharesHeld' = SharesHeld - position[o].shares + position'[o].shares
  BY <1>1, HeldAfterOne
<1>3. SharesTyped /\ position[o].shares \in Nat
  BY SharesAreTyped, PositionTypes
<1>4. QED
  BY <1>1, <1>2, <1>3 DEF SharesAddUp, OutstandingShares, SharesTyped

LEMMA RefundAddsUp ==
  ASSUME TypeInv, TypeInv', LedgerInv, SharesAddUp, NEW o \in Owners, Refund(o)
  PROVE  SharesAddUp'
<1>1. /\ position'[o].shares = 0
      /\ \A p \in Owners \ {o} : position'[p] = position[p]
      /\ sharesRefunded' = sharesRefunded + position[o].shares
      /\ supply' = supply - position[o].shares
      /\ UNCHANGED <<sharesSold, sharesRetired, burned>>
  BY OwnStepsMoveShares
  DEF Refund, TypeInv, TypeOK, LedgerTypeOK, world, outsideVars
<1>2. SharesHeld' = SharesHeld - position[o].shares + position'[o].shares
  BY <1>1, HeldAfterOne
<1>3. SharesTyped /\ position[o].shares \in Nat
  BY SharesAreTyped, PositionTypes
<1>4. QED
  BY <1>1, <1>2, <1>3 DEF SharesAddUp, OutstandingShares, SharesTyped

LEMMA CloseAddsUp ==
  ASSUME TypeInv, TypeInv', LedgerInv, SharesAddUp, NEW o \in Owners,
         ClosePosition(o)
  PROVE  SharesAddUp'
<1>1. /\ position'[o].shares = 0
      /\ \A p \in Owners \ {o} : position'[p] = position[p]
      /\ sharesRetired' = sharesRetired + position[o].shares
      /\ supply' = supply - position[o].shares
      /\ UNCHANGED <<sharesSold, sharesRefunded, burned>>
  BY OwnStepsMoveShares
  DEF ClosePosition, TypeInv, TypeOK, LedgerTypeOK, world, outsideVars,
      raiseVars, refundVars
<1>2. SharesHeld' = SharesHeld - position[o].shares + position'[o].shares
  BY <1>1, HeldAfterOne
<1>3. SharesTyped /\ position[o].shares \in Nat
  BY SharesAreTyped, PositionTypes
<1>4. QED
  BY <1>1, <1>2, <1>3 DEF SharesAddUp, OutstandingShares, SharesTyped

(* Opening a position and a claim leave every number of shares alone.      *)
LEMMA OwnStepAddsUp ==
  ASSUME TypeInv, TypeInv', LedgerInv, SharesAddUp, NEW o \in Owners,
         OpenPosition(o) \/ Claim(o)
  PROVE  SharesAddUp'
<1>1. /\ position'[o].shares = position[o].shares
      /\ \A p \in Owners \ {o} : position'[p] = position[p]
      /\ UNCHANGED countVars
  BY OwnStepsMoveShares
  DEF OpenPosition, Claim, TypeInv, TypeOK, LedgerTypeOK, world, outsideVars,
      raiseVars, refundVars, countVars
<1>2. SharesHeld' = SharesHeld - position[o].shares + position'[o].shares
  BY <1>1, HeldAfterOne
<1>3. SharesTyped /\ position[o].shares \in Nat
  BY SharesAreTyped, PositionTypes
<1>4. SharesHeld' = SharesHeld
  BY <1>1, <1>2, <1>3 DEF SharesTyped
<1>5. QED
  BY <1>1, <1>4, StillAddUp

LEMMA TransferAddsUp ==
  ASSUME TypeInv, TypeInv', LedgerInv, SharesAddUp, NEW from \in Owners,
         NEW to \in Owners, NEW n \in TransferAmounts, Transfer(from, to, n)
  PROVE  SharesAddUp'
<1>1. /\ from # to /\ n \in Nat
      /\ position'[from].shares = position[from].shares - n
      /\ position'[to].shares = position[to].shares + n
      /\ \A o \in Owners \ {from, to} : position'[o] = position[o]
  BY TransferEffect DEF IsSettled
<1>2. UNCHANGED countVars
  BY DEF Transfer, world, outsideVars, raiseVars, refundVars, countVars
<1>3. SharesHeld' = SharesHeld - position[from].shares + position'[from].shares
                      - position[to].shares + position'[to].shares
  BY <1>1, HeldAfterTwo
<1>4. /\ SharesTyped
      /\ position[from].shares \in Nat /\ position[to].shares \in Nat
  BY SharesAreTyped, PositionTypes
<1>5. SharesHeld' = SharesHeld
  BY <1>1, <1>3, <1>4 DEF SharesTyped
<1>6. QED
  BY <1>2, <1>5, StillAddUp

(* reissue_shares burns as many as it mints.                               *)
LEMMA RecoveryAddsUp ==
  ASSUME TypeInv, TypeInv', LedgerInv, SharesAddUp, NEW from \in Owners,
         ExecuteRecovery(from)
  PROVE  SharesAddUp'
<1> DEFINE to == request[from].to
           n == request[from].shares
<1>1. /\ to \in Owners /\ from # to /\ n \in Nat
      /\ position'[from].shares = position[from].shares - n
      /\ position'[to].shares = position[to].shares + n
      /\ \A o \in Owners \ {from, to} : position'[o] = position[o]
  BY RecoveryIsVetoable, RecoveryEffect
<1>2. /\ UNCHANGED <<sharesSold, sharesRefunded, sharesRetired, burned>>
      /\ supply' = supply - n + n
  BY DEF ExecuteRecovery, SupplyAfterReissue, world, outsideVars, raiseVars,
         refundVars
<1> HIDE DEF to, n
<1>3. SharesHeld' = SharesHeld - position[from].shares + position'[from].shares
                      - position[to].shares + position'[to].shares
  BY <1>1, HeldAfterTwo
<1>4. /\ SharesTyped
      /\ position[from].shares \in Nat /\ position[to].shares \in Nat
  BY <1>1, SharesAreTyped, PositionTypes
<1>5. SharesHeld' = SharesHeld
  BY <1>1, <1>3, <1>4 DEF SharesTyped
<1>6. supply' = supply
  BY <1>1, <1>2, <1>4 DEF SharesTyped
<1>7. QED
  BY <1>2, <1>5, <1>6, StillAddUp DEF countVars

LEMMA BurnAddsUp ==
  ASSUME TypeInv, TypeInv', SharesAddUp, NEW o \in Owners,
         NEW n \in BurnAmounts, BurnOwnShares(o, n)
  PROVE  SharesAddUp'
<1>1. /\ SharesTyped /\ SharesTyped' /\ n \in Nat
      /\ burned' = [burned EXCEPT ![o] = @ + n]
      /\ supply' = supply - n /\ position' = position
      /\ UNCHANGED <<sharesSold, sharesRefunded, sharesRetired>>
  BY SharesAreTyped, SharesStayTyped, InputsAssumption
  DEF BurnOwnShares, raiseVars, refundVars
<1>2. /\ burned'[o] = burned[o] + n /\ burned[o] \in Int
      /\ burned \in [Owners -> Int] /\ burned' \in [Owners -> Int]
      /\ \A p \in Owners : p # o => burned'[p] = burned[p]
  BY <1>1 DEF SharesTyped
<1>3. SumFunction(burned') = SumFunction(burned) - burned[o] + burned'[o]
  BY <1>2, SumOfOneChange, OwnersAssumption
<1>4. SharesHeld' = SharesHeld
  BY <1>1, HeldByTheSame
<1>5. QED
  BY <1>1, <1>2, <1>3, <1>4 DEF SharesAddUp, OutstandingShares, SharesTyped

LEMMA NextAddsUp ==
  ASSUME TypeInv, TypeInv', LedgerInv, SharesAddUp, [Next]_vars
  PROVE  SharesAddUp'
<1>1. CASE RaiseStep
  <2>1. CASE FinalizeRaise \/ ActivateProject \/ CancelRaise
    <3>1. position' = position /\ UNCHANGED countVars
      BY <2>1
      DEF FinalizeRaise, ActivateProject, CancelRaise, ledgerVars, raiseVars,
          refundVars, world, outsideVars, countVars
    <3>2. QED
      BY <3>1, HeldByTheSame, StillAddUp
  <2>2. QED
    BY <1>1, <2>1, BuyAddsUp, RefundAddsUp DEF RaiseStep
<1>2. CASE ManageStep
  <2>1. position' = position /\ UNCHANGED countVars
    BY <1>2
    DEF ManageStep, PauseProject, ResumeProject, SetRoles, CloseProject,
        ManagedUnchanged, ledgerVars, raiseVars, refundVars, world,
        outsideVars, countVars
  <2>2. QED
    BY <2>1, HeldByTheSame, StillAddUp
<1>3. CASE HoldingStep
  <2>1. CASE \E gross \in GrossAmounts : DepositRevenue(gross)
    <3>1. position' = position /\ UNCHANGED countVars
      BY <2>1
      DEF DepositRevenue, ledgerVars, raiseVars, refundVars, world,
          outsideVars, countVars
    <3>2. QED
      BY <3>1, HeldByTheSame, StillAddUp
  <2>2. QED
    BY <1>3, <2>1, OwnStepAddsUp, CloseAddsUp, TransferAddsUp DEF HoldingStep
<1>4. CASE RecoveryStep
  <2>1. CASE ~ \E from \in Owners : ExecuteRecovery(from)
    <3>1. position' = position /\ UNCHANGED countVars
      BY <1>4, <2>1
      DEF RecoveryStep, ProposeRecovery, VetoRecovery, WithdrawRecovery,
          RequestClosed, ledgerVars, raiseVars, refundVars, world,
          outsideVars, countVars
    <3>2. QED
      BY <3>1, HeldByTheSame, StillAddUp
  <2>2. QED
    BY <2>1, RecoveryAddsUp
<1>5. CASE RegistryStep
  <2>1. position' = position /\ UNCHANGED countVars
    BY <1>5
    DEF RegistryStep, SetInvestor, SetInvestorDemo, KycWritten, UpdateConfig,
        ledgerVars, raiseVars, refundVars, world, outsideVars, countVars
  <2>2. QED
    BY <2>1, HeldByTheSame, StillAddUp
<1>6. CASE OutsideStep
  <2>1. CASE \E o \in Owners, n \in BurnAmounts : BurnOwnShares(o, n)
    BY <2>1, BurnAddsUp
  <2>2. CASE ~ \E o \in Owners, n \in BurnAmounts : BurnOwnShares(o, n)
    <3>1. position' = position /\ UNCHANGED countVars
      BY <1>6, <2>2
      DEF OutsideStep, Tick, DonateToEscrow, DonateToVault,
          CreateShareAccount, CloseShareAccount, ledgerVars, raiseVars,
          refundVars, world, outsideVars, countVars
    <3>2. QED
      BY <3>1, HeldByTheSame, StillAddUp
  <2>3. QED
    BY <2>1, <2>2
<1>7. CASE UNCHANGED vars
  <2>1. position' = position /\ UNCHANGED countVars
    BY <1>7
    DEF vars, ledgerVars, raiseVars, refundVars, world, outsideVars, countVars
  <2>2. QED
    BY <2>1, HeldByTheSame, StillAddUp
<1>8. QED
  BY <1>1, <1>2, <1>3, <1>4, <1>5, <1>6, <1>7 DEF Next

(* I2 of docs/v2.md: whatever is bought, refunded, transferred, recovered, *)
(* closed or burned, the positions add up to the shares sold and neither   *)
(* refunded nor retired, and so does the mint's supply.                    *)
THEOREM TheSharesAddUp == Spec => []SharesAddUp
<1>1. TypeInv /\ TypeInv' /\ LedgerInv /\ SharesAddUp /\ [Next]_vars
        => SharesAddUp'
  BY NextAddsUp
<1>2. QED
  BY <1>1, InitSharesAddUp, TypesAreInvariant, LedgerIsInvariant, PTL DEF Spec

(* What has been refunded is the price of the shares refunded.             *)
RefundsArePriced == totalRefunded = sharesRefunded * Price

LEMMA OnlyRefundsReturn ==
  ASSUME [Next]_vars, \A o \in Owners : ~Refund(o)
  PROVE  UNCHANGED refundVars
<1>1. CASE RaiseStep
  <2>1. CASE \E o \in Owners, n \in BuyAmounts : BuyShares(o, n)
    BY <2>1 DEF BuyShares
  <2>2. CASE FinalizeRaise \/ ActivateProject \/ CancelRaise
    BY <2>2 DEF FinalizeRaise, ActivateProject, CancelRaise, raiseVars
  <2>3. QED
    BY <1>1, <2>1, <2>2 DEF RaiseStep
<1>2. CASE ManageStep
  BY <1>2 DEF ManageStep, PauseProject, ResumeProject, SetRoles, CloseProject,
     ManagedUnchanged, raiseVars
<1>3. CASE HoldingStep
  <2>1. CASE \E o \in Owners : OpenPosition(o) \/ ClosePosition(o) \/ Claim(o)
    BY <2>1 DEF OpenPosition, ClosePosition, Claim, raiseVars
  <2>2. CASE \E gross \in GrossAmounts : DepositRevenue(gross)
    BY <2>2 DEF DepositRevenue, raiseVars
  <2>3. CASE \E from, to \in Owners, n \in TransferAmounts :
               Transfer(from, to, n)
    BY <2>3 DEF Transfer, raiseVars
  <2>4. QED
    BY <1>3, <2>1, <2>2, <2>3 DEF HoldingStep
<1>4. CASE RecoveryStep
  BY <1>4 DEF RecoveryStep, ProposeRecovery, VetoRecovery, WithdrawRecovery,
     RequestClosed, ExecuteRecovery, raiseVars
<1>5. CASE RegistryStep
  BY <1>5 DEF RegistryStep, SetInvestor, SetInvestorDemo, KycWritten,
     UpdateConfig, raiseVars
<1>6. CASE OutsideStep
  BY <1>6 DEF OutsideStep, Tick, DonateToEscrow, DonateToVault,
     CreateShareAccount, CloseShareAccount, BurnOwnShares, raiseVars
<1>7. CASE UNCHANGED vars
  BY <1>7 DEF vars, raiseVars
<1>8. QED
  BY <1>1, <1>2, <1>3, <1>4, <1>5, <1>6, <1>7 DEF Next

LEMMA RefundsArePricedIsInvariant == Spec => []RefundsArePriced
<1>1. Init => RefundsArePriced
  BY ConstantsAreFine DEF Init, RefundsArePriced
<1>2. TypeInv /\ RefundsArePriced /\ [Next]_vars => RefundsArePriced'
  <2> SUFFICES ASSUME TypeInv, RefundsArePriced, [Next]_vars
               PROVE  RefundsArePriced'
    OBVIOUS
  <2>1. ASSUME NEW o \in Owners, Refund(o) PROVE RefundsArePriced'
    <3> DEFINE n == position[o].shares
    <3>1. /\ sharesRefunded' = sharesRefunded + n
          /\ totalRefunded' = totalRefunded + n * Price
      BY <2>1 DEF Refund, RefundAmount, SharesValue
    <3>2. n \in Nat /\ sharesRefunded \in Nat
      BY PositionTypes
    <3> HIDE DEF n
    <3>3. (sharesRefunded + n) * Price = sharesRefunded * Price + n * Price
      BY <3>2, PriceDistributes
    <3>4. QED
      BY <3>1, <3>3 DEF RefundsArePriced
  <2>2. CASE \A o \in Owners : ~Refund(o)
    BY <2>2, OnlyRefundsReturn DEF RefundsArePriced, refundVars
  <2>3. QED
    BY <2>1, <2>2
<1>3. QED
  BY <1>1, <1>2, TypesAreInvariant, PTL DEF Spec

(* The tokens in circulation are the shares held and not burned: none but  *)
(* its owner's burning leaves a holder without the tokens it must give up. *)
LEMMA SupplyCoversBalances ==
  ASSUME TypeInv, LedgerInv, SharesAddUp, NEW o \in Owners
  PROVE  supply >= shareAccount[o].amount
<1> DEFINE balance == [p \in Owners |-> shareAccount[p].amount]
<1>1. \A p \in Owners : shareAccount[p].amount \in Nat
  BY DEF TypeInv, TypeOK, LedgerTypeOK, ShareAccountRecord
<1>2. /\ balance \in [Owners -> Nat] /\ balance \in [Owners -> Int]
      /\ balance[o] = shareAccount[o].amount
  BY <1>1
<1>3. SharesTyped /\ 1 \in Int
  BY SharesAreTyped
<1>4. \A p \in Owners : SharesOf[p] = balance[p] + burned[p] * 1
  <2>1. \A p \in Owners : burned[p] * 1 = burned[p]
    BY <1>3 DEF SharesTyped
  <2>2. \A p \in Owners : position[p].shares = shareAccount[p].amount + burned[p]
    BY DEF LedgerInv, EntryIsSound
  <2>3. QED
    BY <1>3, <2>1, <2>2 DEF SharesTyped
<1> HIDE DEF balance
<1>5. SumFunction(SharesOf) = SumFunction(balance) + SumFunction(burned) * 1
  BY <1>2, <1>3, <1>4, SumIsLinear, OwnersAssumption DEF SharesTyped
<1>6. SumFunction(balance) \in Nat /\ balance[o] <= SumFunction(balance)
  BY <1>2, SumOfNaturals, OwnersAssumption
<1>7. supply = SumFunction(balance)
  BY <1>3, <1>5, <1>6 DEF SharesAddUp, SharesTyped, OutstandingShares
<1>8. QED
  BY <1>2, <1>6, <1>7

(* docs/v2.md, refund: once a raise has failed, no order of refunds,       *)
(* recoveries and donations leaves the escrow short, and the ledger check  *)
(* and the counters of a refund fail for nobody who has not burned shares  *)
(* itself.                                                                 *)
THEOREM TheRefundsNeverFail == Spec => []RefundsNeverFail
<1>1. ASSUME TypeInv, LedgerInv, MoneyInv, SharesAddUp, RefundsArePriced
      PROVE  RefundsNeverFail
  <2> SUFFICES ASSUME state = "Failed" PROVE RefundsNeverFail
    BY DEF RefundsNeverFail
  <2>1. escrow.amount = (sharesSold - sharesRefunded) * Price + donated.escrow
    BY <1>1 DEF MoneyInv, EscrowIsExact
  <2>2. /\ SharesTyped /\ SharesHeld = sharesSold - sharesRefunded - sharesRetired
        /\ SharesHeld \in Nat
    BY <1>1, SharesAreTyped DEF SharesAddUp, OutstandingShares, SharesTyped
  <2>3. donated.escrow \in Nat
    BY <1>1 DEF TypeInv, TypeOK, WorldTypeOK
  <2>4. /\ sharesSold - sharesRefunded \in Nat
        /\ SharesHeld <= sharesSold - sharesRefunded
    BY <2>2 DEF SharesTyped
  <2>5. SharesHeld * Price <= (sharesSold - sharesRefunded) * Price
    BY <2>2, <2>4, ProductIsMonotonic, TermsAssumption
  <2>6. escrow.amount >= SharesHeld * Price
    <3>1. /\ SharesHeld * Price \in Int
          /\ (sharesSold - sharesRefunded) * Price \in Int
      BY <2>2, <2>4, TermsAssumption
    <3>2. QED
      BY <2>1, <2>3, <2>5, <3>1
  <2>7. ASSUME NEW o \in Owners, position[o].shares > 0, burned[o] = 0
        PROVE  /\ LedgerMatches(shareAccount[o], position[o])
               /\ shareAccount[o].exists /\ ~shareAccount[o].frozen
               /\ supply >= position[o].shares
    <3>1. EntryIsSound(o) /\ shareAccount[o] \in ShareAccountRecord
      BY <1>1 DEF LedgerInv, TypeInv, TypeOK, LedgerTypeOK
    <3>2. shareAccount[o].amount \in Nat /\ shareAccount[o].frozen \in BOOLEAN
          /\ shareAccount[o].exists \in BOOLEAN
      BY <3>1 DEF ShareAccountRecord
    <3>3. supply >= shareAccount[o].amount
      BY <1>1, SupplyCoversBalances
    <3>4. QED
      BY <2>7, <3>1, <3>2, <3>3 DEF EntryIsSound, LedgerMatches
  <2>8. ASSUME NEW o \in Owners
        PROVE  LET n == position[o].shares
                   amount == SharesValue(n, Price)
               IN /\ amount <= MaxU64 /\ escrow.amount >= amount
                  /\ sharesRefunded + n <= MaxU64
                  /\ totalRefunded + amount <= MaxU64
    <3> DEFINE n == position[o].shares
    <3>1. /\ n \in Nat /\ n <= SharesHeld
          /\ sharesRefunded \in Nat /\ sharesSold \in Nat
          /\ sharesSold <= TotalShares /\ TotalShares \in Nat
      <4>1. SharesOf[o] = n /\ SharesOf[o] <= SumFunction(SharesOf)
        BY <2>2, SumOfNaturals, OwnersAssumption DEF SharesTyped
      <4>2. QED
        BY <1>1, <2>2, <4>1, PositionTypes, TermsAssumption
        DEF SharesTyped, TypeInv, TypeOK, RaiseTypeOK
    <3> HIDE DEF n
    <3>2. /\ sharesRefunded + n \in Nat /\ sharesRefunded + n <= TotalShares
          /\ Price \in Nat /\ TotalShares \in Nat /\ MaxU64 \in Nat
          /\ TotalShares <= MaxU64
      BY <2>2, <2>4, <3>1, SharesFit, TermsAssumption DEF U64
    <3>3. /\ (sharesRefunded + n) * Price <= TotalShares * Price
          /\ n * Price <= SharesHeld * Price
          /\ (sharesRefunded + n) * Price = sharesRefunded * Price + n * Price
          /\ sharesRefunded * Price \in Nat /\ n * Price \in Nat
          /\ SharesHeld * Price \in Nat /\ TotalShares * Price \in Nat
      BY <2>2, <3>1, <3>2, ProductIsMonotonic, PriceDistributes
    <3>4. TotalShares * Price <= MaxU64
      BY TermsAssumption
    <3>5. escrow.amount \in Nat
      BY <1>1 DEF TypeInv, TypeOK, RaiseTypeOK
    <3>6. /\ n * Price <= MaxU64 /\ escrow.amount >= n * Price
          /\ sharesRefunded + n <= MaxU64
          /\ sharesRefunded * Price + n * Price <= MaxU64
      BY <2>6, <3>2, <3>3, <3>4, <3>5
    <3>7. QED
      BY <1>1, <3>6 DEF RefundsArePriced, SharesValue, n
  <2>9. QED
    BY <2>6, <2>7, <2>8 DEF RefundsNeverFail
<1>2. TypeInv /\ LedgerInv /\ MoneyInv /\ SharesAddUp /\ RefundsArePriced
        => RefundsNeverFail
  BY <1>1
<1>3. QED
  BY <1>2, TypesAreInvariant, LedgerIsInvariant, MoneyIsInvariant,
     TheSharesAddUp, RefundsArePricedIsInvariant, PTL
-----------------------------------------------------------------------------
(* What is owed to all the holders together.                               *)

(* What a settlement of a position would drop, in units of 1/One, and what *)
(* the position has earned exactly, in the same units.                     *)
Unsettled(o) == position[o].shares * (accPerShare - position[o].accCheckpoint)
Fraction(o) ==
  IF position[o].open THEN Unsettled(o) - Earned(position[o]) * One ELSE 0
Due(o) == Fraction(o) + Pending(o) * One

PendingOf == [o \in Owners |-> Pending(o)]
FractionOf == [o \in Owners |-> Fraction(o)]
DueOf == [o \in Owners |-> Due(o)]

DueIsFloored(o) ==
  /\ Pending(o) \in Nat /\ Fraction(o) \in 0 .. One - 1 /\ Due(o) \in Nat
  /\ position[o].open =>
       Due(o) = position[o].accrued * One + Unsettled(o)
  /\ Unsettled(o) \in Nat
  /\ Unsettled(o) = 0 => Fraction(o) = 0

LEMMA DuesAreFloored ==
  ASSUME TypeInv, LedgerInv, NEW o \in Owners
  PROVE  DueIsFloored(o)
<1> DEFINE s == position[o].shares
           d == accPerShare - position[o].accCheckpoint
           e == (s * d) \div One
           a == position[o].accrued
<1>1. /\ s \in Nat /\ d \in Nat /\ a \in Nat /\ One \in Nat /\ One > 0
      /\ Pending(o) \in Nat /\ position[o].open \in BOOLEAN
  BY PositionTypes, PendingOfOpen, OneAssumption
<1>2. /\ Unsettled(o) = s * d /\ Earned(position[o]) = e
      /\ position[o].open => Pending(o) = a + e
  BY PendingOfOpen DEF Unsettled, Earned, Owed
<1>3. s * d \in Nat
  BY <1>1
<1>4. e \in Nat /\ e * One <= s * d /\ s * d < e * One + One
  BY <1>1, <1>3, FloorIsClose
<1>5. s * d = 0 => e = 0
  BY <1>1
<1> HIDE DEF s, d, e, a
<1>6. CASE position[o].open
  <2>1. Fraction(o) = s * d - e * One /\ Due(o) = Fraction(o) + (a + e) * One
    BY <1>2, <1>6 DEF Fraction, Due
  <2>2. (a + e) * One = a * One + e * One /\ a * One \in Nat /\ e * One \in Nat
    BY <1>1, <1>4
  <2>3. Fraction(o) \in 0 .. One - 1
    BY <1>1, <1>3, <1>4, <2>1, <2>2
  <2>4. Due(o) = a * One + s * d
    BY <1>3, <2>1, <2>2, <2>3
  <2>5. Due(o) \in Nat
    BY <1>3, <2>2, <2>4
  <2>6. s * d = 0 => Fraction(o) = 0
    BY <1>1, <1>5, <2>1, <2>2
  <2>7. QED
    BY <1>1, <1>2, <1>3, <2>3, <2>4, <2>5, <2>6 DEF DueIsFloored, a
<1>7. CASE ~position[o].open
  <2>1. Fraction(o) = 0 /\ Due(o) = 0 + Pending(o) * One
    BY <1>7 DEF Fraction, Due
  <2>2. Due(o) \in Nat
    BY <1>1, <2>1
  <2>3. QED
    BY <1>1, <1>2, <1>3, <1>7, <2>1, <2>2 DEF DueIsFloored
<1>8. QED
  BY <1>6, <1>7

DuesTyped ==
  /\ PendingOf \in [Owners -> Nat] /\ PendingOf \in [Owners -> Int]
  /\ FractionOf \in [Owners -> Nat] /\ FractionOf \in [Owners -> Int]
  /\ DueOf \in [Owners -> Nat] /\ DueOf \in [Owners -> Int]
  /\ \A o \in Owners :
       /\ DueIsFloored(o)
       /\ PendingOf[o] = Pending(o) /\ FractionOf[o] = Fraction(o)
       /\ DueOf[o] = Due(o)
  /\ SumFunction(PendingOf) \in Nat /\ SumFunction(FractionOf) \in Nat
  /\ SumFunction(DueOf) \in Nat
  /\ SumFunction(DueOf) = SumFunction(FractionOf) + SumFunction(PendingOf) * One

LEMMA DuesAreTyped == TypeInv /\ LedgerInv => DuesTyped
<1> SUFFICES ASSUME TypeInv, LedgerInv PROVE DuesTyped
  OBVIOUS
<1>1. \A o \in Owners : DueIsFloored(o)
  BY DuesAreFloored
<1>2. \A o \in Owners :
        Pending(o) \in Nat /\ Fraction(o) \in Nat /\ Due(o) \in Nat
  BY <1>1 DEF DueIsFloored
<1>3. /\ PendingOf \in [Owners -> Nat] /\ FractionOf \in [Owners -> Nat]
      /\ DueOf \in [Owners -> Nat]
      /\ \A o \in Owners :
           /\ PendingOf[o] = Pending(o) /\ FractionOf[o] = Fraction(o)
           /\ DueOf[o] = Due(o)
  BY <1>2 DEF PendingOf, FractionOf, DueOf
<1>4. /\ PendingOf \in [Owners -> Int] /\ FractionOf \in [Owners -> Int]
      /\ DueOf \in [Owners -> Int] /\ One \in Int
  BY <1>3, OneAssumption
<1>5. \A o \in Owners : DueOf[o] = FractionOf[o] + PendingOf[o] * One
  BY <1>3 DEF Due
<1>6. SumFunction(DueOf) = SumFunction(FractionOf) + SumFunction(PendingOf) * One
  BY <1>4, <1>5, SumIsLinear, OwnersAssumption
<1>7. /\ SumFunction(PendingOf) \in Nat /\ SumFunction(FractionOf) \in Nat
      /\ SumFunction(DueOf) \in Nat
  BY <1>3, SumOfNaturals, OwnersAssumption
<1>8. QED
  BY <1>1, <1>3, <1>4, <1>6, <1>7 DEF DuesTyped

LEMMA DuesStayTyped == TypeInv' /\ LedgerInv' => DuesTyped'
  BY DuesAreTyped, PTL

(* The fraction a step drops with a settlement.                            *)
Dropped(o) ==
  IF position'[o].accCheckpoint # position[o].accCheckpoint \/ ~position'[o].open
  THEN Fraction(o) ELSE 0

(* Of every position: a step that deposits nothing keeps its fraction or   *)
(* drops it.                                                               *)
LEMMA FractionIsDropped ==
  ASSUME TypeInv, TypeInv', LedgerInv, LedgerInv', NEW o \in Owners,
         accPerShare' = accPerShare,
         \/ position'[o] = position[o] \/ ~position'[o].open
         \/ position'[o].accCheckpoint = accPerShare
         \/ accPerShare = 0
  PROVE  Fraction(o)' + Dropped(o) = Fraction(o) /\ Dropped(o) \in Nat
<1>1. /\ DueIsFloored(o) /\ DueIsFloored(o)'
      /\ position[o].accCheckpoint \in Nat /\ position[o].shares \in Nat
      /\ position'[o].accCheckpoint \in Nat /\ position'[o].shares \in Nat
      /\ accPerShare \in Nat
  <2>1. DueIsFloored(o) /\ DueIsFloored(o)'
    BY DuesAreTyped, DuesStayTyped DEF DuesTyped
  <2>2. position'[o].accCheckpoint \in Nat /\ position'[o].shares \in Nat
    BY ConstantsAreFine DEF TypeInv, TypeOK, LedgerTypeOK, PositionRecord
  <2>3. QED
    BY <2>1, <2>2, PositionTypes
<1>2. Fraction(o) \in Nat /\ Dropped(o) \in Nat
  BY <1>1 DEF DueIsFloored, Dropped
<1>3. CASE position'[o] = position[o]
  <2>1. Fraction(o)' = Fraction(o)
    BY <1>3 DEF Fraction, Unsettled, Earned
  <2>2. Dropped(o) = 0
    BY <1>3 DEF Dropped, Fraction
  <2>3. QED
    BY <1>2, <2>1, <2>2
<1>4. CASE ~position'[o].open
  <2>1. Fraction(o)' = 0 /\ Dropped(o) = Fraction(o)
    BY <1>4 DEF Fraction, Dropped
  <2>2. QED
    BY <1>2, <2>1
<1>5. CASE position'[o].accCheckpoint = accPerShare
  <2>1. Unsettled(o)' = 0
    BY <1>1, <1>5 DEF Unsettled
  <2>2. Fraction(o)' = 0
    BY <1>1, <2>1 DEF DueIsFloored
  <2>3. CASE position[o].accCheckpoint = accPerShare
    <3>1. Unsettled(o) = 0
      BY <1>1, <2>3 DEF Unsettled
    <3>2. Fraction(o) = 0
      BY <1>1, <3>1 DEF DueIsFloored
    <3>3. QED
      BY <2>2, <3>2 DEF Dropped
  <2>4. CASE position[o].accCheckpoint # accPerShare
    BY <1>2, <1>5, <2>2, <2>4 DEF Dropped
  <2>5. QED
    BY <2>3, <2>4
<1>6. CASE accPerShare = 0
  <2>1. position[o].accCheckpoint <= accPerShare
    BY DEF LedgerInv, EntryIsSound
  <2>2. position'[o].accCheckpoint <= accPerShare'
    BY DEF LedgerInv, EntryIsSound
  <2>3. accPerShare - position[o].accCheckpoint = 0
    BY <1>1, <1>6, <2>1
  <2>4. accPerShare' - position'[o].accCheckpoint = 0
    BY <1>1, <1>6, <2>2
  <2>5. Unsettled(o) = 0 /\ Unsettled(o)' = 0
    BY <1>1, <2>3, <2>4 DEF Unsettled
  <2>6. Fraction(o) = 0 /\ Fraction(o)' = 0
    BY <1>1, <2>5 DEF DueIsFloored
  <2>7. QED
    BY <2>6 DEF Dropped
<1>7. QED
  BY <1>2, <1>3, <1>4, <1>5, <1>6

(* The steps that can change a checkpoint settle the position, open it or  *)
(* close it, or are taken when there is no revenue.                        *)
LEMMA StepsDropFractions ==
  ASSUME TypeInv, TypeInv', LedgerInv, LedgerInv', NoRevenueYet, [Next]_vars,
         \A gross \in GrossAmounts : ~DepositRevenue(gross), NEW o \in Owners
  PROVE  Fraction(o)' + Dropped(o) = Fraction(o) /\ Dropped(o) \in Nat
<1>1. accPerShare' = accPerShare
  BY OnlyDepositsEarn
<1> SUFFICES ASSUME position'[o] # position[o]
             PROVE  \/ ~position'[o].open
                    \/ position'[o].accCheckpoint = accPerShare
                    \/ accPerShare = 0
  BY <1>1, FractionIsDropped
<1>2. TouchesPosition(o)
  BY OnlyTheseTouchPositions
<1>3. ASSUME NEW n \in BuyAmounts, BuyShares(o, n) PROVE accPerShare = 0
  BY <1>3 DEF BuyShares, RaiseIsOpen, NoRevenueYet, NeverOperated
<1>4. CASE Refund(o)
  BY <1>4 DEF Refund, RefundIsOpen, NoRevenueYet, NeverOperated
<1>5. CASE OpenPosition(o)
  <2>1. position'[o] = OpenedPosition(o)
    BY <1>5 DEF OpenPosition, TypeInv, TypeOK, LedgerTypeOK
  <2>2. QED
    BY <2>1 DEF OpenedPosition, NoPosition
<1>6. CASE ClosePosition(o)
  BY <1>6 DEF ClosePosition, NoPosition, TypeInv, TypeOK, LedgerTypeOK
<1>7. CASE Claim(o)
  BY <1>7, ClaimEffect
<1>8. ASSUME NEW p \in Owners, NEW n \in TransferAmounts,
             Transfer(o, p, n) \/ Transfer(p, o, n)
      PROVE  position'[o].accCheckpoint = accPerShare
  BY <1>8, TransferEffect DEF IsSettled
<1>9. CASE ExecuteRecovery(o)
  BY <1>9, RecoveryEffect
<1>10. ASSUME NEW p \in Owners, ExecuteRecovery(p), request[p].to = o
       PROVE  position'[o].accCheckpoint = accPerShare
  BY <1>10, RecoveryEffect
<1>11. QED
  BY <1>2, <1>3, <1>4, <1>5, <1>6, <1>7, <1>8, <1>9, <1>10 DEF TouchesPosition

LEMMA OwedToTheSame ==
  ASSUME NEW o \in Owners, position'[o] = position[o], accPerShare' = accPerShare
  PROVE  Pending(o)' = Pending(o)
  BY DEF Pending, Earned

LEMMA OwedAfterOne ==
  ASSUME TypeInv, TypeInv', LedgerInv, LedgerInv', NEW o \in Owners,
         \A p \in Owners \ {o} : position'[p] = position[p],
         accPerShare' = accPerShare
  PROVE  SumFunction(PendingOf')
           = SumFunction(PendingOf) - Pending(o) + Pending(o)'
<1>1. DuesTyped /\ DuesTyped'
  BY DuesAreTyped, DuesStayTyped
<1>2. \A p \in Owners : p # o => Pending(p)' = Pending(p)
  BY OwedToTheSame
<1>3. /\ PendingOf \in [Owners -> Int] /\ PendingOf' \in [Owners -> Int]
      /\ \A p \in Owners : p # o => PendingOf'[p] = PendingOf[p]
      /\ PendingOf[o] = Pending(o) /\ PendingOf'[o] = Pending(o)'
  BY <1>1, <1>2 DEF DuesTyped
<1>4. SumFunction(PendingOf')
        = SumFunction(PendingOf) - PendingOf[o] + PendingOf'[o]
  BY <1>3, SumOfOneChange, OwnersAssumption
<1>5. QED
  BY <1>3, <1>4

LEMMA OwedAfterTwo ==
  ASSUME TypeInv, TypeInv', LedgerInv, LedgerInv', NEW a \in Owners,
         NEW b \in Owners, a # b,
         \A o \in Owners \ {a, b} : position'[o] = position[o],
         accPerShare' = accPerShare
  PROVE  SumFunction(PendingOf')
           = SumFunction(PendingOf) - Pending(a) + Pending(a)'
               - Pending(b) + Pending(b)'
<1>1. DuesTyped /\ DuesTyped'
  BY DuesAreTyped, DuesStayTyped
<1>2. \A o \in Owners : o # a /\ o # b => Pending(o)' = Pending(o)
  BY OwedToTheSame
<1>3. /\ PendingOf \in [Owners -> Int] /\ PendingOf' \in [Owners -> Int]
      /\ \A o \in Owners : o # a /\ o # b => PendingOf'[o] = PendingOf[o]
      /\ PendingOf[a] = Pending(a) /\ PendingOf'[a] = Pending(a)'
      /\ PendingOf[b] = Pending(b) /\ PendingOf'[b] = Pending(b)'
  BY <1>1, <1>2 DEF DuesTyped
<1>4. SumFunction(PendingOf')
        = SumFunction(PendingOf) - PendingOf[a] + PendingOf'[a]
            - PendingOf[b] + PendingOf'[b]
  BY <1>3, SumOfTwoChanges, OwnersAssumption
<1>5. QED
  BY <1>3, <1>4

(* What the holders are owed together falls by what a step pays.           *)
OwedFallsByPayment ==
  SumFunction(PendingOf') + totalClaimed' = SumFunction(PendingOf) + totalClaimed

OwedIsTheSame == position' = position /\ UNCHANGED <<accPerShare, totalClaimed>>

LEMMA NothingIsOwedOrPaid ==
  ASSUME OwedIsTheSame
  PROVE  OwedFallsByPayment
<1>1. PendingOf' = PendingOf
  BY DEF OwedIsTheSame, PendingOf, Pending, Earned
<1>2. QED
  BY <1>1 DEF OwedIsTheSame, OwedFallsByPayment

LEMMA OwnStepPays ==
  ASSUME TypeInv, TypeInv', LedgerInv, LedgerInv', NoRevenueYet, [Next]_vars,
         NEW o \in Owners,
         \/ \E n \in BuyAmounts : BuyShares(o, n)
         \/ Refund(o) \/ OpenPosition(o) \/ ClosePosition(o)
  PROVE  OwedFallsByPayment
<1>1. /\ \A p \in Owners \ {o} : position'[p] = position[p]
      /\ accPerShare' = accPerShare /\ totalClaimed' = totalClaimed
  BY DEF BuyShares, Refund, OpenPosition, ClosePosition, revenueVars, TypeInv,
         TypeOK, LedgerTypeOK
<1>2. Pending(o)' = Pending(o)
  BY PurchaseLosesNothing, RefundLosesNothing, OpeningLosesNothing,
     NothingIsForfeited
<1>3. SumFunction(PendingOf')
        = SumFunction(PendingOf) - Pending(o) + Pending(o)'
  BY <1>1, OwedAfterOne
<1>4. DuesTyped /\ Pending(o) \in Nat
  BY DuesAreTyped, PendingOfOpen
<1>5. QED
  BY <1>1, <1>2, <1>3, <1>4 DEF OwedFallsByPayment, DuesTyped

LEMMA ClaimPays ==
  ASSUME TypeInv, TypeInv', LedgerInv, LedgerInv', NEW o \in Owners, Claim(o)
  PROVE  OwedFallsByPayment
<1>1. /\ \A p \in Owners \ {o} : position'[p] = position[p]
      /\ accPerShare' = accPerShare
      /\ position'[o].open /\ position'[o].accCheckpoint = accPerShare'
      /\ position'[o].accrued = 0
  BY ClaimEffect DEF dueVars
<1>2. position'[o].shares \in Nat /\ accPerShare' \in Nat
  BY <1>1, PositionTypes, ConstantsAreFine
  DEF TypeInv, TypeOK, LedgerTypeOK, PositionRecord
<1>3. Pending(o)' = 0
  BY <1>1, <1>2, PendingOfSettled
<1>4. SumFunction(PendingOf')
        = SumFunction(PendingOf) - Pending(o) + Pending(o)'
  BY <1>1, OwedAfterOne
<1>5. totalClaimed' = totalClaimed + Pending(o)
  BY ClaimPaysWhatIsPending
<1>6. DuesTyped /\ Pending(o) \in Nat /\ totalClaimed \in Nat
  BY DuesAreTyped, PendingOfOpen, ConstantsAreFine
  DEF TypeInv, TypeOK, RevenueTypeOK
<1>7. QED
  BY <1>3, <1>4, <1>5, <1>6 DEF OwedFallsByPayment, DuesTyped

LEMMA TransferPays ==
  ASSUME TypeInv, TypeInv', LedgerInv, LedgerInv', NEW from \in Owners,
         NEW to \in Owners, NEW n \in TransferAmounts, Transfer(from, to, n)
  PROVE  OwedFallsByPayment
<1>1. /\ from # to /\ accPerShare' = accPerShare
      /\ \A o \in Owners \ {from, to} : position'[o] = position[o]
  BY TransferEffect DEF dueVars
<1>2. Pending(from)' = Pending(from) /\ Pending(to)' = Pending(to)
  BY TransferLosesNothing
<1>3. SumFunction(PendingOf')
        = SumFunction(PendingOf) - Pending(from) + Pending(from)'
            - Pending(to) + Pending(to)'
  BY <1>1, OwedAfterTwo
<1>4. /\ DuesTyped /\ Pending(from) \in Nat /\ Pending(to) \in Nat
      /\ totalClaimed' = totalClaimed
  BY DuesAreTyped, PendingOfOpen DEF Transfer, revenueVars
<1>5. QED
  BY <1>2, <1>3, <1>4 DEF OwedFallsByPayment, DuesTyped

LEMMA RecoveryPays ==
  ASSUME TypeInv, TypeInv', LedgerInv, LedgerInv', NEW from \in Owners,
         ExecuteRecovery(from)
  PROVE  OwedFallsByPayment
<1> DEFINE to == request[from].to
<1>1. /\ to \in Owners /\ from # to /\ accPerShare' = accPerShare
      /\ \A o \in Owners \ {from, to} : position'[o] = position[o]
  BY RecoveryEffect DEF dueVars
<1>2. PICK w \in Owners : w = to
  BY <1>1
<1>3. Pending(from) + Pending(w) = Pending(from)' + Pending(w)'
  BY <1>2, RecoveryLosesNothing
<1>4. from # w /\ \A o \in Owners \ {from, w} : position'[o] = position[o]
  BY <1>1, <1>2
<1>5. SumFunction(PendingOf')
        = SumFunction(PendingOf) - Pending(from) + Pending(from)'
            - Pending(w) + Pending(w)'
  BY <1>1, <1>4, OwedAfterTwo
<1>6. /\ DuesTyped /\ Pending(from) \in Nat /\ Pending(w) \in Nat
      /\ Pending(from)' \in Nat /\ Pending(w)' \in Nat
      /\ totalClaimed' = totalClaimed
  BY DuesAreTyped, PendingOfOpen, PendingStaysNatural
  DEF ExecuteRecovery, revenueVars
<1>7. QED
  BY <1>3, <1>5, <1>6 DEF OwedFallsByPayment, DuesTyped

LEMMA NextPays ==
  ASSUME TypeInv, TypeInv', LedgerInv, LedgerInv', NoRevenueYet, [Next]_vars,
         \A gross \in GrossAmounts : ~DepositRevenue(gross)
  PROVE  OwedFallsByPayment /\ UNCHANGED <<totalDepositedNet, periods>>
<1>1. CASE RaiseStep
  <2>1. CASE FinalizeRaise \/ ActivateProject \/ CancelRaise
    <3>1. OwedIsTheSame /\ UNCHANGED <<totalDepositedNet, periods>>
      BY <2>1
      DEF FinalizeRaise, ActivateProject, CancelRaise, ledgerVars,
          revenueVars, OwedIsTheSame
    <3>2. QED
      BY <3>1, NothingIsOwedOrPaid
  <2>2. CASE \/ \E o \in Owners, n \in BuyAmounts : BuyShares(o, n)
             \/ \E o \in Owners : Refund(o)
    <3>1. UNCHANGED <<totalDepositedNet, periods>>
      BY <2>2 DEF BuyShares, Refund, revenueVars
    <3>2. QED
      BY <2>2, <3>1, OwnStepPays
  <2>3. QED
    BY <1>1, <2>1, <2>2 DEF RaiseStep
<1>2. CASE ManageStep
  <2>1. OwedIsTheSame /\ UNCHANGED <<totalDepositedNet, periods>>
    BY <1>2
    DEF ManageStep, PauseProject, ResumeProject, SetRoles, CloseProject,
        ManagedUnchanged, ledgerVars, revenueVars, OwedIsTheSame
  <2>2. QED
    BY <2>1, NothingIsOwedOrPaid
<1>3. CASE HoldingStep
  <2>1. ASSUME NEW o \in Owners, OpenPosition(o) \/ ClosePosition(o)
        PROVE  OwedFallsByPayment /\ UNCHANGED <<totalDepositedNet, periods>>
    BY <2>1, OwnStepPays DEF OpenPosition, ClosePosition, revenueVars
  <2>2. ASSUME NEW o \in Owners, Claim(o)
        PROVE  OwedFallsByPayment /\ UNCHANGED <<totalDepositedNet, periods>>
    BY <2>2, ClaimPays DEF Claim
  <2>3. ASSUME NEW from \in Owners, NEW to \in Owners,
               NEW n \in TransferAmounts, Transfer(from, to, n)
        PROVE  OwedFallsByPayment /\ UNCHANGED <<totalDepositedNet, periods>>
    BY <2>3, TransferPays DEF Transfer, revenueVars
  <2>4. QED
    BY <1>3, <2>1, <2>2, <2>3 DEF HoldingStep
<1>4. CASE RecoveryStep
  <2>1. CASE ~ \E from \in Owners : ExecuteRecovery(from)
    <3>1. OwedIsTheSame /\ UNCHANGED <<totalDepositedNet, periods>>
      BY <1>4, <2>1
      DEF RecoveryStep, ProposeRecovery, VetoRecovery, WithdrawRecovery,
          RequestClosed, ledgerVars, revenueVars, OwedIsTheSame
    <3>2. QED
      BY <3>1, NothingIsOwedOrPaid
  <2>2. CASE \E from \in Owners : ExecuteRecovery(from)
    <3>1. UNCHANGED <<totalDepositedNet, periods>>
      BY <2>2 DEF ExecuteRecovery, revenueVars
    <3>2. QED
      BY <2>2, <3>1, RecoveryPays
  <2>3. QED
    BY <2>1, <2>2
<1>5. CASE RegistryStep
  <2>1. OwedIsTheSame /\ UNCHANGED <<totalDepositedNet, periods>>
    BY <1>5
    DEF RegistryStep, SetInvestor, SetInvestorDemo, KycWritten, UpdateConfig,
        ledgerVars, revenueVars, OwedIsTheSame
  <2>2. QED
    BY <2>1, NothingIsOwedOrPaid
<1>6. CASE OutsideStep
  <2>1. OwedIsTheSame /\ UNCHANGED <<totalDepositedNet, periods>>
    BY <1>6
    DEF OutsideStep, Tick, DonateToEscrow, DonateToVault, CreateShareAccount,
        CloseShareAccount, BurnOwnShares, ledgerVars, revenueVars,
        OwedIsTheSame
  <2>2. QED
    BY <2>1, NothingIsOwedOrPaid
<1>7. CASE UNCHANGED vars
  <2>1. OwedIsTheSame /\ UNCHANGED <<totalDepositedNet, periods>>
    BY <1>7 DEF vars, ledgerVars, revenueVars, OwedIsTheSame
  <2>2. QED
    BY <2>1, NothingIsOwedOrPaid
<1>8. QED
  BY <1>1, <1>2, <1>3, <1>4, <1>5, <1>6, <1>7 DEF Next

(* A deposit raises what is due to all the positions together by the       *)
(* increment of the accumulator for every share.                           *)
LEMMA DepositIsShared ==
  ASSUME TypeInv, TypeInv', LedgerInv, LedgerInv', SharesAddUp,
         NEW gross \in GrossAmounts, DepositRevenue(gross)
  PROVE  \E net, outstanding \in Nat :
           /\ outstanding > 0 /\ outstanding <= MaxU64
           /\ SumFunction(DueOf') = SumFunction(DueOf)
                + outstanding * AccIncrement(net, outstanding)
           /\ totalDepositedNet' = totalDepositedNet + net
           /\ totalClaimed' = totalClaimed /\ position' = position
           /\ Len(periods') = Len(periods) + 1
<1> DEFINE net == NetOfFee(gross, RevenueFeeBps)
           outstanding == OutstandingShares
           inc == AccIncrement(net, outstanding)
<1>1. /\ outstanding > 0 /\ accPerShare' = accPerShare + inc
      /\ totalDepositedNet' = totalDepositedNet + net
      /\ totalClaimed' = totalClaimed /\ position' = position
      /\ \E period : periods' = Append(periods, period)
  BY DEF DepositRevenue, AccAfter, ledgerVars
<1>2. net \in Nat
  <2>1. gross \in Nat
    BY InputsAssumption, ConstantsAreFine
  <2>2. QED
    BY <2>1, ConstantsAreFine, FeeIsAPart
<1>3. SharesTyped /\ outstanding = SumFunction(SharesOf) /\ outstanding \in Nat
  BY SharesAreTyped DEF SharesAddUp, SharesTyped
<1>4. outstanding <= MaxU64
  <2>1. sharesSold <= TotalShares
    BY DEF TypeInv, TypeOK, RaiseTypeOK
  <2>2. outstanding <= sharesSold
    BY <1>3 DEF SharesTyped, OutstandingShares
  <2>3. TotalShares \in Nat /\ TotalShares <= MaxU64 /\ MaxU64 \in Nat
    BY SharesFit, TermsAssumption DEF U64
  <2>4. QED
    BY <1>3, <2>1, <2>2, <2>3 DEF SharesTyped
<1>5. Len(periods') = Len(periods) + 1
  BY <1>1 DEF TypeInv, TypeOK, RevenueTypeOK
<1> HIDE DEF net, outstanding
<1>6. inc \in Nat
  BY <1>1, <1>2, <1>3, IncrementIsCovered
<1> HIDE DEF inc
<1>7. DuesTyped /\ DuesTyped'
  BY DuesAreTyped, DuesStayTyped
<1>8. \A o \in Owners : DueOf'[o] = DueOf[o] + SharesOf[o] * inc
  <2> SUFFICES ASSUME NEW o \in Owners
               PROVE  DueOf'[o] = DueOf[o] + SharesOf[o] * inc
    OBVIOUS
  <2> DEFINE s == position[o].shares
             d == accPerShare - position[o].accCheckpoint
  <2>1. /\ s \in Nat /\ d \in Nat /\ accPerShare \in Nat
        /\ position[o].accCheckpoint \in Nat /\ position[o].accrued \in Nat
        /\ ~position[o].open => s = 0
    BY PositionTypes, PendingOfOpen DEF LedgerInv, EntryIsSound
  <2>2. accPerShare' - position'[o].accCheckpoint = d + inc
    BY <1>1, <1>6, <2>1
  <2>3. Unsettled(o) = s * d /\ Unsettled(o)' = s * (d + inc)
    BY <1>1, <2>2 DEF Unsettled
  <2>4. SharesOf[o] = s /\ DueOf[o] = Due(o) /\ DueOf'[o] = Due(o)'
    BY <1>3, <1>7 DEF SharesTyped, DuesTyped
  <2>5. /\ position[o].open => Due(o) = position[o].accrued * One + Unsettled(o)
        /\ position[o].open =>
             Due(o)' = position[o].accrued * One + Unsettled(o)'
        /\ Due(o) \in Nat /\ Due(o)' \in Nat
    BY <1>1, <1>7 DEF DuesTyped, DueIsFloored
  <2>6. ~position[o].open => Due(o) = 0 /\ Due(o)' = 0
    BY <1>1, OneAssumption DEF Due, Fraction, Pending
  <2>7. position[o].accrued * One \in Nat
    BY <2>1, OneAssumption
  <2> HIDE DEF s, d
  <2>8. s * (d + inc) = s * d + s * inc /\ s * d \in Nat /\ s * inc \in Nat
    BY <1>6, <2>1
  <2>9. CASE position[o].open
    BY <2>3, <2>4, <2>5, <2>7, <2>8, <2>9
  <2>10. CASE ~position[o].open
    <3>1. s * inc = 0
      BY <1>6, <2>1, <2>10
    <3>2. QED
      BY <2>4, <2>6, <2>10, <3>1
  <2>11. QED
    BY <2>9, <2>10
<1>9. SumFunction(DueOf') = SumFunction(DueOf) + SumFunction(SharesOf) * inc
  <2>1. /\ DueOf \in [Owners -> Int] /\ DueOf' \in [Owners -> Int]
        /\ SharesOf \in [Owners -> Int] /\ inc \in Int
    BY <1>3, <1>6, <1>7 DEF DuesTyped, SharesTyped
  <2>2. QED
    BY <1>8, <2>1, SumIsLinear, OwnersAssumption
<1>10. QED
  BY <1>1, <1>2, <1>3, <1>4, <1>5, <1>9 DEF inc

(* What is owed, fractions included, is covered by the deposits not yet    *)
(* claimed; and no position was paid more than all of them together.       *)
OwedInv ==
  /\ SumFunction(DueOf) <= (totalDepositedNet - totalClaimed) * One
  /\ \A o \in Owners : position[o].totalClaimed <= totalClaimed

LEMMA InitOwedInv == Init => OwedInv
<1> SUFFICES ASSUME Init PROVE OwedInv
  OBVIOUS
<1>1. TypeInv /\ LedgerInv /\ DuesTyped
  BY InitTypeInv, InitLedgerInv, DuesAreTyped
<1>2. \A o \in Owners : DueOf[o] = 0
  <2>1. \A o \in Owners : Due(o) = 0
    BY OneAssumption DEF Init, NoPosition, Due, Fraction, Pending
  <2>2. QED
    BY <2>1 DEF DueOf
<1>3. SumFunction(DueOf) = 0
  BY <1>1, <1>2, SumOfZeros, OwnersAssumption DEF DuesTyped
<1>4. (totalDepositedNet - totalClaimed) * One = 0
  BY OneAssumption DEF Init
<1>5. QED
  BY <1>3, <1>4 DEF OwedInv, Init, NoPosition

(* The fractions of all the positions, kept or dropped in a step.          *)
DroppedOf == [o \in Owners |-> Dropped(o)]

LEMMA FractionsAddUp ==
  ASSUME TypeInv, TypeInv', LedgerInv, LedgerInv', NoRevenueYet, [Next]_vars,
         \A gross \in GrossAmounts : ~DepositRevenue(gross)
  PROVE  /\ SumFunction(FractionOf)
              = SumFunction(FractionOf') + SumFunction(DroppedOf)
         /\ DroppedOf \in [Owners -> Nat] /\ SumFunction(DroppedOf) \in Nat
<1>1. \A o \in Owners :
        Fraction(o)' + Dropped(o) = Fraction(o) /\ Dropped(o) \in Nat
  BY StepsDropFractions
<1>2. DuesTyped /\ DuesTyped'
  BY DuesAreTyped, DuesStayTyped
<1>3. /\ DroppedOf \in [Owners -> Nat] /\ DroppedOf \in [Owners -> Int]
      /\ \A o \in Owners : DroppedOf[o] = Dropped(o)
  BY <1>1 DEF DroppedOf
<1>4. /\ \A o \in Owners : FractionOf[o] = FractionOf'[o] + DroppedOf[o] * 1
      /\ FractionOf \in [Owners -> Int] /\ FractionOf' \in [Owners -> Int]
  <2>1. \A o \in Owners : FractionOf[o] = Fraction(o) /\ FractionOf'[o] = Fraction(o)'
    BY <1>2 DEF DuesTyped
  <2>2. \A o \in Owners : DroppedOf[o] * 1 = Dropped(o)
    BY <1>1, <1>3
  <2>3. FractionOf \in [Owners -> Int] /\ FractionOf' \in [Owners -> Int]
    BY <1>2 DEF DuesTyped
  <2>4. QED
    BY <1>1, <2>1, <2>2, <2>3
<1>5. SumFunction(FractionOf)
        = SumFunction(FractionOf') + SumFunction(DroppedOf) * 1
  BY <1>3, <1>4, SumIsLinear, OwnersAssumption
<1>6. SumFunction(DroppedOf) \in Nat
  BY <1>3, SumOfNaturals, OwnersAssumption
<1>7. QED
  BY <1>3, <1>5, <1>6

(* What is due to all the positions falls by what a step pays and by the   *)
(* fractions it drops.                                                     *)
LEMMA DuesFall ==
  ASSUME TypeInv, TypeInv', LedgerInv, LedgerInv', NoRevenueYet, [Next]_vars,
         \A gross \in GrossAmounts : ~DepositRevenue(gross)
  PROVE  /\ SumFunction(DueOf') = SumFunction(DueOf)
              - (totalClaimed' - totalClaimed) * One - SumFunction(DroppedOf)
         /\ totalClaimed' - totalClaimed \in Int
<1> DEFINE P == SumFunction(PendingOf)
           Q == SumFunction(PendingOf')
           F == SumFunction(FractionOf)
           G == SumFunction(FractionOf')
           D == SumFunction(DroppedOf)
           c == totalClaimed' - totalClaimed
<1>1. /\ SumFunction(DueOf) = F + P * One
      /\ SumFunction(DueOf') = G + Q * One
      /\ P \in Nat /\ Q \in Nat /\ F \in Nat /\ G \in Nat
  BY DuesAreTyped, DuesStayTyped DEF DuesTyped
<1>2. F = G + D /\ D \in Nat
  BY FractionsAddUp
<1>3. totalClaimed \in Nat /\ totalClaimed' \in Nat
  BY ConstantsAreFine DEF TypeInv, TypeOK, RevenueTypeOK
<1>4. Q = P - c /\ c \in Int
  BY <1>1, <1>3, NextPays DEF OwedFallsByPayment
<1> HIDE DEF P, Q, F, G, D, c
<1>5. /\ Q * One = P * One - c * One
      /\ P * One \in Int /\ c * One \in Int
  BY <1>1, <1>4, OneAssumption
<1>6. G + Q * One = (F + P * One) - c * One - D
  BY <1>1, <1>2, <1>5
<1>7. QED
  BY <1>1, <1>4, <1>6 DEF D, c

(* No step but a claim adds to the record of claims of a position.         *)
LEMMA OnlyClaimsAreRecorded ==
  ASSUME TypeInv, LedgerInv, [Next]_vars, NEW o \in Owners, ~Claim(o)
  PROVE  \/ position'[o].totalClaimed = position[o].totalClaimed
         \/ position'[o].totalClaimed = 0
<1> DEFINE kept == \/ position'[o].totalClaimed = position[o].totalClaimed
                   \/ position'[o].totalClaimed = 0
<1>1. OpenedPosition(o).totalClaimed \in {0, position[o].totalClaimed}
  BY DEF OpenedPosition, NoPosition
<1>2. /\ position \in [Owners -> PositionRecord]
      /\ OpenedPosition(o) \in PositionRecord
  BY OpenedPositionType DEF TypeInv, TypeOK, LedgerTypeOK
<1>3. ASSUME NEW n \in BuyAmounts, BuyShares(o, n) PROVE kept
  <2> DEFINE pos == OpenedPosition(o)
  <2>1. position'[o] = [pos EXCEPT !.shares = pos.shares + n,
                          !.paidIn = pos.paidIn + SharesValue(n, Price)]
    BY <1>2, <1>3 DEF BuyShares
  <2> HIDE DEF pos
  <2>2. position'[o].totalClaimed = pos.totalClaimed
    BY <1>2, <2>1 DEF pos, PositionRecord
  <2>3. QED
    BY <1>1, <2>2 DEF pos
<1>4. CASE Refund(o)
  BY <1>2, <1>4 DEF Refund, RefundedPosition, PositionRecord
<1>5. CASE OpenPosition(o)
  BY <1>1, <1>2, <1>5 DEF OpenPosition
<1>6. CASE ClosePosition(o)
  BY <1>2, <1>6 DEF ClosePosition, NoPosition
<1>7. ASSUME NEW p \in Owners, NEW n \in TransferAmounts,
             Transfer(o, p, n) \/ Transfer(p, o, n)
      PROVE  kept
  BY <1>7, TransferEffect DEF IsSettled
<1>8. CASE ExecuteRecovery(o)
  BY <1>8, RecoveryEffect
<1>9. ASSUME NEW p \in Owners, ExecuteRecovery(p), request[p].to = o
      PROVE  kept
  BY <1>1, <1>9, RecoveryEffect
<1>10. QED
  BY <1>3, <1>4, <1>5, <1>6, <1>7, <1>8, <1>9, OnlyTheseTouchPositions
  DEF TouchesPosition

LEMMA OnlyClaimsPay ==
  ASSUME [Next]_vars, \A o \in Owners : ~Claim(o)
  PROVE  totalClaimed' = totalClaimed
<1>1. CASE RaiseStep
  <2>1. CASE FinalizeRaise \/ ActivateProject \/ CancelRaise
    BY <2>1 DEF FinalizeRaise, ActivateProject, CancelRaise, revenueVars
  <2>2. CASE \E o \in Owners, n \in BuyAmounts : BuyShares(o, n)
    BY <2>2 DEF BuyShares, revenueVars
  <2>3. CASE \E o \in Owners : Refund(o)
    BY <2>3 DEF Refund, revenueVars
  <2>4. QED
    BY <1>1, <2>1, <2>2, <2>3 DEF RaiseStep
<1>2. CASE ManageStep
  BY <1>2 DEF ManageStep, PauseProject, ResumeProject, SetRoles, CloseProject,
     ManagedUnchanged, revenueVars
<1>3. CASE HoldingStep
  <2>1. CASE \E o \in Owners : OpenPosition(o) \/ ClosePosition(o)
    BY <2>1 DEF OpenPosition, ClosePosition, revenueVars
  <2>2. CASE \E gross \in GrossAmounts : DepositRevenue(gross)
    BY <2>2 DEF DepositRevenue
  <2>3. CASE \E from, to \in Owners, n \in TransferAmounts :
               Transfer(from, to, n)
    BY <2>3 DEF Transfer, revenueVars
  <2>4. QED
    BY <1>3, <2>1, <2>2, <2>3 DEF HoldingStep
<1>4. CASE RecoveryStep
  BY <1>4 DEF RecoveryStep, ProposeRecovery, VetoRecovery, WithdrawRecovery,
     RequestClosed, ExecuteRecovery, revenueVars
<1>5. CASE RegistryStep
  BY <1>5 DEF RegistryStep, SetInvestor, SetInvestorDemo, KycWritten,
     UpdateConfig, revenueVars
<1>6. CASE OutsideStep
  BY <1>6 DEF OutsideStep, Tick, DonateToEscrow, DonateToVault,
     CreateShareAccount, CloseShareAccount, BurnOwnShares, revenueVars
<1>7. CASE UNCHANGED vars
  BY <1>7 DEF vars, revenueVars
<1>8. QED
  BY <1>1, <1>2, <1>3, <1>4, <1>5, <1>6, <1>7 DEF Next

LEMMA NextClaimsMore ==
  ASSUME TypeInv, LedgerInv, [Next]_vars
  PROVE  totalClaimed' >= totalClaimed
<1>1. totalClaimed \in Nat
  BY ConstantsAreFine DEF TypeInv, TypeOK, RevenueTypeOK
<1>2. ASSUME NEW o \in Owners, Claim(o) PROVE totalClaimed' >= totalClaimed
  BY <1>1, <1>2, ClaimPaysWhatIsPending, PendingOfOpen
<1>3. CASE \A o \in Owners : ~Claim(o)
  <2>1. totalClaimed' = totalClaimed
    BY <1>3, OnlyClaimsPay
  <2>2. QED
    BY <1>1, <2>1
<1>4. QED
  BY <1>2, <1>3

LEMMA NextKeepsOwed ==
  ASSUME TypeInv, TypeInv', LedgerInv, LedgerInv', NoRevenueYet, SharesAddUp,
         OwedInv, [Next]_vars
  PROVE  OwedInv'
<1> DEFINE S == SumFunction(DueOf)
           a == totalDepositedNet - totalClaimed
<1>1. /\ S \in Nat /\ a \in Int /\ S <= a * One /\ a * One \in Int
      /\ totalClaimed \in Nat /\ totalClaimed' \in Nat
      /\ totalDepositedNet \in Nat
  BY DuesAreTyped, ConstantsAreFine, OneAssumption
  DEF DuesTyped, OwedInv, TypeInv, TypeOK, RevenueTypeOK
<1>2. ASSUME NEW gross \in GrossAmounts, DepositRevenue(gross)
      PROVE  OwedInv'
  <2>1. PICK net \in Nat, outstanding \in Nat :
          /\ outstanding > 0
          /\ SumFunction(DueOf') = S + outstanding * AccIncrement(net, outstanding)
          /\ totalDepositedNet' = totalDepositedNet + net
          /\ totalClaimed' = totalClaimed /\ position' = position
    BY <1>2, DepositIsShared
  <2> DEFINE shared == outstanding * AccIncrement(net, outstanding)
  <2>2. shared <= net * One /\ shared \in Int /\ net * One \in Int
    <3>1. AccIncrement(net, outstanding) \in Nat
      BY <2>1, IncrementIsCovered
    <3>2. QED
      BY <2>1, <3>1, IncrementIsCovered, OneAssumption
  <2>3. totalDepositedNet' - totalClaimed' = a + net
    BY <1>1, <2>1
  <2> HIDE DEF S, a, shared
  <2>4. (a + net) * One = a * One + net * One
    BY <1>1, OneAssumption
  <2>5. S + shared <= (a + net) * One
    BY <1>1, <2>2, <2>4
  <2>6. QED
    BY <2>1, <2>3, <2>5 DEF OwedInv, shared
<1>3. CASE \A gross \in GrossAmounts : ~DepositRevenue(gross)
  <2> DEFINE c == totalClaimed' - totalClaimed
             D == SumFunction(DroppedOf)
  <2>1. /\ SumFunction(DueOf') = S - c * One - D
        /\ D \in Nat /\ totalDepositedNet' = totalDepositedNet
    BY <1>3, DuesFall, FractionsAddUp, NextPays
  <2>2. totalDepositedNet' - totalClaimed' = a - c /\ c \in Int
    BY <1>1, <2>1
  <2>3. ASSUME NEW o \in Owners
        PROVE  position'[o].totalClaimed <= totalClaimed' /\ c >= 0
    <3>1. /\ position[o].totalClaimed <= totalClaimed
          /\ position[o].totalClaimed \in Nat
      BY PositionTypes DEF OwedInv
    <3>2. CASE Claim(o)
      <4>1. /\ position'[o].totalClaimed - position[o].totalClaimed = c
            /\ c \in Nat /\ position'[o].totalClaimed \in Int
        <5>1. PICK amount \in Nat :
                /\ position'[o].totalClaimed = position[o].totalClaimed + amount
                /\ c = amount
          BY <3>2, ClaimEffect
        <5>2. QED
          BY <3>1, <5>1
      <4>2. QED
        BY <1>1, <3>1, <4>1
    <3>3. CASE ~Claim(o)
      <4>1. c >= 0
        <5>1. totalClaimed' >= totalClaimed
          BY NextClaimsMore
        <5>2. \A m, n \in Nat : n >= m => n - m >= 0
          OBVIOUS
        <5>3. totalClaimed' - totalClaimed >= 0
          BY <1>1, <5>1, <5>2
        <5>4. QED
          BY <5>3 DEF c
      <4>2. QED
        BY <1>1, <3>1, <3>3, <4>1, OnlyClaimsAreRecorded
    <3>4. QED
      BY <3>2, <3>3
  <2> HIDE DEF S, a, c, D
  <2>4. (a - c) * One = a * One - c * One /\ c * One \in Int
    BY <1>1, <2>2, OneAssumption
  <2>5. S - c * One - D <= (a - c) * One
    BY <1>1, <2>1, <2>4
  <2>6. QED
    BY <2>1, <2>2, <2>3, <2>5 DEF OwedInv
<1>4. QED
  BY <1>2, <1>3

LEMMA OwedIsInvariant == Spec => []OwedInv
<1>1. TypeInv /\ TypeInv' /\ LedgerInv /\ LedgerInv' /\ NoRevenueYet
        /\ SharesAddUp /\ OwedInv /\ [Next]_vars => OwedInv'
  BY NextKeepsOwed
<1>2. QED
  BY <1>1, InitOwedInv, TypesAreInvariant, LedgerIsInvariant,
     NoRevenueIsInvariant, TheSharesAddUp, PTL DEF Spec

(* The sum of what is pending, and each part of it, in whole units.        *)
LEMMA PendingIsCovered ==
  ASSUME TypeInv, LedgerInv, OwedInv
  PROVE  /\ SumFunction(PendingOf) <= totalDepositedNet - totalClaimed
         /\ \A o \in Owners :
              /\ Pending(o) <= totalDepositedNet - totalClaimed
              /\ Due(o) <= (totalDepositedNet - totalClaimed) * One
<1> DEFINE P == SumFunction(PendingOf)
           F == SumFunction(FractionOf)
           S == SumFunction(DueOf)
           a == totalDepositedNet - totalClaimed
<1>1. /\ P \in Nat /\ F \in Nat /\ S = F + P * One /\ S <= a * One
      /\ a \in Int /\ DuesTyped /\ S \in Nat
  BY DuesAreTyped, ConstantsAreFine
  DEF DuesTyped, OwedInv, TypeInv, TypeOK, RevenueTypeOK
<1>2. \A o \in Owners : Pending(o) <= P /\ Due(o) <= S
  <2>1. /\ \A o \in Owners : PendingOf[o] <= P
        /\ \A o \in Owners : DueOf[o] <= S
    BY <1>1, SumOfNaturals, OwnersAssumption DEF DuesTyped
  <2>2. QED
    BY <1>1, <2>1 DEF DuesTyped
<1>3. \A o \in Owners : Pending(o) \in Nat /\ Due(o) \in Nat
  BY <1>1 DEF DuesTyped, DueIsFloored
<1> HIDE DEF P, F, S, a
<1>4. P <= a
  <2>1. P * One \in Nat /\ a * One \in Int /\ One \in Nat /\ One > 0
    BY <1>1, OneAssumption
  <2>2. P * One <= a * One
    BY <1>1, <2>1
  <2>3. ~(a < P)
    <3> SUFFICES ASSUME a < P PROVE FALSE
      OBVIOUS
    <3>1. PICK k \in Nat : P = a + 1 + k
      <4>1. P - a - 1 \in Nat /\ P = a + 1 + (P - a - 1)
        BY <1>1
      <4>2. QED
        BY <4>1
    <3>2. P * One = a * One + One + k * One /\ k * One \in Nat
      BY <1>1, <2>1, <3>1
    <3>3. QED
      BY <2>1, <2>2, <3>2
  <2>4. QED
    BY <1>1, <2>3
<1>5. \A o \in Owners : Pending(o) <= a /\ Due(o) <= a * One
  <2>1. a * One \in Int
    BY <1>1, OneAssumption
  <2>2. QED
    BY <1>1, <1>2, <1>3, <1>4, <2>1
<1>6. QED
  BY <1>4, <1>5 DEF P, a

(* I1 of docs/v2.md and the overflow bound of math.rs: however revenue is  *)
(* deposited and shares change hands, the vault covers what is owed to all *)
(* the holders together, and neither a settlement nor a claim can fail in  *)
(* the arithmetic, for any fixed-point one and any widths that go with it. *)
THEOREM TheClaimsNeverFail == Spec => []ClaimsNeverFail
<1>1. ASSUME TypeInv, LedgerInv, MoneyInv, OwedInv PROVE ClaimsNeverFail
  <2> DEFINE a == totalDepositedNet - totalClaimed
  <2>1. OwedIsCovered
    BY <1>1, PendingIsCovered DEF OwedIsCovered, PendingOf
  <2>2. /\ totalDepositedNet \in Nat /\ totalDepositedNet <= One - 1
        /\ totalClaimed \in Nat /\ One \in Nat /\ One > 1
        /\ donated.revenue \in Nat /\ revenueVault = a + donated.revenue
        /\ a \in Int
    BY <1>1, OneAssumption
    DEF TypeInv, TypeOK, RevenueTypeOK, U64, MaxU64, WorldTypeOK, MoneyInv,
        VaultIsExact
  <2>3. ASSUME NEW o \in Owners, position[o].open
        PROVE  /\ SettleIsOk(position[o])
               /\ Pending(o) <= revenueVault
               /\ position[o].totalClaimed + Pending(o) <= MaxU64
               /\ totalClaimed + Pending(o) <= MaxU64
    <3> DEFINE x == Unsettled(o)
               p == Pending(o)
               q == position[o].accrued
    <3>1. /\ p <= a /\ Due(o) <= a * One /\ p \in Nat /\ x \in Nat /\ q \in Nat
          /\ Due(o) = q * One + x /\ Due(o) \in Nat
      BY <1>1, <2>3, PendingIsCovered, PositionTypes, DuesAreFloored
      DEF DueIsFloored
    <3>2. /\ position[o].totalClaimed <= totalClaimed
          /\ position[o].totalClaimed \in Nat
      BY <1>1, PositionTypes DEF OwedInv
    <3>3. p = q + Earned(position[o]) /\ Earned(position[o]) \in Nat
      <4>1. p = q + Earned(position[o])
        BY <2>3 DEF Pending
      <4>2. Earned(position[o]) \in Nat
        <5>1. position[o].accCheckpoint <= accPerShare
          BY <1>1 DEF LedgerInv, EntryIsSound
        <5>2. /\ position[o].accCheckpoint \in Nat /\ accPerShare \in Nat
              /\ position[o].shares \in Nat
          BY <1>1, PositionTypes
        <5>3. position[o].accCheckpoint \in 0 .. accPerShare
          BY <5>1, <5>2
        <5>4. Owed(position[o].shares, accPerShare, position[o].accCheckpoint) \in Nat
          BY <5>2, <5>3, OwedIsFloored
        <5>5. QED
          BY <5>4 DEF Earned
      <4>3. QED
        BY <4>1, <4>2
    <3>4. position[o].accCheckpoint <= accPerShare
      BY <1>1 DEF LedgerInv, EntryIsSound
    <3> HIDE DEF x, p, q, a
    <3>5. p <= One - 1
      BY <2>2, <3>1 DEF a
    <3>6. x <= One * One - 1
      <4>1. /\ q * One \in Nat /\ (One - 1) * One = One * One - One
            /\ One * One \in Nat
        BY <2>2, <3>1
      <4>2. a * One <= (One - 1) * One
        <5>1. a <= One - 1 /\ a \in Nat /\ One - 1 \in Nat
          BY <2>2, <3>1 DEF a
        <5>2. QED
          BY <2>2, <5>1, ProductIsMonotonic
      <4>3. a * One \in Int
        BY <2>2
      <4>4. QED
        BY <2>2, <3>1, <4>1, <4>2, <4>3
    <3>7. SettleIsOk(position[o])
      <4>1. Owed(position[o].shares, accPerShare, position[o].accCheckpoint)
              <= MaxU64
        BY <2>2, <3>1, <3>3, <3>5 DEF Earned, MaxU64
      <4>2. position[o].shares * (accPerShare - position[o].accCheckpoint)
              <= MaxU128
        BY <3>6 DEF Unsettled, x, MaxU128
      <4>3. q + Earned(position[o]) <= MaxU64
        BY <3>3, <3>5 DEF MaxU64
      <4>4. QED
        BY <3>4, <4>1, <4>2, <4>3 DEF SettleIsOk, OwedIsOk, q
    <3>8. /\ p <= revenueVault /\ totalClaimed + p <= One - 1
          /\ position[o].totalClaimed + p <= One - 1
      <4>1. totalClaimed + p <= totalDepositedNet
        BY <2>2, <3>1 DEF a
      <4>2. QED
        BY <2>2, <3>1, <3>2, <4>1
    <3>9. QED
      BY <3>7, <3>8 DEF MaxU64, p
  <2>4. QED
    BY <2>1, <2>3 DEF ClaimsNeverFail
<1>2. TypeInv /\ LedgerInv /\ MoneyInv /\ OwedInv => ClaimsNeverFail
  BY <1>1
<1>3. QED
  BY <1>2, TypesAreInvariant, LedgerIsInvariant, MoneyIsInvariant,
     OwedIsInvariant, PTL
-----------------------------------------------------------------------------
(* Arithmetic of one holder.  p is paid and a accrued, s shares have       *)
(* earned since d was added to the accumulator, e is the exact part in     *)
(* units of one over the shares sold.                                      *)
Within(p, a, s, d, sold, e) ==
  (p + a) * sold * One + s * d * sold <= e * One

(* Settling rounds down, so it keeps the holder within its part, and the   *)
(* shares it has afterwards have earned nothing yet.                       *)
LEMMA SettlingStaysWithin ==
  ASSUME NEW p \in Int, NEW a \in Int, NEW s \in Nat, NEW d \in Nat,
         NEW sold \in Nat, NEW e \in Int, NEW t \in Int,
         Within(p, a, s, d, sold, e)
  PROVE  Within(p, a + ((s * d) \div One), t, 0, sold, e)
<1> DEFINE k == (s * d) \div One
<1>1. s * d \in Nat /\ One \in Nat
  BY OneAssumption
<1>2. k \in Nat /\ k * One <= s * d
  BY <1>1, FloorIsClose, OneAssumption
<1> HIDE DEF k
<1>3. (k * One) * sold <= (s * d) * sold
  BY <1>1, <1>2, ProductIsMonotonic
<1>4. (p + (a + k)) * sold * One = (p + a) * sold * One + (k * One) * sold
  BY <1>1, <1>2
<1>5. t * 0 * sold = 0
  OBVIOUS
<1>6. /\ (p + a) * sold * One \in Int /\ (k * One) * sold \in Int
      /\ (s * d) * sold \in Int /\ e * One \in Int
  BY <1>1, <1>2
<1>7. QED
  BY <1>3, <1>4, <1>5, <1>6 DEF Within, k

(* A deposit adds to the accumulator no more than its exact part.          *)
LEMMA DepositStaysWithin ==
  ASSUME NEW p \in Int, NEW a \in Int, NEW s \in Nat, NEW d \in Int,
         NEW sold \in Nat, NEW e \in Int, NEW inc \in Nat, NEW net \in Nat,
         sold * inc <= net * One, Within(p, a, s, d, sold, e)
  PROVE  Within(p, a, s, d + inc, sold, e + net * s)
<1>0. One \in Nat
  BY OneAssumption
<1>1. sold * inc \in Nat /\ net * One \in Nat
  BY <1>0
<1>2. (sold * inc) * s <= (net * One) * s
  BY <1>1, ProductIsMonotonic
<1>3. s * (d + inc) * sold = s * d * sold + (sold * inc) * s
  OBVIOUS
<1>4. (e + net * s) * One = e * One + (net * One) * s
  BY <1>0
<1>5. /\ (p + a) * sold * One \in Int /\ s * d * sold \in Int
      /\ (sold * inc) * s \in Int /\ e * One \in Int /\ (net * One) * s \in Int
  BY <1>0, <1>1
<1>6. QED
  BY <1>2, <1>3, <1>4, <1>5 DEF Within

(* What one wallet loses and another gains, in accrued and in exact units. *)
LEMMA MovingStaysWithin ==
  ASSUME NEW p \in Int, NEW a \in Int, NEW t \in Int, NEW sold \in Nat,
         NEW e \in Int, NEW m \in Int, Within(p, a, t, 0, sold, e)
  PROVE  Within(p, a + m, t, 0, sold, e + m * sold)
<1>0. One \in Nat
  BY OneAssumption
<1>1. (p + (a + m)) * sold * One = (p + a) * sold * One + (m * sold) * One
  BY <1>0
<1>2. (e + m * sold) * One = e * One + (m * sold) * One
  BY <1>0
<1>3. /\ (p + a) * sold * One \in Int /\ (m * sold) * One \in Int
      /\ e * One \in Int /\ t * 0 * sold = 0
  BY <1>0
<1>4. QED
  BY <1>1, <1>2, <1>3 DEF Within
(* Giving up accrued revenue keeps a holder that earns nothing within.     *)
LEMMA LessStaysWithin ==
  ASSUME NEW p \in Int, NEW a \in Int, NEW s \in Nat, NEW d \in Nat,
         NEW sold \in Nat, NEW e \in Int, NEW b \in Int, b <= a,
         NEW t \in Int, Within(p, a, s, d, sold, e)
  PROVE  Within(p, b, t, 0, sold, e) /\ Within(p, b, 0, t, sold, e)
<1>0. One \in Nat
  BY OneAssumption
<1>1. t * 0 * sold = 0 /\ 0 * t * sold = 0
  OBVIOUS
<1>2. (a - b) * sold * One \in Nat /\ s * d * sold \in Nat
  BY <1>0
<1>3. (p + a) * sold * One = (p + b) * sold * One + (a - b) * sold * One
  BY <1>0
<1>4. (p + b) * sold * One \in Int /\ e * One \in Int
  BY <1>0
<1>5. QED
  BY <1>1, <1>2, <1>3, <1>4 DEF Within

LEMMA NothingAccruedIsWithin ==
  ASSUME NEW p \in Int, NEW a \in Nat, NEW s \in Nat, NEW d \in Nat,
         NEW sold \in Nat, NEW e \in Int, NEW t \in Int,
         Within(p, a, s, d, sold, e)
  PROVE  Within(p, 0, t, 0, sold, e)
<1>1. a \in Int /\ 0 \in Int /\ 0 <= a /\ a <= a
  OBVIOUS
<1>2. QED
  BY <1>1, LessStaysWithin

LEMMA NothingHeldIsWithin ==
  ASSUME NEW p \in Int, NEW a \in Nat, NEW s \in Nat, NEW d \in Nat,
         NEW sold \in Nat, NEW e \in Int, NEW t \in Int,
         Within(p, a, s, d, sold, e)
  PROVE  Within(p, 0, 0, t, sold, e)
<1>1. a \in Int /\ 0 \in Int /\ 0 <= a /\ a <= a
  OBVIOUS
<1>2. QED
  BY <1>1, LessStaysWithin

LEMMA SharelessStaysWithin ==
  ASSUME NEW p \in Int, NEW a \in Nat, NEW s \in Nat, NEW d \in Nat,
         NEW sold \in Nat, NEW e \in Int, NEW t \in Int,
         Within(p, a, s, d, sold, e)
  PROVE  Within(p, a, 0, t, sold, e)
<1>1. a \in Int /\ 0 \in Int /\ 0 <= a /\ a <= a
  OBVIOUS
<1>2. QED
  BY <1>1, LessStaysWithin

(* What the bound says once nothing is left to settle.                     *)
LEMMA WithinIsCovered ==
  ASSUME NEW p \in Int, NEW a \in Int, NEW sold \in Nat, NEW e \in Int,
         Within(p, a, 0, 0, sold, e)
  PROVE  (p + a) * sold <= e
<1> DEFINE x == (p + a) * sold
<1>1. x \in Int /\ x * One <= e * One /\ 0 * 0 * sold = 0
  BY OneAssumption DEF Within
<1> HIDE DEF x
<1>2. ASSUME x > e PROVE FALSE
  <2>1. x - e \in Nat /\ x - e > 0
    BY <1>1, <1>2
  <2>2. x * One = e * One + (x - e) * One /\ (x - e) * One > 0
    BY <1>1, <2>1, OneAssumption
  <2>3. x * One \in Int /\ e * One \in Int /\ (x - e) * One \in Int
    BY <1>1, OneAssumption
  <2>4. QED
    BY <1>1, <2>2, <2>3
<1>3. x <= e
  BY <1>1, <1>2
<1>4. QED
  BY <1>3 DEF x
-----------------------------------------------------------------------------
(* The auditor's books.  The invariant says of each owner, rather than of  *)
(* their sum, that what it was paid, has accrued and has earned since its  *)
(* checkpoint is within its exact part; the rest says why the accumulator  *)
(* divides by the shares sold: before the project operates there is no     *)
(* revenue, and a project with refunds never operates.                     *)
Part(o) ==
  Within(paid[o], position[o].accrued, position[o].shares,
         accPerShare - position[o].accCheckpoint, sharesSold, entitled[o])

BooksTypeOK == entitled \in [Owners -> Int] /\ paid \in [Owners -> Int]

NothingEarnedYet ==
  state \in {"Fundraising", "Funded"} =>
    /\ accPerShare = 0
    /\ \A o \in Owners :
         paid[o] = 0 /\ entitled[o] = 0 /\ position[o].accrued = 0

RefundsMeanFailure == sharesRefunded # 0 => state = "Failed"

PartsInv ==
  /\ BooksTypeOK
  /\ \A o \in Owners : Part(o)
  /\ NothingEarnedYet
  /\ RefundsMeanFailure

LEMMA InitPartsInv == AuditInit => PartsInv
<1> SUFFICES ASSUME AuditInit PROVE PartsInv
  OBVIOUS
<1>1. /\ \A o \in Owners : /\ paid[o] = 0 /\ entitled[o] = 0
                           /\ position[o] = NoPosition
      /\ accPerShare = 0 /\ sharesSold = 0 /\ sharesRefunded = 0
      /\ BooksTypeOK
  BY DEF AuditInit, Init, BooksTypeOK
<1>2. ASSUME NEW o \in Owners PROVE Part(o) /\ position[o].accrued = 0
  <2>1. Within(0, 0, 0, 0 - 0, 0, 0)
    BY OneAssumption DEF Within
  <2>2. QED
    BY <1>1, <2>1 DEF Part, NoPosition
<1>3. QED
  BY <1>1, <1>2 DEF PartsInv, NothingEarnedYet, RefundsMeanFailure

(* A position keeps its record of claims unless it is opened or closed, so *)
(* the auditor sees the payments of claims and nothing else.               *)
LEMMA NothingPaid ==
  ASSUME TypeInv, NEW o \in Owners,
         \/ position'[o].totalClaimed = position[o].totalClaimed
         \/ ~position[o].open \/ ~position'[o].open
  PROVE  WasPaid(o) = 0
  BY PositionTypes DEF WasPaid

(* The books after any step but a recovery.                                *)
LEMMA BooksWithoutRecovery ==
  ASSUME TypeInv, TypeInv', BooksTypeOK, BooksKept,
         request' = request \/ position' = position
  PROVE  /\ BooksTypeOK'
         /\ \A o \in Owners :
              /\ entitled'[o] = entitled[o]
                   + (totalDepositedNet' - totalDepositedNet) * position[o].shares
              /\ paid'[o] = paid[o] + WasPaid(o)
<1>1. ~ \E o \in Owners : RecoveryStepOf(o)
  BY DEF RecoveryStepOf
<1>2. /\ entitled' = EntitledByDeposit
      /\ paid' = [o \in Owners |-> paid[o] + WasPaid(o)]
  BY <1>1 DEF BooksKept
<1>3. ASSUME NEW o \in Owners
      PROVE  /\ WasPaid(o) \in Int
             /\ entitled[o] + (totalDepositedNet' - totalDepositedNet)
                                * position[o].shares \in Int
  <2>1. /\ position[o].totalClaimed \in Nat /\ position[o].shares \in Nat
        /\ totalDepositedNet \in Nat
    BY PositionTypes
  <2>2. totalDepositedNet' \in Nat /\ position'[o].totalClaimed \in Nat
    BY ConstantsAreFine
    DEF TypeInv, TypeOK, LedgerTypeOK, RevenueTypeOK, PositionRecord
  <2>3. QED
    BY <2>1, <2>2 DEF WasPaid, BooksTypeOK
<1>4. QED
  BY <1>2, <1>3 DEF EntitledByDeposit, BooksTypeOK

(* The books after a recovery from one wallet.                             *)
LEMMA BooksOfRecovery ==
  ASSUME TypeInv, TypeInv', BooksTypeOK, BooksKept,
         NEW from \in Owners, ExecuteRecovery(from)
  PROVE  LET to == request[from].to
             moved == AccruedMoved(position[from], request[from].shares)
         IN /\ BooksTypeOK'
            /\ entitled'[from] = entitled[from] - moved * sharesSold
            /\ entitled'[to] = entitled[to] + moved * sharesSold
            /\ \A o \in Owners \ {from, to} : entitled'[o] = entitled[o]
            /\ \A o \in Owners : paid'[o] = paid[o] + WasPaid(o)
<1> DEFINE to == request[from].to
<1> DEFINE n == request[from].shares
<1> DEFINE moved == AccruedMoved(position[from], n)
<1>1. /\ to \in Owners /\ to # from /\ n \in Nat /\ n > 0 /\ moved \in Nat
      /\ position'[from].shares = position[from].shares - n
      /\ request[from].pending
      /\ request' = [request EXCEPT ![from] = NoRequest(from)]
  BY RecoveryEffect
<1>2. /\ \A o \in Owners : RecoveryStepOf(o) => o = from
      /\ RecoveryStepOf(from)
  <2>1. position' # position
    BY <1>1, PositionTypes
  <2>2. ~request'[from].pending
    BY <1>1 DEF NoRequest, TypeInv, TypeOK
  <2>3. \A o \in Owners \ {from} : request'[o] = request[o]
    BY <1>1 DEF TypeInv, TypeOK
  <2>4. QED
    BY <1>1, <2>1, <2>2, <2>3 DEF RecoveryStepOf
<1>3. (CHOOSE o \in Owners : RecoveryStepOf(o)) = from
  BY <1>2
<1>4. /\ entitled' = EntitledByRecovery(from)
      /\ paid' = [o \in Owners |-> paid[o] + WasPaid(o)]
  BY <1>2, <1>3 DEF BooksKept
<1>5. sharesSold \in Nat /\ moved * sharesSold \in Int
  BY <1>1, PositionTypes
<1>6. entitled' = [entitled EXCEPT ![from] = entitled[from] - moved * sharesSold,
                                   ![to] = entitled[to] + moved * sharesSold]
  BY <1>1, <1>4 DEF EntitledByRecovery
<1>7. ASSUME NEW o \in Owners PROVE WasPaid(o) \in Int
  <2>1. position[o].totalClaimed \in Nat /\ position'[o].totalClaimed \in Nat
    BY PositionTypes, ConstantsAreFine
    DEF TypeInv, TypeOK, LedgerTypeOK, PositionRecord
  <2>2. QED
    BY <2>1 DEF WasPaid
<1> HIDE DEF to, n, moved
<1>8. /\ entitled'[from] = entitled[from] - moved * sharesSold
      /\ entitled'[to] = entitled[to] + moved * sharesSold
      /\ \A o \in Owners \ {from, to} : entitled'[o] = entitled[o]
      /\ entitled' \in [Owners -> Int]
  BY <1>1, <1>5, <1>6 DEF BooksTypeOK
<1>9. /\ \A o \in Owners : paid'[o] = paid[o] + WasPaid(o)
      /\ paid' \in [Owners -> Int]
  BY <1>4, <1>7 DEF BooksTypeOK
<1>10. QED
  BY <1>8, <1>9 DEF BooksTypeOK, to, n, moved
-----------------------------------------------------------------------------
(* Every step keeps every holder within its part.                          *)

LEMMA PartTypes ==
  ASSUME TypeInv, LedgerInv, PartsInv, NEW o \in Owners
  PROVE  /\ paid[o] \in Int /\ entitled[o] \in Int
         /\ accPerShare - position[o].accCheckpoint \in Nat
         /\ Part(o)
         /\ ~position[o].open => position[o].shares = 0
<1>1. EntryIsSound(o)
  BY DEF LedgerInv
<1>2. QED
  BY <1>1, PositionTypes DEF PartsInv, BooksTypeOK, EntryIsSound

LEMMA SettledIsInPart ==
  ASSUME TypeInv, LedgerInv, PartsInv, NEW o \in Owners, NEW t \in Int
  PROVE  Within(paid[o], position[o].accrued
                  + (position[o].shares
                       * (accPerShare - position[o].accCheckpoint)) \div One,
                t, 0, sharesSold, entitled[o])
<1>1. /\ paid[o] \in Int /\ entitled[o] \in Int
      /\ accPerShare - position[o].accCheckpoint \in Nat
      /\ position[o].accrued \in Int /\ position[o].shares \in Nat
      /\ sharesSold \in Nat
  BY PartTypes, PositionTypes
<1>2. Within(paid[o], position[o].accrued, position[o].shares,
             accPerShare - position[o].accCheckpoint, sharesSold, entitled[o])
  BY PartTypes DEF Part
<1>3. QED
  BY <1>1, <1>2, SettlingStaysWithin

LEMMA OpenedIsInPart ==
  ASSUME TypeInv, LedgerInv, PartsInv, NEW o \in Owners, NEW t \in Int
  PROVE  LET opened == OpenedPosition(o)
         IN Within(paid[o], opened.accrued
                     + (opened.shares * (accPerShare - opened.accCheckpoint))
                         \div One,
                   t, 0, sharesSold, entitled[o])
<1> DEFINE opened == OpenedPosition(o)
<1>1. CASE position[o].open
  <2>1. opened = position[o]
    BY <1>1 DEF OpenedPosition
  <2>2. QED
    BY <2>1, SettledIsInPart
<1>2. CASE ~position[o].open
  <2>1. /\ paid[o] \in Int /\ entitled[o] \in Int /\ sharesSold \in Nat
        /\ accPerShare - position[o].accCheckpoint \in Nat
        /\ position[o].accrued \in Nat /\ position[o].shares \in Nat
        /\ accPerShare \in Nat
        /\ Part(o)
    BY PartTypes, PositionTypes
  <2>2. Within(paid[o], 0, t, 0, sharesSold, entitled[o])
    <3>1. Within(paid[o], position[o].accrued, position[o].shares,
                 accPerShare - position[o].accCheckpoint, sharesSold,
                 entitled[o])
      BY <2>1 DEF Part
    <3>2. QED
      BY ZenonT(120), <2>1, <3>1, NothingAccruedIsWithin
  <2>3. /\ opened.accrued = 0 /\ opened.shares = 0
        /\ opened.accCheckpoint = accPerShare
    BY <1>2 DEF OpenedPosition, NoPosition
  <2>4. (0 * (accPerShare - accPerShare)) \div One = 0
    BY <2>1, OneAssumption
  <2> HIDE DEF opened
  <2>5. opened.accrued + (opened.shares * (accPerShare - opened.accCheckpoint))
          \div One = 0
    BY <2>3, <2>4
  <2>6. QED
    BY <2>2, <2>5 DEF opened
<1>3. QED
  BY <1>1, <1>2

(* Owners a step does not touch keep their parts.                          *)
LEMMA OthersStayInPart ==
  ASSUME PartsInv, NEW a \in Owners, NEW b \in Owners,
         accPerShare' = accPerShare, sharesSold' = sharesSold,
         \A o \in Owners \ {a, b} :
           /\ position'[o] = position[o] /\ paid'[o] = paid[o]
           /\ entitled'[o] = entitled[o],
         Part(a)', Part(b)'
  PROVE  \A o \in Owners : Part(o)'
<1>1. ASSUME NEW o \in Owners \ {a, b} PROVE Part(o)'
  BY <1>1 DEF PartsInv, Part
<1>2. QED
  BY <1>1

(* A step after the raise, when there is nothing else to preserve.         *)
LEMMA LaterKeepsParts ==
  ASSUME PartsInv, BooksTypeOK', \A o \in Owners : Part(o)',
         state' = state, state \notin {"Fundraising", "Funded"},
         sharesRefunded' # 0 => state = "Failed"
  PROVE  PartsInv'
  BY DEF PartsInv, NothingEarnedYet, RefundsMeanFailure

(* A step that moves neither shares nor revenue.                           *)
LEMMA QuietKeepsParts ==
  ASSUME TypeInv, TypeInv', PartsInv, BooksKept,
         UNCHANGED <<position, dueVars>>,
         state' \in {"Fundraising", "Funded"}
           => state \in {"Fundraising", "Funded"},
         state = "Failed" => state' = "Failed"
  PROVE  PartsInv'
<1>1. /\ BooksTypeOK'
      /\ \A o \in Owners :
           /\ entitled'[o] = entitled[o]
                + (totalDepositedNet' - totalDepositedNet) * position[o].shares
           /\ paid'[o] = paid[o] + WasPaid(o)
  BY BooksWithoutRecovery DEF PartsInv
<1>2. ASSUME NEW o \in Owners
      PROVE  entitled'[o] = entitled[o] /\ paid'[o] = paid[o]
  <2>1. WasPaid(o) = 0
    BY NothingPaid
  <2>2. /\ totalDepositedNet' = totalDepositedNet /\ totalDepositedNet \in Nat
        /\ position[o].shares \in Nat
        /\ entitled[o] \in Int /\ paid[o] \in Int
    BY PositionTypes DEF dueVars, PartsInv, BooksTypeOK
  <2>3. QED
    BY <1>1, <2>1, <2>2
<1>3. \A o \in Owners : Part(o)'
  BY <1>2 DEF PartsInv, Part, dueVars
<1>4. NothingEarnedYet' /\ RefundsMeanFailure'
  BY <1>2 DEF PartsInv, NothingEarnedYet, RefundsMeanFailure, dueVars
<1>5. QED
  BY <1>1, <1>3, <1>4 DEF PartsInv

LEMMA BuyKeepsParts ==
  ASSUME TypeInv, TypeInv', LedgerInv, PartsInv, BooksKept,
         NEW o \in Owners, NEW n \in BuyAmounts, BuyShares(o, n)
  PROVE  PartsInv'
<1> DEFINE opened == OpenedPosition(o)
<1>1. /\ state = "Fundraising" /\ accPerShare' = accPerShare
      /\ sharesRefunded' = sharesRefunded
      /\ totalDepositedNet' = totalDepositedNet /\ request' = request
      /\ position' = [position EXCEPT ![o] =
           [opened EXCEPT !.shares = opened.shares + n,
                          !.paidIn = opened.paidIn + SharesValue(n, Price)]]
  BY DEF BuyShares, RaiseIsOpen, revenueVars, refundVars
<1>2. /\ opened \in PositionRecord /\ opened.accCheckpoint <= accPerShare
      /\ opened.accCheckpoint \in Nat
  BY OpenedPositionType, OpenedCheckpoint, ConstantsAreFine
  DEF TypeInv, PositionRecord
<1>3. /\ position'[o].accCheckpoint = opened.accCheckpoint
      /\ position'[o].accrued = opened.accrued
      /\ position'[o].totalClaimed = opened.totalClaimed
      /\ \A p \in Owners \ {o} : position'[p] = position[p]
  <2> HIDE DEF opened
  <2>1. QED
    BY <1>1, <1>2 DEF TypeInv, TypeOK, LedgerTypeOK, PositionRecord
<1>4. /\ accPerShare = 0
      /\ \A p \in Owners :
           paid[p] = 0 /\ entitled[p] = 0 /\ position[p].accrued = 0
      /\ opened.accrued = 0
  BY <1>1 DEF PartsInv, NothingEarnedYet, OpenedPosition, NoPosition
<1>5. ASSUME NEW p \in Owners
      PROVE  position'[p].accCheckpoint = 0 /\ position'[p].accrued = 0
  <2>1. CASE p = o
    BY <1>2, <1>3, <1>4, <2>1
  <2>2. CASE p # o
    <3>1. position[p].accCheckpoint <= 0 /\ position[p].accCheckpoint \in Nat
      BY <1>4, PositionTypes DEF LedgerInv, EntryIsSound
    <3>2. QED
      BY <1>3, <1>4, <2>2, <3>1
  <2>3. QED
    BY <2>1, <2>2
<1>6. /\ BooksTypeOK'
      /\ \A p \in Owners :
           /\ entitled'[p] = entitled[p]
                + (totalDepositedNet' - totalDepositedNet) * position[p].shares
           /\ paid'[p] = paid[p] + WasPaid(p)
  BY <1>1, BooksWithoutRecovery DEF PartsInv
<1>7. ASSUME NEW p \in Owners PROVE WasPaid(p) = 0
  <2>1. position[p].open => OpenedPosition(p) = position[p]
    BY DEF OpenedPosition
  <2>2. QED
    BY <1>3, <2>1, NothingPaid
<1>8. ASSUME NEW p \in Owners PROVE paid'[p] = 0 /\ entitled'[p] = 0
  <2>1. totalDepositedNet \in Nat /\ position[p].shares \in Nat
    BY PositionTypes
  <2>2. QED
    BY <1>1, <1>4, <1>6, <1>7, <2>1
<1>9. ASSUME NEW p \in Owners PROVE Part(p)'
  <2>1. position'[p].shares \in Nat /\ sharesSold' \in Nat
    <3>1. position'[p].shares \in Nat
      BY ConstantsAreFine DEF TypeInv, TypeOK, LedgerTypeOK, PositionRecord
    <3>2. sharesSold' \in Nat
      BY ConstantsAreFine DEF TypeInv, TypeOK, RaiseTypeOK
    <3>3. QED
      BY <3>1, <3>2
  <2>2. Within(0, 0, position'[p].shares, 0 - 0, sharesSold', 0)
    BY <2>1, OneAssumption DEF Within
  <2>3. accPerShare' = 0
    BY <1>1, <1>4
  <2>4. QED
    BY <1>5, <1>8, <2>2, <2>3 DEF Part
<1>10. NothingEarnedYet' /\ RefundsMeanFailure'
  BY <1>1, <1>4, <1>5, <1>8 DEF NothingEarnedYet, RefundsMeanFailure, PartsInv
<1>11. QED
  BY <1>6, <1>9, <1>10 DEF PartsInv

LEMMA DepositKeepsParts ==
  ASSUME TypeInv, TypeInv', LedgerInv, MoneyInv, PartsInv, BooksKept,
         NEW gross \in GrossAmounts, DepositRevenue(gross)
  PROVE  PartsInv'
<1> DEFINE net == NetOfFee(gross, RevenueFeeBps)
<1> DEFINE inc == AccIncrement(net, OutstandingShares)
<1>1. /\ state = "Operating" /\ OutstandingShares > 0
      /\ accPerShare' = accPerShare + inc
      /\ totalDepositedNet' = totalDepositedNet + net
      /\ UNCHANGED <<position, sharesSold, sharesRefunded, state, request>>
  BY DEF DepositRevenue, AccAfter, raiseVars, refundVars, ledgerVars
<1>2. OutstandingShares = sharesSold /\ sharesSold \in Nat
  <2>1. sharesRetired = 0 /\ sharesRefunded = 0
    BY <1>1 DEF MoneyInv, NothingReturnedYet, PartsInv, RefundsMeanFailure
  <2>2. sharesSold \in Nat
    BY ConstantsAreFine DEF TypeInv, TypeOK, RaiseTypeOK
  <2>3. QED
    BY <2>1, <2>2 DEF OutstandingShares
<1>3. net \in Nat
  <2>1. gross \in Nat
    BY InputsAssumption, ConstantsAreFine
  <2>2. QED
    BY <2>1, ConstantsAreFine, FeeIsAPart
<1> HIDE DEF net
<1>4. inc \in Nat /\ sharesSold * inc <= net * One
  BY <1>1, <1>2, <1>3, IncrementIsCovered
<1> HIDE DEF inc
<1>5. /\ BooksTypeOK'
      /\ \A o \in Owners :
           /\ entitled'[o] = entitled[o]
                + (totalDepositedNet' - totalDepositedNet) * position[o].shares
           /\ paid'[o] = paid[o] + WasPaid(o)
  BY <1>1, BooksWithoutRecovery DEF PartsInv
<1>6. ASSUME NEW o \in Owners PROVE Part(o)'
  <2> DEFINE d == accPerShare - position[o].accCheckpoint
  <2>1. /\ paid[o] \in Int /\ entitled[o] \in Int /\ d \in Nat
        /\ position[o].shares \in Nat /\ position[o].accrued \in Int
        /\ accPerShare \in Int /\ position[o].accCheckpoint \in Int
        /\ totalDepositedNet \in Int
    BY PartTypes, PositionTypes
  <2>2. Within(paid[o], position[o].accrued, position[o].shares, d,
               sharesSold, entitled[o])
    BY PartTypes DEF Part
  <2>3. Within(paid[o], position[o].accrued, position[o].shares, d + inc,
               sharesSold, entitled[o] + net * position[o].shares)
    <3>1. d \in Int
      BY <2>1
    <3> HIDE DEF d
    <3>2. QED
      BY <1>2, <1>3, <1>4, <2>1, <2>2, <3>1, DepositStaysWithin, Zenon
  <2>4. accPerShare' - position'[o].accCheckpoint = d + inc
    BY <1>1, <1>4, <2>1
  <2>5. paid'[o] = paid[o]
    BY <1>1, <1>5, <2>1, NothingPaid
  <2>6. entitled'[o] = entitled[o] + net * position[o].shares
    <3>1. totalDepositedNet' - totalDepositedNet = net
      BY <1>1, <1>3, <2>1
    <3>2. QED
      BY <1>5, <3>1
  <2>7. QED
    BY <1>1, <2>3, <2>4, <2>5, <2>6 DEF Part
<1>7. QED
  BY <1>1, <1>5, <1>6, LaterKeepsParts DEF PartsInv, RefundsMeanFailure

(* A position that is opened, closed or refunded holds no shares that      *)
(* earned, and has accrued no more than before.                            *)
LEMMA LoneKeepsParts ==
  ASSUME TypeInv, TypeInv', LedgerInv, PartsInv, BooksKept, NEW o \in Owners,
         UNCHANGED <<accPerShare, totalDepositedNet, sharesSold, request, state>>,
         sharesRefunded' # 0 => state = "Failed",
         \A p \in Owners \ {o} : position'[p] = position[p],
         \/ position'[o].totalClaimed = position[o].totalClaimed
         \/ ~position[o].open \/ ~position'[o].open,
         \/ position'[o] = position[o]
         \/ /\ position'[o].shares = 0
            /\ position'[o].accrued \in {0, position[o].accrued}
  PROVE  PartsInv'
<1>1. /\ BooksTypeOK'
      /\ \A p \in Owners :
           /\ entitled'[p] = entitled[p]
                + (totalDepositedNet' - totalDepositedNet) * position[p].shares
           /\ paid'[p] = paid[p] + WasPaid(p)
  BY BooksWithoutRecovery DEF PartsInv
<1>2. ASSUME NEW p \in Owners
      PROVE  entitled'[p] = entitled[p] /\ paid'[p] = paid[p]
  <2>1. WasPaid(p) = 0
    BY NothingPaid
  <2>2. totalDepositedNet \in Nat /\ position[p].shares \in Nat
    BY PositionTypes
  <2>3. entitled[p] \in Int /\ paid[p] \in Int
    BY PartTypes
  <2>4. QED
    BY <1>1, <2>1, <2>2, <2>3
<1>3. Part(o)'
  <2>1. CASE position'[o] = position[o]
    BY <1>2, <2>1, PartTypes DEF Part
  <2>2. CASE /\ position'[o].shares = 0
             /\ position'[o].accrued \in {0, position[o].accrued}
    <3> DEFINE d == accPerShare - position[o].accCheckpoint
    <3> DEFINE t == accPerShare' - position'[o].accCheckpoint
    <3>1. /\ paid[o] \in Int /\ entitled[o] \in Int /\ d \in Nat
          /\ position[o].shares \in Nat /\ position[o].accrued \in Nat
          /\ sharesSold \in Nat
      BY PartTypes, PositionTypes
    <3>2. Within(paid[o], position[o].accrued, position[o].shares, d,
                 sharesSold, entitled[o])
      BY PartTypes DEF Part
    <3>3. t \in Int
      <4>1. accPerShare' \in Nat /\ position'[o].accCheckpoint \in Nat
        BY ConstantsAreFine
        DEF TypeInv, TypeOK, LedgerTypeOK, RevenueTypeOK, PositionRecord
      <4>2. QED
        BY <4>1
    <3> HIDE DEF d, t
    <3>4. /\ Within(paid[o], 0, 0, t, sharesSold, entitled[o])
          /\ Within(paid[o], position[o].accrued, 0, t, sharesSold, entitled[o])
      BY <3>1, <3>2, <3>3, NothingHeldIsWithin, SharelessStaysWithin
    <3>5. QED
      BY <1>2, <2>2, <3>4 DEF Part, t
  <2>3. QED
    BY <2>1, <2>2
<1>4. \A p \in Owners : Part(p)'
  BY <1>2, <1>3, OthersStayInPart
<1>5. NothingEarnedYet' /\ RefundsMeanFailure'
  BY <1>2 DEF PartsInv, NothingEarnedYet, RefundsMeanFailure
<1>6. QED
  BY <1>1, <1>4, <1>5 DEF PartsInv

LEMMA HoldingKeepsParts ==
  ASSUME TypeInv, TypeInv', LedgerInv, PartsInv, BooksKept, NEW o \in Owners,
         Refund(o) \/ OpenPosition(o) \/ ClosePosition(o)
  PROVE  PartsInv'
<1>1. CASE Refund(o)
  <2>1. /\ state = "Failed" /\ state' = state /\ request' = request
        /\ UNCHANGED <<accPerShare, totalDepositedNet, sharesSold>>
        /\ position' = [position EXCEPT ![o] = [position[o] EXCEPT !.shares = 0]]
    BY <1>1 DEF Refund, RefundIsOpen, RefundedPosition, revenueVars
  <2>2. /\ position'[o].shares = 0
        /\ position'[o].accrued = position[o].accrued
        /\ position'[o].totalClaimed = position[o].totalClaimed
        /\ \A p \in Owners \ {o} : position'[p] = position[p]
    BY <2>1 DEF TypeInv, TypeOK, LedgerTypeOK, PositionRecord
  <2>3. QED
    BY <2>1, <2>2, LoneKeepsParts
<1>2. CASE OpenPosition(o)
  <2>1. /\ UNCHANGED <<dueVars, state, request>>
        /\ position' = [position EXCEPT ![o] = OpenedPosition(o)]
    BY <1>2 DEF OpenPosition, raiseVars, refundVars, revenueVars, dueVars
  <2>2. /\ position'[o] = OpenedPosition(o)
        /\ \A p \in Owners \ {o} : position'[p] = position[p]
    BY <2>1 DEF TypeInv, TypeOK, LedgerTypeOK
  <2>3. \/ position'[o] = position[o]
        \/ /\ position'[o].shares = 0 /\ position'[o].accrued = 0
           /\ ~position[o].open
    BY <2>2 DEF OpenedPosition, NoPosition
  <2>4. sharesRefunded' # 0 => state = "Failed"
    BY <2>1 DEF dueVars, PartsInv, RefundsMeanFailure
  <2>5. QED
    BY <2>1, <2>2, <2>3, <2>4, LoneKeepsParts DEF dueVars
<1>3. CASE ClosePosition(o)
  <2>1. /\ UNCHANGED <<dueVars, state, request>>
        /\ position' = [position EXCEPT ![o] = NoPosition]
    BY <1>3 DEF ClosePosition, raiseVars, refundVars, revenueVars, dueVars
  <2>2. /\ position'[o] = NoPosition
        /\ \A p \in Owners \ {o} : position'[p] = position[p]
    BY <2>1 DEF TypeInv, TypeOK, LedgerTypeOK
  <2>3. /\ position'[o].shares = 0 /\ position'[o].accrued = 0
        /\ ~position'[o].open
    BY <2>2 DEF NoPosition
  <2>4. sharesRefunded' # 0 => state = "Failed"
    BY <2>1 DEF dueVars, PartsInv, RefundsMeanFailure
  <2>5. QED
    BY <2>1, <2>2, <2>3, <2>4, LoneKeepsParts DEF dueVars
<1>4. QED
  BY <1>1, <1>2, <1>3

LEMMA ClaimKeepsParts ==
  ASSUME TypeInv, TypeInv', LedgerInv, PartsInv, BooksKept, NEW o \in Owners,
         Claim(o)
  PROVE  PartsInv'
<1> DEFINE amount ==
      position[o].accrued
        + (position[o].shares * (accPerShare - position[o].accCheckpoint)) \div One
<1>1. /\ position[o].open /\ amount \in Nat
      /\ position'[o].open /\ position'[o].shares = position[o].shares
      /\ position'[o].accCheckpoint = accPerShare
      /\ position'[o].accrued = 0
      /\ position'[o].totalClaimed = position[o].totalClaimed + amount
      /\ \A p \in Owners \ {o} : position'[p] = position[p]
      /\ UNCHANGED <<dueVars, state, request>>
  BY ClaimEffect
<1>2. state \notin {"Fundraising", "Funded"}
  BY DEF Claim, ClaimsAreOpen
<1>3. /\ BooksTypeOK'
      /\ \A p \in Owners :
           /\ entitled'[p] = entitled[p]
                + (totalDepositedNet' - totalDepositedNet) * position[p].shares
           /\ paid'[p] = paid[p] + WasPaid(p)
  BY <1>1, BooksWithoutRecovery DEF PartsInv
<1>4. Within(paid[o], amount, position[o].shares, 0, sharesSold, entitled[o])
  BY PositionTypes, SettledIsInPart
<1> HIDE DEF amount
<1>5. ASSUME NEW p \in Owners PROVE entitled'[p] = entitled[p]
  <2>1. totalDepositedNet \in Nat /\ position[p].shares \in Nat
    BY PositionTypes
  <2>2. entitled[p] \in Int /\ totalDepositedNet' = totalDepositedNet
    BY <1>1, PartTypes DEF dueVars
  <2>3. QED
    BY <1>3, <2>1, <2>2
<1>6. ASSUME NEW p \in Owners \ {o} PROVE paid'[p] = paid[p]
  <2>1. WasPaid(p) = 0
    BY <1>1, NothingPaid
  <2>2. QED
    BY <1>3, <2>1, PartTypes
<1>7. paid'[o] = paid[o] + amount
  <2>1. WasPaid(o) = amount
    BY <1>1, PositionTypes DEF WasPaid
  <2>2. QED
    BY <1>3, <2>1
<1>8. Part(o)'
  <2>1. /\ paid[o] \in Int /\ accPerShare \in Nat
        /\ accPerShare' = accPerShare /\ sharesSold' = sharesSold
    BY <1>1, PartTypes, PositionTypes DEF dueVars
  <2>2. (paid[o] + amount) + 0 = paid[o] + amount /\ accPerShare - accPerShare = 0
    BY <1>1, <2>1
  <2>3. Within(paid[o] + amount, 0, position[o].shares, 0, sharesSold, entitled[o])
    BY <1>4, <2>2 DEF Within
  <2>4. QED
    BY <1>1, <1>5, <1>7, <2>1, <2>2, <2>3 DEF Part
<1>9. \A p \in Owners : Part(p)'
  BY <1>1, <1>5, <1>6, <1>8, OthersStayInPart DEF dueVars
<1>10. QED
  BY <1>1, <1>2, <1>3, <1>9, LaterKeepsParts
  DEF PartsInv, RefundsMeanFailure, dueVars

LEMMA TransferKeepsParts ==
  ASSUME TypeInv, TypeInv', LedgerInv, PartsInv, BooksKept,
         NEW from \in Owners, NEW to \in Owners, NEW n \in TransferAmounts,
         Transfer(from, to, n)
  PROVE  PartsInv'
<1>1. /\ position[from].open /\ position[to].open /\ n \in Nat
      /\ IsSettled(position'[from], position[from], position[from].shares - n)
      /\ IsSettled(position'[to], position[to], position[to].shares + n)
      /\ \A o \in Owners \ {from, to} : position'[o] = position[o]
      /\ UNCHANGED <<dueVars, state, request>>
  BY TransferEffect
<1>2. state = "Operating"
  BY DEF Transfer
<1>3. /\ BooksTypeOK'
      /\ \A o \in Owners :
           /\ entitled'[o] = entitled[o]
                + (totalDepositedNet' - totalDepositedNet) * position[o].shares
           /\ paid'[o] = paid[o] + WasPaid(o)
  BY <1>1, BooksWithoutRecovery DEF PartsInv
<1>4. ASSUME NEW o \in Owners
      PROVE  entitled'[o] = entitled[o] /\ paid'[o] = paid[o]
  <2>1. position'[o].totalClaimed = position[o].totalClaimed
    BY <1>1 DEF IsSettled
  <2>2. WasPaid(o) = 0
    BY <2>1, NothingPaid
  <2>3. totalDepositedNet \in Nat /\ position[o].shares \in Nat
    BY PositionTypes
  <2>4. /\ entitled[o] \in Int /\ paid[o] \in Int
        /\ totalDepositedNet' = totalDepositedNet
    BY <1>1, PartTypes DEF dueVars
  <2>5. QED
    BY <1>3, <2>2, <2>3, <2>4
<1>5. ASSUME NEW o \in Owners, NEW s \in Int,
             IsSettled(position'[o], position[o], s)
      PROVE  Part(o)'
  <2>1. Within(paid[o], position[o].accrued
                 + (position[o].shares
                      * (accPerShare - position[o].accCheckpoint)) \div One,
               s, 0, sharesSold, entitled[o])
    BY <1>5, SettledIsInPart
  <2>2. accPerShare' - position'[o].accCheckpoint = 0
    BY <1>1, <1>5, PositionTypes DEF IsSettled, dueVars
  <2>3. QED
    BY <1>1, <1>4, <1>5, <2>1, <2>2 DEF Part, IsSettled, dueVars
<1>6. Part(from)' /\ Part(to)'
  <2>1. position[from].shares - n \in Int /\ position[to].shares + n \in Int
    BY <1>1, PositionTypes
  <2>2. QED
    BY <1>1, <1>5, <2>1
<1>7. \A o \in Owners : Part(o)'
  BY <1>1, <1>4, <1>6, OthersStayInPart DEF dueVars
<1>8. QED
  BY <1>1, <1>2, <1>3, <1>7, LaterKeepsParts
  DEF PartsInv, RefundsMeanFailure, dueVars

LEMMA RecoveryKeepsParts ==
  ASSUME TypeInv, TypeInv', LedgerInv, PartsInv, BooksKept,
         NEW from \in Owners, ExecuteRecovery(from)
  PROVE  PartsInv'
<1>0. PICK to \in Owners, n \in Nat :
        to = request[from].to /\ n = request[from].shares
  BY RecoveryEffect
<1> DEFINE old == position[from]
<1> DEFINE moved == AccruedMoved(old, n)
<1> DEFINE opened == OpenedPosition(to)
<1> DEFINE settledOld ==
      old.accrued + (old.shares * (accPerShare - old.accCheckpoint)) \div One
<1> DEFINE settledTo ==
      opened.accrued
        + (opened.shares * (accPerShare - opened.accCheckpoint)) \div One
<1>1. /\ to \in Owners /\ to # from /\ n \in Nat /\ moved \in Nat
      /\ old.open /\ opened.open /\ opened \in PositionRecord
      /\ position'[from].open /\ position'[from].shares = old.shares - n
      /\ position'[from].accCheckpoint = accPerShare
      /\ position'[from].accrued = settledOld - moved
      /\ position'[from].totalClaimed = old.totalClaimed
      /\ position'[to].open /\ position'[to].shares = opened.shares + n
      /\ position'[to].accCheckpoint = accPerShare
      /\ position'[to].accrued = settledTo + moved
      /\ position'[to].totalClaimed = opened.totalClaimed
      /\ \A o \in Owners \ {from, to} : position'[o] = position[o]
      /\ UNCHANGED <<dueVars, state>>
  BY <1>0, RecoveryEffect
<1>2. /\ BooksTypeOK'
      /\ entitled'[from] = entitled[from] - moved * sharesSold
      /\ entitled'[to] = entitled[to] + moved * sharesSold
      /\ \A o \in Owners \ {from, to} : entitled'[o] = entitled[o]
      /\ \A o \in Owners : paid'[o] = paid[o] + WasPaid(o)
  BY <1>0, BooksOfRecovery DEF PartsInv
<1>3. ASSUME NEW o \in Owners PROVE paid'[o] = paid[o]
  <2>1. position[to].open => opened = position[to]
    BY DEF OpenedPosition
  <2>2. WasPaid(o) = 0
    <3>1. CASE o = to
      BY <1>1, <2>1, <3>1, NothingPaid
    <3>2. CASE o # to
      BY <1>1, <3>2, NothingPaid
    <3>3. QED
      BY <3>1, <3>2
  <2>3. QED
    BY <1>2, <2>2, PartTypes
<1>4. /\ Within(paid[from], settledOld, old.shares - n, 0, sharesSold, entitled[from])
      /\ settledOld \in Int
  <2>1. old.shares - n \in Int
    BY <1>1, PositionTypes
  <2>2. /\ old.shares \in Nat /\ old.accrued \in Nat
        /\ accPerShare - old.accCheckpoint \in Nat
    BY PositionTypes, PartTypes
  <2>3. (old.shares * (accPerShare - old.accCheckpoint)) \div One \in Int
    BY <2>2, OneAssumption
  <2>4. QED
    BY <2>1, <2>2, <2>3, SettledIsInPart
<1>5. /\ Within(paid[to], settledTo, opened.shares + n, 0, sharesSold, entitled[to])
      /\ settledTo \in Int /\ opened.shares + n \in Int
  <2>1. /\ opened.shares \in Nat /\ opened.accrued \in Nat
        /\ opened.accCheckpoint \in Nat /\ accPerShare \in Nat
    BY <1>1, PositionTypes, ConstantsAreFine DEF PositionRecord
  <2>2. /\ opened.shares + n \in Int
        /\ (opened.shares * (accPerShare - opened.accCheckpoint)) \div One \in Int
    BY <1>1, <2>1, OneAssumption
  <2>3. Within(paid[to], settledTo, opened.shares + n, 0, sharesSold, entitled[to])
    BY <1>1, <2>2, OpenedIsInPart
  <2>4. QED
    BY <2>1, <2>2, <2>3
<1>6. /\ state \in {"Fundraising", "Funded"} =>
           settledOld = 0 /\ settledTo = 0 /\ moved = 0
  <2>1. CASE state \in {"Fundraising", "Funded"}
    <3>1. /\ accPerShare = 0 /\ old.accrued = 0 /\ opened.accrued = 0
      BY <1>1, <2>1 DEF PartsInv, NothingEarnedYet, OpenedPosition, NoPosition
    <3>2. /\ old.accCheckpoint <= accPerShare /\ opened.accCheckpoint <= accPerShare
      BY <1>1, OpenedCheckpoint DEF LedgerInv, EntryIsSound
    <3>3. /\ old.accCheckpoint \in Nat /\ opened.accCheckpoint \in Nat
          /\ old.shares \in Nat /\ opened.shares \in Nat
      BY <1>1, PositionTypes, ConstantsAreFine DEF PositionRecord
    <3>4. /\ old.accCheckpoint = 0 /\ opened.accCheckpoint = 0
      BY <3>1, <3>2, <3>3
    <3>5. (old.shares * (0 - 0)) \div One = 0 /\ (opened.shares * (0 - 0)) \div One = 0
      BY <3>3, OneAssumption
    <3>6. settledOld = 0 /\ settledTo = 0
      BY <3>1, <3>4, <3>5
    <3>7. position'[from].accrued \in Nat
      BY ConstantsAreFine DEF TypeInv, TypeOK, LedgerTypeOK, PositionRecord
    <3> HIDE DEF settledOld, settledTo, moved
    <3>8. QED
      BY <1>1, <3>6, <3>7
  <2>2. QED
    BY <2>1
<1> HIDE DEF old, moved, opened, settledOld, settledTo
<1>7. /\ sharesSold \in Nat /\ accPerShare' - accPerShare = 0
      /\ accPerShare' = accPerShare /\ sharesSold' = sharesSold
      /\ sharesRefunded' = sharesRefunded
      /\ moved \in Int /\ -moved \in Int /\ (-moved) * sharesSold = -(moved * sharesSold)
  BY <1>1, PositionTypes DEF dueVars
<1>8. Part(from)'
  <2>1. /\ paid[from] \in Int /\ entitled[from] \in Int /\ old.shares - n \in Int
    BY <1>1, PartTypes, PositionTypes DEF old
  <2>2. Within(paid[from], settledOld + (-moved), old.shares - n, 0, sharesSold,
               entitled[from] + (-moved) * sharesSold)
    BY <1>4, <1>7, <2>1, MovingStaysWithin
  <2>3. /\ settledOld + (-moved) = settledOld - moved
        /\ entitled[from] + (-moved) * sharesSold = entitled[from] - moved * sharesSold
    BY <1>1, <1>4, <1>7, <2>1
  <2>4. QED
    BY <1>1, <1>2, <1>3, <1>7, <2>2, <2>3 DEF Part
<1>9. Part(to)'
  <2>1. paid[to] \in Int /\ entitled[to] \in Int
    BY <1>1, PartTypes
  <2>2. Within(paid[to], settledTo + moved, opened.shares + n, 0, sharesSold,
               entitled[to] + moved * sharesSold)
    BY <1>1, <1>5, <1>7, <2>1, MovingStaysWithin
  <2>3. QED
    BY <1>1, <1>2, <1>3, <1>7, <2>2 DEF Part
<1>10. \A o \in Owners : Part(o)'
  BY <1>1, <1>2, <1>3, <1>7, <1>8, <1>9, OthersStayInPart
<1>11. NothingEarnedYet'
  <2>1. CASE state \in {"Fundraising", "Funded"}
    <3>1. /\ accPerShare = 0
          /\ \A o \in Owners :
               paid[o] = 0 /\ entitled[o] = 0 /\ position[o].accrued = 0
      BY <2>1 DEF PartsInv, NothingEarnedYet
    <3>2. ASSUME NEW o \in Owners
          PROVE  entitled'[o] = 0 /\ position'[o].accrued = 0
      <4>1. CASE o \in {from, to}
        <5>1. settledOld = 0 /\ settledTo = 0 /\ moved = 0 /\ moved * sharesSold = 0
          BY <1>6, <1>7, <2>1
        <5>2. /\ position'[from].accrued = 0 - 0 /\ position'[to].accrued = 0 + 0
              /\ entitled'[from] = 0 - 0 /\ entitled'[to] = 0 + 0
          BY <1>1, <1>2, <3>1, <5>1
        <5>3. QED
          BY <4>1, <5>2
      <4>2. CASE o \notin {from, to}
        BY <1>1, <1>2, <3>1, <4>2
      <4>3. QED
        BY <4>1, <4>2
    <3>3. QED
      BY <1>3, <1>7, <3>1, <3>2 DEF NothingEarnedYet
  <2>2. QED
    BY <1>1, <2>1 DEF NothingEarnedYet
<1>12. RefundsMeanFailure'
  BY <1>1, <1>7 DEF PartsInv, RefundsMeanFailure
<1>13. QED
  BY <1>2, <1>10, <1>11, <1>12 DEF PartsInv

LEMMA NextKeepsParts ==
  ASSUME TypeInv, TypeInv', LedgerInv, MoneyInv, PartsInv, Next, BooksKept
  PROVE  PartsInv'
<1>1. CASE RaiseStep
  <2>1. CASE FinalizeRaise \/ ActivateProject \/ CancelRaise
    <3>1. /\ UNCHANGED <<position, dueVars>>
          /\ state' \in {"Fundraising", "Funded"} => state \in {"Fundraising", "Funded"}
          /\ state = "Failed" => state' = "Failed"
      BY <2>1
      DEF FinalizeRaise, FinalizeFunded, FinalizeFailed, FinalizeExpired,
          ActivateProject, MayActivate, CancelRaise, ledgerVars, revenueVars,
          raiseVars, refundVars, dueVars
    <3>2. QED
      BY <3>1, QuietKeepsParts
  <2>2. QED
    BY <1>1, <2>1, BuyKeepsParts, HoldingKeepsParts DEF RaiseStep
<1>2. CASE ManageStep
  <2>1. /\ UNCHANGED <<position, dueVars>>
        /\ state' \in {"Fundraising", "Funded"} => state \in {"Fundraising", "Funded"}
        /\ state = "Failed" => state' = "Failed"
    BY <1>2
    DEF ManageStep, PauseProject, ResumeProject, SetRoles, RolesAreChangeable,
        CloseProject, ManagedUnchanged, ledgerVars, revenueVars, raiseVars,
        refundVars, dueVars
  <2>2. QED
    BY <2>1, QuietKeepsParts
<1>3. CASE HoldingStep
  BY <1>3, HoldingKeepsParts, DepositKeepsParts, ClaimKeepsParts,
     TransferKeepsParts DEF HoldingStep
<1>4. CASE RecoveryStep
  <2>1. ASSUME NEW from \in Owners, NEW to \in Owners, NEW n \in RecoveryAmounts,
               ProposeRecovery(from, to, n) \/ RequestClosed(from)
        PROVE  PartsInv'
    <3>1. UNCHANGED <<position, dueVars, state>>
      BY <2>1
      DEF ProposeRecovery, RequestClosed, ledgerVars, revenueVars, raiseVars,
          refundVars, dueVars
    <3>2. QED
      BY <3>1, QuietKeepsParts
  <2>2. ASSUME NEW from \in Owners, RequestClosed(from)
        PROVE  PartsInv'
    <3>1. UNCHANGED <<position, dueVars, state>>
      BY <2>2
      DEF RequestClosed, ledgerVars, revenueVars, raiseVars, refundVars, dueVars
    <3>2. QED
      BY <3>1, QuietKeepsParts
  <2>3. QED
    BY <1>4, <2>1, <2>2, RecoveryKeepsParts
    DEF RecoveryStep, VetoRecovery, WithdrawRecovery
<1>5. CASE RegistryStep
  <2>1. UNCHANGED <<position, dueVars, state>>
    BY <1>5
    DEF RegistryStep, SetInvestor, SetInvestorDemo, KycWritten, UpdateConfig,
        ledgerVars, revenueVars, raiseVars, refundVars, dueVars
  <2>2. QED
    BY <2>1, QuietKeepsParts
<1>6. CASE OutsideStep
  <2>1. UNCHANGED <<position, dueVars, state>>
    BY <1>6
    DEF OutsideStep, Tick, DonateToEscrow, DonateToVault, CreateShareAccount,
        CloseShareAccount, BurnOwnShares, ledgerVars, revenueVars, raiseVars,
        refundVars, dueVars
  <2>2. QED
    BY <2>1, QuietKeepsParts
<1>7. QED
  BY <1>1, <1>2, <1>3, <1>4, <1>5, <1>6 DEF Next

LEMMA AuditImpliesSpec == AuditSpec => Spec
<1>1. AuditInit => Init
  BY DEF AuditInit
<1>2. [AuditStep]_<<vars, auditVars>> => [Next]_vars
  BY DEF AuditStep
<1>3. QED
  BY <1>1, <1>2, PTL DEF AuditSpec, Spec

LEMMA PartsAreInvariant == AuditSpec => []PartsInv
<1>1. AuditInit => PartsInv
  BY InitPartsInv
<1>2. /\ TypeInv /\ TypeInv' /\ LedgerInv /\ MoneyInv /\ PartsInv
      /\ [AuditStep]_<<vars, auditVars>>
      => PartsInv'
  <2>1. CASE TypeInv /\ TypeInv' /\ LedgerInv /\ MoneyInv /\ PartsInv /\ AuditStep
    BY <2>1, NextKeepsParts DEF AuditStep
  <2>2. CASE PartsInv /\ UNCHANGED <<vars, auditVars>>
    BY <2>2
    DEF PartsInv, BooksTypeOK, Part, NothingEarnedYet, RefundsMeanFailure, vars,
        auditVars, ledgerVars, revenueVars, raiseVars, refundVars
  <2>3. QED
    BY <2>1, <2>2
<1>3. QED
  BY <1>1, <1>2, AuditImpliesSpec, TypesAreInvariant, LedgerIsInvariant,
     MoneyIsInvariant, PTL DEF AuditSpec

(* docs/v2.md, revenue math: for any wallets, prices, fees and fixed-point *)
(* one, and whatever the order of deposits, transfers, claims, recoveries  *)
(* and reopened positions, no holder is paid or owed more than its exact   *)
(* part of the deposits.                                                   *)
THEOREM NobodyGainsByRounding == AuditSpec => []NobodyIsOverpaid
<1>1. ASSUME TypeInv, LedgerInv, PartsInv
      PROVE  NobodyIsOverpaid
  <2>1. ASSUME NEW o \in Owners
        PROVE  (paid[o] + Pending(o)) * sharesSold <= entitled[o]
    <3>1. /\ paid[o] \in Int /\ entitled[o] \in Int /\ sharesSold \in Nat
          /\ position[o].accrued \in Nat /\ position[o].shares \in Nat
          /\ accPerShare - position[o].accCheckpoint \in Nat
      BY <1>1, PartTypes, PositionTypes
    <3>2. CASE position[o].open
      <4> DEFINE settled == position[o].accrued
            + (position[o].shares * (accPerShare - position[o].accCheckpoint)) \div One
      <4>1. settled \in Int
        BY <3>1, OneAssumption
      <4>2. Within(paid[o], settled, 0, 0, sharesSold, entitled[o])
        BY <1>1, SettledIsInPart
      <4>3. Pending(o) = settled
        BY <3>2 DEF Pending, Earned, Owed
      <4> HIDE DEF settled
      <4>4. QED
        BY <3>1, <4>1, <4>2, <4>3, WithinIsCovered
    <3>3. CASE ~position[o].open
      <4>1. Within(paid[o], position[o].accrued, position[o].shares,
                   accPerShare - position[o].accCheckpoint, sharesSold,
                   entitled[o])
        BY <1>1, PartTypes DEF Part
      <4>2. Within(paid[o], 0, 0, 0, sharesSold, entitled[o])
        <5> DEFINE d == accPerShare - position[o].accCheckpoint
        <5>1. d \in Nat /\ 0 \in Int
          BY <3>1
        <5> HIDE DEF d
        <5>2. QED
          BY <3>1, <4>1, <5>1, NothingHeldIsWithin, Zenon DEF d
      <4>3. Pending(o) = 0
        BY <3>3 DEF Pending
      <4>4. QED
        BY <3>1, <4>2, <4>3, WithinIsCovered
    <3>4. QED
      BY <3>2, <3>3
  <2>2. QED
    BY <2>1 DEF NobodyIsOverpaid
<1>2. QED
  BY <1>1, AuditImpliesSpec, PartsAreInvariant, TypesAreInvariant,
     LedgerIsInvariant, PTL
-----------------------------------------------------------------------------
(* What the holders miss is less than a unit for each deposit and each     *)
(* settlement: in units of 1/One, what was deposited and neither claimed   *)
(* nor due is at most One - 1 for each of them.                            *)
DustInv ==
  /\ settles \in Nat
  /\ (totalDepositedNet - totalClaimed) * One - SumFunction(DueOf)
       <= (One - 1) * (Len(periods) + settles)

LEMMA InitDustInv == AuditInit => DustInv
<1> SUFFICES ASSUME AuditInit PROVE DustInv
  OBVIOUS
<1>1. Init /\ settles = 0 /\ Len(periods) = 0
  BY DEF AuditInit, Init
<1>2. DuesTyped
  BY <1>1, InitTypeInv, InitLedgerInv, DuesAreTyped
<1>3. SumFunction(DueOf) \in Nat
  BY <1>2 DEF DuesTyped
<1>4. /\ (totalDepositedNet - totalClaimed) * One = 0
      /\ (One - 1) * (Len(periods) + settles) = 0
  BY <1>1, OneAssumption DEF Init
<1>5. QED
  BY <1>1, <1>3, <1>4 DEF DustInv

LEMMA FractionsAreSeen ==
  ASSUME TypeInv, LedgerInv, NEW o \in Owners, Fraction(o) # 0
  PROVE  HasFraction(o)
<1>1. DueIsFloored(o) /\ Earned(position[o]) * One \in Int
  <2>1. DueIsFloored(o)
    BY DuesAreFloored
  <2>2. Unsettled(o) \in Nat /\ One \in Nat /\ One > 0
    BY <2>1, OneAssumption DEF DueIsFloored
  <2>3. Earned(position[o]) \in Nat
    BY <2>2, FloorIsClose DEF Earned, Owed, Unsettled
  <2>4. QED
    BY <2>1, <2>2, <2>3
<1>2. QED
  BY <1>1 DEF Fraction, HasFraction, Unsettled, DueIsFloored

LEMMA DroppedIsSettled ==
  ASSUME TypeInv, LedgerInv, NEW o \in Owners
  PROVE  /\ o \in SettledInStep => Dropped(o) <= One - 1
         /\ o \notin SettledInStep => Dropped(o) <= 0
<1>1. Fraction(o) \in 0 .. One - 1 /\ One \in Nat /\ One > 0
  BY DuesAreFloored, OneAssumption DEF DueIsFloored
<1>2. Dropped(o) # 0 => o \in SettledInStep
  BY FractionsAreSeen DEF Dropped, SettledInStep
<1>3. QED
  BY <1>1, <1>2 DEF Dropped

LEMMA StepKeepsDust ==
  ASSUME TypeInv, TypeInv', LedgerInv, LedgerInv', NoRevenueYet, SharesAddUp,
         DustInv, AuditStep
  PROVE  DustInv'
<1> DEFINE S == SumFunction(DueOf)
           a == totalDepositedNet - totalClaimed
           L == Len(periods) + settles
           K == Cardinality(SettledInStep)
<1>1. /\ S \in Nat /\ a \in Int /\ L \in Nat /\ settles \in Nat
      /\ a * One - S <= (One - 1) * L
      /\ totalClaimed \in Nat /\ totalClaimed' \in Nat
      /\ totalDepositedNet \in Nat /\ Len(periods) \in Nat
  <2>1. /\ Len(periods) \in Nat /\ totalDepositedNet \in Nat
        /\ totalClaimed \in Nat /\ totalClaimed' \in Nat
    BY ConstantsAreFine DEF TypeInv, TypeOK, RevenueTypeOK
  <2>2. S \in Nat
    BY DuesAreTyped DEF DuesTyped
  <2>3. /\ settles \in Nat
        /\ a * One - S <= (One - 1) * L
    BY DEF DustInv
  <2>4. QED
    BY <2>1, <2>2, <2>3
<1>2. settles' = settles + K /\ [Next]_vars
  BY DEF AuditStep, BooksKept
<1>3. One \in Nat /\ One > 1 /\ One - 1 \in Nat
  BY OneAssumption
<1>4. ASSUME NEW gross \in GrossAmounts, DepositRevenue(gross)
      PROVE  DustInv'
  <2>1. PICK net \in Nat, outstanding \in Nat :
          /\ outstanding > 0 /\ outstanding <= MaxU64
          /\ SumFunction(DueOf') = S + outstanding * AccIncrement(net, outstanding)
          /\ totalDepositedNet' = totalDepositedNet + net
          /\ totalClaimed' = totalClaimed /\ position' = position
          /\ Len(periods') = Len(periods) + 1
    BY <1>4, DepositIsShared
  <2>2. SettledInStep = {}
    BY <2>1 DEF SettledInStep, HasFraction
  <2>3. settles' = settles
    BY <1>1, <1>2, <2>2, FS_EmptySet
  <2> DEFINE shared == outstanding * AccIncrement(net, outstanding)
  <2>4. /\ net * One - shared <= One - 1
        /\ shared \in Int /\ net * One \in Int
    <3>1. net * One \in Nat
      BY <1>3
    <3>2. AccIncrement(net, outstanding) \in Nat
      BY <2>1, IncrementIsCovered
    <3>3. net * One < AccIncrement(net, outstanding) * outstanding + outstanding
      BY <2>1, <3>1, FloorIsClose DEF AccIncrement
    <3>4. AccIncrement(net, outstanding) * outstanding = shared /\ shared \in Int
      BY <3>2
    <3>5. outstanding <= One - 1
      BY <1>3, <2>1 DEF MaxU64
    <3> HIDE DEF shared
    <3>6. QED
      BY <1>3, <3>1, <3>3, <3>4, <3>5
  <2>5. /\ totalDepositedNet' - totalClaimed' = a + net
        /\ Len(periods') + settles' = L + 1
    BY <1>1, <2>1, <2>3
  <2>6. SumFunction(DueOf') = S + shared
    BY <2>1
  <2> HIDE DEF S, a, L, shared
  <2>7. /\ (a + net) * One = a * One + net * One /\ a * One \in Int
        /\ (One - 1) * (L + 1) = (One - 1) * L + (One - 1)
        /\ (One - 1) * L \in Nat
    BY <1>1, <1>3
  <2>8. (a + net) * One - (S + shared) <= (One - 1) * (L + 1)
    BY <1>1, <1>3, <2>4, <2>7
  <2>9. QED
    BY <1>1, <2>3, <2>5, <2>6, <2>8 DEF DustInv
<1>5. CASE \A gross \in GrossAmounts : ~DepositRevenue(gross)
  <2> DEFINE c == totalClaimed' - totalClaimed
             D == SumFunction(DroppedOf)
  <2>1. /\ SumFunction(DueOf') = S - c * One - D /\ c \in Int
        /\ D \in Nat /\ DroppedOf \in [Owners -> Int]
        /\ totalDepositedNet' = totalDepositedNet /\ periods' = periods
    <3>1. DroppedOf \in [Owners -> Nat] /\ D \in Nat
      BY <1>2, <1>5, FractionsAddUp
    <3>2. DroppedOf \in [Owners -> Int]
      BY <3>1
    <3>3. SumFunction(DueOf') = S - c * One - D /\ c \in Int
      BY <1>2, <1>5, DuesFall
    <3>4. totalDepositedNet' = totalDepositedNet /\ periods' = periods
      BY <1>2, <1>5, NextPays
    <3>5. QED
      BY <3>1, <3>2, <3>3, <3>4
  <2>2. K \in Nat /\ D <= (One - 1) * K
    <3>1. SettledInStep \in SUBSET Owners
      BY DEF SettledInStep
    <3>2. \A o \in Owners :
            /\ o \in SettledInStep => DroppedOf[o] <= One - 1
            /\ o \notin SettledInStep => DroppedOf[o] <= 0
      BY DroppedIsSettled DEF DroppedOf
    <3>3. QED
      BY <1>3, <2>1, <3>1, <3>2, SumIsCounted, OwnersAssumption
  <2>3. /\ totalDepositedNet' - totalClaimed' = a - c
        /\ Len(periods') + settles' = L + K
    BY <1>1, <1>2, <2>1, <2>2
  <2> HIDE DEF S, a, L, K, c, D
  <2>4. /\ (a - c) * One = a * One - c * One
        /\ a * One \in Int /\ c * One \in Int
        /\ (One - 1) * (L + K) = (One - 1) * L + (One - 1) * K
        /\ (One - 1) * L \in Nat /\ (One - 1) * K \in Nat
    BY <1>1, <1>3, <2>1, <2>2
  <2>5. (a - c) * One - (S - c * One - D) <= (One - 1) * (L + K)
    <3>1. \A t, u, v, w, x, y \in Int :
            t - u <= v /\ w <= x => (t - y) - (u - y - w) <= v + x
      OBVIOUS
    <3>2. /\ S \in Int /\ D \in Int
          /\ (One - 1) * L \in Int /\ (One - 1) * K \in Int
      BY <1>1, <2>1, <2>4
    <3>3. (a * One - c * One) - (S - c * One - D)
            <= (One - 1) * L + (One - 1) * K
      BY <1>1, <2>2, <2>4, <3>1, <3>2
    <3>4. QED
      BY <2>4, <3>3
  <2>6. settles' \in Nat
    BY <1>1, <1>2, <2>2
  <2>7. QED
    BY <2>1, <2>3, <2>5, <2>6 DEF DustInv
<1>6. QED
  BY <1>4, <1>5

LEMMA StutterKeepsDust ==
  ASSUME DustInv, UNCHANGED <<vars, auditVars>>
  PROVE  DustInv'
<1>1. /\ DueOf' = DueOf /\ totalDepositedNet' = totalDepositedNet
      /\ totalClaimed' = totalClaimed /\ periods' = periods
      /\ settles' = settles
  BY DEF vars, ledgerVars, revenueVars, auditVars, DueOf, Due, Fraction,
         Unsettled, Pending, Earned
<1>2. QED
  BY <1>1 DEF DustInv

LEMMA DustIsInvariant == AuditSpec => []DustInv
<1>1. /\ TypeInv /\ TypeInv' /\ LedgerInv /\ LedgerInv' /\ NoRevenueYet
        /\ SharesAddUp /\ DustInv /\ [AuditStep]_<<vars, auditVars>>
        => DustInv'
  BY StepKeepsDust, StutterKeepsDust
<1>2. QED
  BY <1>1, InitDustInv, AuditImpliesSpec, TypesAreInvariant,
     LedgerIsInvariant, NoRevenueIsInvariant, TheSharesAddUp, PTL
  DEF AuditSpec

(* docs/v2.md, revenue math: whatever is deposited, in however many        *)
(* deposits, and however often positions are settled, transferred,         *)
(* recovered, closed and opened again, the holders together miss less than *)
(* one base unit for each deposit and each settlement.                     *)
THEOREM TheDustIsBounded == AuditSpec => []DustIsBounded
<1>1. ASSUME TypeInv, LedgerInv, DustInv PROVE DustIsBounded
  <2> DEFINE a == totalDepositedNet - totalClaimed
             P == SumFunction(PendingOf)
             F == SumFunction(FractionOf)
             S == SumFunction(DueOf)
             L == Len(periods) + settles
             H == {o \in Owners : HasFraction(o)}
             K == Cardinality(H)
  <2>1. /\ P \in Nat /\ F \in Nat /\ S = F + P * One /\ a \in Int /\ L \in Nat
        /\ FractionOf \in [Owners -> Int]
        /\ a * One - S <= (One - 1) * L
    BY <1>1, DuesAreTyped, ConstantsAreFine
    DEF DuesTyped, DustInv, TypeInv, TypeOK, RevenueTypeOK
  <2>2. One \in Nat /\ One > 1 /\ One - 1 \in Nat
    BY OneAssumption
  <2>3. K \in Nat /\ F <= (One - 1) * K
    <3>1. \A o \in Owners :
            /\ o \in H => FractionOf[o] <= One - 1
            /\ o \notin H => FractionOf[o] <= 0
      <4> SUFFICES ASSUME NEW o \in Owners
                   PROVE  /\ FractionOf[o] <= One - 1
                          /\ o \notin H => FractionOf[o] <= 0
        OBVIOUS
      <4>1. FractionOf[o] = Fraction(o) /\ Fraction(o) \in 0 .. One - 1
        BY <1>1, DuesAreTyped DEF DuesTyped, DueIsFloored
      <4>2. o \notin H => Fraction(o) = 0
        BY <1>1, FractionsAreSeen
      <4>3. QED
        BY <2>2, <4>1, <4>2
    <3>2. H \in SUBSET Owners
      OBVIOUS
    <3> HIDE DEF H
    <3>3. QED
      BY <2>1, <2>2, <3>1, <3>2, SumIsCounted, OwnersAssumption
  <2> HIDE DEF a, P, F, S, L, K
  <2>4. /\ (a - P) * One = a * One - P * One
        /\ a * One \in Int /\ P * One \in Int
        /\ (One - 1) * (L + K) = (One - 1) * L + (One - 1) * K
        /\ (One - 1) * L \in Nat /\ (One - 1) * K \in Nat
    BY <2>1, <2>2, <2>3
  <2>5. (a - P) * One <= (One - 1) * (L + K)
    BY <2>1, <2>2, <2>3, <2>4
  <2>6. a - P > 0 => a - P < L + K
    <3> DEFINE d == a - P
               n == L + K
    <3> SUFFICES ASSUME d > 0, d >= n PROVE FALSE
      BY <2>1, <2>3
    <3>1. d \in Nat /\ n \in Nat /\ d * One <= (One - 1) * n
      BY <2>1, <2>3, <2>5
    <3> HIDE DEF d, n
    <3>2. (One - 1) * n <= (One - 1) * d
      BY <2>2, <3>1, ProductIsMonotonic
    <3>3. (One - 1) * d = d * One - d /\ d * One \in Nat /\ (One - 1) * n \in Nat
      BY <2>2, <3>1
    <3>4. QED
      BY <3>1, <3>2, <3>3
  <2>7. QED
    BY <2>6 DEF DustIsBounded, a, P, L, K, H, PendingOf
<1>2. QED
  BY <1>1, DustIsInvariant, AuditImpliesSpec, TypesAreInvariant,
     LedgerIsInvariant, PTL
-----------------------------------------------------------------------------
(* The backend's replay.  It follows the program position by position; the *)
(* checkpoint of an absent position is of no account, because opening one  *)
(* starts both anew.                                                       *)
ReplayRecord == [shares : Int, checkpoint : Int, accrued : Int, claimed : Int]

Follows(o) ==
  /\ position[o].open =>
       /\ replay[o].shares = position[o].shares
       /\ replay[o].checkpoint = position[o].accCheckpoint
       /\ replay[o].accrued = position[o].accrued
  /\ ~position[o].open => replay[o].shares = 0 /\ replay[o].accrued = 0
  /\ replay[o].claimed = paid[o]

ReplayInv ==
  /\ acc = accPerShare
  /\ replay \in [Owners -> ReplayRecord]
  /\ \A o \in Owners : Follows(o)

LEMMA InitReplayInv == ReplayInit => ReplayInv
  BY DEF ReplayInit, AuditInit, Init, NoPosition, ReplayInv, ReplayRecord, Follows

(* What each event makes of a replayed position.                           *)
LEMMA SettledReplayType ==
  ASSUME acc \in Nat, NEW r \in ReplayRecord
  PROVE  /\ SettledReplay(r) \in ReplayRecord
         /\ SettledReplay(r).shares = r.shares
         /\ SettledReplay(r).checkpoint = acc
         /\ SettledReplay(r).accrued =
              r.accrued + (r.shares * (acc - r.checkpoint)) \div One
         /\ SettledReplay(r).claimed = r.claimed
<1>1. /\ r.shares \in Int /\ r.checkpoint \in Int /\ r.accrued \in Int
      /\ acc \in Int /\ One \in Nat /\ One > 0
  BY OneAssumption DEF ReplayRecord
<1>2. r.shares * (acc - r.checkpoint) \in Int
  BY <1>1
<1>3. ReplayOwed(r) \in Int
  BY <1>1, <1>2 DEF ReplayOwed
<1>4. r.accrued + ReplayOwed(r) \in Int
  BY <1>1, <1>3
<1>5. QED
  BY <1>1, <1>4 DEF SettledReplay, ReplayRecord, ReplayOwed

LEMMA ReplayedOpening ==
  ASSUME acc \in Nat, NEW r \in ReplayRecord
  PROVE  /\ OnOpenedOrClosed(r) \in ReplayRecord
         /\ OnOpenedOrClosed(r).shares = 0 /\ OnOpenedOrClosed(r).accrued = 0
         /\ OnOpenedOrClosed(r).checkpoint = acc
         /\ OnOpenedOrClosed(r).claimed = r.claimed
<1>1. acc \in Int /\ 0 \in Int
  OBVIOUS
<1>2. OnOpenedOrClosed(r) \in ReplayRecord
  BY <1>1 DEF OnOpenedOrClosed, ReplayRecord
<1>3. /\ OnOpenedOrClosed(r).shares = 0 /\ OnOpenedOrClosed(r).accrued = 0
      /\ OnOpenedOrClosed(r).checkpoint = acc
      /\ OnOpenedOrClosed(r).claimed = r.claimed
  BY <1>1 DEF OnOpenedOrClosed, ReplayRecord
<1>4. QED
  BY <1>2, <1>3

LEMMA ReplayedPurchase ==
  ASSUME NEW r \in ReplayRecord, NEW n \in Int
  PROVE  /\ OnPurchased(r, n) \in ReplayRecord
         /\ OnPurchased(r, n).shares = r.shares + n
         /\ OnPurchased(r, n).accrued = r.accrued
         /\ OnPurchased(r, n).checkpoint = r.checkpoint
         /\ OnPurchased(r, n).claimed = r.claimed
  BY DEF OnPurchased, ReplayRecord

LEMMA ReplayedRefund ==
  ASSUME NEW r \in ReplayRecord
  PROVE  /\ OnRefunded(r) \in ReplayRecord
         /\ OnRefunded(r).shares = 0 /\ OnRefunded(r).accrued = r.accrued
         /\ OnRefunded(r).checkpoint = r.checkpoint
         /\ OnRefunded(r).claimed = r.claimed
  BY DEF OnRefunded, ReplayRecord

LEMMA ReplayedTransfer ==
  ASSUME acc \in Nat, NEW r \in ReplayRecord, NEW n \in Int
  PROVE  /\ OnTransferred(r, n) \in ReplayRecord
         /\ OnTransferred(r, n).shares = r.shares + n
         /\ OnTransferred(r, n).accrued = SettledReplay(r).accrued
         /\ OnTransferred(r, n).checkpoint = acc
         /\ OnTransferred(r, n).claimed = r.claimed
<1> DEFINE t == SettledReplay(r)
<1>1. /\ t \in ReplayRecord /\ t.shares = r.shares /\ t.checkpoint = acc
      /\ t.claimed = r.claimed
  BY SettledReplayType
<1>2. OnTransferred(r, n) = [t EXCEPT !.shares = t.shares + n]
  BY DEF OnTransferred
<1> HIDE DEF t
<1>3. /\ OnTransferred(r, n) \in ReplayRecord
      /\ OnTransferred(r, n).shares = r.shares + n
      /\ OnTransferred(r, n).accrued = t.accrued
      /\ OnTransferred(r, n).checkpoint = acc
      /\ OnTransferred(r, n).claimed = r.claimed
  BY <1>1, <1>2 DEF ReplayRecord
<1>4. QED
  BY <1>3 DEF t

LEMMA ReplayedClaim ==
  ASSUME acc \in Nat, NEW r \in ReplayRecord, NEW m \in Int
  PROVE  /\ OnClaimed(r, m) \in ReplayRecord
         /\ OnClaimed(r, m).shares = r.shares
         /\ OnClaimed(r, m).accrued = 0
         /\ OnClaimed(r, m).checkpoint = acc
         /\ OnClaimed(r, m).claimed = r.claimed + m
<1> DEFINE t == SettledReplay(r)
<1>1. /\ t \in ReplayRecord /\ t.shares = r.shares /\ t.checkpoint = acc
      /\ t.claimed = r.claimed
  BY SettledReplayType
<1> DEFINE x == t.claimed + m
<1>2. OnClaimed(r, m) = [t EXCEPT !.accrued = 0, !.claimed = x]
  BY DEF OnClaimed
<1>3. x \in Int /\ 0 \in Int
  BY <1>1 DEF ReplayRecord
<1> HIDE DEF t, x
<1>4. OnClaimed(r, m) \in ReplayRecord
  BY <1>1, <1>2, <1>3 DEF ReplayRecord
<1>5. /\ OnClaimed(r, m).shares = t.shares /\ OnClaimed(r, m).accrued = 0
      /\ OnClaimed(r, m).checkpoint = t.checkpoint
      /\ OnClaimed(r, m).claimed = x
  BY <1>1, <1>2 DEF ReplayRecord
<1>6. QED
  BY <1>1, <1>4, <1>5 DEF x

LEMMA ReplayedRecovery ==
  ASSUME acc \in Nat, NEW r \in ReplayRecord, NEW n \in Int, NEW m \in Int
  PROVE  /\ OnRecovered(r, n, m) \in ReplayRecord
         /\ OnRecovered(r, n, m).shares = r.shares + n
         /\ OnRecovered(r, n, m).accrued = SettledReplay(r).accrued + m
         /\ OnRecovered(r, n, m).checkpoint = acc
         /\ OnRecovered(r, n, m).claimed = r.claimed
<1> DEFINE t == SettledReplay(r)
<1>1. /\ t \in ReplayRecord /\ t.shares = r.shares /\ t.checkpoint = acc
      /\ t.claimed = r.claimed
  BY SettledReplayType
<1> DEFINE x == t.shares + n
<1> DEFINE y == t.accrued + m
<1>2. OnRecovered(r, n, m) = [t EXCEPT !.shares = x, !.accrued = y]
  BY DEF OnRecovered
<1>3. x \in Int /\ y \in Int
  BY <1>1 DEF ReplayRecord
<1> HIDE DEF t, x, y
<1>4. OnRecovered(r, n, m) \in ReplayRecord
  BY <1>1, <1>2, <1>3 DEF ReplayRecord
<1>5. /\ OnRecovered(r, n, m).shares = x /\ OnRecovered(r, n, m).accrued = y
      /\ OnRecovered(r, n, m).checkpoint = t.checkpoint
      /\ OnRecovered(r, n, m).claimed = t.claimed
  BY <1>1, <1>2 DEF ReplayRecord
<1>6. QED
  BY <1>1, <1>4, <1>5 DEF t, x, y

(* Wallets a step does not touch are still followed.                       *)
LEMMA OthersAreFollowed ==
  ASSUME TypeInv, ReplayInv, NEW a \in Owners, NEW b \in Owners,
         acc' = accPerShare', replay' \in [Owners -> ReplayRecord],
         \A o \in Owners \ {a, b} :
           /\ position'[o] = position[o] /\ replay'[o] = replay[o]
           /\ paid'[o] = paid[o],
         Follows(a)', Follows(b)'
  PROVE  ReplayInv'
<1>1. ASSUME NEW o \in Owners \ {a, b} PROVE Follows(o)'
  BY <1>1 DEF ReplayInv, Follows
<1>2. QED
  BY <1>1 DEF ReplayInv

LEMMA PaidInStep ==
  ASSUME BooksTypeOK, BooksKept, NEW o \in Owners
  PROVE  /\ paid'[o] = paid[o] + WasPaid(o)
         /\ WasPaid(o) = 0 => paid'[o] = paid[o]
<1>1. paid' = [p \in Owners |-> paid[p] + WasPaid(p)] /\ paid[o] \in Int
  BY DEF BooksKept, BooksTypeOK
<1>2. QED
  BY <1>1

(* What an opening makes of both.                                          *)
LEMMA OpeningFollows ==
  ASSUME TypeInv, LedgerInv, ReplayInv, NEW o \in Owners
  PROVE  /\ Opening(o) \in ReplayRecord
         /\ Opening(o).shares = OpenedPosition(o).shares
         /\ Opening(o).checkpoint = OpenedPosition(o).accCheckpoint
         /\ Opening(o).accrued = OpenedPosition(o).accrued
         /\ Opening(o).claimed = paid[o]
<1>1. /\ acc = accPerShare /\ acc \in Nat /\ replay[o] \in ReplayRecord
      /\ Follows(o)
  BY PositionTypes DEF ReplayInv
<1>2. CASE position[o].open
  BY <1>1, <1>2 DEF Opening, OpenedPosition, Follows
<1>3. CASE ~position[o].open
  <2>1. /\ Opening(o) = OnOpenedOrClosed(replay[o])
        /\ OpenedPosition(o).shares = 0 /\ OpenedPosition(o).accrued = 0
        /\ OpenedPosition(o).accCheckpoint = accPerShare
    BY <1>3 DEF Opening, OpenedPosition, NoPosition
  <2>2. QED
    BY <1>1, <2>1, ReplayedOpening DEF Follows
<1>4. QED
  BY <1>2, <1>3

(* Steps with the events of one position, beside transfer and recovery.    *)
LEMMA ReplayOfOne ==
  ASSUME TypeInv, LedgerInv, PartsInv, ReplayInv, BooksKept,
         NEW o \in Owners, acc' = acc, accPerShare' = accPerShare,
         NEW r \in ReplayRecord, replay' = [replay EXCEPT ![o] = r],
         \A p \in Owners \ {o} : position'[p] = position[p],
         position'[o].open =>
           /\ r.shares = position'[o].shares
           /\ r.checkpoint = position'[o].accCheckpoint
           /\ r.accrued = position'[o].accrued,
         ~position'[o].open => r.shares = 0 /\ r.accrued = 0,
         r.claimed = paid[o] + WasPaid(o)
  PROVE  ReplayInv'
<1>1. /\ replay'[o] = r /\ replay' \in [Owners -> ReplayRecord]
      /\ \A p \in Owners \ {o} : replay'[p] = replay[p]
  BY DEF ReplayInv
<1>2. ASSUME NEW p \in Owners \ {o} PROVE paid'[p] = paid[p]
  <2>1. WasPaid(p) = 0
    BY NothingPaid
  <2>2. QED
    BY <2>1, PaidInStep DEF PartsInv
<1>3. paid'[o] = paid[o] + WasPaid(o)
  BY PaidInStep DEF PartsInv
<1>4. Follows(o)'
  BY <1>1, <1>3 DEF Follows
<1>5. acc' = accPerShare'
  BY DEF ReplayInv
<1>6. QED
  BY <1>1, <1>2, <1>4, <1>5, OthersAreFollowed

(* A step without an event of the replay.                                  *)
LEMMA ReplayOfNothing ==
  ASSUME TypeInv, PartsInv, ReplayInv, BooksKept,
         UNCHANGED <<position, accPerShare, replayVars>>
  PROVE  ReplayInv'
<1>1. ASSUME NEW o \in Owners PROVE paid'[o] = paid[o]
  <2>1. WasPaid(o) = 0
    BY NothingPaid
  <2>2. QED
    BY <2>1, PaidInStep DEF PartsInv
<1>2. QED
  BY <1>1 DEF ReplayInv, Follows, replayVars

LEMMA ReplayedHolding ==
  ASSUME TypeInv, TypeInv', LedgerInv, PartsInv, ReplayInv, BooksKept,
         NEW o \in Owners,
         \/ \E n \in BuyAmounts : ReplayBuy(o, n)
         \/ ReplayRefund(o) \/ ReplayOpen(o) \/ ReplayClose(o) \/ ReplayClaim(o)
  PROVE  ReplayInv'
<1>0. /\ acc = accPerShare /\ acc \in Nat /\ replay[o] \in ReplayRecord
      /\ Follows(o) /\ paid[o] \in Int
  BY PositionTypes, PartTypes DEF ReplayInv
<1>1. ASSUME NEW n \in BuyAmounts, ReplayBuy(o, n) PROVE ReplayInv'
  <2> DEFINE opened == OpenedPosition(o)
  <2>1. /\ acc' = acc /\ accPerShare' = accPerShare
        /\ replay' = [replay EXCEPT ![o] = OnPurchased(Opening(o), n)]
        /\ position' = [position EXCEPT ![o] =
             [opened EXCEPT !.shares = opened.shares + n,
                            !.paidIn = opened.paidIn + SharesValue(n, Price)]]
    BY <1>1 DEF ReplayBuy, BuyShares, revenueVars
  <2>2. opened \in PositionRecord /\ opened.open /\ n \in Nat /\ n \in Int
    BY OpenedPositionType, InputsAssumption
    DEF TypeInv, OpenedPosition, NoPosition
  <2>3. position[o].open => opened = position[o]
    BY DEF OpenedPosition
  <2> HIDE DEF opened
  <2>4. /\ position'[o].open /\ position'[o].shares = opened.shares + n
        /\ position'[o].accCheckpoint = opened.accCheckpoint
        /\ position'[o].accrued = opened.accrued
        /\ position'[o].totalClaimed = opened.totalClaimed
        /\ \A p \in Owners \ {o} : position'[p] = position[p]
    BY <2>1, <2>2 DEF TypeInv, TypeOK, LedgerTypeOK, PositionRecord
  <2>5. /\ OnPurchased(Opening(o), n) \in ReplayRecord
        /\ OnPurchased(Opening(o), n).shares = opened.shares + n
        /\ OnPurchased(Opening(o), n).accrued = opened.accrued
        /\ OnPurchased(Opening(o), n).checkpoint = opened.accCheckpoint
        /\ OnPurchased(Opening(o), n).claimed = paid[o]
    <3> DEFINE x == Opening(o)
    <3>1. /\ x \in ReplayRecord /\ x.shares = opened.shares
          /\ x.checkpoint = opened.accCheckpoint
          /\ x.accrued = opened.accrued /\ x.claimed = paid[o]
      BY OpeningFollows DEF opened
    <3> HIDE DEF x
    <3>2. /\ OnPurchased(x, n) \in ReplayRecord
          /\ OnPurchased(x, n).shares = x.shares + n
          /\ OnPurchased(x, n).accrued = x.accrued
          /\ OnPurchased(x, n).checkpoint = x.checkpoint
          /\ OnPurchased(x, n).claimed = x.claimed
      BY <2>2, <3>1, ReplayedPurchase
    <3>3. QED
      BY <3>1, <3>2 DEF x
  <2>6. WasPaid(o) = 0
    BY <2>3, <2>4, NothingPaid
  <2> DEFINE r == OnPurchased(Opening(o), n)
  <2>7. r.claimed = paid[o] + WasPaid(o)
    BY <1>0, <2>5, <2>6
  <2> HIDE DEF r
  <2>8. QED
    BY <1>0, <2>1, <2>4, <2>5, <2>7, ReplayOfOne DEF r
<1>2. CASE ReplayRefund(o)
  <2>1. /\ acc' = acc /\ accPerShare' = accPerShare /\ position[o].open
        /\ replay' = [replay EXCEPT ![o] = OnRefunded(replay[o])]
        /\ position' = [position EXCEPT ![o] = [position[o] EXCEPT !.shares = 0]]
    BY <1>2 DEF ReplayRefund, Refund, RefundedPosition, revenueVars
  <2>2. /\ position'[o].open /\ position'[o].shares = 0
        /\ position'[o].accCheckpoint = position[o].accCheckpoint
        /\ position'[o].accrued = position[o].accrued
        /\ position'[o].totalClaimed = position[o].totalClaimed
        /\ \A p \in Owners \ {o} : position'[p] = position[p]
    BY <2>1 DEF TypeInv, TypeOK, LedgerTypeOK, PositionRecord
  <2>3. /\ OnRefunded(replay[o]) \in ReplayRecord
        /\ OnRefunded(replay[o]).shares = 0
        /\ OnRefunded(replay[o]).accrued = position[o].accrued
        /\ OnRefunded(replay[o]).checkpoint = position[o].accCheckpoint
        /\ OnRefunded(replay[o]).claimed = paid[o]
    BY <1>0, <2>1, ReplayedRefund DEF Follows
  <2>4. WasPaid(o) = 0
    BY <2>2, NothingPaid
  <2> DEFINE r == OnRefunded(replay[o])
  <2>5. r.claimed = paid[o] + WasPaid(o)
    BY <1>0, <2>3, <2>4
  <2> HIDE DEF r
  <2>6. QED
    BY <1>0, <2>1, <2>2, <2>3, <2>5, ReplayOfOne DEF r
<1>3. CASE ReplayOpen(o)
  <2>1. /\ acc' = acc /\ accPerShare' = accPerShare
        /\ replay' = [replay EXCEPT ![o] = Opening(o)]
        /\ position' = [position EXCEPT ![o] = OpenedPosition(o)]
    BY <1>3 DEF ReplayOpen, OpenPosition, revenueVars
  <2>2. /\ position'[o] = OpenedPosition(o)
        /\ \A p \in Owners \ {o} : position'[p] = position[p]
    BY <2>1 DEF TypeInv, TypeOK, LedgerTypeOK
  <2>3. /\ OpenedPosition(o).open
        /\ position[o].open => OpenedPosition(o) = position[o]
    BY DEF OpenedPosition, NoPosition
  <2>4. WasPaid(o) = 0
    BY <2>2, <2>3, NothingPaid
  <2> DEFINE r == Opening(o)
  <2>5. r.claimed = paid[o] + WasPaid(o)
    BY <1>0, <2>4, OpeningFollows
  <2> HIDE DEF r
  <2>6. QED
    BY <1>0, <2>1, <2>2, <2>3, OpeningFollows, <2>5, ReplayOfOne DEF r
<1>4. CASE ReplayClose(o)
  <2>1. /\ acc' = acc /\ accPerShare' = accPerShare
        /\ replay' = [replay EXCEPT ![o] = OnOpenedOrClosed(replay[o])]
        /\ position' = [position EXCEPT ![o] = NoPosition]
    BY <1>4 DEF ReplayClose, ClosePosition, revenueVars
  <2>2. /\ ~position'[o].open
        /\ \A p \in Owners \ {o} : position'[p] = position[p]
    BY <2>1 DEF TypeInv, TypeOK, LedgerTypeOK, NoPosition
  <2>3. /\ OnOpenedOrClosed(replay[o]) \in ReplayRecord
        /\ OnOpenedOrClosed(replay[o]).shares = 0
        /\ OnOpenedOrClosed(replay[o]).accrued = 0
        /\ OnOpenedOrClosed(replay[o]).claimed = paid[o]
    BY <1>0, ReplayedOpening DEF Follows
  <2>4. WasPaid(o) = 0
    BY <2>2, NothingPaid
  <2> DEFINE r == OnOpenedOrClosed(replay[o])
  <2>5. r.claimed = paid[o] + WasPaid(o)
    BY <1>0, <2>3, <2>4
  <2> HIDE DEF r
  <2>6. QED
    BY <1>0, <2>1, <2>2, <2>3, <2>5, ReplayOfOne DEF r
<1>5. CASE ReplayClaim(o)
  <2> DEFINE amount == totalClaimed' - totalClaimed
  <2>1. /\ acc' = acc /\ Claim(o)
        /\ replay' = [replay EXCEPT ![o] = OnClaimed(replay[o], amount)]
    BY <1>5 DEF ReplayClaim
  <2>2. /\ position[o].open /\ amount \in Nat /\ amount \in Int
        /\ position'[o].open /\ position'[o].shares = position[o].shares
        /\ position'[o].accCheckpoint = accPerShare
        /\ position'[o].accrued = 0
        /\ position'[o].totalClaimed = position[o].totalClaimed + amount
        /\ \A p \in Owners \ {o} : position'[p] = position[p]
        /\ accPerShare' = accPerShare
    BY <2>1, ClaimEffect DEF dueVars
  <2> HIDE DEF amount
  <2>3. WasPaid(o) = amount
    BY <2>2, PositionTypes DEF WasPaid
  <2>4. /\ OnClaimed(replay[o], amount) \in ReplayRecord
        /\ OnClaimed(replay[o], amount).shares = position[o].shares
        /\ OnClaimed(replay[o], amount).accrued = 0
        /\ OnClaimed(replay[o], amount).checkpoint = acc
        /\ OnClaimed(replay[o], amount).claimed = paid[o] + amount
    BY <1>0, <2>2, ReplayedClaim DEF Follows
  <2> DEFINE r == OnClaimed(replay[o], amount)
  <2>5. r.claimed = paid[o] + WasPaid(o)
    BY <1>0, <2>3, <2>4
  <2> HIDE DEF r
  <2>6. QED
    BY <1>0, <2>1, <2>2, <2>4, <2>5, ReplayOfOne DEF r
<1>6. QED
  BY <1>1, <1>2, <1>3, <1>4, <1>5

LEMMA ReplayedDeposit ==
  ASSUME TypeInv, TypeInv', PartsInv, ReplayInv, BooksKept,
         NEW gross \in GrossAmounts, ReplayDeposit(gross)
  PROVE  ReplayInv'
<1>1. acc' = accPerShare' /\ replay' = replay /\ position' = position
  BY DEF ReplayDeposit, DepositRevenue, ledgerVars
<1>2. ASSUME NEW o \in Owners PROVE paid'[o] = paid[o]
  <2>1. WasPaid(o) = 0
    BY <1>1, NothingPaid
  <2>2. QED
    BY <2>1, PaidInStep DEF PartsInv
<1>3. QED
  BY <1>1, <1>2 DEF ReplayInv, Follows

(* A side of a movement of shares, settled by both.                        *)
LEMMA SettledFollows ==
  ASSUME TypeInv, LedgerInv, ReplayInv, NEW o \in Owners
  PROVE  LET pos == OpenedPosition(o)
             r == Opening(o)
         IN SettledReplay(r).accrued =
              pos.accrued + (pos.shares * (accPerShare - pos.accCheckpoint)) \div One
<1>1. acc = accPerShare /\ acc \in Nat
  BY PositionTypes DEF ReplayInv
<1> DEFINE r == Opening(o)
<1>2. /\ r \in ReplayRecord
      /\ r.shares = OpenedPosition(o).shares
      /\ r.checkpoint = OpenedPosition(o).accCheckpoint
      /\ r.accrued = OpenedPosition(o).accrued
  BY OpeningFollows
<1> HIDE DEF r
<1>3. SettledReplay(r).accrued =
        r.accrued + (r.shares * (acc - r.checkpoint)) \div One
  BY <1>1, <1>2, SettledReplayType
<1>4. QED
  BY <1>1, <1>2, <1>3 DEF r

LEMMA ReplayedTransferStep ==
  ASSUME TypeInv, TypeInv', LedgerInv, PartsInv, ReplayInv, BooksKept,
         NEW from \in Owners, NEW to \in Owners, NEW n \in TransferAmounts,
         ReplayTransfer(from, to, n)
  PROVE  ReplayInv'
<1> DEFINE a == OnTransferred(replay[from], -n)
<1> DEFINE b == OnTransferred(replay[to], n)
<1>1. /\ Transfer(from, to, n) /\ acc' = acc
      /\ replay' = [replay EXCEPT ![from] = a, ![to] = b]
  BY DEF ReplayTransfer
<1>2. /\ from # to /\ n \in Nat /\ n \in Int /\ -n \in Int
      /\ position[from].open /\ position[to].open
      /\ IsSettled(position'[from], position[from], position[from].shares - n)
      /\ IsSettled(position'[to], position[to], position[to].shares + n)
      /\ \A o \in Owners \ {from, to} : position'[o] = position[o]
      /\ accPerShare' = accPerShare
  BY <1>1, TransferEffect DEF dueVars
<1>3. acc = accPerShare /\ acc \in Nat /\ replay \in [Owners -> ReplayRecord]
  BY PositionTypes DEF ReplayInv
<1>4. ASSUME NEW o \in Owners, position[o].open
      PROVE  /\ replay[o] \in ReplayRecord
             /\ replay[o].shares = position[o].shares
             /\ replay[o].claimed = paid[o]
             /\ SettledReplay(replay[o]).accrued = position[o].accrued
                  + (position[o].shares
                       * (accPerShare - position[o].accCheckpoint)) \div One
  <2>1. Opening(o) = replay[o] /\ OpenedPosition(o) = position[o]
    BY <1>4 DEF Opening, OpenedPosition
  <2>2. Follows(o)
    BY DEF ReplayInv
  <2>3. QED
    BY <1>3, <1>4, <2>1, <2>2, SettledFollows DEF Follows
<1>5. ASSUME NEW o \in Owners PROVE paid'[o] = paid[o]
  <2>1. position'[o].totalClaimed = position[o].totalClaimed
    BY <1>2 DEF IsSettled
  <2>2. WasPaid(o) = 0
    BY <2>1, NothingPaid
  <2>3. QED
    BY <2>2, PaidInStep DEF PartsInv
<1>6. /\ a \in ReplayRecord /\ a.shares = position[from].shares + (-n)
      /\ a.accrued = SettledReplay(replay[from]).accrued
      /\ a.checkpoint = accPerShare /\ a.claimed = paid[from]
  <2>1. /\ replay[from] \in ReplayRecord
        /\ replay[from].shares = position[from].shares
        /\ replay[from].claimed = paid[from]
    BY <1>2, <1>4
  <2>2. /\ a \in ReplayRecord /\ a.shares = replay[from].shares + (-n)
        /\ a.accrued = SettledReplay(replay[from]).accrued
        /\ a.checkpoint = acc /\ a.claimed = replay[from].claimed
    BY <1>2, <1>3, <2>1, ReplayedTransfer
  <2>3. QED
    BY <1>3, <2>1, <2>2
<1>7. /\ b \in ReplayRecord /\ b.shares = position[to].shares + n
      /\ b.accrued = SettledReplay(replay[to]).accrued
      /\ b.checkpoint = accPerShare /\ b.claimed = paid[to]
  <2>1. /\ replay[to] \in ReplayRecord
        /\ replay[to].shares = position[to].shares
        /\ replay[to].claimed = paid[to]
    BY <1>2, <1>4
  <2>2. /\ b \in ReplayRecord /\ b.shares = replay[to].shares + n
        /\ b.accrued = SettledReplay(replay[to]).accrued
        /\ b.checkpoint = acc /\ b.claimed = replay[to].claimed
    BY <1>2, <1>3, <2>1, ReplayedTransfer
  <2>3. QED
    BY <1>3, <2>1, <2>2
<1> HIDE DEF a, b
<1>8. /\ replay'[from] = a /\ replay'[to] = b
      /\ replay' \in [Owners -> ReplayRecord]
      /\ \A o \in Owners \ {from, to} : replay'[o] = replay[o]
  BY <1>1, <1>2, <1>3, <1>6, <1>7
<1>9. Follows(from)'
  <2>1. position[from].shares + (-n) = position[from].shares - n
    BY <1>2, PositionTypes
  <2>2. QED
    BY <1>2, <1>4, <1>5, <1>6, <1>8, <2>1 DEF Follows, IsSettled
<1>10. Follows(to)'
  BY <1>2, <1>4, <1>5, <1>7, <1>8 DEF Follows, IsSettled
<1>11. acc' = accPerShare'
  BY <1>1, <1>2, <1>3
<1>12. QED
  BY <1>2, <1>5, <1>8, <1>9, <1>10, <1>11, OthersAreFollowed

LEMMA ReplayedRecoveryStep ==
  ASSUME TypeInv, TypeInv', LedgerInv, PartsInv, ReplayInv, BooksKept,
         NEW from \in Owners, ReplayRecovery(from)
  PROVE  ReplayInv'
<1>0. ExecuteRecovery(from) /\ acc' = acc
  BY DEF ReplayRecovery
<1>1. PICK to \in Owners, n \in Nat :
        to = request[from].to /\ n = request[from].shares
  BY <1>0, RecoveryEffect
<1> DEFINE old == position[from]
<1> DEFINE moved == AccruedMoved(old, n)
<1> DEFINE opened == OpenedPosition(to)
<1> DEFINE a == OnRecovered(replay[from], -n, -moved)
<1> DEFINE b == OnRecovered(Opening(to), n, moved)
<1>2. replay' = [replay EXCEPT ![from] = a, ![to] = b]
  <2>1. to # from
    BY <1>0, <1>1, RecoveryEffect
  <2>2. QED
    BY <1>1, <2>1 DEF ReplayRecovery
<1> DEFINE settledOld ==
      old.accrued + (old.shares * (accPerShare - old.accCheckpoint)) \div One
<1> DEFINE settledTo ==
      opened.accrued
        + (opened.shares * (accPerShare - opened.accCheckpoint)) \div One
<1>3. /\ to # from /\ moved \in Nat /\ old.open
      /\ position'[from].open /\ position'[from].shares = old.shares - n
      /\ position'[from].accCheckpoint = accPerShare
      /\ position'[from].accrued = settledOld - moved
      /\ position'[from].totalClaimed = old.totalClaimed
      /\ position'[to].open /\ position'[to].shares = opened.shares + n
      /\ position'[to].accCheckpoint = accPerShare
      /\ position'[to].accrued = settledTo + moved
      /\ position'[to].totalClaimed = opened.totalClaimed
      /\ \A o \in Owners \ {from, to} : position'[o] = position[o]
      /\ accPerShare' = accPerShare
  BY <1>0, <1>1, RecoveryEffect DEF dueVars
<1>4. /\ acc = accPerShare /\ acc \in Nat /\ replay \in [Owners -> ReplayRecord]
      /\ Follows(from)
  BY PositionTypes DEF ReplayInv
<1>5. /\ replay[from] \in ReplayRecord /\ replay[from].shares = old.shares
      /\ replay[from].claimed = paid[from]
      /\ SettledReplay(replay[from]).accrued = settledOld
  <2>1. Opening(from) = replay[from] /\ OpenedPosition(from) = position[from]
    BY <1>3 DEF Opening, OpenedPosition
  <2>2. QED
    BY <1>3, <1>4, <2>1, SettledFollows DEF Follows
<1>6. /\ Opening(to) \in ReplayRecord /\ Opening(to).shares = opened.shares
      /\ Opening(to).claimed = paid[to]
      /\ SettledReplay(Opening(to)).accrued = settledTo
  BY OpeningFollows, SettledFollows
<1>7. ASSUME NEW o \in Owners PROVE paid'[o] = paid[o]
  <2>1. position[to].open => opened = position[to]
    BY DEF OpenedPosition
  <2>2. WasPaid(o) = 0
    <3>1. CASE o = to
      BY <1>3, <2>1, <3>1, NothingPaid
    <3>2. CASE o # to
      BY <1>3, <3>2, NothingPaid
    <3>3. QED
      BY <3>1, <3>2
  <2>3. QED
    BY <2>2, PaidInStep DEF PartsInv
<1> HIDE DEF moved, settledOld, settledTo, opened
<1>8. n \in Int /\ -n \in Int /\ moved \in Int /\ -moved \in Int
  BY <1>3
<1>9. /\ a \in ReplayRecord /\ a.shares = old.shares + (-n)
      /\ a.accrued = settledOld + (-moved)
      /\ a.checkpoint = accPerShare /\ a.claimed = paid[from]
  BY <1>4, <1>5, <1>8, ReplayedRecovery
<1>10. /\ b \in ReplayRecord /\ b.shares = opened.shares + n
       /\ b.accrued = settledTo + moved
       /\ b.checkpoint = accPerShare /\ b.claimed = paid[to]
  BY <1>4, <1>6, <1>8, ReplayedRecovery
<1> HIDE DEF a, b
<1>11. /\ replay'[from] = a /\ replay'[to] = b
       /\ replay' \in [Owners -> ReplayRecord]
       /\ \A o \in Owners \ {from, to} : replay'[o] = replay[o]
  BY <1>2, <1>3, <1>4, <1>9, <1>10
<1>12. Follows(from)'
  <2>1. old.shares \in Nat /\ old.accrued \in Nat /\ old.accCheckpoint \in Nat
    BY PositionTypes
  <2>2. settledOld \in Int
    <3>1. old.shares * (accPerShare - old.accCheckpoint) \in Int
      BY <1>4, <2>1
    <3>2. (old.shares * (accPerShare - old.accCheckpoint)) \div One \in Int
      BY <3>1, OneAssumption
    <3>3. QED
      BY <2>1, <3>2 DEF settledOld
  <2>3. old.shares + (-n) = old.shares - n /\ settledOld + (-moved) = settledOld - moved
    BY <1>8, <2>1, <2>2
  <2>4. QED
    BY <1>3, <1>7, <1>9, <1>11, <2>3 DEF Follows
<1>13. Follows(to)'
  BY <1>3, <1>7, <1>10, <1>11 DEF Follows
<1>14. acc' = accPerShare'
  BY <1>0, <1>3, <1>4
<1>15. QED
  BY <1>7, <1>3, <1>11, <1>12, <1>13, <1>14, OthersAreFollowed

LEMMA ReplayedNothing ==
  ASSUME TypeInv, PartsInv, ReplayInv, BooksKept, ReplayNothing
  PROVE  ReplayInv' /\ Next
<1>1. CASE OtherRaiseStep \/ ManageStep
  <2>1. UNCHANGED <<position, accPerShare>>
    BY <1>1
    DEF OtherRaiseStep, FinalizeRaise, ActivateProject, CancelRaise, ManageStep,
        PauseProject, ResumeProject, SetRoles, CloseProject, ManagedUnchanged,
        ledgerVars, revenueVars
  <2>2. Next
    BY <1>1 DEF OtherRaiseStep, Next, RaiseStep
  <2>3. QED
    BY <2>1, <2>2, ReplayOfNothing DEF ReplayNothing
<1>2. CASE OtherRecoveryStep
  <2>1. UNCHANGED <<position, accPerShare>>
    BY <1>2
    DEF OtherRecoveryStep, ProposeRecovery, VetoRecovery, WithdrawRecovery,
        RequestClosed, ledgerVars, revenueVars
  <2>2. Next
    BY <1>2 DEF OtherRecoveryStep, Next, RecoveryStep
  <2>3. QED
    BY <2>1, <2>2, ReplayOfNothing DEF ReplayNothing
<1>3. CASE RegistryStep \/ OutsideStep
  <2>1. UNCHANGED <<position, accPerShare>>
    BY <1>3
    DEF RegistryStep, SetInvestor, SetInvestorDemo, KycWritten, UpdateConfig,
        OutsideStep, Tick, DonateToEscrow, DonateToVault, CreateShareAccount,
        CloseShareAccount, BurnOwnShares, ledgerVars, revenueVars
  <2>2. Next
    BY <1>3 DEF Next
  <2>3. QED
    BY <2>1, <2>2, ReplayOfNothing DEF ReplayNothing
<1>4. QED
  BY <1>1, <1>2, <1>3 DEF ReplayNothing

LEMMA ReplayStepsAreSteps == ReplayNext => Next
<1>1. ReplayNothing => Next
  BY DEF ReplayNothing, OtherRaiseStep, OtherRecoveryStep, Next, RaiseStep,
         RecoveryStep
<1>2. QED
  BY <1>1
  DEF ReplayNext, ReplayBuy, ReplayRefund, ReplayOpen, ReplayClose,
      ReplayClaim, ReplayRecovery, ReplayDeposit, ReplayTransfer, Next,
      RaiseStep, HoldingStep, RecoveryStep

LEMMA NextKeepsReplay ==
  ASSUME TypeInv, TypeInv', LedgerInv, PartsInv, ReplayInv, ReplayNext, BooksKept
  PROVE  ReplayInv'
<1>1. CASE \/ \E o \in Owners, n \in BuyAmounts : ReplayBuy(o, n)
           \/ \E o \in Owners :
                ReplayRefund(o) \/ ReplayOpen(o) \/ ReplayClose(o) \/ ReplayClaim(o)
  BY <1>1, ReplayedHolding
<1>2. CASE \E o \in Owners : ReplayRecovery(o)
  BY <1>2, ReplayedRecoveryStep
<1>3. CASE \E gross \in GrossAmounts : ReplayDeposit(gross)
  BY <1>3, ReplayedDeposit
<1>4. CASE \E from, to \in Owners, n \in TransferAmounts : ReplayTransfer(from, to, n)
  BY <1>4, ReplayedTransferStep
<1>5. CASE ReplayNothing
  BY <1>5, ReplayedNothing
<1>6. QED
  BY <1>1, <1>2, <1>3, <1>4, <1>5 DEF ReplayNext

LEMMA ReplayImpliesAudit == ReplaySpec => AuditSpec
<1>1. ReplayInit => AuditInit
  BY DEF ReplayInit
<1>2. [ReplayNext /\ BooksKept]_<<vars, auditVars, replayVars>>
        => [AuditStep]_<<vars, auditVars>>
  BY ReplayStepsAreSteps DEF AuditStep
<1>3. QED
  BY <1>1, <1>2, PTL DEF ReplaySpec, AuditSpec

LEMMA ReplayIsInvariant == ReplaySpec => []ReplayInv
<1>1. ReplayInit => ReplayInv
  BY InitReplayInv
<1>2. /\ TypeInv /\ TypeInv' /\ LedgerInv /\ PartsInv /\ ReplayInv
      /\ [ReplayNext /\ BooksKept]_<<vars, auditVars, replayVars>>
      => ReplayInv'
  <2>1. CASE /\ TypeInv /\ TypeInv' /\ LedgerInv /\ PartsInv /\ ReplayInv
             /\ ReplayNext /\ BooksKept
    BY <2>1, NextKeepsReplay
  <2>2. CASE ReplayInv /\ UNCHANGED <<vars, auditVars, replayVars>>
    BY <2>2
    DEF ReplayInv, Follows, vars, auditVars, replayVars, ledgerVars, revenueVars
  <2>3. QED
    BY <2>1, <2>2
<1>3. QED
  BY <1>1, <1>2, ReplayImpliesAudit, AuditImpliesSpec, TypesAreInvariant,
     LedgerIsInvariant, PartsAreInvariant, PTL DEF ReplaySpec

(* payouts.ts: what the backend shows a wallet from the events alone is    *)
(* what the program holds, paid and would pay, whatever the history.       *)
THEOREM TheReplayIsExact == ReplaySpec => []ReplayEqualsPosition
<1>1. ASSUME TypeInv, LedgerInv, ReplayInv
      PROVE  ReplayEqualsPosition
  <2>1. ASSUME NEW o \in Owners
        PROVE  /\ replay[o].shares = position[o].shares
               /\ replay[o].accrued + ReplayOwed(replay[o]) = Pending(o)
               /\ replay[o].claimed = paid[o]
    <3>1. Follows(o) /\ EntryIsSound(o) /\ acc = accPerShare
      BY <1>1 DEF ReplayInv, LedgerInv
    <3>2. CASE position[o].open
      BY <3>1, <3>2 DEF Follows, ReplayOwed, Pending, Earned, Owed
    <3>3. CASE ~position[o].open
      <4>1. replay[o].shares = 0 /\ replay[o].accrued = 0 /\ position[o].shares = 0
        BY <3>1, <3>3 DEF Follows, EntryIsSound
      <4>2. replay[o].checkpoint \in Int /\ acc \in Int
        BY <1>1, <3>1, PositionTypes DEF ReplayInv, ReplayRecord
      <4>3. ReplayOwed(replay[o]) = 0
        <5>1. 0 * (acc - replay[o].checkpoint) = 0
          BY <4>2
        <5>2. QED
          BY <4>1, <5>1, OneAssumption DEF ReplayOwed
      <4>4. QED
        BY <3>1, <3>3, <4>1, <4>3 DEF Follows, Pending
    <3>4. QED
      BY <3>2, <3>3
  <2>2. QED
    BY <2>1 DEF ReplayEqualsPosition
<1>2. QED
  BY <1>1, ReplayImpliesAudit, AuditImpliesSpec, TypesAreInvariant,
     LedgerIsInvariant, ReplayIsInvariant, PTL
=============================================================================
