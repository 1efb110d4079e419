---------------------------- MODULE TelemetryProofs ----------------------------
(***************************************************************************)
(* The telemetry of one car, for any number of days, batches, troubles,    *)
(* crashes and changes of the oracle: what the database calls confirmed is *)
(* on the chain, and a report that cites it finds it where the database    *)
(* says it is.                                                             *)
(***************************************************************************)
EXTENDS TelemetryChain, SequenceTheorems, FiniteSetTheorems,
        WellFoundedInduction, TLAPS

Entries == Seq(EntryRecord)
TxRecord == [dates : Seq(Days), valid : BOOLEAN, fate : Fates]
-----------------------------------------------------------------------------
(* Days in order.                                                          *)

(* Induction with the set of numbers for which the claim holds.            *)
LEMMA InductionOverNat ==
  ASSUME NEW S \in SUBSET Nat, 0 \in S, \A n \in S : n + 1 \in S
  PROVE  S = Nat
<1> SUFFICES ASSUME Nat \ S # {} PROVE FALSE
  OBVIOUS
<1> DEFINE Less == OpToRel(<, Nat)
<1>1. IsWellFoundedOn(Less, Nat)
  BY NatLessThanWellFounded
<1>2. \A x, y \in Nat : x < y => <<x, y>> \in Less
  BY DEF OpToRel
<1> HIDE DEF Less
<1>3. PICK n \in Nat \ S : \A m \in Nat \ S : <<m, n>> \notin Less
  BY <1>1, WFMin
<1>4. n - 1 \in Nat /\ n - 1 \notin S
  BY <1>3
<1>5. <<n - 1, n>> \in Less
  BY <1>2, <1>4
<1>6. QED
  BY <1>3, <1>4, <1>5

LEMMA DaysAreNumbers ==
  /\ LastDay \in Nat
  /\ \A d \in Days : d \in Nat /\ 1 <= d /\ d <= LastDay
  /\ \A n \in Nat : 1 <= n /\ n <= LastDay => n \in Days
  BY BoundsAssumption DEF Days

LEMMA DaysAreFinite ==
  ASSUME NEW T \in SUBSET Days
  PROVE  IsFiniteSet(T) /\ Cardinality(T) \in Nat
<1>1. LastDay \in Int /\ 1 \in Int
  BY DaysAreNumbers
<1>2. IsFiniteSet(Days)
  BY <1>1, FS_Interval DEF Days
<1>3. QED
  BY <1>2, FS_Subset, FS_CardinalityType

(* Among some of the days, one has the largest value.                      *)
LEMMA LargestExists ==
  ASSUME NEW f \in [Days -> Nat], NEW T \in SUBSET Days, T # {}
  PROVE  \E x \in T : \A y \in T : f[y] <= f[x]
<1> DEFINE S == {n \in Nat : \A U \in SUBSET Days :
                   (U # {} /\ \A d \in U : d <= n) =>
                     \E x \in U : \A y \in U : f[y] <= f[x]}
<1>1. 0 \in S
  <2>1. \A U \in SUBSET Days : (\A d \in U : d <= 0) => U = {}
    BY DaysAreNumbers
  <2>2. QED
    BY <2>1
<1>2. ASSUME NEW n \in S PROVE n + 1 \in S
  <2> SUFFICES ASSUME NEW U \in SUBSET Days, U # {}, \A d \in U : d <= n + 1
               PROVE  \E x \in U : \A y \in U : f[y] <= f[x]
    OBVIOUS
  <2>1. \A d \in U : d \in Nat /\ f[d] \in Nat
    BY DaysAreNumbers
  <2> DEFINE V == U \ {n + 1}
  <2>2. V \in SUBSET Days /\ \A d \in V : d <= n
    BY <2>1
  <2>3. CASE V = {}
    <3>1. U = {n + 1}
      BY <2>3
    <3>2. QED
      BY <2>1, <3>1
  <2>4. CASE V # {}
    <3>1. PICK x \in V : \A y \in V : f[y] <= f[x]
      BY <2>2, <2>4
    <3>2. CASE n + 1 \in U /\ f[x] <= f[n + 1]
      BY <2>1, <3>1, <3>2
    <3>3. CASE ~(n + 1 \in U /\ f[x] <= f[n + 1])
      BY <2>1, <3>1, <3>3
    <3>4. QED
      BY <3>2, <3>3
  <2>5. QED
    BY <2>3, <2>4
<1> HIDE DEF S
<1>3. S \in SUBSET Nat
  BY DEF S
<1>4. LastDay \in S
  BY <1>1, <1>2, <1>3, InductionOverNat, DaysAreNumbers
<1>5. QED
  BY <1>4, DaysAreNumbers DEF S

LEMMA LatestDay ==
  ASSUME NEW T \in SUBSET Days, T # {}
  PROVE  Max(T) \in T /\ \A d \in T : d <= Max(T)
<1> DEFINE f == [d \in Days |-> d]
<1>1. f \in [Days -> Nat] /\ \A d \in T : f[d] = d /\ d \in Nat
  BY DaysAreNumbers
<1> HIDE DEF f
<1>2. \E x \in T : \A y \in T : x >= y
  <2>1. PICK x \in T : \A y \in T : f[y] <= f[x]
    BY <1>1, LargestExists
  <2>2. QED
    BY <1>1, <2>1
<1>3. QED
  BY <1>1, <1>2 DEF Max

(* Every set of days can be put in order.                                  *)
LEMMA OrderExists ==
  ASSUME NEW T \in SUBSET Days
  PROVE  \E dates \in [1 .. Cardinality(T) -> T] : Increasing(dates)
<1> DEFINE S == {n \in Nat : \A U \in SUBSET Days :
                   (\A d \in U : d <= n) =>
                     \E dates \in [1 .. Cardinality(U) -> U] : Increasing(dates)}
<1>1. 0 \in S
  <2> SUFFICES ASSUME NEW U \in SUBSET Days, \A d \in U : d <= 0
               PROVE  \E dates \in [1 .. Cardinality(U) -> U] : Increasing(dates)
    OBVIOUS
  <2>1. U = {}
    BY DaysAreNumbers
  <2>2. Cardinality(U) = 0
    BY <2>1, FS_EmptySet
  <2> DEFINE none == [i \in 1 .. 0 |-> 0]
  <2>3. none \in [1 .. Cardinality(U) -> U]
    BY <2>2
  <2>4. Increasing(none)
    BY DEF Increasing
  <2>5. QED
    BY <2>3, <2>4
<1>2. ASSUME NEW n \in S PROVE n + 1 \in S
  <2> SUFFICES ASSUME NEW U \in SUBSET Days, \A d \in U : d <= n + 1
               PROVE  \E dates \in [1 .. Cardinality(U) -> U] : Increasing(dates)
    OBVIOUS
  <2> DEFINE V == U \ {n + 1}
             c == Cardinality(V)
  <2>1. /\ V \in SUBSET Days /\ \A d \in U : d \in Nat
        /\ \A d \in V : d <= n
    BY DaysAreNumbers
  <2>2. IsFiniteSet(V) /\ IsFiniteSet(U) /\ c \in Nat
    BY <2>1, DaysAreFinite
  <2>3. PICK early \in [1 .. c -> V] : Increasing(early)
    BY <2>1
  <2>4. CASE n + 1 \in U
    <3>1. U = V \cup {n + 1} /\ n + 1 \notin V
      BY <2>4
    <3>2. Cardinality(U) = c + 1
      BY <2>2, <3>1, FS_AddElement
    <3> DEFINE dates == [i \in 1 .. c + 1 |-> IF i = c + 1 THEN n + 1 ELSE early[i]]
    <3> HIDE DEF c
    <3>3. /\ dates \in [1 .. c + 1 -> U]
          /\ \A i \in 1 .. c : dates[i] = early[i] /\ early[i] \in V
          /\ dates[c + 1] = n + 1
      BY <2>2, <2>3, <2>4
    <3>4. \A i \in 1 .. c : dates[i] < n + 1
      BY <2>1, <3>3
    <3>5. \A i, j \in 1 .. c : i < j => early[i] < early[j]
      BY <2>3 DEF Increasing
    <3> HIDE DEF dates
    <3>6. \A i, j \in 1 .. c + 1 : i < j => dates[i] < dates[j]
      <4> SUFFICES ASSUME NEW i \in 1 .. c + 1, NEW j \in 1 .. c + 1, i < j
                   PROVE  dates[i] < dates[j]
        OBVIOUS
      <4>1. i \in 1 .. c
        BY <2>2
      <4>2. CASE j = c + 1
        BY <3>3, <3>4, <4>1, <4>2
      <4>3. CASE j # c + 1
        <5>1. j \in 1 .. c
          BY <2>2, <4>3
        <5>2. QED
          BY <3>3, <3>5, <4>1, <5>1
      <4>4. QED
        BY <4>2, <4>3
    <3>7. Increasing(dates)
      BY <3>3, <3>6 DEF Increasing
    <3>8. QED
      BY <3>2, <3>3, <3>7
  <2>5. CASE n + 1 \notin U
    <3>1. U = V
      BY <2>5
    <3>2. QED
      BY <2>3, <3>1
  <2>6. QED
    BY <2>4, <2>5
<1> HIDE DEF S
<1>3. S \in SUBSET Nat
  BY DEF S
<1>4. LastDay \in S
  BY <1>1, <1>2, <1>3, InductionOverNat, DaysAreNumbers
<1>5. QED
  BY <1>4, DaysAreNumbers DEF S

LEMMA OldestFirstIsOrdered ==
  ASSUME NEW T \in SUBSET Days
  PROVE  /\ OldestFirst(T) \in Seq(Days) /\ Increasing(OldestFirst(T))
         /\ \A i \in DOMAIN OldestFirst(T) : OldestFirst(T)[i] \in T
<1>1. /\ OldestFirst(T) \in [1 .. Cardinality(T) -> T]
      /\ Increasing(OldestFirst(T))
  BY OrderExists DEF OldestFirst
<1>2. Cardinality(T) \in Nat
  BY DaysAreFinite
<1>3. OldestFirst(T) \in [1 .. Cardinality(T) -> Days]
  BY <1>1
<1>4. OldestFirst(T) \in Seq(Days)
  BY <1>2, <1>3, SeqDef
<1>5. QED
  BY <1>1, <1>4
-----------------------------------------------------------------------------
(* Chains of entries.                                                      *)

LEMMA PrefixByElements ==
  ASSUME NEW s \in Entries, NEW t \in Entries
  PROVE  IsPrefix(s, t) <=>
           Len(s) <= Len(t) /\ \A i \in 1 .. Len(s) : s[i] = t[i]
<1>1. /\ Len(s) \in Nat /\ Len(t) \in Nat
      /\ \A i \in 1 .. Len(s) : s[i] \in EntryRecord
      /\ \A i \in 1 .. Len(t) : t[i] \in EntryRecord
  BY LenProperties, ElementOfSeq DEF Entries
<1>2. SubSeq(s, 1, Len(s)) = s
  BY SubSeqFull DEF Entries
<1>3. CASE Len(s) <= Len(t)
  <2>1. \A i \in 1 .. Len(s) : t[i] \in EntryRecord
    BY <1>1, <1>3
  <2> DEFINE u == SubSeq(t, 1, Len(s))
  <2>2. /\ u \in Entries /\ Len(u) = Len(s)
        /\ \A i \in 1 .. Len(s) : u[i] = t[i]
    <3>1. /\ u \in Seq(EntryRecord)
          /\ Len(u) = IF 1 <= Len(s) THEN Len(s) - 1 + 1 ELSE 0
          /\ \A i \in 1 .. Len(s) - 1 + 1 : u[i] = t[1 + i - 1]
      BY <1>1, <2>1, SubSeqProperties
    <3>2. QED
      BY <1>1, <3>1 DEF Entries
  <2> HIDE DEF u
  <2>3. s = u <=> \A i \in 1 .. Len(s) : s[i] = t[i]
    BY <2>2, SeqEqual DEF Entries
  <2>4. QED
    BY <1>2, <1>3, <2>3 DEF IsPrefix, u
<1>4. CASE ~(Len(s) <= Len(t))
  BY <1>4 DEF IsPrefix
<1>5. QED
  BY <1>3, <1>4

LEMMA PrefixIsReflexive == \A s \in Entries : IsPrefix(s, s)
<1>1. \A s \in Entries : Len(s) \in Nat
  BY LenProperties DEF Entries
<1>2. QED
  BY <1>1, PrefixByElements

LEMMA PrefixIsTransitive ==
  ASSUME NEW s \in Entries, NEW t \in Entries, NEW u \in Entries,
         IsPrefix(s, t), IsPrefix(t, u)
  PROVE  IsPrefix(s, u)
<1>1. Len(s) \in Nat /\ Len(t) \in Nat /\ Len(u) \in Nat
  BY LenProperties DEF Entries
<1>2. /\ Len(s) <= Len(t) /\ Len(t) <= Len(u)
      /\ \A i \in 1 .. Len(s) : s[i] = t[i]
      /\ \A i \in 1 .. Len(t) : t[i] = u[i]
  BY PrefixByElements
<1>3. Len(s) <= Len(u) /\ \A i \in 1 .. Len(s) : s[i] = u[i]
  BY <1>1, <1>2
<1>4. QED
  BY <1>3, PrefixByElements

(* Two prefixes of one chain: the shorter is a prefix of the longer.       *)
LEMMA PrefixesAgree ==
  ASSUME NEW s \in Entries, NEW t \in Entries, NEW u \in Entries,
         IsPrefix(s, u), IsPrefix(t, u), Len(s) <= Len(t)
  PROVE  IsPrefix(s, t)
<1>1. Len(s) \in Nat /\ Len(t) \in Nat
  BY LenProperties DEF Entries
<1>2. /\ \A i \in 1 .. Len(s) : s[i] = u[i]
      /\ \A i \in 1 .. Len(t) : t[i] = u[i]
  BY PrefixByElements
<1>3. \A i \in 1 .. Len(s) : s[i] = t[i]
  BY <1>1, <1>2
<1>4. QED
  BY <1>3, PrefixByElements

LEMMA PrefixKeepsEntries ==
  ASSUME NEW s \in Entries, NEW t \in Entries, IsPrefix(s, t)
  PROVE  Range(s) \subseteq Range(t)
<1>1. /\ Len(s) \in Nat /\ Len(t) \in Nat
      /\ DOMAIN s = 1 .. Len(s) /\ DOMAIN t = 1 .. Len(t)
  BY LenProperties DEF Entries
<1>2. Len(s) <= Len(t) /\ \A i \in 1 .. Len(s) : s[i] = t[i]
  BY PrefixByElements
<1>3. QED
  BY <1>1, <1>2 DEF Range

LEMMA PrefixOfConcat ==
  ASSUME NEW s \in Entries, NEW t \in Entries
  PROVE  s \o t \in Entries /\ IsPrefix(s, s \o t)
<1>1. Len(s) \in Nat /\ Len(t) \in Nat
  BY LenProperties DEF Entries
<1>2. /\ s \o t \in Entries /\ Len(s \o t) = Len(s) + Len(t)
      /\ \A i \in 1 .. Len(s) + Len(t) :
           (s \o t)[i] = IF i <= Len(s) THEN s[i] ELSE t[i - Len(s)]
  BY ConcatProperties DEF Entries
<1>3. Len(s) <= Len(s \o t) /\ \A i \in 1 .. Len(s) : s[i] = (s \o t)[i]
  BY <1>1, <1>2
<1>4. QED
  BY <1>2, <1>3, PrefixByElements

(* A head after the first i of some days.                                  *)
Extended(base, dates, i) == base \o OurEntries(SubSeq(dates, 1, i))

LEMMA ExtendedElements ==
  ASSUME NEW base \in Entries, NEW dates \in Seq(Days), NEW i \in 0 .. Len(dates)
  PROVE  /\ Extended(base, dates, i) \in Entries
         /\ Len(base) \in Nat /\ Len(dates) \in Nat
         /\ Len(Extended(base, dates, i)) = Len(base) + i
         /\ \A k \in 1 .. Len(base) : Extended(base, dates, i)[k] = base[k]
         /\ \A k \in 1 .. i :
              Extended(base, dates, i)[Len(base) + k] = Entry(dates[k], "ours")
<1>1. /\ Len(dates) \in Nat /\ Len(base) \in Nat
      /\ \A k \in 1 .. i : dates[k] \in Days
  BY LenProperties, ElementOfSeq DEF Entries
<1> DEFINE part == SubSeq(dates, 1, i)
           ours == OurEntries(part)
<1>2. /\ part \in Seq(Days) /\ Len(part) = i
      /\ \A k \in 1 .. i : part[k] = dates[k]
  <2>1. /\ part \in Seq(Days)
        /\ Len(part) = IF 1 <= i THEN i - 1 + 1 ELSE 0
        /\ \A k \in 1 .. i - 1 + 1 : part[k] = dates[1 + k - 1]
    BY <1>1, SubSeqProperties
  <2>2. QED
    BY <1>1, <2>1
<1>3. DOMAIN part = 1 .. i
  BY <1>2, LenProperties
<1> HIDE DEF part
<1>4. /\ ours = [k \in 1 .. i |-> Entry(part[k], "ours")]
      /\ \A k \in 1 .. i : Entry(part[k], "ours") \in EntryRecord
  <2>1. \A k \in 1 .. i : part[k] \in Days
    BY <1>1, <1>2
  <2>2. QED
    BY <1>3, <2>1 DEF OurEntries, Entry, EntryRecord
<1>5. /\ ours \in Entries /\ Len(ours) = i
      /\ \A k \in 1 .. i : ours[k] = Entry(dates[k], "ours")
  <2>1. ours \in [1 .. i -> EntryRecord] /\ i \in Nat
    BY <1>1, <1>4
  <2>2. ours \in Entries
    BY <2>1, SeqDef DEF Entries
  <2>3. Len(ours) = i
    BY <2>1, <2>2, LenProperties DEF Entries
  <2>4. QED
    BY <1>2, <1>4, <2>2, <2>3
<1> HIDE DEF ours
<1>6. /\ base \o ours \in Entries /\ Len(base \o ours) = Len(base) + i
      /\ \A k \in 1 .. Len(base) + i :
           (base \o ours)[k] = IF k <= Len(base) THEN base[k] ELSE ours[k - Len(base)]
  BY <1>5, ConcatProperties DEF Entries
<1>7. Extended(base, dates, i) = base \o ours
  BY DEF Extended, ours, part
<1>8. \A k \in 1 .. i : (base \o ours)[Len(base) + k] = ours[k]
  BY <1>1, <1>6
<1>9. QED
  BY <1>1, <1>5, <1>6, <1>7, <1>8

(* The head before a batch is a prefix of every head in it, and those of   *)
(* earlier days are prefixes of those of later ones.                       *)
LEMMA ExtendedPrefixes ==
  ASSUME NEW base \in Entries, NEW dates \in Seq(Days),
         NEW j \in 0 .. Len(dates), NEW i \in 0 .. j
  PROVE  /\ IsPrefix(base, Extended(base, dates, j))
         /\ IsPrefix(Extended(base, dates, i), Extended(base, dates, j))
<1> DEFINE b == Len(base)
           e(k) == Extended(base, dates, k)
<1>1. i \in 0 .. Len(dates) /\ Len(dates) \in Nat /\ b \in Nat
  BY LenProperties DEF Entries
<1>2. /\ e(i) \in Entries /\ e(j) \in Entries
      /\ Len(e(i)) = b + i /\ Len(e(j)) = b + j
      /\ \A k \in 1 .. b : e(i)[k] = base[k] /\ e(j)[k] = base[k]
      /\ \A k \in 1 .. i : e(i)[b + k] = Entry(dates[k], "ours")
      /\ \A k \in 1 .. j : e(j)[b + k] = Entry(dates[k], "ours")
  BY <1>1, ExtendedElements
<1> HIDE DEF e, b
<1>3. IsPrefix(base, e(j))
  <2>1. Len(base) = b /\ b <= Len(e(j))
    BY <1>1, <1>2 DEF b
  <2>2. \A k \in 1 .. b : base[k] = e(j)[k]
    BY <1>2
  <2>3. QED
    BY <1>2, <2>1, <2>2, PrefixByElements
<1>4. \A k \in 1 .. b + i : e(i)[k] = e(j)[k]
  <2> SUFFICES ASSUME NEW k \in 1 .. b + i PROVE e(i)[k] = e(j)[k]
    OBVIOUS
  <2>1. CASE k <= b
    BY <1>1, <1>2, <2>1
  <2>2. CASE ~(k <= b)
    <3>1. PICK m \in 1 .. i : k = b + m
      <4>1. k - b \in 1 .. i /\ k = b + (k - b)
        BY <1>1, <2>2
      <4>2. QED
        BY <4>1
    <3>2. m \in 1 .. j
      BY <1>1, <3>1
    <3>3. QED
      BY <1>2, <3>1, <3>2
  <2>3. QED
    BY <2>1, <2>2
<1>5. IsPrefix(e(i), e(j))
  <2>1. e(i) \in Entries /\ e(j) \in Entries /\ Len(e(i)) = b + i
    BY <1>2
  <2>2. Len(e(i)) <= Len(e(j))
    BY <1>1, <1>2
  <2>3. \A k \in 1 .. Len(e(i)) : e(i)[k] = e(j)[k]
    BY <1>4, <2>1
  <2>4. QED
    BY <2>1, <2>2, <2>3, PrefixByElements
<1>6. QED
  BY <1>3, <1>5 DEF e

LEMMA ExtendedEntries ==
  ASSUME NEW base \in Entries, NEW dates \in Seq(Days)
  PROVE  \A k \in DOMAIN dates :
           Entry(dates[k], "ours") \in Range(Extended(base, dates, Len(dates)))
<1> DEFINE n == Len(dates)
           b == Len(base)
           e == Extended(base, dates, n)
<1>1. n \in Nat /\ b \in Nat /\ DOMAIN dates = 1 .. n
  BY LenProperties DEF Entries
<1>2. /\ e \in Entries /\ Len(e) = b + n
      /\ \A k \in 1 .. n : e[b + k] = Entry(dates[k], "ours")
  <2>1. n \in 0 .. Len(dates)
    BY <1>1
  <2>2. QED
    BY <2>1, ExtendedElements
<1>3. DOMAIN e = 1 .. b + n
  BY <1>2, LenProperties DEF Entries
<1> HIDE DEF e, b, n
<1>4. \A k \in 1 .. n : b + k \in DOMAIN e
  BY <1>1, <1>3
<1>5. QED
  BY <1>1, <1>2, <1>4 DEF Range, e, n

(* The head before the first of some days.                                 *)
LEMMA FrontOfFirst ==
  ASSUME NEW base \in Entries, NEW dates \in Seq(Days), dates # <<>>
  PROVE  Front(Extended(base, dates, 1)) = base
<1> DEFINE b == Len(base)
           e == Extended(base, dates, 1)
<1>1. 1 \in 0 .. Len(dates) /\ b \in Nat /\ Len(dates) \in Nat
  <2>1. Len(dates) \in Nat \ {0} /\ b \in Nat
    BY EmptySeq, LenProperties DEF Entries
  <2>2. QED
    BY <2>1
<1>2. /\ e \in Entries /\ Len(e) = b + 1
      /\ \A k \in 1 .. b : e[k] = base[k]
  BY <1>1, ExtendedElements
<1> HIDE DEF e
<1>3. \A k \in 1 .. b : e[k] \in EntryRecord
  BY <1>2, ElementOfSeq DEF Entries
<1> DEFINE f == SubSeq(e, 1, b)
<1>4. /\ f \in Seq(EntryRecord) /\ Len(f) = b
      /\ \A k \in 1 .. b : f[k] = e[k]
  <2>1. /\ f \in Seq(EntryRecord)
        /\ Len(f) = IF 1 <= b THEN b - 1 + 1 ELSE 0
        /\ \A k \in 1 .. b - 1 + 1 : f[k] = e[1 + k - 1]
    BY <1>1, <1>3, SubSeqProperties
  <2>2. QED
    BY <1>1, <2>1
<1>5. Front(e) = f
  <2>1. Len(e) - 1 = b
    BY <1>1, <1>2
  <2>2. QED
    BY <2>1 DEF Front
<1> HIDE DEF f
<1>6. f = base
  BY <1>2, <1>4, SeqEqual DEF Entries
<1>7. QED
  BY <1>5, <1>6 DEF e
-----------------------------------------------------------------------------
(* The inductive invariant.                                                *)

Outcomes == {"pending", "confirmed", "failed", "expired"}
DayRecord == [collected : BOOLEAN, batch : Nat, head : Entries,
              confirmed : BOOLEAN]
JobRecord == [phase : {"off", "collecting", "syncing"}, next : Nat \ {0},
              until : Nat]
SeenRecord == [lifecycle : Lifecycles, oracle : {"ours", "theirs"},
               chain : Entries]

SolanaTypes ==
  /\ lifecycle \in Lifecycles /\ oracle \in {"ours", "theirs"}
  /\ chain \in Entries

StoreTypes ==
  /\ tx \in Seq(TxRecord)
  /\ days \in [Days -> DayRecord] /\ \A d \in Days : days[d].batch <= Len(tx)
  /\ outcome \in Seq(Outcomes) /\ Len(outcome) = Len(tx)

TaskTypes ==
  /\ owner \in {"none", "job", "request"}
  /\ step \in {"idle", "tip", "height", "sign", "send", "confirm"}
  /\ seen \in SeenRecord /\ todo \in Seq(Days)
  /\ answer \in {"none", "no_project", "in_sync", "pending", "diverged"}

OtherTypes ==
  /\ job \in JobRecord /\ job.until <= yesterday
  /\ yesterday \in 0 .. LastDay
  /\ troubles \in 0 .. MaxTroubles
  /\ crashes \in 0 .. MaxCrashes /\ rotations \in 0 .. MaxRotations

Types == SolanaTypes /\ StoreTypes /\ TaskTypes /\ OtherTypes

(* Everything the database calls confirmed is a part of this chain.        *)
Covered(s) == \A d \in ConfirmedDays : IsPrefix(days[d].head, s)

OnlyOnePending == \A m, n \in Pending : m = n

(* A batch holds later and later days; if it landed, they are on the chain. *)
TxSound(n) ==
  /\ tx[n].dates # <<>> /\ Increasing(tx[n].dates)
  /\ tx[n].fate = "landed" =>
       \A d \in Range(tx[n].dates) : Entry(d, "ours") \in Range(chain)

(* A day belongs to a batch that holds it, and to a confirmed one if it is *)
(* confirmed itself.                                                       *)
DaySound(d) ==
  /\ days[d].batch # 0 => d \in Range(tx[days[d].batch].dates)
  /\ days[d].confirmed =>
       /\ days[d].batch # 0 /\ outcome[days[d].batch] = "confirmed"
       /\ Entry(d, "ours") \in Range(chain)

(* The heads of the confirmed days are those of one chain.                 *)
HeadsAgree ==
  \A d, e \in ConfirmedDays :
    Len(days[d].head) <= Len(days[e].head) =>
      IsPrefix(days[d].head, days[e].head)

(* The links of a batch: it extends a chain with everything confirmed.     *)
Link(n, base) ==
  /\ Covered(base)
  /\ \A i \in DOMAIN tx[n].dates :
       /\ days[tx[n].dates[i]].batch = n
       /\ days[tx[n].dates[i]].head = Extended(base, tx[n].dates, i)

LinksHold == \A n \in Pending : \E base \in Entries : Link(n, base)

StoreInv ==
  /\ OnlyOnePending
  /\ \A n \in DOMAIN tx : TxSound(n)
  /\ \A d \in Days : DaySound(d)
  /\ HeadsAgree /\ LinksHold

(* What the task knows at each of its steps.                               *)
IdleSound ==
  /\ owner = "none" <=> step = "idle"
  /\ owner # "none" => answer = "none"

HeightSound ==
  step = "height" =>
    /\ Pending # {}
    /\ Covered(seen.chain) /\ IsPrefix(seen.chain, chain)

WriteSound ==
  step \in {"sign", "send", "confirm"} =>
    /\ owner = "job" /\ Covered(seen.chain)
    /\ Increasing(todo) /\ todo # <<>>

SignSound ==
  step = "sign" =>
    Pending = {} /\ \A i \in DOMAIN todo : days[todo[i]].batch = 0

SendSound ==
  step \in {"send", "confirm"} =>
    /\ Current > 0 /\ Pending = {Current}
    /\ tx[Current].dates = Batch /\ Link(Current, seen.chain)
    /\ \A i \in DOMAIN todo : i > Len(Batch) => days[todo[i]].batch = 0

TaskInv == IdleSound /\ HeightSound /\ WriteSound /\ SignSound /\ SendSound

TelemetryInv == Types /\ StoreInv /\ TaskInv /\ ReportsMatchTheChain
-----------------------------------------------------------------------------
(* Consequences of the types.                                              *)

LEMMA RowTypes ==
  ASSUME Types, NEW d \in Days
  PROVE  /\ days[d].batch \in Nat /\ days[d].batch <= Len(tx)
         /\ days[d].head \in Entries /\ days[d].confirmed \in BOOLEAN
         /\ days[d].collected \in BOOLEAN /\ days[d] \in DayRecord
  BY DEF Types, StoreTypes, DayRecord

LEMMA TxTypes ==
  ASSUME Types
  PROVE  /\ Len(tx) \in Nat /\ DOMAIN tx = 1 .. Len(tx)
         /\ DOMAIN outcome = 1 .. Len(tx)
         /\ \A n \in DOMAIN tx : tx[n] \in TxRecord /\ tx[n].dates \in Seq(Days)
         /\ \A n \in DOMAIN outcome : outcome[n] \in Outcomes
         /\ Pending \subseteq DOMAIN tx
<1>1. /\ Len(tx) \in Nat /\ DOMAIN tx = 1 .. Len(tx)
      /\ DOMAIN outcome = 1 .. Len(tx)
      /\ tx \in [1 .. Len(tx) -> TxRecord] /\ outcome \in [1 .. Len(tx) -> Outcomes]
  BY LenProperties DEF Types, StoreTypes
<1>2. QED
  BY <1>1 DEF Pending, TxRecord

(* The fields of the rows that the proofs look at.                         *)
SameRows ==
  /\ outcome' = outcome
  /\ \A d \in Days :
       /\ days'[d].batch = days[d].batch /\ days'[d].head = days[d].head
       /\ days'[d].confirmed = days[d].confirmed

SameTx ==
  /\ Len(tx') = Len(tx) /\ DOMAIN tx' = DOMAIN tx
  /\ \A n \in DOMAIN tx :
       /\ tx'[n].dates = tx[n].dates
       /\ tx'[n].fate = "landed" =>
            \A d \in Range(tx[n].dates) : Entry(d, "ours") \in Range(chain')

LEMMA SameIsCovered ==
  ASSUME SameRows
  PROVE  /\ ConfirmedDays' = ConfirmedDays /\ Pending' = Pending
         /\ \A s : Covered(s)' <=> Covered(s)
  BY DEF SameRows, ConfirmedDays, Pending, Covered

LEMMA SameLinks ==
  ASSUME Types, SameRows, SameTx, NEW n \in DOMAIN tx, NEW base, Link(n, base)
  PROVE  Link(n, base)'
<1>1. tx'[n].dates = tx[n].dates
  BY DEF SameTx
<1>2. \A i \in DOMAIN tx[n].dates : tx[n].dates[i] \in Days
  BY TxTypes, LenProperties, ElementOfSeq
<1>3. QED
  BY <1>1, <1>2, SameIsCovered DEF Link, SameRows

(* A step that leaves the rows and the batches alone.                      *)
LEMMA QuietKeepsStore ==
  ASSUME Types, Types', StoreInv, SameRows, SameTx, IsPrefix(chain, chain')
  PROVE  StoreInv'
<1>1. Range(chain) \subseteq Range(chain')
  BY PrefixKeepsEntries DEF Types, SolanaTypes
<1>2. OnlyOnePending'
  BY SameIsCovered DEF StoreInv, OnlyOnePending
<1>3. ASSUME NEW n \in DOMAIN tx' PROVE TxSound(n)'
  BY <1>3 DEF SameTx, StoreInv, TxSound
<1>4. ASSUME NEW d \in Days PROVE DaySound(d)'
  <2>1. /\ days'[d].batch = days[d].batch
        /\ days'[d].confirmed = days[d].confirmed
        /\ outcome' = outcome /\ DaySound(d)
    BY DEF SameRows, StoreInv
  <2>2. days[d].batch # 0 => tx'[days[d].batch].dates = tx[days[d].batch].dates
    <3>1. days[d].batch # 0 => days[d].batch \in DOMAIN tx
      BY RowTypes, TxTypes
    <3>2. QED
      BY <3>1 DEF SameTx
  <2>3. QED
    BY <1>1, <2>1, <2>2 DEF DaySound
<1>5. HeadsAgree'
  BY SameIsCovered DEF StoreInv, HeadsAgree, SameRows, ConfirmedDays
<1>6. LinksHold'
  <2>1. Pending' = Pending /\ Pending \subseteq DOMAIN tx
    BY SameIsCovered, TxTypes
  <2>2. ASSUME NEW n \in Pending PROVE \E base \in Entries : Link(n, base)'
    <3>1. PICK base \in Entries : Link(n, base)
      BY <2>2 DEF StoreInv, LinksHold
    <3>2. QED
      BY <2>1, <3>1, SameLinks
  <2>3. QED
    BY <2>1, <2>2 DEF LinksHold
<1>7. QED
  BY <1>2, <1>3, <1>4, <1>5, <1>6 DEF StoreInv

LEMMA QuietKeepsReports ==
  ASSUME Types, Types', SameRows, IsPrefix(chain, chain'),
         ReportsMatchTheChain, answer' \in {answer, "none"}
  PROVE  ReportsMatchTheChain'
<1> SUFFICES ASSUME answer \in {"in_sync", "pending"}, NEW d \in ConfirmedDays'
             PROVE  IsPrefix(days'[d].head, chain')
  BY DEF ReportsMatchTheChain
<1>1. d \in ConfirmedDays /\ d \in Days /\ days'[d].head = days[d].head
  BY SameIsCovered DEF SameRows, ConfirmedDays
<1>2. IsPrefix(days[d].head, chain)
  BY <1>1 DEF ReportsMatchTheChain
<1>3. QED
  BY <1>1, <1>2, PrefixIsTransitive, RowTypes DEF Types, SolanaTypes

(* The task is where it was, or has sent its batch: what it knows is still *)
(* so.                                                                     *)
LEMMA QuietKeepsTask ==
  ASSUME Types, Types', TaskInv, SameRows, SameTx, IsPrefix(chain, chain'),
         UNCHANGED <<owner, seen, todo, answer>>,
         step' = step \/ (step = "send" /\ step' = "confirm")
  PROVE  TaskInv'
<1>1. /\ owner' = owner /\ seen' = seen /\ todo' = todo
      /\ answer' = answer /\ Batch' = Batch /\ Current' = Current
      /\ Pending' = Pending /\ \A s : Covered(s)' <=> Covered(s)
  BY SameIsCovered DEF Batch, Current, SameTx
<1>2. seen.chain \in Entries /\ chain \in Entries /\ chain' \in Entries
  BY DEF Types, SolanaTypes, TaskTypes, SeenRecord
<1>3. IdleSound' /\ WriteSound'
  BY <1>1 DEF TaskInv, IdleSound, WriteSound
<1>4. HeightSound'
  BY <1>1, <1>2, PrefixIsTransitive DEF TaskInv, HeightSound
<1>5. \A i \in DOMAIN todo : days'[todo[i]].batch = days[todo[i]].batch
  <2>1. \A i \in DOMAIN todo : todo[i] \in Days
    BY LenProperties, ElementOfSeq DEF Types, TaskTypes
  <2>2. QED
    BY <2>1 DEF SameRows
<1>6. SignSound'
  BY <1>1, <1>5 DEF TaskInv, SignSound
<1>7. SendSound'
  <2> SUFFICES ASSUME step \in {"send", "confirm"} PROVE SendSound'
    BY <1>1 DEF SendSound
  <2>1. /\ Current > 0 /\ Pending = {Current}
        /\ tx[Current].dates = Batch /\ Link(Current, seen.chain)
        /\ \A i \in DOMAIN todo : i > Len(Batch) => days[todo[i]].batch = 0
    BY DEF TaskInv, SendSound
  <2>2. Current \in DOMAIN tx
    BY <2>1, TxTypes
  <2>3. tx'[Current].dates = tx[Current].dates
    BY <2>2 DEF SameTx
  <2>4. Link(Current, seen.chain)'
    <3>1. PICK n \in DOMAIN tx : n = Current
      BY <2>2
    <3>2. PICK base \in Entries : base = seen.chain
      BY <1>2
    <3>3. Link(n, base)'
      BY <2>1, <3>1, <3>2, SameLinks
    <3>4. QED
      BY <1>1, <3>1, <3>2, <3>3
  <2>5. QED
    BY <1>1, <1>5, <2>1, <2>3, <2>4 DEF SendSound
<1>8. QED
  BY <1>3, <1>4, <1>6, <1>7 DEF TaskInv

(* The task is over, with an answer that the chain bears out.              *)
LEMMA ReturnKeepsTask ==
  ASSUME Types', NEW found, Returns(found),
         owner = "request" /\ found \in {"in_sync", "pending"} => Covered(chain)'
  PROVE  TaskInv' /\ ReportsMatchTheChain'
<1>1. /\ owner' = "none" /\ step' = "idle"
      /\ answer' = IF owner = "request" THEN found ELSE "none"
  BY DEF Returns
<1>2. TaskInv'
  BY <1>1 DEF TaskInv, IdleSound, HeightSound, WriteSound, SignSound, SendSound
<1>3. ReportsMatchTheChain'
  BY <1>1 DEF ReportsMatchTheChain, Covered
<1>4. QED
  BY <1>2, <1>3
-----------------------------------------------------------------------------
(* The links of the pending batch.                                         *)

LEMMA MaxIs ==
  ASSUME NEW T \in SUBSET Days, NEW m \in T, \A d \in T : d <= m
  PROVE  Max(T) = m
<1>1. Max(T) \in T /\ \A d \in T : d <= Max(T)
  BY LatestDay
<1>2. m \in Nat /\ Max(T) \in Nat /\ m <= Max(T) /\ Max(T) <= m
  BY <1>1, DaysAreNumbers
<1>3. QED
  BY <1>2

LEMMA MinIs ==
  ASSUME NEW T \in SUBSET Days, NEW m \in T, \A d \in T : m <= d
  PROVE  Min(T) = m
<1>1. \A d \in T : d \in Nat
  BY DaysAreNumbers
<1>2. \E x \in T : \A y \in T : x <= y
  OBVIOUS
<1>3. Min(T) \in T /\ \A y \in T : Min(T) <= y
  BY <1>2 DEF Min
<1>4. Min(T) \in Nat /\ m \in Nat /\ Min(T) <= m /\ m <= Min(T)
  BY <1>1, <1>3
<1>5. QED
  BY <1>4

LEMMA FirstAndLastDate ==
  ASSUME NEW dates \in Seq(Days), dates # <<>>, Increasing(dates)
  PROVE  /\ Len(dates) \in Nat \ {0} /\ DOMAIN dates = 1 .. Len(dates)
         /\ Range(dates) \in SUBSET Days
         /\ Max(Range(dates)) = dates[Len(dates)]
         /\ Min(Range(dates)) = dates[1]
<1>1. /\ Len(dates) \in Nat \ {0} /\ DOMAIN dates = 1 .. Len(dates)
      /\ \A i \in 1 .. Len(dates) : dates[i] \in Days
  BY EmptySeq, LenProperties, ElementOfSeq
<1>2. Range(dates) \in SUBSET Days
  BY <1>1 DEF Range
<1>3. /\ dates[1] \in Range(dates) /\ dates[Len(dates)] \in Range(dates)
  BY <1>1 DEF Range
<1>4. \A i \in 1 .. Len(dates) : dates[1] <= dates[i] /\ dates[i] <= dates[Len(dates)]
  <2> SUFFICES ASSUME NEW i \in 1 .. Len(dates)
               PROVE  dates[1] <= dates[i] /\ dates[i] <= dates[Len(dates)]
    OBVIOUS
  <2>1. dates[1] \in Nat /\ dates[i] \in Nat /\ dates[Len(dates)] \in Nat
    BY <1>1, DaysAreNumbers
  <2>2. i = 1 \/ dates[1] < dates[i]
    BY <1>1 DEF Increasing
  <2>3. i = Len(dates) \/ dates[i] < dates[Len(dates)]
    <3>1. \A n \in Nat \ {0} : \A k \in 1 .. n : (k = n \/ k < n) /\ n \in 1 .. n
      OBVIOUS
    <3>2. (i = Len(dates) \/ i < Len(dates)) /\ Len(dates) \in 1 .. Len(dates)
      BY <1>1, <3>1
    <3>3. i \in DOMAIN dates /\ Len(dates) \in DOMAIN dates
      BY <1>1, <3>2
    <3>4. QED
      BY <3>2, <3>3 DEF Increasing
  <2>4. QED
    BY <2>1, <2>2, <2>3
<1>5. \A d \in Range(dates) : dates[1] <= d /\ d <= dates[Len(dates)]
  BY <1>1, <1>4 DEF Range
<1>6. QED
  BY <1>1, <1>2, <1>3, <1>5, MaxIs, MinIs

(* A pending batch holds exactly the days it was signed with.              *)
LEMMA BatchHoldsItsDays ==
  ASSUME Types, StoreInv, NEW n \in Pending, NEW base \in Entries, Link(n, base)
  PROVE  BatchDays(n) = Range(tx[n].dates)
<1>1. n \in DOMAIN tx /\ n # 0
  BY TxTypes
<1>2. DOMAIN tx[n].dates = 1 .. Len(tx[n].dates)
      /\ \A i \in DOMAIN tx[n].dates : tx[n].dates[i] \in Days
  BY <1>1, TxTypes, LenProperties, ElementOfSeq
<1>3. ASSUME NEW d \in BatchDays(n) PROVE d \in Range(tx[n].dates)
  BY <1>1 DEF BatchDays, StoreInv, DaySound
<1>4. ASSUME NEW d \in Range(tx[n].dates) PROVE d \in BatchDays(n)
  BY <1>2 DEF BatchDays, Range, Link
<1>5. QED
  BY <1>3, <1>4

(* The heads that submissionLinks returns for it.                          *)
LEMMA LinksOfPending ==
  ASSUME Types, StoreInv, NEW n \in Pending, NEW base \in Entries, Link(n, base)
  PROVE  /\ HeadAfter(n) = Extended(base, tx[n].dates, Len(tx[n].dates))
         /\ HeadBefore(n) = base
<1>1. n \in DOMAIN tx /\ tx[n].dates \in Seq(Days)
  BY TxTypes
<1>2. tx[n].dates # <<>> /\ Increasing(tx[n].dates)
  BY <1>1 DEF StoreInv, TxSound
<1>3. PICK dates \in Seq(Days) : dates = tx[n].dates
  BY <1>1
<1>4. /\ Len(dates) \in Nat \ {0} /\ DOMAIN dates = 1 .. Len(dates)
      /\ Max(BatchDays(n)) = dates[Len(dates)]
      /\ Min(BatchDays(n)) = dates[1]
  BY <1>2, <1>3, FirstAndLastDate, BatchHoldsItsDays
<1>5. \A i \in 1 .. Len(dates) : days[dates[i]].head = Extended(base, dates, i)
  BY <1>3, <1>4 DEF Link
<1>6. HeadAfter(n) = Extended(base, dates, Len(dates))
  BY <1>4, <1>5 DEF HeadAfter
<1>7. HeadBefore(n) = Front(Extended(base, dates, 1))
  BY <1>4, <1>5 DEF HeadBefore
<1>8. QED
  BY <1>2, <1>3, <1>6, <1>7, FrontOfFirst

LEMMA PendingIsOne ==
  ASSUME Types, StoreInv, Pending # {}
  PROVE  /\ PendingBatch \in Pending /\ Pending = {PendingBatch}
         /\ PendingBatch \in DOMAIN tx
         /\ \E base \in Entries : Link(PendingBatch, base)
<1>1. PendingBatch \in Pending
  BY DEF PendingBatch
<1>2. QED
  BY <1>1, TxTypes DEF StoreInv, OnlyOnePending, LinksHold

(* The heads that a chain covers are prefixes of each other.               *)
LEMMA CoveredAgrees ==
  ASSUME Types', NEW s \in Entries, Covered(s)'
  PROVE  HeadsAgree'
<1> SUFFICES ASSUME NEW d \in ConfirmedDays', NEW e \in ConfirmedDays',
                    Len(days'[d].head) <= Len(days'[e].head)
             PROVE  IsPrefix(days'[d].head, days'[e].head)
  BY DEF HeadsAgree
<1>1. days'[d].head \in Entries /\ days'[e].head \in Entries
  BY DEF ConfirmedDays, Types, StoreTypes, DayRecord
<1>2. IsPrefix(days'[d].head, s) /\ IsPrefix(days'[e].head, s)
  BY DEF Covered
<1>3. QED
  BY <1>1, <1>2, PrefixesAgree

LEMMA CoveredByLonger ==
  ASSUME Types, NEW s \in Entries, NEW t \in Entries, Covered(s), IsPrefix(s, t)
  PROVE  Covered(t)
<1> SUFFICES ASSUME NEW d \in ConfirmedDays PROVE IsPrefix(days[d].head, t)
  BY DEF Covered
<1>1. days[d].head \in Entries /\ IsPrefix(days[d].head, s)
  BY RowTypes DEF ConfirmedDays, Covered
<1>2. QED
  BY <1>1, PrefixIsTransitive

(* A chain that ends at the newest confirmed day covers all of them.       *)
LEMMA LocalMatchCovers ==
  ASSUME Types, StoreInv, MatchesLocal
  PROVE  Covered(chain)
<1> SUFFICES ASSUME NEW e \in ConfirmedDays PROVE IsPrefix(days[e].head, chain)
  BY DEF Covered
<1> DEFINE f == [d \in Days |-> Len(days[d].head)]
<1>1. ConfirmedDays \in SUBSET Days
  BY DEF ConfirmedDays
<1>2. f \in [Days -> Nat] /\ \A d \in Days : f[d] = Len(days[d].head)
  <2>1. \A d \in Days : Len(days[d].head) \in Nat
    BY RowTypes, LenProperties DEF Entries
  <2>2. QED
    BY <2>1
<1> HIDE DEF f
<1>3. PICK d \in ConfirmedDays : \A c \in ConfirmedDays : f[c] <= f[d]
  BY <1>1, <1>2, LargestExists
<1>4. d \in ConfirmedTip
  BY <1>1, <1>2, <1>3 DEF ConfirmedTip
<1>5. days[d].head = chain
  BY <1>4 DEF MatchesLocal
<1>6. Len(days[e].head) <= Len(days[d].head)
  BY <1>1, <1>2, <1>3
<1>7. QED
  BY <1>5, <1>6 DEF StoreInv, HeadsAgree
-----------------------------------------------------------------------------
(* The decisions about a batch.                                            *)

(* A batch whose days are on the chain is confirmed.                       *)
LEMMA ConfirmKeepsStore ==
  ASSUME Types, Types', StoreInv,
         NEW n \in Pending, NEW base \in Entries, Link(n, base),
         ConfirmSubmission(n), tx' = tx, chain' = chain,
         \A d \in Range(tx[n].dates) : Entry(d, "ours") \in Range(chain)
  PROVE  /\ StoreInv' /\ Pending' = {}
         /\ Covered(Extended(base, tx[n].dates, Len(tx[n].dates)))'
         /\ \A d \in Days : days'[d].batch = days[d].batch
<1>1. /\ n \in DOMAIN tx /\ n \in DOMAIN outcome /\ tx[n].dates \in Seq(Days)
      /\ Pending = {n}
  BY TxTypes DEF StoreInv, OnlyOnePending, Pending
<1>2. PICK dates \in Seq(Days) : dates = tx[n].dates
  BY <1>1
<1>3. PICK top : top = Extended(base, dates, Len(dates))
  OBVIOUS
<1>4. /\ Len(dates) \in Nat /\ DOMAIN dates = 1 .. Len(dates)
      /\ Len(dates) \in 0 .. Len(dates)
      /\ \A i \in DOMAIN dates : dates[i] \in Days
  <2>1. /\ Len(dates) \in Nat /\ DOMAIN dates = 1 .. Len(dates)
        /\ \A i \in DOMAIN dates : dates[i] \in Days
    BY LenProperties, ElementOfSeq
  <2>2. QED
    BY <2>1
<1>5. top \in Entries /\ IsPrefix(base, top)
  <2>1. 0 \in 0 .. Len(dates)
    BY <1>4
  <2>2. QED
    BY <1>3, <1>4, <2>1, ExtendedElements, ExtendedPrefixes
<1>6. /\ \A d \in Days :
           /\ days'[d].batch = days[d].batch /\ days'[d].head = days[d].head
           /\ days'[d].confirmed = (days[d].confirmed \/ days[d].batch = n)
      /\ DOMAIN outcome' = DOMAIN outcome
      /\ \A m \in DOMAIN outcome :
           outcome'[m] = IF m = n THEN "confirmed" ELSE outcome[m]
  <2>1. \A d \in Days : days[d] \in DayRecord
    BY RowTypes
  <2>2. QED
    BY <1>1, <2>1 DEF ConfirmSubmission, DayRecord
<1>7. Pending' = {}
  BY <1>1, <1>6 DEF Pending
<1>8. Covered(top)'
  <2> SUFFICES ASSUME NEW d \in ConfirmedDays'
               PROVE  IsPrefix(days'[d].head, top)
    BY DEF Covered
  <2>1. d \in Days /\ days'[d].head = days[d].head
        /\ (d \in ConfirmedDays \/ days[d].batch = n)
    BY <1>6 DEF ConfirmedDays
  <2>2. CASE d \in ConfirmedDays
    <3>1. IsPrefix(days[d].head, base) /\ days[d].head \in Entries
      BY <2>1, <2>2, RowTypes DEF Link, Covered
    <3>2. QED
      BY <1>5, <2>1, <3>1, PrefixIsTransitive
  <2>3. CASE days[d].batch = n
    <3>1. d \in Range(dates)
      BY <1>2, <2>1, <2>3, BatchHoldsItsDays DEF BatchDays
    <3>2. PICK i \in 1 .. Len(dates) : d = dates[i]
      BY <1>4, <3>1 DEF Range
    <3>3. days[d].head = Extended(base, dates, i) /\ i \in 0 .. Len(dates)
      BY <1>2, <1>4, <3>2 DEF Link
    <3>4. QED
      BY <1>3, <1>4, <2>1, <3>3, ExtendedPrefixes
  <2>4. QED
    BY <2>1, <2>2, <2>3
<1>9. HeadsAgree'
  BY <1>5, <1>8, CoveredAgrees
<1>10. ASSUME NEW d \in Days PROVE DaySound(d)'
  <2>1. DaySound(d) /\ (days[d].batch # 0 => days[d].batch \in DOMAIN outcome)
    BY RowTypes, TxTypes DEF StoreInv
  <2>2. days[d].batch = n => d \in Range(tx[n].dates) /\ n # 0
    BY <1>1, <2>1, TxTypes DEF DaySound
  <2>3. days'[d].batch # 0 => d \in Range(tx'[days'[d].batch].dates)
    BY <1>6, <2>1 DEF DaySound
  <2>4. ASSUME days'[d].confirmed
        PROVE  /\ days'[d].batch # 0 /\ outcome'[days'[d].batch] = "confirmed"
               /\ Entry(d, "ours") \in Range(chain')
    <3>1. CASE days[d].batch = n
      BY <1>1, <1>6, <2>2, <3>1
    <3>2. CASE days[d].confirmed /\ days[d].batch # n
      BY <1>6, <2>1, <3>2 DEF DaySound
    <3>3. QED
      BY <1>6, <2>4, <3>1, <3>2
  <2>5. QED
    BY <2>3, <2>4 DEF DaySound
<1>11. /\ OnlyOnePending' /\ LinksHold'
       /\ \A m \in DOMAIN tx' : TxSound(m)'
  BY <1>7 DEF OnlyOnePending, LinksHold, StoreInv, TxSound
<1>12. QED
  BY <1>2, <1>3, <1>6, <1>7, <1>8, <1>9, <1>10, <1>11 DEF StoreInv

(* A batch that cannot land is given up: what is confirmed stays.          *)
LEMMA AbandonKeepsStore ==
  ASSUME Types, Types', StoreInv, NEW n \in Pending,
         NEW why \in {"failed", "expired"}, AbandonSubmission(n, why),
         tx' = tx, chain' = chain
  PROVE  /\ StoreInv' /\ Pending' = {}
         /\ \A s : Covered(s)' <=> Covered(s)
<1>1. n \in DOMAIN tx /\ n \in DOMAIN outcome /\ Pending = {n} /\ n # 0
      /\ outcome[n] = "pending"
  BY TxTypes DEF StoreInv, OnlyOnePending, Pending
<1>2. /\ \A d \in Days : days[d].batch = n =>
           days'[d].batch = 0 /\ days'[d].confirmed = days[d].confirmed
      /\ \A d \in Days : days[d].batch # n => days'[d] = days[d]
      /\ DOMAIN outcome' = DOMAIN outcome
      /\ \A m \in DOMAIN outcome : outcome'[m] = IF m = n THEN why ELSE outcome[m]
  <2>1. \A d \in Days : days[d] \in DayRecord
    BY RowTypes
  <2>2. QED
    BY <1>1, <2>1 DEF AbandonSubmission, Unlinked, DayRecord
<1>3. Pending' = {}
  BY <1>1, <1>2 DEF Pending
<1>4. \A d \in ConfirmedDays : days[d].batch # n
  BY <1>1 DEF ConfirmedDays, StoreInv, DaySound
<1>5. ConfirmedDays' = ConfirmedDays
  BY <1>2, <1>4 DEF ConfirmedDays
<1>6. \A d \in ConfirmedDays : days'[d] = days[d]
  BY <1>2, <1>4 DEF ConfirmedDays
<1>7. \A s : Covered(s)' <=> Covered(s)
  BY <1>5, <1>6 DEF Covered
<1>8. HeadsAgree'
  BY <1>5, <1>6 DEF StoreInv, HeadsAgree
<1>9. ASSUME NEW d \in Days PROVE DaySound(d)'
  <2>1. DaySound(d) /\ (days[d].batch # 0 => days[d].batch \in DOMAIN outcome)
    BY RowTypes, TxTypes DEF StoreInv
  <2>2. CASE days[d].batch = n
    <3>1. ~days[d].confirmed \/ ~(days[d].confirmed \in BOOLEAN)
      BY <1>4, <2>2 DEF ConfirmedDays
    <3>2. QED
      BY <1>2, <1>4, <2>2, <3>1, RowTypes DEF DaySound
  <2>3. CASE days[d].batch # n
    BY <1>2, <2>1, <2>3 DEF DaySound
  <2>4. QED
    BY <2>2, <2>3
<1>10. /\ OnlyOnePending' /\ LinksHold'
       /\ \A m \in DOMAIN tx' : TxSound(m)'
  BY <1>3 DEF OnlyOnePending, LinksHold, StoreInv, TxSound
<1>11. QED
  BY <1>3, <1>7, <1>8, <1>9, <1>10 DEF StoreInv

(* In sync: the task ends, or plans days that no batch holds.              *)
LEMMA ProceedsKeepsTask ==
  ASSUME Types', IdleSound, owner # "none", NEW s \in SeenRecord, Proceeds(s),
         Pending' = {}, Covered(s.chain)', Covered(chain)'
  PROVE  TaskInv' /\ ReportsMatchTheChain'
<1> DEFINE plan == UnsubmittedAfter(LastDate(s.chain))
           T == {d \in Collected' : days'[d].batch = 0 /\ d > LastDate(s.chain)}
<1>1. CASE owner = "job" /\ plan # <<>> /\ step' = "sign" /\ seen' = s
           /\ todo' = plan /\ UNCHANGED <<owner, job, answer>>
  <2>1. T \in SUBSET Days
    BY DEF Collected
  <2>2. /\ plan = OldestFirst(T)
        /\ plan \in Seq(Days) /\ Increasing(plan)
        /\ \A i \in DOMAIN plan : plan[i] \in T
    BY <2>1, OldestFirstIsOrdered DEF UnsubmittedAfter
  <2>3. \A i \in DOMAIN todo' : days'[todo'[i]].batch = 0
    BY <1>1, <2>2
  <2> HIDE DEF plan
  <2>4. IdleSound' /\ HeightSound' /\ SendSound'
    BY <1>1 DEF IdleSound, HeightSound, SendSound
  <2>5. WriteSound'
    BY <1>1, <2>2 DEF WriteSound
  <2>6. SignSound'
    BY <2>3 DEF SignSound
  <2>7. ReportsMatchTheChain'
    BY <1>1 DEF IdleSound, ReportsMatchTheChain
  <2>8. QED
    BY <2>4, <2>5, <2>6, <2>7 DEF TaskInv
<1>2. CASE Returns("in_sync")
  BY <1>2, ReturnKeepsTask
<1>3. QED
  BY <1>1, <1>2 DEF Proceeds
-----------------------------------------------------------------------------
(* Types of what the steps write.                                          *)

LEMMA NothingIsTyped ==
  <<>> \in Entries /\ <<>> \in Seq(Days) /\ <<>> \in Seq(TxRecord)
  /\ <<>> \in Seq(Outcomes) /\ NothingSeen \in SeenRecord /\ JobOff \in JobRecord
<1>1. \A S : <<>> \in Seq(S)
  BY EmptySeq
<1>2. QED
  BY <1>1 DEF Entries, NothingSeen, SeenRecord, Lifecycles, JobOff, JobRecord

LEMMA ReturnTypes ==
  ASSUME Types, NEW found \in {"none", "no_project", "in_sync", "pending", "diverged"},
         Returns(found)
  PROVE  /\ TaskTypes' /\ job' \in JobRecord /\ job'.until <= yesterday
         /\ owner' = "none"
<1>1. JobOff.until <= yesterday /\ job \in JobRecord /\ job.until <= yesterday
  BY DEF Types, OtherTypes, JobOff
<1>2. QED
  BY <1>1, NothingIsTyped DEF Returns, TaskTypes

LEMMA SameTxTypes ==
  ASSUME Types, storeVars' = storeVars, tx' = tx
  PROVE  StoreTypes'
  BY DEF Types, StoreTypes, storeVars

LEMMA SolanaUnchanged ==
  ASSUME Types, solanaVars' = solanaVars
  PROVE  SolanaTypes' /\ chain' = chain /\ IsPrefix(chain, chain')
<1>1. IsPrefix(chain, chain)
  BY PrefixIsReflexive DEF Types, SolanaTypes
<1>2. QED
  BY <1>1 DEF Types, SolanaTypes, solanaVars

(* The boundaries of the model.                                            *)
LEMMA BoundTypes ==
  ASSUME Types, yesterday' = yesterday, boundVars' = boundVars,
         job' \in JobRecord, job'.until <= yesterday
  PROVE  OtherTypes'
  BY DEF Types, OtherTypes, boundVars

LEMMA TroubleTypes ==
  ASSUME Types, yesterday' = yesterday, crashes' = crashes, rotations' = rotations,
         troubles < MaxTroubles, troubles' = troubles + 1,
         job' \in JobRecord, job'.until <= yesterday
  PROVE  OtherTypes'
<1>1. troubles + 1 \in 0 .. MaxTroubles
  BY BoundsAssumption DEF Types, OtherTypes
<1>2. QED
  BY <1>1 DEF Types, OtherTypes

LEMMA FateTypes ==
  ASSUME Types, NEW n \in DOMAIN tx, NEW fate \in Fates, SetFate(n, fate)
  PROVE  /\ tx' \in Seq(TxRecord) /\ Len(tx') = Len(tx) /\ DOMAIN tx' = DOMAIN tx
         /\ \A m \in DOMAIN tx : tx'[m].dates = tx[m].dates
         /\ \A m \in DOMAIN tx : m # n => tx'[m] = tx[m]
         /\ tx'[n].fate = fate
<1>1. tx \in Seq(TxRecord) /\ [tx[n] EXCEPT !.fate = fate] \in TxRecord
  BY TxTypes DEF Types, StoreTypes, TxRecord
<1>2. tx' = [tx EXCEPT ![n] = [tx[n] EXCEPT !.fate = fate]]
  BY DEF SetFate
<1>3. /\ tx' \in Seq(TxRecord) /\ Len(tx') = Len(tx)
  BY <1>1, <1>2, ExceptSeq
<1>4. DOMAIN tx' = DOMAIN tx
  BY <1>2
<1>5. \A m \in DOMAIN tx : tx[m] \in TxRecord
  BY TxTypes
<1>6. QED
  BY <1>2, <1>3, <1>4, <1>5 DEF TxRecord

LEMMA FateKeepsStoreTypes ==
  ASSUME Types, NEW n \in DOMAIN tx, NEW fate \in Fates, SetFate(n, fate),
         storeVars' = storeVars
  PROVE  StoreTypes'
  BY FateTypes DEF Types, StoreTypes, storeVars

LEMMA ConfirmTypes ==
  ASSUME Types, NEW n \in DOMAIN tx, ConfirmSubmission(n), tx' = tx
  PROVE  StoreTypes'
<1>1. outcome \in Seq(Outcomes) /\ n \in DOMAIN outcome
  BY TxTypes DEF Types, StoreTypes
<1>2. outcome' \in Seq(Outcomes) /\ Len(outcome') = Len(outcome)
  BY <1>1, ExceptSeq DEF ConfirmSubmission, Outcomes
<1>3. \A d \in Days : /\ days[d] \in DayRecord
                      /\ [days[d] EXCEPT !.confirmed = @ \/ days[d].batch = n] \in DayRecord
                      /\ days'[d].batch = days[d].batch
  BY RowTypes DEF ConfirmSubmission, DayRecord
<1>4. days' \in [Days -> DayRecord]
  BY <1>3 DEF ConfirmSubmission
<1>5. QED
  BY <1>2, <1>3, <1>4 DEF Types, StoreTypes

LEMMA AbandonTypes ==
  ASSUME Types, NEW n \in DOMAIN tx, NEW why \in {"failed", "expired"},
         AbandonSubmission(n, why), tx' = tx
  PROVE  StoreTypes'
<1>1. outcome \in Seq(Outcomes) /\ n \in DOMAIN outcome /\ why \in Outcomes
  BY TxTypes DEF Types, StoreTypes, Outcomes
<1>2. outcome' \in Seq(Outcomes) /\ Len(outcome') = Len(outcome)
  BY <1>1, ExceptSeq DEF AbandonSubmission
<1>3. \A d \in Days : /\ Unlinked(days[d]) \in DayRecord
                      /\ Unlinked(days[d]).batch = 0 /\ 0 <= Len(tx)
  <2>1. <<>> \in Entries /\ Len(tx) \in Nat /\ \A d \in Days : days[d] \in DayRecord
    BY NothingIsTyped, TxTypes, RowTypes
  <2>2. \A r \in DayRecord : Unlinked(r) \in DayRecord /\ Unlinked(r).batch = 0
    BY <2>1 DEF Unlinked, DayRecord
  <2>3. QED
    BY <2>1, <2>2
<1>4. \A d \in Days : days'[d] \in {days[d], Unlinked(days[d])}
  BY DEF AbandonSubmission
<1>5. days' \in [Days -> DayRecord] /\ \A d \in Days : days'[d].batch <= Len(tx)
  BY <1>3, <1>4, RowTypes DEF AbandonSubmission
<1>6. QED
  BY <1>2, <1>5 DEF Types, StoreTypes

LEMMA ProceedsTypes ==
  ASSUME Types, NEW s \in SeenRecord, Proceeds(s)
  PROVE  TaskTypes' /\ job' \in JobRecord /\ job'.until <= yesterday
<1> DEFINE plan == UnsubmittedAfter(LastDate(s.chain))
           T == {d \in Collected' : days'[d].batch = 0 /\ d > LastDate(s.chain)}
<1>1. plan = OldestFirst(T) /\ T \in SUBSET Days
  BY DEF UnsubmittedAfter, Collected
<1> HIDE DEF T
<1>2. plan \in Seq(Days)
  BY <1>1, OldestFirstIsOrdered
<1> HIDE DEF plan
<1>3. CASE /\ owner = "job" /\ step' = "sign" /\ seen' = s /\ todo' = plan
           /\ UNCHANGED <<owner, job, answer>>
  BY <1>2, <1>3 DEF Types, TaskTypes, OtherTypes
<1>4. CASE Returns("in_sync")
  BY <1>4, ReturnTypes
<1>5. QED
  BY <1>3, <1>4 DEF Proceeds, plan

(* The first day that is due is a day or the day after the last one.       *)
LEMMA MaxOfThree ==
  ASSUME NEW a \in Nat, NEW b \in Nat, NEW c \in Int, a >= 1
  PROVE  Max({a, b, c}) \in Nat \ {0}
<1>1. \E x \in {a, b, c} : \A y \in {a, b, c} : x >= y
  <2>1. CASE a >= b /\ a >= c
    BY <2>1
  <2>2. CASE b >= a /\ b >= c
    BY <2>2
  <2>3. CASE c >= a /\ c >= b
    BY <2>3
  <2>4. QED
    BY <2>1, <2>2, <2>3
<1>2. Max({a, b, c}) \in {a, b, c} /\ \A y \in {a, b, c} : Max({a, b, c}) >= y
  BY <1>1 DEF Max
<1>3. Max({a, b, c}) \in Int /\ Max({a, b, c}) >= 1
  BY <1>2
<1>4. QED
  BY <1>3

LEMMA MinOfTwo ==
  ASSUME NEW a \in Nat, NEW b \in Nat
  PROVE  /\ Min({a, b}) \in Nat /\ Min({a, b}) <= a /\ Min({a, b}) <= b
         /\ (a > 0 /\ b > 0 => Min({a, b}) > 0)
<1>1. \E x \in {a, b} : \A y \in {a, b} : x <= y
  <2>1. CASE a <= b
    BY <2>1
  <2>2. CASE b <= a
    BY <2>2
  <2>3. QED
    BY <2>1, <2>2
<1>2. Min({a, b}) \in {a, b} /\ \A y \in {a, b} : Min({a, b}) <= y
  BY <1>1 DEF Min
<1>3. QED
  BY <1>2

LEMMA FirstDueIsADay ==
  ASSUME Types
  PROVE  FirstDue \in Nat \ {0}
<1> DEFINE first == IF Collected # {} THEN Max(Collected) + 1
                    ELSE IF StartDate = 0 THEN yesterday ELSE StartDate
<1>1. yesterday \in Nat /\ MaxBackfill \in Nat /\ StartDate \in Nat
  BY BoundsAssumption DEF Types, OtherTypes
<1>2. first \in Nat
  <2>1. CASE Collected # {}
    <3>1. Collected \in SUBSET Days
      BY DEF Collected
    <3>2. Max(Collected) \in Days
      BY <2>1, <3>1, LatestDay
    <3>3. Max(Collected) \in Nat
      BY <3>2, DaysAreNumbers
    <3>4. QED
      BY <2>1, <3>3
  <2>2. CASE Collected = {}
    BY <1>1, <2>2
  <2>3. QED
    BY <2>1, <2>2
<1>3. Min({yesterday, MaxBackfill}) \in Nat
  BY <1>1, MinOfTwo
<1> HIDE DEF first
<1>4. yesterday + 1 - Min({yesterday, MaxBackfill}) \in Int
  BY <1>1, <1>3
<1>5. Max({1, first, yesterday + 1 - Min({yesterday, MaxBackfill})}) \in Nat \ {0}
  BY <1>2, <1>4, MaxOfThree
<1>6. QED
  BY <1>5 DEF FirstDue, first
-----------------------------------------------------------------------------
(* The steps that leave the batches alone.                                 *)

LEMMA InvParts ==
  ASSUME TelemetryInv
  PROVE  /\ Types /\ StoreInv /\ TaskInv /\ ReportsMatchTheChain
         /\ IdleSound /\ HeightSound /\ WriteSound /\ SignSound /\ SendSound
  BY DEF TelemetryInv, TaskInv

(* Everything but the job's own state is as it was.                        *)
LEMMA SameTxIsSame ==
  ASSUME Types, StoreInv, tx' = tx, IsPrefix(chain, chain'), Types'
  PROVE  SameTx
<1>1. Range(chain) \subseteq Range(chain')
  BY PrefixKeepsEntries DEF Types, SolanaTypes
<1>2. QED
  BY <1>1 DEF SameTx, StoreInv, TxSound

LEMMA SameStoreIsSame ==
  ASSUME storeVars' = storeVars
  PROVE  SameRows
  BY DEF SameRows, storeVars

LEMMA NothingButTask ==
  ASSUME TelemetryInv, Types', solanaVars' = solanaVars, tx' = tx, SameRows
  PROVE  StoreInv' /\ SameTx /\ IsPrefix(chain, chain')
<1>1. chain' = chain /\ IsPrefix(chain, chain')
  BY InvParts, SolanaUnchanged
<1>2. SameTx
  BY <1>1, InvParts, SameTxIsSame
<1>3. QED
  BY <1>1, <1>2, InvParts, QuietKeepsStore

LEMMA NothingChanges ==
  ASSUME TelemetryInv, Types', solanaVars' = solanaVars, tx' = tx, SameRows,
         UNCHANGED <<taskVars, answer>>
  PROVE  TelemetryInv'
<1>1. StoreInv' /\ SameTx /\ IsPrefix(chain, chain')
  BY NothingButTask
<1>2. TaskInv' /\ ReportsMatchTheChain'
  BY <1>1, InvParts, QuietKeepsTask, QuietKeepsReports DEF taskVars
<1>3. QED
  BY <1>1, <1>2 DEF TelemetryInv

LEMMA StutterKeeps ==
  ASSUME TelemetryInv, UNCHANGED vars
  PROVE  TelemetryInv'
<1>1. Types'
  BY InvParts DEF vars, solanaVars, storeVars, taskVars, boundVars, Types,
     SolanaTypes, StoreTypes, TaskTypes, OtherTypes
<1>2. SameRows
  BY SameStoreIsSame DEF vars
<1>3. QED
  BY <1>1, <1>2, NothingChanges DEF vars

LEMMA JobStartsKeeps ==
  ASSUME TelemetryInv, JobStarts
  PROVE  TelemetryInv'
<1>1. job' \in JobRecord /\ job'.until <= yesterday
  BY InvParts, FirstDueIsADay DEF JobStarts, LastDue, JobRecord, Types, OtherTypes
<1>2. Types'
  BY <1>1, InvParts, SolanaUnchanged, SameTxTypes, BoundTypes
     DEF JobStarts, taskVars, Types, TaskTypes
<1>3. QED
  BY <1>2, SameStoreIsSame, NothingChanges DEF JobStarts

LEMMA CollectDayKeeps ==
  ASSUME TelemetryInv, CollectDay
  PROVE  TelemetryInv'
<1>1. /\ job \in JobRecord /\ job.next <= job.until /\ job.until <= yesterday
      /\ yesterday \in 0 .. LastDay
  BY InvParts DEF CollectDay, Types, OtherTypes
<1>2. job.next \in Days
  <2>1. job.next \in Nat /\ 1 <= job.next /\ job.until \in Nat
    BY <1>1 DEF JobRecord
  <2>2. job.next <= LastDay
    BY <1>1, <2>1, DaysAreNumbers
  <2>3. QED
    BY <2>1, <2>2, DaysAreNumbers
<1>3. job' \in JobRecord /\ job'.until <= yesterday
  BY <1>1 DEF CollectDay, JobRecord
<1>4. \A d \in Days :
        /\ days[d] \in DayRecord
        /\ days'[d] = IF d = job.next THEN [days[d] EXCEPT !.collected = TRUE]
                      ELSE days[d]
  BY <1>2, InvParts, RowTypes DEF CollectDay, Types, StoreTypes
<1>5. /\ SameRows
      /\ \A d \in Days : days'[d] \in DayRecord
  <2>1. \A r \in DayRecord :
          /\ [r EXCEPT !.collected = TRUE] \in DayRecord
          /\ [r EXCEPT !.collected = TRUE].batch = r.batch
          /\ [r EXCEPT !.collected = TRUE].head = r.head
          /\ [r EXCEPT !.collected = TRUE].confirmed = r.confirmed
    BY DEF DayRecord
  <2>2. \A d \in Days :
          /\ days'[d].batch = days[d].batch /\ days'[d].head = days[d].head
          /\ days'[d].confirmed = days[d].confirmed /\ days'[d] \in DayRecord
    BY <1>4, <2>1
  <2>3. outcome' = outcome
    BY DEF CollectDay
  <2>4. QED
    BY <2>2, <2>3 DEF SameRows
<1>6. days' \in [Days -> DayRecord]
  BY <1>5, InvParts DEF CollectDay, Types, StoreTypes
<1>7. StoreTypes'
  BY <1>5, <1>6, InvParts DEF CollectDay, Types, StoreTypes, SameRows
<1>8. Types'
  BY <1>3, <1>7, InvParts, SolanaUnchanged, BoundTypes
     DEF CollectDay, taskVars, Types, TaskTypes
<1>9. QED
  BY <1>5, <1>8, NothingChanges DEF CollectDay

LEMMA CollectFailsKeeps ==
  ASSUME TelemetryInv, CollectFails
  PROVE  TelemetryInv'
<1>1. job' \in JobRecord /\ job'.until <= yesterday
  <2>1. /\ job \in JobRecord /\ job.next <= job.until /\ job.until <= yesterday
        /\ yesterday \in Nat
    BY InvParts, DaysAreNumbers DEF CollectFails, Types, OtherTypes
  <2>2. job.next - 1 \in Nat /\ job.next - 1 <= yesterday
    BY <2>1 DEF JobRecord
  <2>3. job' = [phase |-> job.phase, next |-> job.next, until |-> job.next - 1]
    BY <2>1 DEF CollectFails, JobRecord
  <2>4. QED
    BY <2>1, <2>2, <2>3 DEF JobRecord
<1>2. Types'
  BY <1>1, InvParts, SolanaUnchanged, SameTxTypes, TroubleTypes
     DEF CollectFails, taskVars, Types, TaskTypes
<1>3. QED
  BY <1>2, SameStoreIsSame, NothingChanges DEF CollectFails

(* A task begins: nobody has been told anything yet.                       *)
LEMMA StartKeeps ==
  ASSUME TelemetryInv, NEW who \in {"job", "request"}, Starts(who),
         job' \in JobRecord, job'.until <= yesterday
  PROVE  TelemetryInv'
<1>1. Types'
  BY InvParts, SolanaUnchanged, SameTxTypes, BoundTypes DEF Starts, Types, TaskTypes
<1>2. StoreInv' /\ SameTx /\ IsPrefix(chain, chain') /\ SameRows
  BY <1>1, SameStoreIsSame, NothingButTask DEF Starts
<1>3. TaskInv'
  BY DEF Starts, TaskInv, IdleSound, HeightSound, WriteSound, SignSound, SendSound
<1>4. ReportsMatchTheChain'
  BY DEF Starts, ReportsMatchTheChain
<1>5. QED
  BY <1>1, <1>2, <1>3, <1>4 DEF TelemetryInv

LEMMA StartsKeep ==
  ASSUME TelemetryInv, SyncStarts \/ RequestStarts
  PROVE  TelemetryInv'
<1>1. job \in JobRecord /\ job.until <= yesterday
  BY InvParts DEF Types, OtherTypes
<1>2. CASE SyncStarts
  <2>1. job' \in JobRecord /\ job'.until <= yesterday
    BY <1>1, <1>2 DEF SyncStarts, JobRecord
  <2>2. QED
    BY <1>2, <2>1, StartKeeps DEF SyncStarts
<1>3. CASE RequestStarts
  BY <1>1, <1>3, StartKeeps DEF RequestStarts
<1>4. QED
  BY <1>2, <1>3

(* A task that only returns, with an answer that says nothing of the chain. *)
LEMMA EndKeeps ==
  ASSUME TelemetryInv, NEW found \in {"none", "no_project", "diverged"},
         Returns(found), Types', SameRows, SameTx, IsPrefix(chain, chain')
  PROVE  TelemetryInv'
<1>1. StoreInv'
  BY InvParts, QuietKeepsStore
<1>2. TaskInv' /\ ReportsMatchTheChain'
  BY ReturnKeepsTask
<1>3. QED
  BY <1>1, <1>2 DEF TelemetryInv

LEMMA TaskFailsKeeps ==
  ASSUME TelemetryInv, TaskFails
  PROVE  TelemetryInv'
<1>1. Types'
  BY InvParts, SolanaUnchanged, SameTxTypes, ReturnTypes, TroubleTypes
     DEF TaskFails, Types
<1>2. QED
  BY <1>1, SameStoreIsSame, NothingButTask, EndKeeps DEF TaskFails

LEMMA EndsWithoutMatch ==
  ASSUME TelemetryInv, FindsNoProject \/ FindsDiverged
  PROVE  TelemetryInv'
<1>1. PICK found \in {"no_project", "diverged"} : Returns(found)
  BY DEF FindsNoProject, FindsDiverged
<1>2. storeVars' = storeVars /\ ReconcileUnchanged
  BY DEF FindsNoProject, FindsDiverged
<1>3. Types'
  BY <1>1, <1>2, InvParts, SolanaUnchanged, SameTxTypes, ReturnTypes, BoundTypes
     DEF ReconcileUnchanged, Types
<1>4. QED
  BY <1>1, <1>2, <1>3, SameStoreIsSame, NothingButTask, EndKeeps
     DEF ReconcileUnchanged

(* The process restarts with an empty memory.                              *)
LEMMA CrashKeeps ==
  ASSUME TelemetryInv, Crash
  PROVE  TelemetryInv'
<1>1. OtherTypes'
  <2>1. crashes + 1 \in 0 .. MaxCrashes
    BY InvParts, BoundsAssumption DEF Crash, Types, OtherTypes
  <2>2. job' \in JobRecord /\ job'.until = 0
    BY NothingIsTyped DEF Crash, JobOff
  <2>3. 0 <= yesterday
    BY InvParts, DaysAreNumbers DEF Types, OtherTypes
  <2>4. QED
    BY <2>1, <2>2, <2>3, InvParts DEF Crash, Types, OtherTypes
<1>2. TaskTypes'
  BY NothingIsTyped DEF Crash, TaskTypes
<1>3. Types'
  BY <1>1, <1>2, InvParts, SolanaUnchanged, SameTxTypes DEF Crash, Types
<1>4. StoreInv'
  BY <1>3, SameStoreIsSame, NothingButTask DEF Crash
<1>5. TaskInv'
  BY DEF Crash, TaskInv, IdleSound, HeightSound, WriteSound, SignSound, SendSound
<1>6. ReportsMatchTheChain'
  BY DEF Crash, ReportsMatchTheChain
<1>7. QED
  BY <1>3, <1>4, <1>5, <1>6 DEF TelemetryInv

(* The world around the backend.                                           *)
LEMMA OutsideTypes ==
  ASSUME TelemetryInv, BackendUnchanged, SolanaTypes', OtherTypes',
         tx' \in Seq(TxRecord), Len(tx') = Len(tx)
  PROVE  Types' /\ SameRows /\ UNCHANGED <<taskVars, answer>>
  BY InvParts, SameStoreIsSame
     DEF BackendUnchanged, Types, StoreTypes, TaskTypes, taskVars, storeVars

LEMMA OutsideKeeps ==
  ASSUME TelemetryInv, BackendUnchanged, SolanaTypes', OtherTypes',
         tx' \in Seq(TxRecord), SameTx, IsPrefix(chain, chain')
  PROVE  TelemetryInv'
<1>1. Types' /\ SameRows /\ UNCHANGED <<taskVars, answer>>
  BY OutsideTypes DEF SameTx
<1>2. StoreInv' /\ TaskInv' /\ ReportsMatchTheChain'
  BY <1>1, InvParts, QuietKeepsStore, QuietKeepsTask, QuietKeepsReports DEF taskVars
<1>3. QED
  BY <1>1, <1>2 DEF TelemetryInv

LEMMA DayPassesKeeps ==
  ASSUME TelemetryInv, DayPasses
  PROVE  TelemetryInv'
<1>1. OtherTypes'
  <2>1. /\ yesterday \in 0 .. LastDay /\ yesterday < LastDay /\ LastDay \in Nat
        /\ job' = job /\ job \in JobRecord /\ job.until <= yesterday
    BY InvParts, DaysAreNumbers DEF DayPasses, BackendUnchanged, Types, OtherTypes
  <2>2. yesterday + 1 \in 0 .. LastDay /\ job.until <= yesterday + 1
    BY <2>1 DEF JobRecord
  <2>3. QED
    BY <2>1, <2>2, InvParts DEF DayPasses, Types, OtherTypes, boundVars
<1>2. SolanaTypes' /\ IsPrefix(chain, chain')
  BY InvParts, SolanaUnchanged DEF DayPasses
<1>3. tx' \in Seq(TxRecord) /\ tx' = tx
  BY InvParts DEF DayPasses, Types, StoreTypes
<1>4. Types'
  BY <1>1, <1>2, <1>3, OutsideTypes DEF DayPasses
<1>5. QED
  BY <1>1, <1>2, <1>3, <1>4, InvParts, SameTxIsSame, OutsideKeeps DEF DayPasses

(* The admin: a project that advances, another oracle.                     *)
LEMMA AdminKeeps ==
  ASSUME TelemetryInv, ProjectAdvances \/ RotateOracle
  PROVE  TelemetryInv'
<1>1. BackendUnchanged /\ chain' = chain /\ tx' = tx
  BY DEF ProjectAdvances, RotateOracle
<1>2. lifecycle' \in Lifecycles /\ oracle' \in {"ours", "theirs"}
  BY InvParts DEF ProjectAdvances, RotateOracle, Types, SolanaTypes, Lifecycles
<1>3. SolanaTypes' /\ IsPrefix(chain, chain')
  BY <1>1, <1>2, InvParts, PrefixIsReflexive DEF Types, SolanaTypes
<1>4. OtherTypes'
  <2>1. CASE ProjectAdvances
    BY <2>1, InvParts DEF ProjectAdvances, BackendUnchanged, Types, OtherTypes, boundVars
  <2>2. CASE RotateOracle
    <3>1. rotations + 1 \in 0 .. MaxRotations
      BY <2>2, InvParts, BoundsAssumption DEF RotateOracle, Types, OtherTypes
    <3>2. QED
      BY <2>2, <3>1, InvParts DEF RotateOracle, BackendUnchanged, Types, OtherTypes
  <2>3. QED
    BY <2>1, <2>2
<1>5. tx' \in Seq(TxRecord) /\ Len(tx') = Len(tx)
  BY <1>1, InvParts DEF Types, StoreTypes
<1>6. Types'
  BY <1>1, <1>3, <1>4, <1>5, OutsideTypes
<1>7. QED
  BY <1>1, <1>3, <1>4, <1>5, <1>6, InvParts, SameTxIsSame, OutsideKeeps

(* Another oracle's entry only makes the chain longer.                     *)
LEMMA TheyRecordKeeps ==
  ASSUME TelemetryInv, NEW d \in TheirDays, TheyRecord(d)
  PROVE  TelemetryInv'
<1>1. Entry(d, "theirs") \in EntryRecord
  BY BoundsAssumption DEF Entry, EntryRecord
<1>2. chain' \in Entries /\ IsPrefix(chain, chain')
  <2>1. <<Entry(d, "theirs")>> \in Entries
    BY <1>1 DEF Entries
  <2>2. chain \in Entries /\ chain' = chain \o <<Entry(d, "theirs")>>
    BY <1>1, InvParts, AppendIsConcat DEF TheyRecord, Types, SolanaTypes, Entries
  <2>3. QED
    BY <2>1, <2>2, PrefixOfConcat
<1>3. SolanaTypes'
  BY <1>2, InvParts DEF TheyRecord, Types, SolanaTypes
<1>4. OtherTypes'
  BY InvParts DEF TheyRecord, BackendUnchanged, Types, OtherTypes, boundVars
<1>5. tx' = tx /\ tx' \in Seq(TxRecord) /\ Len(tx') = Len(tx) /\ BackendUnchanged
  BY InvParts DEF TheyRecord, Types, StoreTypes
<1>6. Types'
  BY <1>3, <1>4, <1>5, OutsideTypes
<1>7. QED
  BY <1>2, <1>3, <1>4, <1>5, <1>6, InvParts, SameTxIsSame, OutsideKeeps

(* The cluster takes a batch: recorded, its days are on the chain.         *)
LEMMA LandsKeeps ==
  ASSUME TelemetryInv, NEW n \in DOMAIN tx, Lands(n)
  PROVE  TelemetryInv'
<1>1. PICK dates \in Seq(Days) : dates = tx[n].dates
  BY InvParts, TxTypes
<1>2. /\ BackendUnchanged /\ OtherTypes'
      /\ lifecycle' = lifecycle /\ oracle' = oracle /\ chain \in Entries
  BY InvParts DEF Lands, BackendUnchanged, Types, OtherTypes, boundVars, SolanaTypes
<1>3. \A m \in DOMAIN tx : TxSound(m)
  BY InvParts DEF StoreInv
<1>4. CASE /\ chain' = chain \o OurEntries(dates) /\ SetFate(n, "landed")
  <2>1. /\ Len(dates) \in 0 .. Len(dates) /\ SubSeq(dates, 1, Len(dates)) = dates
    <3>1. Len(dates) \in Nat
      BY LenProperties
    <3>2. QED
      BY <3>1, SubSeqFull
  <2>2. chain' = Extended(chain, dates, Len(dates))
    BY <1>4, <2>1 DEF Extended
  <2>3. PICK base \in Entries : base = chain
    BY <1>2
  <2>4. chain' \in Entries /\ IsPrefix(chain, chain')
    <3>1. 0 \in 0 .. Len(dates)
      BY <2>1
    <3>2. QED
      BY <2>1, <2>2, <2>3, <3>1, ExtendedElements, ExtendedPrefixes
  <2>5. \A d \in Range(dates) : Entry(d, "ours") \in Range(chain')
    BY <2>2, <2>3, ExtendedEntries DEF Range
  <2>6. /\ tx' \in Seq(TxRecord) /\ Len(tx') = Len(tx) /\ DOMAIN tx' = DOMAIN tx
        /\ \A m \in DOMAIN tx : tx'[m].dates = tx[m].dates
        /\ \A m \in DOMAIN tx : m # n => tx'[m] = tx[m]
    BY <1>4, InvParts, FateTypes DEF Fates
  <2>7. Range(chain) \subseteq Range(chain')
    BY <1>2, <2>4, PrefixKeepsEntries
  <2>8. SameTx
    BY <1>1, <1>3, <2>5, <2>6, <2>7 DEF SameTx, TxSound
  <2>9. SolanaTypes'
    BY <1>2, <2>4, InvParts DEF Types, SolanaTypes
  <2>10. QED
    BY <1>2, <2>4, <2>6, <2>8, <2>9, OutsideKeeps
<1>5. CASE SetFate(n, "failed") /\ chain' = chain
  <2>1. /\ tx' \in Seq(TxRecord) /\ Len(tx') = Len(tx) /\ DOMAIN tx' = DOMAIN tx
        /\ \A m \in DOMAIN tx : tx'[m].dates = tx[m].dates
        /\ \A m \in DOMAIN tx : m # n => tx'[m] = tx[m]
        /\ tx'[n].fate = "failed"
    BY <1>5, InvParts, FateTypes DEF Fates
  <2>2. SameTx
    BY <1>3, <1>5, <2>1 DEF SameTx, TxSound
  <2>3. SolanaTypes' /\ IsPrefix(chain, chain')
    BY <1>2, <1>5, InvParts, PrefixIsReflexive DEF Types, SolanaTypes
  <2>4. QED
    BY <1>2, <2>1, <2>2, <2>3, OutsideKeeps
<1>6. QED
  BY <1>1, <1>4, <1>5 DEF Lands

LEMMA ExpiresKeeps ==
  ASSUME TelemetryInv, NEW n \in DOMAIN tx, Expires(n)
  PROVE  TelemetryInv'
<1>1. /\ tx \in Seq(TxRecord) /\ [tx[n] EXCEPT !.valid = FALSE] \in TxRecord
      /\ \A m \in DOMAIN tx : tx[m] \in TxRecord
  BY InvParts, TxTypes DEF Types, StoreTypes, TxRecord
<1>2. tx' = [tx EXCEPT ![n] = [tx[n] EXCEPT !.valid = FALSE]]
  BY DEF Expires
<1>3. tx' \in Seq(TxRecord) /\ Len(tx') = Len(tx)
  BY <1>1, <1>2, ExceptSeq
<1>4. /\ DOMAIN tx' = DOMAIN tx
      /\ \A m \in DOMAIN tx : tx'[m].dates = tx[m].dates /\ tx'[m].fate = tx[m].fate
  BY <1>1, <1>2 DEF TxRecord
<1>5. SolanaTypes' /\ chain' = chain /\ IsPrefix(chain, chain')
  BY InvParts, SolanaUnchanged DEF Expires
<1>6. SameTx
  BY <1>3, <1>4, <1>5, InvParts DEF SameTx, StoreInv, TxSound
<1>7. OtherTypes'
  <2>1. troubles' \in 0 .. MaxTroubles
    <3>1. troubles' = troubles \/ (troubles < MaxTroubles /\ troubles' = troubles + 1)
      BY DEF Expires
    <3>2. troubles \in 0 .. MaxTroubles /\ MaxTroubles \in Nat
      BY InvParts, BoundsAssumption DEF Types, OtherTypes
    <3>3. QED
      BY <3>1, <3>2
  <2>2. QED
    BY <2>1, InvParts DEF Expires, BackendUnchanged, Types, OtherTypes
<1>8. QED
  BY <1>3, <1>5, <1>6, <1>7, OutsideKeeps DEF Expires
-----------------------------------------------------------------------------
(* The steps that decide about a batch or write one.                       *)

LEMMA HereIsSeen ==
  ASSUME Types
  PROVE  Here \in SeenRecord /\ Here.chain = chain
  BY DEF Types, SolanaTypes, Here, SeenRecord

LEMMA TaskRuns ==
  ASSUME TelemetryInv, step # "idle"
  PROVE  owner # "none"
  BY InvParts DEF IdleSound

(* The pending batch is the end of the chain: its days have landed.        *)
LEMMA FindsBatchLandedKeeps ==
  ASSUME TelemetryInv, FindsBatchLanded
  PROVE  TelemetryInv'
<1>1. PICK n \in Pending : n = PendingBatch
  BY InvParts, PendingIsOne DEF FindsBatchLanded
<1>2. n \in DOMAIN tx /\ tx[n].dates \in Seq(Days) /\ \E base \in Entries : Link(n, base)
  BY <1>1, InvParts, PendingIsOne, TxTypes
<1>3. PICK base \in Entries : Link(n, base)
  BY <1>2
<1>4. PICK s \in SeenRecord : s = Here /\ s.chain = chain
  BY InvParts, HereIsSeen
<1>5. /\ ConfirmSubmission(n) /\ Proceeds(s) /\ ReconcileUnchanged
      /\ chain = HeadAfter(n)
  BY <1>1, <1>4 DEF FindsBatchLanded, MatchesPending
<1>6. chain = Extended(base, tx[n].dates, Len(tx[n].dates))
  BY <1>3, <1>5, InvParts, LinksOfPending
<1>7. tx' = tx /\ SolanaTypes' /\ chain' = chain
  BY <1>5, InvParts, SolanaUnchanged DEF ReconcileUnchanged
<1>8. Types'
  BY <1>2, <1>5, <1>7, InvParts, ConfirmTypes, ProceedsTypes, BoundTypes
     DEF ReconcileUnchanged, Types
<1>9. \A d \in Range(tx[n].dates) : Entry(d, "ours") \in Range(chain)
  BY <1>2, <1>6, ExtendedEntries DEF Range
<1>10. /\ StoreInv' /\ Pending' = {}
       /\ Covered(Extended(base, tx[n].dates, Len(tx[n].dates)))'
  BY <1>3, <1>5, <1>7, <1>8, <1>9, InvParts, ConfirmKeepsStore
<1>11. Covered(chain)' /\ Covered(s.chain)'
  BY <1>4, <1>6, <1>7, <1>10
<1>12. owner # "none"
  BY TaskRuns DEF FindsBatchLanded
<1>13. TaskInv' /\ ReportsMatchTheChain'
  BY <1>5, <1>8, <1>10, <1>11, <1>12, InvParts, ProceedsKeepsTask
<1>14. QED
  BY <1>8, <1>10, <1>13 DEF TelemetryInv

(* The chain ends just before the pending batch: everything confirmed is   *)
(* on it, whatever becomes of the batch.                                   *)
LEMMA FindsBatchOpenKeeps ==
  ASSUME TelemetryInv, FindsBatchOpen
  PROVE  TelemetryInv'
<1>1. PICK n \in Pending : n = PendingBatch
  BY InvParts, PendingIsOne DEF FindsBatchOpen
<1>2. PICK base \in Entries : Link(n, base)
  BY <1>1, InvParts, PendingIsOne
<1>3. chain = base
  BY <1>1, <1>2, InvParts, LinksOfPending DEF FindsBatchOpen
<1>4. Here \in SeenRecord /\ Here.chain = chain
  BY InvParts, HereIsSeen
<1>5. Types'
  BY <1>4, InvParts, SolanaUnchanged, SameTxTypes, BoundTypes
     DEF FindsBatchOpen, ReconcileUnchanged, Types, TaskTypes, OtherTypes
<1>6. SameRows /\ StoreInv' /\ IsPrefix(chain, chain') /\ chain' = chain
  BY <1>5, InvParts, SameStoreIsSame, NothingButTask, SolanaUnchanged
     DEF FindsBatchOpen, ReconcileUnchanged
<1>7. Pending' = Pending /\ Covered(base)'
  BY <1>2, <1>6, SameIsCovered DEF Link
<1>8. HeightSound'
  BY <1>3, <1>4, <1>6, <1>7 DEF FindsBatchOpen, HeightSound
<1>9. IdleSound' /\ WriteSound' /\ SignSound' /\ SendSound'
  <2>1. owner # "none" /\ answer = "none"
    BY TaskRuns, InvParts DEF FindsBatchOpen, IdleSound
  <2>2. QED
    BY <2>1 DEF FindsBatchOpen, IdleSound, WriteSound, SignSound, SendSound
<1>10. ReportsMatchTheChain'
  BY <1>5, <1>6, InvParts, QuietKeepsReports DEF FindsBatchOpen
<1>11. QED
  BY <1>5, <1>6, <1>8, <1>9, <1>10 DEF TelemetryInv, TaskInv

LEMMA FindsInSyncKeeps ==
  ASSUME TelemetryInv, FindsInSync
  PROVE  TelemetryInv'
<1>1. PICK s \in SeenRecord : s = Here /\ s.chain = chain
  BY InvParts, HereIsSeen
<1>2. Proceeds(s) /\ ReconcileUnchanged /\ storeVars' = storeVars
  BY <1>1 DEF FindsInSync
<1>3. Types'
  BY <1>2, InvParts, SolanaUnchanged, SameTxTypes, ProceedsTypes, BoundTypes
     DEF ReconcileUnchanged, Types
<1>4. SameRows /\ StoreInv' /\ chain' = chain
  BY <1>2, <1>3, InvParts, SameStoreIsSame, NothingButTask, SolanaUnchanged
     DEF ReconcileUnchanged
<1>5. Covered(chain)
  BY InvParts, LocalMatchCovers DEF FindsInSync
<1>6. Pending' = {} /\ Covered(chain)' /\ Covered(s.chain)'
  <2>1. Covered(s.chain)
    BY <1>1, <1>5
  <2>2. Pending' = {} /\ Covered(s.chain)'
    BY <1>4, <2>1, SameIsCovered DEF FindsInSync
  <2>3. QED
    BY <1>1, <1>4, <2>2
<1>7. owner # "none"
  BY TaskRuns DEF FindsInSync
<1>8. TaskInv' /\ ReportsMatchTheChain'
  BY <1>2, <1>3, <1>6, <1>7, InvParts, ProceedsKeepsTask
<1>9. QED
  BY <1>3, <1>4, <1>8 DEF TelemetryInv

(* The project read before is still a part of the chain.                   *)
LEMMA SeenIsCovered ==
  ASSUME TelemetryInv, step = "height"
  PROVE  /\ seen \in SeenRecord /\ seen.chain \in Entries /\ Pending # {}
         /\ Covered(seen.chain) /\ Covered(chain)
<1>1. /\ seen \in SeenRecord /\ seen.chain \in Entries /\ chain \in Entries
  BY InvParts DEF Types, SolanaTypes, TaskTypes, SeenRecord
<1>2. Pending # {} /\ Covered(seen.chain) /\ IsPrefix(seen.chain, chain)
  BY InvParts DEF HeightSound
<1>3. PICK s \in Entries, t \in Entries : s = seen.chain /\ t = chain
  BY <1>1
<1>4. Covered(t)
  BY <1>2, <1>3, InvParts, CoveredByLonger
<1>5. QED
  BY <1>1, <1>2, <1>3, <1>4

LEMMA FindsStillValidKeeps ==
  ASSUME TelemetryInv, FindsStillValid
  PROVE  TelemetryInv'
<1>1. Returns("pending") /\ ReconcileUnchanged /\ storeVars' = storeVars
  BY DEF FindsStillValid, WaitsForBatch
<1>2. Types'
  BY <1>1, InvParts, SolanaUnchanged, SameTxTypes, ReturnTypes, BoundTypes
     DEF ReconcileUnchanged, Types
<1>3. SameRows /\ StoreInv' /\ chain' = chain
  BY <1>1, <1>2, InvParts, SameStoreIsSame, NothingButTask, SolanaUnchanged
     DEF ReconcileUnchanged
<1>4. PICK t \in Entries : t = chain
  BY InvParts DEF Types, SolanaTypes
<1>5. Covered(t)
  BY <1>4, SeenIsCovered DEF FindsStillValid
<1>6. Covered(t)'
  BY <1>3, <1>5, SameIsCovered
<1>7. Covered(chain)'
  BY <1>3, <1>4, <1>6
<1>8. TaskInv' /\ ReportsMatchTheChain'
  BY <1>1, <1>2, <1>7, ReturnKeepsTask
<1>9. QED
  BY <1>2, <1>3, <1>8 DEF TelemetryInv

LEMMA FindsExpiredKeeps ==
  ASSUME TelemetryInv, FindsExpired
  PROVE  TelemetryInv'
<1>1. /\ seen \in SeenRecord /\ seen.chain \in Entries /\ Pending # {}
      /\ Covered(seen.chain) /\ Covered(chain)
  BY SeenIsCovered DEF FindsExpired
<1>2. PICK n \in Pending : n = PendingBatch
  BY <1>1, InvParts, PendingIsOne
<1>3. PICK s \in SeenRecord : s = seen
  BY <1>1
<1>4. /\ AbandonSubmission(n, "expired") /\ Proceeds(s) /\ ReconcileUnchanged
      /\ n \in DOMAIN tx
  BY <1>2, <1>3, InvParts, TxTypes DEF FindsExpired
<1>5. tx' = tx /\ SolanaTypes' /\ chain' = chain
  BY <1>4, InvParts, SolanaUnchanged DEF ReconcileUnchanged
<1>6. Types'
  BY <1>4, <1>5, InvParts, AbandonTypes, ProceedsTypes, BoundTypes
     DEF ReconcileUnchanged, Types
<1>7. /\ StoreInv' /\ Pending' = {}
      /\ \A c : Covered(c)' <=> Covered(c)
  BY <1>4, <1>5, <1>6, InvParts, AbandonKeepsStore
<1>8. PICK t \in Entries : t = chain
  BY InvParts DEF Types, SolanaTypes
<1>9. Covered(t)' /\ Covered(s.chain)'
  BY <1>1, <1>3, <1>7, <1>8
<1>10. Covered(chain)'
  BY <1>5, <1>8, <1>9
<1>11. owner # "none"
  BY TaskRuns DEF FindsExpired
<1>12. TaskInv' /\ ReportsMatchTheChain'
  BY <1>4, <1>6, <1>7, <1>9, <1>10, <1>11, InvParts, ProceedsKeepsTask
<1>13. QED
  BY <1>6, <1>7, <1>12 DEF TelemetryInv

(* The batch is the first few of the planned days.                         *)
LEMMA BatchTypes ==
  ASSUME Types, todo # <<>>
  PROVE  /\ Batch \in Seq(Days) /\ Len(todo) \in Nat /\ Len(Batch) \in Nat
         /\ 0 < Len(Batch) /\ Len(Batch) <= Len(todo)
         /\ DOMAIN Batch = 1 .. Len(Batch) /\ DOMAIN todo = 1 .. Len(todo)
         /\ \A i \in 1 .. Len(Batch) : Batch[i] = todo[i]
         /\ \A i \in 1 .. Len(todo) : todo[i] \in Days
<1> DEFINE k == Min({MaxEntries, Len(todo)})
<1>1. /\ todo \in Seq(Days) /\ Len(todo) \in Nat /\ Len(todo) > 0
      /\ DOMAIN todo = 1 .. Len(todo)
      /\ \A i \in 1 .. Len(todo) : todo[i] \in Days
  <2>1. todo \in Seq(Days)
    BY DEF Types, TaskTypes
  <2>2. Len(todo) \in Nat \ {0} /\ DOMAIN todo = 1 .. Len(todo)
    BY <2>1, EmptySeq, LenProperties
  <2>3. \A i \in 1 .. Len(todo) : todo[i] \in Days
    BY <2>1, ElementOfSeq
  <2>4. QED
    BY <2>1, <2>2, <2>3
<1>2. MaxEntries \in Nat /\ MaxEntries > 0
  BY BoundsAssumption
<1>3. k \in Nat /\ k <= Len(todo) /\ k > 0
  BY <1>1, <1>2, MinOfTwo
<1> HIDE DEF k
<1>4. \A i \in 1 .. k : todo[i] \in Days
  BY <1>1, <1>3
<1>5. /\ SubSeq(todo, 1, k) \in Seq(Days) /\ Len(SubSeq(todo, 1, k)) = k
      /\ \A i \in 1 .. k : SubSeq(todo, 1, k)[i] = todo[i]
  <2>1. /\ SubSeq(todo, 1, k) \in Seq(Days)
        /\ Len(SubSeq(todo, 1, k)) = IF 1 <= k THEN k - 1 + 1 ELSE 0
        /\ \A i \in 1 .. k - 1 + 1 : SubSeq(todo, 1, k)[i] = todo[1 + i - 1]
    BY <1>3, <1>4, SubSeqProperties
  <2>2. QED
    BY <1>3, <2>1
<1>6. Batch = SubSeq(todo, 1, k)
  BY DEF Batch, k
<1>7. Batch \in Seq(Days) /\ Len(Batch) = k /\ \A i \in 1 .. k : Batch[i] = todo[i]
  BY <1>5, <1>6
<1>8. DOMAIN Batch = 1 .. Len(Batch)
  BY <1>7, LenProperties
<1>9. QED
  BY <1>1, <1>3, <1>7, <1>8

(* Signing writes rows only of days that are in no batch, so that it       *)
(* touches nothing that is confirmed.                                      *)
LEMMA SignWrites ==
  ASSUME TelemetryInv, SignBatch
  PROVE  /\ Batch \in Seq(Days) /\ Batch # <<>> /\ Increasing(Batch)
         /\ Types' /\ Len(tx') = Len(tx) + 1 /\ Len(tx) \in Nat
         /\ \A m \in DOMAIN tx : tx'[m] = tx[m] /\ outcome'[m] = outcome[m]
         /\ tx'[Len(tx) + 1] = [dates |-> Batch, valid |-> TRUE, fate |-> "unsent"]
         /\ Pending' = {Len(tx) + 1}
         /\ \A d \in Days : d \notin Range(Batch) => days'[d] = days[d]
         /\ \A d \in Range(Batch) : days[d].batch = 0 /\ days'[d].batch = Len(tx) + 1
                                    /\ days'[d].confirmed = days[d].confirmed
         /\ \A i \in DOMAIN Batch :
              days'[Batch[i]].head = Extended(seen.chain, Batch, i)
<1> DEFINE n == Len(tx) + 1
<1>1. /\ Increasing(todo) /\ todo # <<>> /\ Pending = {}
      /\ \A i \in DOMAIN todo : days[todo[i]].batch = 0
  BY InvParts DEF SignBatch, WriteSound, SignSound
<1>2. /\ Batch \in Seq(Days) /\ Len(todo) \in Nat /\ Len(Batch) \in Nat
      /\ 0 < Len(Batch) /\ Len(Batch) <= Len(todo)
      /\ DOMAIN Batch = 1 .. Len(Batch) /\ DOMAIN todo = 1 .. Len(todo)
      /\ \A i \in 1 .. Len(Batch) : Batch[i] = todo[i]
      /\ \A i \in 1 .. Len(todo) : todo[i] \in Days
  BY <1>1, InvParts, BatchTypes
<1>3. Batch # <<>>
  BY <1>2
<1>4. \A i \in DOMAIN Batch : i \in DOMAIN todo /\ Batch[i] = todo[i] /\ i \in Nat
  BY <1>2
<1>5. Increasing(Batch)
  BY <1>1, <1>4 DEF Increasing
<1>6. PICK dates \in Seq(Days) : dates = Batch
  BY <1>2
<1>7. PICK base \in Entries : base = seen.chain
  BY InvParts DEF Types, TaskTypes, SeenRecord
<1>8. /\ Len(dates) \in Nat /\ DOMAIN dates = 1 .. Len(dates)
      /\ \A i \in DOMAIN dates : dates[i] \in Days
      /\ \A i \in DOMAIN dates : i \in Nat /\ i \in 0 .. Len(dates)
  BY <1>2, <1>6
<1>9. \A i, j \in DOMAIN dates : dates[i] = dates[j] => i = j
  <2> SUFFICES ASSUME NEW i \in DOMAIN dates, NEW j \in DOMAIN dates, i < j
               PROVE  dates[i] # dates[j]
    BY <1>8
  <2>1. dates[i] < dates[j] /\ dates[i] \in Nat /\ dates[j] \in Nat
    BY <1>5, <1>6, <1>8, DaysAreNumbers DEF Increasing
  <2>2. QED
    BY <2>1
<1> DEFINE head(d) == PlannedHead(CHOOSE i \in DOMAIN Batch : Batch[i] = d)
<1>10. \A i \in DOMAIN dates : head(dates[i]) = Extended(base, dates, i)
  <2> SUFFICES ASSUME NEW i \in DOMAIN dates
               PROVE  head(dates[i]) = Extended(base, dates, i)
    OBVIOUS
  <2>1. (CHOOSE j \in DOMAIN dates : dates[j] = dates[i]) = i
    BY <1>9
  <2>2. QED
    BY <1>6, <1>7, <2>1 DEF PlannedHead, Extended
<1>11. \A d \in Range(dates) : \E i \in DOMAIN dates : d = dates[i]
  BY <1>8 DEF Range
<1>12. \A d \in Range(dates) : d \in Days /\ head(d) \in Entries /\ days[d].batch = 0
  <2> SUFFICES ASSUME NEW d \in Range(dates)
               PROVE  d \in Days /\ head(d) \in Entries /\ days[d].batch = 0
    OBVIOUS
  <2>1. PICK i \in DOMAIN dates : d = dates[i]
    BY <1>11
  <2>2. head(d) = Extended(base, dates, i) /\ i \in 0 .. Len(dates)
    BY <1>8, <1>10, <2>1
  <2> HIDE DEF head
  <2>3. head(d) \in Entries
    BY <2>2, ExtendedElements
  <2>4. QED
    BY <1>1, <1>4, <1>6, <1>8, <2>1, <2>3
<1> HIDE DEF head
<1>13. n \in Nat /\ Len(tx) \in Nat /\ Len(tx) <= n /\ DOMAIN tx = 1 .. Len(tx)
  BY InvParts, TxTypes
<1>14. days' = [d \in Days |-> IF d \in Range(dates)
                   THEN [days[d] EXCEPT !.batch = n, !.head = head(d)]
                   ELSE days[d]]
  <2>1. days' = [d \in Days |-> IF d \in Range(Batch)
                     THEN [days[d] EXCEPT !.batch = n, !.head = head(d)]
                     ELSE days[d]]
    BY Zenon DEF SignBatch, head
  <2>2. QED
    BY <1>6, <2>1
<1> HIDE DEF n
<1>15. \A d \in Days : days[d] \in DayRecord
  BY InvParts, RowTypes
<1>16. \A d \in Range(dates) :
         /\ days'[d].batch = n /\ days'[d].head = head(d)
         /\ days'[d].confirmed = days[d].confirmed /\ days'[d] \in DayRecord
  BY <1>12, <1>13, <1>14, <1>15 DEF DayRecord
<1>17. \A d \in Days : d \notin Range(dates) => days'[d] = days[d]
  BY <1>14
<1>18. days' \in [Days -> DayRecord] /\ \A d \in Days : days'[d].batch <= n
  <2>1. \A d \in Days : days'[d] \in DayRecord /\ days'[d].batch <= n
    <3> SUFFICES ASSUME NEW d \in Days
                 PROVE  days'[d] \in DayRecord /\ days'[d].batch <= n
      OBVIOUS
    <3>1. CASE d \in Range(dates)
      BY <1>13, <1>16, <3>1
    <3>2. CASE d \notin Range(dates)
      <4>1. days[d].batch \in Nat /\ days[d].batch <= Len(tx)
        BY InvParts, RowTypes
      <4>2. days[d].batch <= n
        BY <1>13, <4>1
      <4>3. QED
        BY <1>15, <1>17, <3>2, <4>2
    <3>3. QED
      BY <3>1, <3>2
  <2>2. QED
    BY <1>14, <2>1
<1>19. PICK row \in TxRecord :
         row = [dates |-> dates, valid |-> TRUE, fate |-> "unsent"]
  BY DEF TxRecord, Fates
<1>20. tx \in Seq(TxRecord) /\ outcome \in Seq(Outcomes) /\ Len(outcome) = Len(tx)
       /\ "pending" \in Outcomes
  BY InvParts DEF Types, StoreTypes, Outcomes
<1>21. tx' = Append(tx, row) /\ outcome' = Append(outcome, "pending")
  BY <1>6, <1>19 DEF SignBatch
<1>22. /\ tx' \in Seq(TxRecord) /\ Len(tx') = n /\ tx'[n] = row
       /\ \A m \in 1 .. Len(tx) : tx'[m] = tx[m]
  BY <1>20, <1>21, AppendProperties DEF n
<1>23. /\ outcome' \in Seq(Outcomes) /\ Len(outcome') = n /\ outcome'[n] = "pending"
       /\ \A m \in 1 .. Len(tx) : outcome'[m] = outcome[m]
  BY <1>20, <1>21, AppendProperties DEF n
<1>24. Pending' = {n}
  <2>1. DOMAIN outcome' = 1 .. n /\ DOMAIN outcome = 1 .. Len(tx)
    BY <1>20, <1>23, LenProperties
  <2>2. \A m \in 1 .. n : m = n \/ m \in 1 .. Len(tx)
    BY <1>13 DEF n
  <2>3. \A m \in 1 .. Len(tx) : outcome[m] # "pending"
    BY <1>1, <2>1 DEF Pending
  <2>4. n \in 1 .. n
    BY <1>13 DEF n
  <2>5. QED
    BY <1>23, <2>1, <2>2, <2>3, <2>4 DEF Pending
<1>25. StoreTypes'
  BY <1>18, <1>22, <1>23 DEF StoreTypes
<1>26. Types'
  <2>1. SolanaTypes'
    BY InvParts, SolanaUnchanged DEF SignBatch
  <2>2. TaskTypes' /\ OtherTypes'
    BY InvParts DEF SignBatch, Types, TaskTypes, OtherTypes, boundVars
  <2>3. QED
    BY <1>25, <2>1, <2>2 DEF Types
<1>27. \A i \in DOMAIN dates : days'[dates[i]].head = Extended(base, dates, i)
  <2>1. \A i \in DOMAIN dates : dates[i] \in Range(dates)
    BY DEF Range
  <2>2. QED
    BY <1>10, <1>16, <2>1
<1>28. QED
  BY <1>3, <1>5, <1>6, <1>7, <1>12, <1>13, <1>16, <1>17, <1>19, <1>22, <1>23,
     <1>24, <1>26, <1>27 DEF n

LEMMA SignBatchKeeps ==
  ASSUME TelemetryInv, SignBatch
  PROVE  TelemetryInv'
<1>1. PICK n \in Nat : n = Len(tx) + 1
  BY InvParts, TxTypes
<1>2. PICK dates \in Seq(Days) : dates = Batch
  BY SignWrites
<1>3. PICK base \in Entries : base = seen.chain
  BY InvParts DEF Types, TaskTypes, SeenRecord
<1>4. /\ dates # <<>> /\ Increasing(dates) /\ Types' /\ Len(tx') = n
      /\ \A m \in DOMAIN tx : tx'[m] = tx[m] /\ outcome'[m] = outcome[m]
      /\ tx'[n] = [dates |-> dates, valid |-> TRUE, fate |-> "unsent"]
      /\ Pending' = {n}
      /\ \A d \in Days : d \notin Range(dates) => days'[d] = days[d]
      /\ \A d \in Range(dates) : days[d].batch = 0 /\ days'[d].batch = n
                                 /\ days'[d].confirmed = days[d].confirmed
      /\ \A i \in DOMAIN dates : days'[dates[i]].head = Extended(base, dates, i)
  BY <1>1, <1>2, <1>3, SignWrites
<1>5. /\ Len(tx) \in Nat /\ DOMAIN tx = 1 .. Len(tx) /\ DOMAIN tx' = 1 .. n
      /\ \A d \in Days : days[d].batch \in Nat /\ days[d].batch <= Len(tx)
  BY <1>4, InvParts, TxTypes, RowTypes, LenProperties DEF Types, StoreTypes
<1>6. \A d \in Days : days[d].confirmed => d \notin Range(dates)
  BY <1>4, InvParts DEF StoreInv, DaySound
<1>7. /\ ConfirmedDays' = ConfirmedDays
      /\ \A d \in ConfirmedDays : days'[d] = days[d]
  BY <1>4, <1>6 DEF ConfirmedDays
<1>8. \A s : Covered(s)' <=> Covered(s)
  BY <1>7 DEF Covered
<1>9. HeadsAgree'
  BY <1>7, InvParts DEF StoreInv, HeadsAgree
<1>10. chain' = chain /\ todo' = todo /\ seen' = seen /\ owner' = owner
       /\ answer' = answer /\ step' = "send"
  BY DEF SignBatch, solanaVars
<1>11. ASSUME NEW m \in DOMAIN tx' PROVE TxSound(m)'
  <2>1. CASE m \in DOMAIN tx
    BY <1>4, <1>10, <2>1, InvParts DEF StoreInv, TxSound
  <2>2. CASE m = n
    BY <1>4, <2>2 DEF TxSound
  <2>3. m \in DOMAIN tx \/ m = n
    BY <1>1, <1>5
  <2>4. QED
    BY <2>1, <2>2, <2>3
<1>12. ASSUME NEW d \in Days PROVE DaySound(d)'
  <2>1. CASE d \in Range(dates)
    <3>1. ~days'[d].confirmed
      BY <1>4, <1>6, <2>1
    <3>2. days'[d].batch = n /\ tx'[n].dates = dates
      BY <1>4, <2>1
    <3>3. QED
      BY <2>1, <3>1, <3>2 DEF DaySound
  <2>2. CASE d \notin Range(dates)
    <3>1. days'[d] = days[d] /\ DaySound(d)
      BY <1>4, <2>2, InvParts DEF StoreInv
    <3>2. days[d].batch # 0 =>
            /\ tx'[days[d].batch] = tx[days[d].batch]
            /\ outcome'[days[d].batch] = outcome[days[d].batch]
      BY <1>4, <1>5
    <3>3. QED
      BY <1>10, <3>1, <3>2 DEF DaySound
  <2>3. QED
    BY <2>1, <2>2
<1>13. Link(n, base)'
  <2>1. Covered(base)'
    BY <1>3, <1>8, InvParts DEF SignBatch, WriteSound
  <2>2. \A i \in DOMAIN dates : dates[i] \in Range(dates)
    BY DEF Range
  <2>3. tx'[n].dates = dates
    BY <1>4
  <2>4. QED
    BY <1>4, <2>1, <2>2, <2>3 DEF Link
<1>14. StoreInv'
  BY <1>4, <1>9, <1>11, <1>12, <1>13 DEF StoreInv, OnlyOnePending, LinksHold
<1>15. IdleSound' /\ HeightSound' /\ WriteSound' /\ SignSound'
       /\ ReportsMatchTheChain'
  <2>1. owner = "job" /\ answer = "none" /\ Covered(base)
        /\ Increasing(todo) /\ todo # <<>>
    BY <1>3, InvParts DEF SignBatch, WriteSound, IdleSound
  <2>2. Covered(base)'
    BY <1>8, <2>1
  <2>3. QED
    BY <1>3, <1>10, <2>1, <2>2 DEF IdleSound, HeightSound, WriteSound, SignSound,
       ReportsMatchTheChain
<1>16. SendSound'
  <2>1. /\ Increasing(todo) /\ todo # <<>>
        /\ \A i \in DOMAIN todo : days[todo[i]].batch = 0
    BY InvParts DEF SignBatch, WriteSound, SignSound
  <2>2. /\ Len(todo) \in Nat /\ Len(dates) \in Nat
        /\ DOMAIN dates = 1 .. Len(dates) /\ DOMAIN todo = 1 .. Len(todo)
        /\ Len(dates) <= Len(todo)
        /\ \A i \in 1 .. Len(dates) : dates[i] = todo[i]
        /\ \A i \in 1 .. Len(todo) : todo[i] \in Days
    BY <1>2, <2>1, InvParts, BatchTypes
  <2>3. ASSUME NEW i \in DOMAIN todo, i > Len(dates)
        PROVE  days'[todo[i]].batch = 0
    <3>1. \A j \in 1 .. Len(dates) : j \in DOMAIN todo /\ j < i /\ dates[j] = todo[j]
      BY <2>2, <2>3
    <3>2. \A j \in 1 .. Len(dates) : dates[j] < todo[i] /\ dates[j] \in Nat
      BY <2>1, <2>2, <3>1, DaysAreNumbers DEF Increasing
    <3>3. todo[i] \in Nat /\ todo[i] \in Days
      BY <2>2, DaysAreNumbers
    <3>4. \A j \in 1 .. Len(dates) : dates[j] # todo[i]
      BY <3>2, <3>3
    <3>5. todo[i] \notin Range(dates)
      BY <2>2, <3>4 DEF Range
    <3>6. QED
      BY <1>4, <2>1, <3>3, <3>5
  <2>4. Batch' = dates /\ Current' = n /\ n > 0
    BY <1>1, <1>2, <1>4, <1>5, <1>10 DEF Batch, Current
  <2>5. Link(Current, seen.chain)'
    BY <1>3, <1>10, <1>13, <2>4
  <2>6. QED
    BY <1>4, <1>10, <2>3, <2>4, <2>5 DEF SendSound
<1>17. QED
  BY <1>4, <1>14, <1>15, <1>16 DEF TelemetryInv, TaskInv

(* What the task knows of the batch it has signed.                         *)
LEMMA CurrentBatch ==
  ASSUME TelemetryInv, step \in {"send", "confirm"}
  PROVE  /\ Current \in DOMAIN tx /\ Pending = {Current}
         /\ tx[Current].dates = Batch /\ Link(Current, seen.chain)
         /\ owner = "job" /\ answer = "none" /\ seen.chain \in Entries
<1>1. /\ Current > 0 /\ Pending = {Current}
      /\ tx[Current].dates = Batch /\ Link(Current, seen.chain)
      /\ owner = "job" /\ answer = "none"
  BY InvParts DEF SendSound, WriteSound, IdleSound
<1>2. Current \in DOMAIN tx
  BY <1>1, InvParts, TxTypes DEF Current
<1>3. seen.chain \in Entries
  BY InvParts DEF Types, TaskTypes, SeenRecord
<1>4. QED
  BY <1>1, <1>2, <1>3

(* A batch that is under way, or lost, has changed nothing yet.            *)
LEMMA FateIsSame ==
  ASSUME TelemetryInv, NEW n \in DOMAIN tx, NEW fate \in {"inFlight", "lost"},
         SetFate(n, fate), storeVars' = storeVars, solanaVars' = solanaVars
  PROVE  /\ SameTx /\ SameRows /\ SolanaTypes' /\ StoreTypes'
         /\ IsPrefix(chain, chain')
<1>1. fate \in Fates /\ fate # "landed"
  BY DEF Fates
<1>2. /\ Len(tx') = Len(tx) /\ DOMAIN tx' = DOMAIN tx
      /\ \A m \in DOMAIN tx : tx'[m].dates = tx[m].dates
      /\ \A m \in DOMAIN tx : m # n => tx'[m] = tx[m]
      /\ tx'[n].fate = fate /\ StoreTypes'
  BY <1>1, InvParts, FateTypes, FateKeepsStoreTypes
<1>3. SolanaTypes' /\ chain' = chain /\ IsPrefix(chain, chain')
  BY InvParts, SolanaUnchanged
<1>4. SameTx
  BY <1>1, <1>2, <1>3, InvParts DEF SameTx, StoreInv, TxSound
<1>5. QED
  BY <1>2, <1>3, <1>4, SameStoreIsSame

LEMMA SendBatchKeeps ==
  ASSUME TelemetryInv, SendBatch
  PROVE  TelemetryInv'
<1>1. PICK n \in DOMAIN tx : n = Current
  BY CurrentBatch DEF SendBatch
<1>2. SetFate(n, "inFlight") /\ storeVars' = storeVars /\ solanaVars' = solanaVars
  BY <1>1 DEF SendBatch
<1>3. /\ SameTx /\ SameRows /\ SolanaTypes' /\ StoreTypes'
      /\ IsPrefix(chain, chain')
  BY <1>2, FateIsSame
<1>4. Types'
  <2>1. TaskTypes'
    BY InvParts DEF SendBatch, Types, TaskTypes
  <2>2. job' \in JobRecord /\ job'.until <= yesterday
    BY InvParts DEF SendBatch, Types, OtherTypes
  <2>3. OtherTypes'
    BY <2>2, InvParts, BoundTypes DEF SendBatch
  <2>4. QED
    BY <1>3, <2>1, <2>3 DEF Types
<1>5. StoreInv' /\ TaskInv' /\ ReportsMatchTheChain'
  BY <1>3, <1>4, InvParts, QuietKeepsStore, QuietKeepsTask, QuietKeepsReports
     DEF SendBatch
<1>6. QED
  BY <1>4, <1>5 DEF TelemetryInv

(* An error whose outcome is open: the batch stays pending.                *)
LEMMA LeftOpenKeeps ==
  ASSUME TelemetryInv, PreflightRejects \/ SendFails \/ ConfirmationFails
  PROVE  TelemetryInv'
<1>1. /\ Returns("none") /\ storeVars' = storeVars /\ solanaVars' = solanaVars
      /\ yesterday' = yesterday
  BY DEF PreflightRejects, SendFails, ConfirmationFails
<1>2. SameTx /\ SameRows /\ SolanaTypes' /\ StoreTypes' /\ IsPrefix(chain, chain')
  <2>1. CASE ConfirmationFails
    <3>1. tx' = tx /\ StoreTypes'
      BY <1>1, <2>1, InvParts, SameTxTypes DEF ConfirmationFails
    <3>2. SolanaTypes' /\ chain' = chain /\ IsPrefix(chain, chain')
      BY <1>1, InvParts, SolanaUnchanged
    <3>3. SameTx
      BY <3>1, <3>2, InvParts DEF SameTx, StoreInv, TxSound
    <3>4. QED
      BY <1>1, <3>1, <3>2, <3>3, SameStoreIsSame
  <2>2. CASE PreflightRejects \/ SendFails
    <3>1. PICK n \in DOMAIN tx : n = Current
      BY <2>2, CurrentBatch DEF PreflightRejects, SendFails
    <3>2. \E fate \in {"inFlight", "lost"} : SetFate(n, fate)
      BY <2>2, <3>1 DEF PreflightRejects, SendFails
    <3>3. QED
      BY <1>1, <3>2, FateIsSame
  <2>3. QED
    BY <2>1, <2>2
<1>3. TaskTypes' /\ job' \in JobRecord /\ job'.until <= yesterday
  BY <1>1, InvParts, ReturnTypes
<1>4. OtherTypes'
  <2>1. CASE PreflightRejects
    BY <1>3, <2>1, InvParts, BoundTypes DEF PreflightRejects
  <2>2. CASE SendFails \/ ConfirmationFails
    BY <1>3, <2>2, InvParts, TroubleTypes DEF SendFails, ConfirmationFails
  <2>3. QED
    BY <2>1, <2>2
<1>5. Types'
  BY <1>2, <1>3, <1>4 DEF Types
<1>6. QED
  BY <1>1, <1>2, <1>5, EndKeeps

(* What is left of the plan once the batch is written.                     *)
LEMMA RestTypes ==
  ASSUME Types, todo # <<>>, Increasing(todo)
  PROVE  LET rest == SubSeq(todo, Len(Batch) + 1, Len(todo)) IN
         /\ rest \in Seq(Days) /\ Increasing(rest)
         /\ \A i \in DOMAIN rest : \E j \in DOMAIN todo :
              j > Len(Batch) /\ rest[i] = todo[j]
<1> DEFINE k == Len(Batch)
           m == Len(todo)
           rest == SubSeq(todo, k + 1, m)
<1>1. /\ k \in Nat /\ m \in Nat /\ k <= m /\ DOMAIN todo = 1 .. m
      /\ \A i \in 1 .. m : todo[i] \in Days
  BY BatchTypes
<1> HIDE DEF k, m
<1>2. /\ rest \in Seq(Days) /\ Len(rest) = m - k
      /\ \A i \in 1 .. m - k : rest[i] = todo[k + i]
  <2>1. \A i \in k + 1 .. m : todo[i] \in Days
    BY <1>1
  <2>2. /\ rest \in Seq(Days)
        /\ Len(rest) = IF k + 1 <= m THEN m - (k + 1) + 1 ELSE 0
        /\ \A i \in 1 .. m - (k + 1) + 1 : rest[i] = todo[k + 1 + i - 1]
    BY <1>1, <2>1, SubSeqProperties
  <2>3. /\ (IF k + 1 <= m THEN m - (k + 1) + 1 ELSE 0) = m - k
        /\ m - (k + 1) + 1 = m - k
        /\ \A i \in 1 .. m - k : k + 1 + i - 1 = k + i
    BY <1>1
  <2>4. QED
    BY <2>2, <2>3
<1>3. DOMAIN rest = 1 .. m - k
  BY <1>2, LenProperties
<1>4. \A i \in 1 .. m - k : k + i \in DOMAIN todo /\ k + i > k
  BY <1>1
<1> HIDE DEF rest
<1>5. Increasing(rest)
  <2>1. \A i, j \in 1 .. m - k : i < j => k + i < k + j
    BY <1>1
  <2>2. \A i, j \in 1 .. m - k : i < j => todo[k + i] < todo[k + j]
    BY <1>4, <2>1 DEF Increasing
  <2>3. QED
    BY <1>2, <1>3, <2>2 DEF Increasing
<1>6. QED
  BY <1>2, <1>3, <1>4, <1>5 DEF rest, k, m

(* The whole batch is in the head that was planned.                        *)
LEMMA PlannedIsExtended ==
  ASSUME Types, todo # <<>>
  PROVE  PlannedHead(Len(Batch)) = Extended(seen.chain, Batch, Len(Batch))
  BY DEF PlannedHead, Extended

LEMMA BatchConfirmedKeeps ==
  ASSUME TelemetryInv, BatchConfirmed
  PROVE  TelemetryInv'
<1> DEFINE rest == SubSeq(todo, Len(Batch) + 1, Len(todo))
<1>1. /\ Current \in DOMAIN tx /\ Pending = {Current} /\ tx[Current].dates = Batch
      /\ Link(Current, seen.chain) /\ owner = "job" /\ answer = "none"
      /\ seen.chain \in Entries
  BY CurrentBatch DEF BatchConfirmed
<1>2. PICK n \in Pending : n = Current
  BY <1>1
<1>3. PICK base \in Entries : base = seen.chain
  BY <1>1
<1>4. /\ ConfirmSubmission(n) /\ tx' = tx /\ solanaVars' = solanaVars
      /\ tx[n].fate = "landed" /\ yesterday' = yesterday /\ boundVars' = boundVars
      /\ Link(n, base) /\ n \in DOMAIN tx
  BY <1>1, <1>2, <1>3 DEF BatchConfirmed
<1>5. /\ Increasing(todo) /\ todo # <<>>
      /\ \A i \in DOMAIN todo : i > Len(Batch) => days[todo[i]].batch = 0
  BY InvParts DEF BatchConfirmed, WriteSound, SendSound
<1>6. /\ rest \in Seq(Days) /\ Increasing(rest)
      /\ \A i \in DOMAIN rest : \E j \in DOMAIN todo :
           j > Len(Batch) /\ rest[i] = todo[j]
  BY <1>5, InvParts, RestTypes
<1>7. PICK top : top = Extended(base, tx[n].dates, Len(tx[n].dates))
  OBVIOUS
<1>8. top \in Entries /\ top = PlannedHead(Len(Batch))
  <2>1. tx[n].dates = Batch /\ Batch \in Seq(Days) /\ Len(Batch) \in 0 .. Len(Batch)
    <3>1. Batch \in Seq(Days) /\ Len(Batch) \in Nat
      BY <1>5, InvParts, BatchTypes
    <3>2. QED
      BY <1>1, <1>2, <3>1
  <2>2. top = PlannedHead(Len(Batch))
    BY <1>3, <1>5, <1>7, <2>1, InvParts, PlannedIsExtended
  <2>3. Extended(base, tx[n].dates, Len(tx[n].dates)) \in Entries
    BY <2>1, ExtendedElements
  <2>4. QED
    BY <1>7, <2>2, <2>3
<1> HIDE DEF rest
<1>9. \/ /\ Returns("in_sync")
      \/ /\ rest # <<>> /\ step' = "sign" /\ todo' = rest
         /\ seen' = [seen EXCEPT !.chain = top]
         /\ UNCHANGED <<owner, job, answer>>
  BY <1>8 DEF BatchConfirmed, rest
<1>10. SolanaTypes' /\ chain' = chain /\ StoreTypes'
  BY <1>4, InvParts, SolanaUnchanged, ConfirmTypes
<1>11. TaskTypes' /\ job' \in JobRecord /\ job'.until <= yesterday
  <2>1. CASE Returns("in_sync")
    BY <2>1, InvParts, ReturnTypes
  <2>2. CASE /\ step' = "sign" /\ todo' = rest
             /\ seen' = [seen EXCEPT !.chain = top]
             /\ UNCHANGED <<owner, job, answer>>
    <3>1. seen' \in SeenRecord
      BY <1>8, <2>2, InvParts DEF Types, TaskTypes, SeenRecord
    <3>2. QED
      BY <1>6, <2>2, <3>1, InvParts DEF Types, TaskTypes, OtherTypes
  <2>3. QED
    BY <1>9, <2>1, <2>2
<1>12. Types'
  BY <1>4, <1>10, <1>11, InvParts, BoundTypes DEF Types
<1>13. \A d \in Range(tx[n].dates) : Entry(d, "ours") \in Range(chain)
  BY <1>4, InvParts DEF StoreInv, TxSound
<1>14. /\ StoreInv' /\ Pending' = {} /\ Covered(top)'
       /\ \A d \in Days : days'[d].batch = days[d].batch
  BY <1>4, <1>7, <1>10, <1>12, <1>13, InvParts, ConfirmKeepsStore
<1>15. CASE Returns("in_sync")
  <2>1. TaskInv' /\ ReportsMatchTheChain'
    BY <1>1, <1>12, <1>15, ReturnKeepsTask
  <2>2. QED
    BY <1>12, <1>14, <2>1 DEF TelemetryInv
<1>16. CASE /\ rest # <<>> /\ step' = "sign" /\ todo' = rest
            /\ seen' = [seen EXCEPT !.chain = top]
            /\ UNCHANGED <<owner, job, answer>>
  <2>1. seen'.chain = top
    BY <1>16, InvParts DEF Types, TaskTypes, SeenRecord
  <2>2. IdleSound' /\ HeightSound' /\ SendSound' /\ ReportsMatchTheChain'
    BY <1>1, <1>16 DEF IdleSound, HeightSound, SendSound, ReportsMatchTheChain
  <2>3. WriteSound'
    BY <1>1, <1>6, <1>14, <1>16, <2>1 DEF WriteSound
  <2>4. SignSound'
    <3>1. \A j \in DOMAIN todo : todo[j] \in Days
      BY <1>5, InvParts, BatchTypes
    <3>2. \A i \in DOMAIN rest : days'[rest[i]].batch = 0
      BY <1>5, <1>6, <1>14, <3>1
    <3>3. QED
      BY <1>14, <1>16, <3>2 DEF SignSound
  <2>5. QED
    BY <1>12, <1>14, <2>2, <2>3, <2>4 DEF TelemetryInv, TaskInv
<1>17. QED
  BY <1>9, <1>15, <1>16

LEMMA BatchFailedKeeps ==
  ASSUME TelemetryInv, BatchFailed
  PROVE  TelemetryInv'
<1>1. PICK n \in Pending : n = Current /\ n \in DOMAIN tx
  BY CurrentBatch DEF BatchFailed
<1>2. PICK why \in {"failed", "expired"} : AbandonSubmission(n, why)
  BY <1>1 DEF BatchFailed
<1>3. /\ Returns("none") /\ tx' = tx /\ solanaVars' = solanaVars
      /\ yesterday' = yesterday /\ boundVars' = boundVars
  BY DEF BatchFailed
<1>4. SolanaTypes' /\ chain' = chain
  BY <1>3, InvParts, SolanaUnchanged
<1>5. Types'
  BY <1>1, <1>2, <1>3, <1>4, InvParts, AbandonTypes, ReturnTypes, BoundTypes DEF Types
<1>6. StoreInv'
  BY <1>2, <1>3, <1>4, <1>5, InvParts, AbandonKeepsStore
<1>7. TaskInv' /\ ReportsMatchTheChain'
  BY <1>3, <1>5, ReturnKeepsTask
<1>8. QED
  BY <1>5, <1>6, <1>7 DEF TelemetryInv
-----------------------------------------------------------------------------
(* The invariant holds at first, and every step keeps it.                  *)

LEMMA InitSound == Init => TelemetryInv
<1> SUFFICES ASSUME Init PROVE TelemetryInv
  OBVIOUS
<1>1. /\ LastDay \in Nat /\ MaxTroubles \in Nat /\ MaxCrashes \in Nat
      /\ MaxRotations \in Nat
  BY BoundsAssumption
<1>2. /\ \A d \in Days : days[d] = NoDay
      /\ days = [d \in Days |-> NoDay] /\ NoDay \in DayRecord
  BY NothingIsTyped DEF Init, NoDay, DayRecord
<1>3. Len(tx) = 0 /\ Len(outcome) = 0 /\ DOMAIN tx = {} /\ DOMAIN outcome = {}
  BY DEF Init
<1>4. StoreTypes
  <2>1. days \in [Days -> DayRecord]
    BY <1>2
  <2>2. \A d \in Days : days[d].batch <= Len(tx)
    BY <1>2, <1>3 DEF NoDay
  <2>3. QED
    BY <1>3, <2>1, <2>2, NothingIsTyped DEF Init, StoreTypes
<1>5. SolanaTypes
  BY NothingIsTyped, BoundsAssumption DEF Init, SolanaTypes, Lifecycles
<1>6. TaskTypes
  BY NothingIsTyped DEF Init, TaskTypes
<1>7. OtherTypes
  BY <1>1, NothingIsTyped DEF Init, OtherTypes, JobOff
<1>8. Pending = {} /\ ConfirmedDays = {}
  BY <1>2, <1>3 DEF Pending, ConfirmedDays, NoDay
<1>9. StoreInv
  BY <1>2, <1>3, <1>8 DEF StoreInv, OnlyOnePending, DaySound, HeadsAgree,
     LinksHold, NoDay
<1>10. TaskInv
  BY DEF Init, TaskInv, IdleSound, HeightSound, WriteSound, SignSound, SendSound
<1>11. ReportsMatchTheChain
  BY DEF Init, ReportsMatchTheChain
<1>12. QED
  BY <1>4, <1>5, <1>6, <1>7, <1>9, <1>10, <1>11 DEF TelemetryInv, Types

LEMMA NextSound == TelemetryInv /\ [Next]_vars => TelemetryInv'
<1> SUFFICES ASSUME TelemetryInv, [Next]_vars PROVE TelemetryInv'
  OBVIOUS
<1>1. CASE JobStarts \/ CollectDay \/ SyncStarts \/ RequestStarts
  BY <1>1, JobStartsKeeps, CollectDayKeeps, StartsKeep
<1>2. CASE Reconcile
  BY <1>2, EndsWithoutMatch, FindsBatchLandedKeeps, FindsBatchOpenKeeps,
     FindsInSyncKeeps, FindsStillValidKeeps, FindsExpiredKeeps DEF Reconcile
<1>3. CASE Write
  BY <1>3, SignBatchKeeps, SendBatchKeeps, LeftOpenKeeps, BatchConfirmedKeeps,
     BatchFailedKeeps DEF Write
<1>4. CASE Trouble
  BY <1>4, CollectFailsKeeps, TaskFailsKeeps, LeftOpenKeeps DEF Trouble
<1>5. CASE Cluster
  BY <1>5, LandsKeeps, ExpiresKeeps DEF Cluster
<1>6. CASE Surroundings
  BY <1>6, DayPassesKeeps, AdminKeeps, CrashKeeps, TheyRecordKeeps DEF Surroundings
<1>7. CASE UNCHANGED vars
  BY <1>7, StutterKeeps
<1>8. QED
  BY <1>1, <1>2, <1>3, <1>4, <1>5, <1>6, <1>7 DEF Next

(* TelemetryInv is inductive: what the database holds and what the task    *)
(* knows stay true of the chain at every step of the queue, of the cluster *)
(* and of the other oracle, and after every crash.                         *)
THEOREM TelemetryIsSound == Spec => []TelemetryInv
  BY InitSound, NextSound, PTL DEF Spec

LEMMA TypesAreTypes == TelemetryInv => TypeOK
<1> SUFFICES ASSUME TelemetryInv PROVE TypeOK
  OBVIOUS
<1>1. Cardinality(Pending) <= 1
  <2>1. CASE Pending = {}
    BY <2>1, FS_EmptySet
  <2>2. CASE Pending # {}
    <3>1. Pending = {PendingBatch}
      BY <2>2, InvParts, PendingIsOne
    <3>2. Cardinality({PendingBatch}) = 1
      BY FS_Singleton, Zenon
    <3>3. QED
      BY <3>1, <3>2
  <2>3. QED
    BY <2>1, <2>2
<1>2. days \in [Days -> [collected : BOOLEAN, batch : 0 .. Len(tx),
                         head : Seq(EntryRecord), confirmed : BOOLEAN]]
  <2>1. days \in [Days -> DayRecord] /\ Len(tx) \in Nat
        /\ \A d \in Days : days[d].batch <= Len(tx)
    BY InvParts, TxTypes DEF Types, StoreTypes
  <2>2. \A d \in Days : days[d] \in [collected : BOOLEAN, batch : 0 .. Len(tx),
                                     head : Seq(EntryRecord), confirmed : BOOLEAN]
    BY <2>1 DEF DayRecord, Entries
  <2>3. QED
    BY <2>1, <2>2
<1>3. /\ job.phase \in {"off", "collecting", "syncing"}
      /\ job.next \in Nat /\ job.until \in 0 .. yesterday
  BY InvParts DEF Types, OtherTypes, JobRecord
<1>4. QED
  BY <1>1, <1>2, <1>3, InvParts DEF TypeOK, Types, SolanaTypes, StoreTypes,
     TaskTypes, OtherTypes, Entries, TxRecord, Outcomes, SeenRecord

(* Types of the telemetry, and never a second batch of unknown outcome:    *)
(* reconcileNow may look at only one.                                      *)
THEOREM TypeCorrect == Spec => []TypeOK
  BY TelemetryIsSound, TypesAreTypes, PTL

LEMMA ConfirmedDaysAreEntries == TelemetryInv => ConfirmedIsOnChain
  BY InvParts DEF ConfirmedIsOnChain, ConfirmedDays, StoreInv, DaySound

(* telemetry.store.ts: a day it calls confirmed is on the chain, whatever  *)
(* calls were lost, wherever the process crashed, and whoever else writes. *)
THEOREM ConfirmedIsRecorded == Spec => []ConfirmedIsOnChain
  BY TelemetryIsSound, ConfirmedDaysAreEntries, PTL

LEMMA ReportsAreSound == TelemetryInv => ReportsMatchTheChain
  BY DEF TelemetryInv

(* reconcileNow: as long as the answer of a reconciliation that found no   *)
(* divergence is in use, every confirmed day's head is one of the chain.   *)
THEOREM TheReportsMatchTheChain == Spec => []ReportsMatchTheChain
  BY TelemetryIsSound, ReportsAreSound, PTL
=============================================================================
