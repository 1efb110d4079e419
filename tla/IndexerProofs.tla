----------------------------- MODULE IndexerProofs -----------------------------
(***************************************************************************)
(* The indexer, for any chains, page size, number of transactions, failed  *)
(* calls and restarts: the stored rows are a prefix of one chain's history *)
(* at all times, and no request for a sync is lost.                        *)
(***************************************************************************)
EXTENDS Indexer, TLAPS

LEMMA StepsOfNext ==
  ASSUME Next
  PROVE  \/ CheckChain \/ ListPage \/ SkipIndexed \/ StoreKnown
         \/ StartFetch \/ StoreFetched \/ FinishSync
         \/ CallFails \/ Wake \/ RetryFires
         \/ \E n \in 1 .. Landed : Notify(n)
         \/ Shutdown \/ Restart \/ CrashWhileBinding
         \/ \E c \in Chains, outcome \in Outcomes : Land(c, outcome)
         \/ CatchUp
  BY DEF Next, SyncStep

(* What RequestSync and EndSync may do to the variables they change.       *)
LEMMA RequestTypes ==
  ASSUME TypeOK, RequestSync
  PROVE  /\ step' \in Steps /\ pending' \in BOOLEAN
         /\ retry' \in {"none", "failure", "waiting"}
         /\ owed' \in {"none", "asked", "again"}
  BY DEF TypeOK, RequestSync, FirstStep, Steps

LEMMA EndTypes ==
  ASSUME TypeOK, NEW outcome \in {"live", "retrying", "halted"},
         NEW delay \in {"none", "failure", "waiting"}, EndSync(outcome, delay)
  PROVE  /\ phase' \in {"starting", "live", "retrying", "halted"}
         /\ step' \in Steps /\ pending' \in BOOLEAN
         /\ retry' \in {"none", "failure", "waiting"}
         /\ owed' \in {"none", "asked", "again"}
         /\ high' = 0 /\ low' = 0 /\ at' = 0
  BY DEF TypeOK, EndSync, FirstStep, Steps

LEMMA LandedIsNat ==
  ASSUME TypeOK
  PROVE  Landed \in Nat /\ 0 \in 0 .. Landed
  BY DEF TypeOK, Landed

LEMMA InitTypes == Init => TypeOK
<1> SUFFICES ASSUME Init PROVE TypeOK
  OBVIOUS
<1>1. /\ chain \in [Chains -> Seq(Outcomes)] /\ serves \in Chains
      /\ Landed = 0
  BY DEF Init, Landed
<1>2. /\ rows \in Seq([of : Chains, tx : Nat, events : BOOLEAN])
      /\ listed = 0 /\ high = 0 /\ cursor \in Nat /\ low \in Nat /\ at \in Nat
      /\ failures \in Nat /\ restarts \in Nat
  BY DEF Init
<1>3. /\ genesis \in Chains \cup {NoChain} /\ program \in BOOLEAN
      /\ phase \in {"starting", "live", "retrying", "halted"}
      /\ checked \in BOOLEAN /\ step \in Steps
      /\ pending \in BOOLEAN /\ stopped \in BOOLEAN
      /\ retry \in {"none", "failure", "waiting"}
      /\ owed \in {"none", "asked", "again"}
  BY DEF Init, Steps
<1>4. QED
  BY <1>1, <1>2, <1>3 DEF TypeOK

LEMMA PageBottomIsNat ==
  ASSUME NEW top \in Nat, NEW floor \in Nat
  PROVE  PageBottom(top, floor) \in Nat
  BY IndexerAssumption DEF PageBottom

LEMMA ListPageTypes ==
  ASSUME TypeOK, ListPage
  PROVE  TypeOK'
<1>1. PICK n \in listed .. Landed :
        LET top == IF high = 0 THEN n ELSE low IN
        /\ high # 0 => n > low
        /\ \E floor \in Floors(n, top) :
             LET bottom == PageBottom(top, floor) IN
             /\ high' = IF high = 0 THEN n ELSE high
             /\ low' = bottom
             /\ IF IsLastPage(top, bottom)
                THEN step' = "store" /\ at' = bottom + 1
                ELSE UNCHANGED <<step, at>>
  BY DEF ListPage
<1> DEFINE top == IF high = 0 THEN n ELSE low
<1>2. PICK floor \in Floors(n, top) :
        /\ high' = IF high = 0 THEN n ELSE high
        /\ low' = PageBottom(top, floor)
        /\ \/ step' = "store" /\ at' = PageBottom(top, floor) + 1
           \/ UNCHANGED <<step, at>>
  BY <1>1
<1>3. n \in 0 .. Landed /\ top \in Nat /\ floor \in Nat
  BY LandedIsNat DEF TypeOK, Floors
<1>4. high' \in 0 .. Landed
  BY <1>2, <1>3 DEF TypeOK
<1> HIDE DEF top
<1>5. low' \in Nat /\ at' \in Nat /\ step' \in Steps
  <2>1. PageBottom(top, floor) \in Nat
    BY <1>3, PageBottomIsNat
  <2>2. CASE step' = "store" /\ at' = PageBottom(top, floor) + 1
    BY <2>1, <2>2, <1>2 DEF Steps
  <2>3. CASE UNCHANGED <<step, at>>
    BY <2>1, <2>3, <1>2 DEF TypeOK
  <2>4. QED
    BY <1>2, <2>2, <2>3
<1>6. /\ owed' \in {"none", "asked", "again"}
      /\ UNCHANGED <<chain, serves, listed, genesis, program, rows, cursor,
                     phase, checked, pending, retry, stopped,
                     failures, restarts>>
  BY DEF ListPage, TypeOK, rpcVars, bindVars, storeVars, bounds
<1>7. Landed' = Landed
  BY <1>6 DEF Landed
<1>8. QED
  BY <1>4, <1>5, <1>6, <1>7 DEF TypeOK

LEMMA RecordTypes ==
  ASSUME TypeOK, Record(at)
  PROVE  /\ rows' \in Seq([of : Chains, tx : Nat, events : BOOLEAN])
         /\ cursor' \in Nat /\ at' \in Nat
<1>1. Recorded(at) \in [of : Chains, tx : Nat, events : BOOLEAN]
  BY DEF TypeOK, Recorded, Failed
<1>2. cursor' \in Nat /\ at' \in Nat
  BY DEF TypeOK, Record
<1>3. rows' = rows \/ rows' = Append(rows, Recorded(at))
  BY DEF Record
<1> HIDE DEF Recorded
<1> DEFINE R == [of : Chains, tx : Nat, events : BOOLEAN]
<1>4. rows \in Seq(R) /\ Recorded(at) \in R
  BY <1>1 DEF TypeOK
<1> HIDE DEF R
<1>5. Append(rows, Recorded(at)) \in Seq(R)
  BY <1>4
<1>6. rows' \in Seq(R)
  BY <1>3, <1>4, <1>5
<1>7. QED
  BY <1>2, <1>6 DEF R

LEMMA TypeStep ==
  ASSUME TypeOK, [Next]_vars
  PROVE  TypeOK'
<1> USE DEF rpcVars, bindVars, storeVars, syncVars, bounds
<1>1. CASE CheckChain
  <2>1. /\ genesis' \in Chains \cup {NoChain} /\ program' \in BOOLEAN
        /\ checked' \in BOOLEAN
    BY <1>1 DEF CheckChain, TypeOK
  <2>2. /\ phase' \in {"starting", "live", "retrying", "halted"}
        /\ step' \in Steps /\ pending' \in BOOLEAN
        /\ retry' \in {"none", "failure", "waiting"}
        /\ owed' \in {"none", "asked", "again"}
        /\ high' \in 0 .. Landed /\ low' \in Nat /\ at' \in Nat
    <3>1. CASE EndSync("halted", "none")
      BY <3>1, EndTypes, LandedIsNat
    <3>2. CASE step' = "list" /\ UNCHANGED <<phase, retry, pending, owed, syncVars>>
      BY <3>2 DEF TypeOK, Steps
    <3>3. QED
      BY <1>1, <3>1, <3>2 DEF CheckChain
  <2>3. UNCHANGED <<chain, serves, listed, rows, cursor, stopped,
                    failures, restarts>>
    BY <1>1 DEF CheckChain
  <2>4. Landed' = Landed
    BY <2>3 DEF Landed
  <2>5. QED
    BY <2>1, <2>2, <2>3, <2>4 DEF TypeOK
<1>2. CASE ListPage
  BY <1>2, ListPageTypes
<1>3. CASE SkipIndexed
  BY <1>3 DEF SkipIndexed, TypeOK, Landed
<1>4. CASE StoreKnown \/ StoreFetched
  <2>1. /\ Record(at) /\ step' \in Steps
        /\ UNCHANGED <<chain, serves, listed, genesis, program, phase, checked,
                       high, low, pending, retry, stopped, owed,
                       failures, restarts>>
    BY <1>4 DEF StoreKnown, StoreFetched, TypeOK, Steps
  <2>2. Landed' = Landed
    BY <2>1 DEF Landed
  <2>3. QED
    BY <2>1, <2>2, RecordTypes DEF TypeOK
<1>5. CASE StartFetch
  BY <1>5 DEF StartFetch, TypeOK, Landed, Steps
<1>6. CASE FinishSync \/ CallFails
  <2>1. /\ \/ \E delay \in {"none", "failure", "waiting"} : EndSync("live", delay)
           \/ EndSync("retrying", "failure")
        /\ failures' \in Nat
        /\ UNCHANGED <<chain, serves, listed, genesis, program, rows, cursor,
                       checked, stopped, restarts>>
    <3>1. CASE CallFails
      BY <3>1 DEF CallFails, TypeOK
    <3>2. CASE FinishSync
      <4>1. \A left : DelayFor(left) \in {"none", "failure", "waiting"}
        BY DEF DelayFor
      <4> HIDE DEF EndSync
      <4>2. /\ \E delay \in {"none", "failure", "waiting"} : EndSync("live", delay)
            /\ UNCHANGED <<chain, serves, listed, genesis, program, rows, cursor,
                           checked, stopped, failures, restarts>>
        BY <3>2, <4>1, Zenon DEF FinishSync
      <4>3. QED
        BY <4>2 DEF TypeOK
    <3>3. QED
      BY <1>6, <3>1, <3>2
  <2>2. /\ phase' \in {"starting", "live", "retrying", "halted"}
        /\ step' \in Steps /\ pending' \in BOOLEAN
        /\ retry' \in {"none", "failure", "waiting"}
        /\ owed' \in {"none", "asked", "again"}
        /\ high' = 0 /\ low' = 0 /\ at' = 0
    BY <2>1, EndTypes
  <2>3. Landed' = Landed
    BY <2>1 DEF Landed
  <2>4. 0 \in 0 .. Landed /\ 0 \in Nat
    BY LandedIsNat
  <2>5. QED
    BY <2>1, <2>2, <2>3, <2>4 DEF TypeOK
<1>7. CASE Wake
  <2>1. /\ RequestSync
        /\ UNCHANGED <<chain, serves, listed, genesis, program, rows, cursor,
                       phase, checked, high, low, at, stopped,
                       failures, restarts>>
    BY <1>7 DEF Wake
  <2>2. /\ step' \in Steps /\ pending' \in BOOLEAN
        /\ retry' \in {"none", "failure", "waiting"}
        /\ owed' \in {"none", "asked", "again"}
    BY <2>1, RequestTypes
  <2>3. Landed' = Landed
    BY <2>1 DEF Landed
  <2>4. QED
    BY <2>1, <2>2, <2>3 DEF TypeOK
<1>8. CASE RetryFires
  BY <1>8 DEF RetryFires, TypeOK, Landed, FirstStep, Steps
<1>9. ASSUME NEW n \in 1 .. Landed, Notify(n)
      PROVE  TypeOK'
  <2>1. /\ RequestSync
        /\ UNCHANGED <<chain, serves, listed, genesis, program, rows, cursor,
                       phase, checked, high, low, at, stopped,
                       failures, restarts>>
    BY <1>9 DEF Notify
  <2>2. /\ step' \in Steps /\ pending' \in BOOLEAN
        /\ retry' \in {"none", "failure", "waiting"}
        /\ owed' \in {"none", "asked", "again"}
    BY <2>1, RequestTypes
  <2>3. Landed' = Landed
    BY <2>1 DEF Landed
  <2>4. QED
    BY <2>1, <2>2, <2>3 DEF TypeOK
<1>10. CASE Shutdown
  BY <1>10 DEF Shutdown, TypeOK, Landed
<1>11. CASE Restart \/ CrashWhileBinding
  <2>1. Boot /\ genesis' \in Chains \cup {NoChain} /\ UNCHANGED program
    BY <1>11 DEF Restart, CrashWhileBinding, TypeOK
  <2>2. /\ chain' \in [Chains -> Seq(Outcomes)] /\ serves' \in Chains
        /\ Landed' \in Nat
    BY <2>1 DEF Boot, TypeOK, Landed
  <2>3. /\ listed' = 0 /\ high' = 0 /\ low' = 0 /\ at' = 0
        /\ cursor' \in Nat /\ failures' \in Nat /\ restarts' \in Nat
        /\ rows' \in Seq([of : Chains, tx : Nat, events : BOOLEAN])
        /\ program' \in BOOLEAN
    BY <2>1 DEF Boot, TypeOK
  <2>4. /\ phase' \in {"starting", "live", "retrying", "halted"}
        /\ checked' \in BOOLEAN /\ step' \in Steps
        /\ pending' \in BOOLEAN /\ stopped' \in BOOLEAN
        /\ retry' \in {"none", "failure", "waiting"}
        /\ owed' \in {"none", "asked", "again"}
    BY <2>1 DEF Boot, Steps
  <2>5. QED
    BY <2>1, <2>2, <2>3, <2>4 DEF TypeOK
<1>12. ASSUME NEW c \in Chains, NEW outcome \in Outcomes, Land(c, outcome)
       PROVE  TypeOK'
  <2>1. chain' = [chain EXCEPT ![c] = Append(@, outcome)]
    BY <1>12 DEF Land
  <2>2. chain' \in [Chains -> Seq(Outcomes)]
    BY <2>1 DEF TypeOK
  <2>3. Landed \in Nat /\ Landed' \in Nat /\ Landed' >= Landed
    BY <1>12, <2>1 DEF Land, TypeOK, Landed
  <2>4. QED
    BY <1>12, <2>2, <2>3 DEF Land, TypeOK
<1>13. CASE CatchUp
  BY <1>13, LandedIsNat DEF CatchUp, TypeOK, Landed
<1>14. CASE UNCHANGED vars
  BY <1>14 DEF vars, TypeOK, Landed
<1>15. QED
  BY <1>1, <1>2, <1>3, <1>4, <1>5, <1>6, <1>7, <1>8, <1>9, <1>10, <1>11,
     <1>12, <1>13, <1>14, StepsOfNext

(* Every reachable state is well typed, for any values of the constants.   *)
THEOREM TypesAreInvariant == Spec => []TypeOK
  BY InitTypes, TypeStep, PTL DEF Spec
-----------------------------------------------------------------------------
(* No request for a sync is lost.                                          *)

(* A request that is owed an answer is always somebody's business: a timer *)
(* runs only while no sync does, a halted indexer does nothing, and a sync *)
(* that already listed owes only what was asked before it began.           *)
RequestInv ==
  /\ step \in {"idle", "check"} => high = 0
  /\ retry # "none" => step = "idle" /\ ~stopped
  /\ phase = "halted" => step = "idle" /\ retry = "none"
  /\ Accepting /\ owed = "asked" =>
       retry # "none" \/ step = "check" \/ (step = "list" /\ high = 0)
  /\ Accepting /\ owed = "again" => pending /\ step # "idle"
  /\ Accepting /\ notified # <<>> => step # "idle" \/ retry # "none"

LEMMA InitRequests == Init => RequestInv
  BY DEF Init, RequestInv, Accepting

LEMMA RequestsStep ==
  ASSUME TypeOK, RequestInv, [Next]_vars
  PROVE  RequestInv'
<1> USE DEF rpcVars, bindVars, storeVars, syncVars, bounds, RequestInv,
            Accepting, FirstStep
<1>1. CASE CheckChain
  BY <1>1 DEF CheckChain, EndSync
<1>2. CASE ListPage
  <2>1. /\ step = "list" /\ step' \in {"list", "store"}
        /\ owed' = IF high = 0 /\ owed = "asked" THEN "none" ELSE owed
        /\ UNCHANGED <<phase, pending, retry, stopped, notified>>
    BY <1>2 DEF ListPage
  <2>2. QED
    BY <2>1
<1>3. CASE SkipIndexed \/ StoreKnown \/ StartFetch \/ StoreFetched
  BY <1>3 DEF SkipIndexed, StoreKnown, StartFetch, StoreFetched, Record
<1>4. CASE FinishSync
  <2>1. PICK left : /\ notified' = IF stopped THEN notified ELSE left
                    /\ EndSync("live", DelayFor(left))
    BY <1>4, Zenon DEF FinishSync
  <2>2. step = "store" /\ UNCHANGED stopped
    BY <1>4 DEF FinishSync
  <2>3. QED
    BY <2>1, <2>2 DEF EndSync, DelayFor
<1>5. CASE CallFails
  BY <1>5 DEF CallFails, EndSync
<1>6. CASE Wake
  BY <1>6 DEF Wake, RequestSync
<1>7. CASE RetryFires
  BY <1>7 DEF RetryFires
<1>8. ASSUME NEW n \in 1 .. Landed, Notify(n)
      PROVE  RequestInv'
  <2>1. RequestSync /\ UNCHANGED <<phase, high, stopped>>
    BY <1>8 DEF Notify
  <2>2. QED
    BY <2>1 DEF RequestSync
<1>9. CASE Shutdown
  BY <1>9 DEF Shutdown
<1>10. CASE Restart \/ CrashWhileBinding
  <2>1. Boot
    BY <1>10 DEF Restart, CrashWhileBinding
  <2>2. QED
    BY <2>1 DEF Boot
<1>11. ASSUME NEW c \in Chains, NEW outcome \in Outcomes, Land(c, outcome)
       PROVE  RequestInv'
  BY <1>11 DEF Land
<1>12. CASE CatchUp
  BY <1>12 DEF CatchUp
<1>13. CASE UNCHANGED vars
  BY <1>13 DEF vars
<1>14. QED
  BY <1>1, <1>2, <1>3, <1>4, <1>5, <1>6, <1>7, <1>8, <1>9, <1>10, <1>11,
     <1>12, <1>13, StepsOfNext

(* A request for a sync is never lost, and a failed sync's delay holds, in *)
(* any order of notifications, polls, failures, shutdowns and restarts:    *)
(* indexer.service.ts, requestSync and runOnce.                            *)
THEOREM NoRequestIsLost == Spec => []RequestsAreServed
<1>1. TypeOK /\ RequestInv => RequestsAreServed
  BY DEF TypeOK, RequestInv, RequestsAreServed, Accepting
<1>2. QED
  BY InitTypes, TypeStep, InitRequests, RequestsStep, <1>1, PTL DEF Spec
-----------------------------------------------------------------------------
(* The stored rows are a prefix of one chain's history.                    *)

(* The rows mirror the remembered chain, the cursor is inside them, a sync *)
(* works on that chain, and what it stores next is not past the first      *)
(* missing transaction.                                                    *)
Mirrored ==
  /\ genesis = NoChain => Len(rows) = 0
  /\ genesis # NoChain => Len(rows) <= Len(chain[genesis])
  /\ \A i \in 1 .. Len(rows) : rows[i] = Promise!Row(genesis, i)
  /\ cursor <= Len(rows)

OnOurChain ==
  checked \/ step \in {"list", "store", "fetch"} => genesis = serves

InOrder ==
  /\ step \in {"store", "fetch"} => 1 <= at /\ at <= Len(rows) + 1
  /\ step = "fetch" => at <= high

SyncInv == Mirrored /\ OnOurChain /\ InOrder

LEMMA InitSync == Init => SyncInv
  BY DEF Init, SyncInv, Mirrored, OnOurChain, InOrder

LEMMA RowFields ==
  \A c, i : Promise!Row(c, i).of = c /\ Promise!Row(c, i).tx = i
  BY DEF Promise!Row

(* A sync is under way only on the chain the database remembers.           *)
LEMMA SyncingChain ==
  ASSUME TypeOK, SyncInv, step \in {"list", "store", "fetch"}
  PROVE  genesis = serves /\ genesis \in Chains /\ genesis # NoChain
  BY IndexerAssumption DEF TypeOK, SyncInv, OnOurChain

(* What is indexed is exactly the prefix that is stored.                   *)
LEMMA IndexedIsPrefix ==
  ASSUME TypeOK, SyncInv, step \in {"store", "fetch"}
  PROVE  IsIndexed(at) <=> at <= Len(rows)
<1>1. genesis = serves
  BY SyncingChain
<1>2. \A i \in 1 .. Len(rows) : rows[i].of = serves /\ rows[i].tx = i
  BY <1>1, RowFields DEF SyncInv, Mirrored
<1>3. Len(rows) \in Nat /\ DOMAIN rows = 1 .. Len(rows) /\ at \in Nat /\ 1 <= at
  BY DEF TypeOK, SyncInv, InOrder
<1>4. QED
  BY <1>2, <1>3 DEF IsIndexed

(* What record writes is the row of the first missing transaction.         *)
LEMMA RecordIsMirror ==
  ASSUME TypeOK, SyncInv, step \in {"store", "fetch"}, at <= high, Record(at),
         UNCHANGED <<chain, genesis>>
  PROVE  /\ Mirrored'
         /\ at' = at + 1 /\ at' <= Len(rows)' + 1
         /\ Promise!Mirror \/ rows' = rows
<1>1. genesis = serves /\ genesis \in Chains /\ genesis # NoChain
  BY SyncingChain
<1>2. /\ Len(rows) \in Nat /\ at \in Nat /\ 1 <= at /\ at <= Len(rows) + 1
      /\ cursor \in Nat /\ high \in Nat /\ at <= Len(chain[serves])
  BY LandedIsNat DEF TypeOK, SyncInv, InOrder, Landed
<1>3. cursor' = at /\ at' = at + 1
  BY DEF Record
<1>4. CASE IsIndexed(at)
  <2>1. rows' = rows /\ at <= Len(rows)
    BY <1>4, IndexedIsPrefix DEF Record
  <2>2. Mirrored'
    BY <2>1, <1>3 DEF SyncInv, Mirrored, Promise!Row
  <2>3. QED
    BY <1>2, <1>3, <2>1, <2>2
<1>5. CASE ~IsIndexed(at)
  <2>1. at = Len(rows) + 1
    BY <1>2, <1>5, IndexedIsPrefix
  <2>2. rows' = Append(rows, Recorded(at))
    BY <1>5 DEF Record
  <2>3. chain[serves] \in Seq(Outcomes)
    BY DEF TypeOK
  <2>4. chain[serves][at] \in Outcomes
    BY <1>2, <2>3
  <2>5. Failed(at) <=> chain[genesis][at] # "ok"
    BY <1>1, <2>4 DEF Failed, Outcomes
  <2>6. Recorded(at) = Promise!Row(genesis, at)
    BY <1>1, <2>5, Zenon DEF Recorded, Promise!Row
  <2>7. Promise!Mirror
    BY <1>1, <1>2, <2>1, <2>2, <2>6 DEF Promise!Mirror
  <2> HIDE DEF Recorded
  <2>8. /\ Len(rows') = at /\ rows'[at] = Recorded(at)
        /\ \A i \in 1 .. Len(rows) : rows'[i] = rows[i]
    BY <2>1, <2>2 DEF TypeOK
  <2>9. \A i \in 1 .. Len(rows') : rows'[i] = Promise!Row(genesis, i)
    BY <1>2, <2>1, <2>6, <2>8 DEF SyncInv, Mirrored
  <2>10. Mirrored'
    BY <1>1, <1>2, <1>3, <2>8, <2>9 DEF Mirrored, Promise!Row
  <2>11. QED
    BY <1>2, <1>3, <2>7, <2>8, <2>10
<1>6. QED
  BY <1>4, <1>5

(* The last page ends at the cursor or at the beginning.                   *)
LEMMA LastPageEndsAtItsFloor ==
  ASSUME NEW top \in Nat, NEW floor \in Nat,
         IsLastPage(top, PageBottom(top, floor))
  PROVE  PageBottom(top, floor) = floor
  BY IndexerAssumption DEF IsLastPage, PageBottom

LEMMA ListPageInOrder ==
  ASSUME TypeOK, SyncInv, ListPage
  PROVE  InOrder' /\ step' \in {"list", "store"}
<1>1. PICK n \in listed .. Landed :
        LET top == IF high = 0 THEN n ELSE low IN
        \E floor \in Floors(n, top) :
          IF IsLastPage(top, PageBottom(top, floor))
          THEN step' = "store" /\ at' = PageBottom(top, floor) + 1
          ELSE UNCHANGED <<step, at>>
  BY DEF ListPage
<1> DEFINE top == IF high = 0 THEN n ELSE low
<1>2. PICK floor \in Floors(n, top) :
          IF IsLastPage(top, PageBottom(top, floor))
          THEN step' = "store" /\ at' = PageBottom(top, floor) + 1
          ELSE UNCHANGED <<step, at>>
  BY <1>1
<1>3. top \in Nat /\ floor \in {0, cursor} /\ floor \in Nat
  BY LandedIsNat DEF TypeOK, Floors
<1>4. step = "list" /\ UNCHANGED rows
  BY DEF ListPage, storeVars
<1>5. floor <= Len(rows) /\ Len(rows) \in Nat
  BY <1>3 DEF TypeOK, SyncInv, Mirrored
<1> HIDE DEF top
<1>6. CASE IsLastPage(top, PageBottom(top, floor))
  <2>1. step' = "store" /\ at' = floor + 1
    BY <1>2, <1>3, <1>6, LastPageEndsAtItsFloor
  <2>2. QED
    BY <1>3, <1>4, <1>5, <2>1 DEF InOrder
<1>7. CASE ~IsLastPage(top, PageBottom(top, floor))
  BY <1>2, <1>4, <1>7 DEF InOrder
<1>8. QED
  BY <1>6, <1>7

(* Where a request and the end of a sync may take the running step.        *)
LEMMA RequestMoves ==
  ASSUME RequestSync
  PROVE  step' = step \/ step' = "check" \/ (step' = "list" /\ checked)
  BY DEF RequestSync, FirstStep

LEMMA EndMoves ==
  ASSUME NEW outcome, NEW delay, EndSync(outcome, delay)
  PROVE  step' \in {"idle", "check"} \/ (step' = "list" /\ checked)
  BY DEF EndSync, FirstStep

LEMMA LandKeepsRows ==
  ASSUME TypeOK, SyncInv, NEW c \in Chains, NEW outcome \in Outcomes,
         Land(c, outcome)
  PROVE  Mirrored'
<1>1. /\ chain' = [chain EXCEPT ![c] = Append(@, outcome)]
      /\ UNCHANGED <<genesis, rows, cursor>>
  BY DEF Land, bindVars, storeVars
<1>2. CASE genesis = NoChain
  BY <1>1, <1>2 DEF SyncInv, Mirrored, TypeOK
<1>3. CASE genesis \in Chains
  <2>1. /\ chain[genesis] \in Seq(Outcomes)
        /\ chain'[genesis] \in {chain[genesis], Append(chain[genesis], outcome)}
        /\ Len(rows) \in Nat
    BY <1>1, <1>3 DEF TypeOK
  <2>2. /\ Len(chain[genesis]) <= Len(chain'[genesis])
        /\ Len(chain[genesis]) \in Nat /\ Len(chain'[genesis]) \in Nat
        /\ \A i \in 1 .. Len(chain[genesis]) :
             chain'[genesis][i] = chain[genesis][i]
    <3>1. CASE chain'[genesis] = chain[genesis]
      BY <2>1, <3>1
    <3>2. CASE chain'[genesis] = Append(chain[genesis], outcome)
      BY <2>1, <3>2
    <3>3. QED
      BY <2>1, <3>1, <3>2
  <2>3. Len(rows) <= Len(chain[genesis])
    BY <1>3, IndexerAssumption DEF SyncInv, Mirrored
  <2>4. \A i \in 1 .. Len(rows) : rows[i] = Promise!Row(genesis, i)'
    BY <1>1, <2>1, <2>2, <2>3 DEF SyncInv, Mirrored, Promise!Row
  <2>5. QED
    BY <1>1, <1>3, <2>1, <2>2, <2>3, <2>4, IndexerAssumption
       DEF SyncInv, Mirrored
<1>4. QED
  BY <1>2, <1>3 DEF TypeOK

(* Every step preserves SyncInv and is a step of the promise or none.      *)
LEMMA SyncStepHolds ==
  ASSUME TypeOK, SyncInv, [Next]_vars
  PROVE  SyncInv' /\ (Promise!Next \/ UNCHANGED Promise!vars)
<1> USE DEF rpcVars, bindVars, storeVars, syncVars, bounds
<1>0. ASSUME UNCHANGED <<chain, genesis, rows, cursor>>
      PROVE  Mirrored' /\ UNCHANGED Promise!vars
  BY <1>0 DEF SyncInv, Mirrored, Promise!Row, Promise!vars
<1>1. CASE CheckChain
  <2>1. OnOurChain' /\ InOrder'
    <3>1. CASE EndSync("halted", "none") /\ UNCHANGED <<genesis, serves, checked>>
      BY <3>1, EndMoves DEF SyncInv, OnOurChain, InOrder
    <3>2. CASE step' = "list" /\ genesis' = serves /\ UNCHANGED serves
      BY <3>2 DEF OnOurChain, InOrder
    <3>3. QED
      BY <1>1, <3>1, <3>2 DEF CheckChain, BelongsToUs
  <2>2. CASE genesis = NoChain
    <3>1. Promise!Choose(serves) /\ UNCHANGED <<chain, rows, cursor>>
      BY <1>1, <2>2 DEF CheckChain, Promise!Choose
    <3>2. Promise!Next
      BY <3>1 DEF Promise!Next, TypeOK
    <3>3. Len(rows) = 0 /\ cursor <= 0
      BY <2>2 DEF SyncInv, Mirrored
    <3>4. Len(chain[serves]) \in Nat
      BY LandedIsNat DEF Landed
    <3>5. Mirrored'
      BY <1>1, <2>2, <3>1, <3>3, <3>4 DEF CheckChain, Mirrored
    <3>6. QED
      BY <2>1, <3>2, <3>5 DEF SyncInv
  <2>3. CASE genesis # NoChain
    <3>1. UNCHANGED <<chain, genesis, rows, cursor>>
      BY <1>1, <2>3 DEF CheckChain
    <3>2. QED
      BY <1>0, <2>1, <3>1 DEF SyncInv
  <2>4. QED
    BY <2>2, <2>3
<1>2. CASE ListPage
  <2>1. UNCHANGED <<chain, genesis, rows, cursor, serves, checked>>
    BY <1>2 DEF ListPage
  <2>2. step = "list"
    BY <1>2 DEF ListPage
  <2>3. OnOurChain'
    BY <2>1, <2>2, SyncingChain DEF OnOurChain
  <2>4. QED
    BY <1>0, <1>2, <2>1, <2>3, ListPageInOrder DEF SyncInv
<1>3. CASE SkipIndexed
  <2>1. /\ step = "store" /\ IsIndexed(at) /\ cursor' = at /\ at' = at + 1
        /\ UNCHANGED <<chain, genesis, rows, serves, checked, step>>
    BY <1>3 DEF SkipIndexed
  <2>2. at <= Len(rows) /\ at \in Nat /\ Len(rows) \in Nat
    BY <2>1, IndexedIsPrefix DEF TypeOK
  <2>3. Mirrored'
    BY <2>1, <2>2 DEF SyncInv, Mirrored, Promise!Row
  <2>4. OnOurChain' /\ InOrder'
    BY <2>1, <2>2 DEF SyncInv, OnOurChain, InOrder
  <2>5. QED
    BY <2>1, <2>3, <2>4 DEF SyncInv, Promise!vars
<1>4. CASE StoreKnown \/ StoreFetched
  <2>1. /\ step \in {"store", "fetch"} /\ step' = "store"
        /\ at <= high /\ Record(at)
        /\ UNCHANGED <<chain, genesis, serves, checked>>
    BY <1>4 DEF StoreKnown, StoreFetched, SyncInv, InOrder
  <2>2. /\ Mirrored' /\ at' = at + 1 /\ at' <= Len(rows)' + 1
        /\ Promise!Mirror \/ rows' = rows
    BY <2>1, RecordIsMirror
  <2>3. OnOurChain'
    BY <2>1, SyncingChain DEF OnOurChain
  <2>4. InOrder'
    BY <2>1, <2>2 DEF InOrder, SyncInv, TypeOK
  <2>5. QED
    BY <2>1, <2>2, <2>3, <2>4 DEF SyncInv, Promise!Next, Promise!vars
<1>5. CASE StartFetch
  <2>1. /\ step = "store" /\ step' = "fetch" /\ at <= high
        /\ UNCHANGED <<chain, genesis, rows, cursor, serves, checked, at, high>>
    BY <1>5 DEF StartFetch
  <2>2. OnOurChain' /\ InOrder'
    BY <2>1 DEF SyncInv, OnOurChain, InOrder
  <2>3. QED
    BY <1>0, <2>1, <2>2 DEF SyncInv
<1>6. CASE FinishSync \/ CallFails
  <2>1. /\ \E outcome, delay : EndSync(outcome, delay)
        /\ UNCHANGED <<chain, genesis, rows, cursor, serves, checked>>
    <3>1. CASE CallFails
      BY <3>1 DEF CallFails
    <3>2. CASE FinishSync
      BY <3>2, Zenon DEF FinishSync
    <3>3. QED
      BY <1>6, <3>1, <3>2
  <2>2. step' \in {"idle", "check"} \/ (step' = "list" /\ checked)
    BY <2>1, EndMoves
  <2>3. OnOurChain' /\ InOrder'
    BY <2>1, <2>2 DEF SyncInv, OnOurChain, InOrder
  <2>4. QED
    BY <1>0, <2>1, <2>3 DEF SyncInv
<1>7. CASE Wake \/ \E n \in 1 .. Landed : Notify(n)
  <2>1. /\ RequestSync
        /\ UNCHANGED <<chain, genesis, rows, cursor, serves, checked, at, high>>
    BY <1>7 DEF Wake, Notify
  <2>2. OnOurChain' /\ InOrder'
    BY <2>1, RequestMoves DEF SyncInv, OnOurChain, InOrder
  <2>3. QED
    BY <1>0, <2>1, <2>2 DEF SyncInv
<1>8. CASE RetryFires
  <2>1. /\ step' = FirstStep
        /\ UNCHANGED <<chain, genesis, rows, cursor, serves, checked>>
    BY <1>8 DEF RetryFires
  <2>2. OnOurChain' /\ InOrder'
    BY <2>1 DEF SyncInv, OnOurChain, InOrder, FirstStep
  <2>3. QED
    BY <1>0, <2>1, <2>2 DEF SyncInv
<1>9. CASE Shutdown
  <2>1. UNCHANGED <<chain, genesis, rows, cursor, serves, checked, step, at, high>>
    BY <1>9 DEF Shutdown
  <2>2. OnOurChain' /\ InOrder'
    BY <2>1 DEF SyncInv, OnOurChain, InOrder
  <2>3. QED
    BY <1>0, <2>1, <2>2 DEF SyncInv
<1>10. CASE Restart
  <2>1. /\ ~checked' /\ step' = "check"
        /\ UNCHANGED <<chain, genesis, rows, cursor>>
    BY <1>10 DEF Restart, Boot
  <2>2. OnOurChain' /\ InOrder'
    BY <2>1 DEF OnOurChain, InOrder
  <2>3. QED
    BY <1>0, <2>1, <2>2 DEF SyncInv
<1>11. CASE CrashWhileBinding
  <2>1. /\ ~checked' /\ step' = "check"
        /\ genesis = NoChain /\ genesis' = serves
        /\ UNCHANGED <<chain, rows, cursor>>
    BY <1>11 DEF CrashWhileBinding, Boot
  <2>2. OnOurChain' /\ InOrder'
    BY <2>1 DEF OnOurChain, InOrder
  <2>3. Len(rows) = 0 /\ cursor <= 0
    BY <2>1 DEF SyncInv, Mirrored
  <2>4. Len(chain[serves]) \in Nat
    BY LandedIsNat DEF Landed
  <2>5. Mirrored'
    BY <2>1, <2>3, <2>4 DEF Mirrored
  <2>6. Promise!Next
    BY <2>1 DEF Promise!Next, Promise!Choose, TypeOK
  <2>7. QED
    BY <2>2, <2>5, <2>6 DEF SyncInv
<1>12. ASSUME NEW c \in Chains, NEW outcome \in Outcomes, Land(c, outcome)
       PROVE  SyncInv' /\ Promise!Next
  <2>1. /\ chain' = [chain EXCEPT ![c] = Append(@, outcome)]
        /\ UNCHANGED <<genesis, rows, serves, checked, step, at, high>>
    BY <1>12 DEF Land
  <2>2. Promise!Next
    BY <1>12, <2>1 DEF Promise!Next, Promise!Land, Promise!Outcomes, Outcomes
  <2>3. OnOurChain' /\ InOrder'
    BY <2>1 DEF SyncInv, OnOurChain, InOrder
  <2>4. QED
    BY <1>12, <2>2, <2>3, LandKeepsRows DEF SyncInv
<1>13. CASE CatchUp \/ UNCHANGED vars
  <2>1. UNCHANGED <<chain, genesis, rows, cursor, serves, checked, step, at, high>>
    BY <1>13 DEF CatchUp, vars
  <2>2. OnOurChain' /\ InOrder'
    BY <2>1 DEF SyncInv, OnOurChain, InOrder
  <2>3. QED
    BY <1>0, <2>1, <2>2 DEF SyncInv
<1>14. QED
  BY <1>1, <1>2, <1>3, <1>4, <1>5, <1>6, <1>7, <1>8, <1>9, <1>10, <1>11,
     <1>12, <1>13, StepsOfNext

(* The database is at all times a prefix of one chain's history, in order, *)
(* whichever nodes answered and whenever the process died: the indexer     *)
(* implements IndexPromise (docs/api.md, Program Events).                  *)
THEOREM IndexerKeepsItsPromise == Spec => IndexKeepsItsPromise
<1>1. Init => Promise!Init
  BY DEF Init, Promise!Init
<1>2. QED
  BY InitTypes, TypeStep, InitSync, SyncStepHolds, <1>1, PTL
     DEF Spec, IndexKeepsItsPromise, Promise!Spec

(* Every transaction up to the cursor is indexed: IndexerStore.cursor.     *)
THEOREM CursorIsComplete == Spec => []CursorMeansComplete
<1>1. ASSUME TypeOK, SyncInv
      PROVE  CursorMeansComplete
  <2>1. /\ cursor \in Nat /\ Len(rows) \in Nat /\ cursor <= Len(rows)
        /\ DOMAIN rows = 1 .. Len(rows)
    BY <1>1 DEF TypeOK, SyncInv, Mirrored
  <2>2. \A i \in 1 .. Len(rows) : rows[i].of = genesis /\ rows[i].tx = i
    BY <1>1, RowFields DEF SyncInv, Mirrored
  <2>3. QED
    BY <2>1, <2>2 DEF CursorMeansComplete
<1>2. QED
  BY InitTypes, TypeStep, InitSync, SyncStepHolds, <1>1, PTL DEF Spec
=============================================================================
