-------------------------- MODULE KycWebhookProofs --------------------------
(***************************************************************************)
(* What a webhook can do to a record somebody else wrote, for any number   *)
(* of events, repetitions, failures, crashes and records written by hand.  *)
(* The backend signs two kinds of records only, and neither is written     *)
(* over a hand-written one that it has read.                               *)
(***************************************************************************)
EXTENDS KycWebhook, SequenceTheorems, TLAPS

TxRecord ==
  [event : DOMAIN events, record : WrittenRecord, readAt : 0 .. manual,
   valid : BOOLEAN, fate : {"inFlight", "lost", "landed"}]

ChainTypeOK == record \in Record /\ tx \in Seq(TxRecord)

DeliveryTypeOK ==
  /\ review \in {"none", "green", "red"}
  /\ events \in Seq({"approve", "revoke"})
  /\ unanswered \subseteq DOMAIN events
  /\ lastEventAt \in 0 .. Len(events)
  /\ queue \in Seq(DOMAIN events)

HandlingTypeOK ==
  /\ handled \in 0 .. Len(events)
  /\ step \in {"idle", "applicant", "record", "send", "confirm"}
  /\ planned \in Record
  /\ step \in {"send", "confirm"} => planned \in WrittenRecord
  /\ readAt \in 0 .. manual

BoundsTypeOK ==
  /\ manual \in 0 .. MaxManual /\ repeats \in 0 .. MaxRepeats
  /\ troubles \in 0 .. MaxTroubles /\ crashes \in 0 .. MaxCrashes

HandlingHasEvent == step # "idle" => handled \in DOMAIN events

TypeInv ==
  /\ ChainTypeOK /\ DeliveryTypeOK /\ HandlingTypeOK /\ BoundsTypeOK
  /\ HandlingHasEvent

LEMMA TypeInvIsTypeOK == TypeInv => TypeOK
  BY DEF TypeInv, ChainTypeOK, DeliveryTypeOK, HandlingTypeOK, BoundsTypeOK,
     TypeOK, TxRecord

LEMMA Sizes ==
  ASSUME TypeInv
  PROVE  /\ Len(events) \in Nat /\ DOMAIN events = 1 .. Len(events)
         /\ Len(tx) \in Nat /\ DOMAIN tx = 1 .. Len(tx)
         /\ \A n \in DOMAIN tx : tx[n] \in TxRecord
         /\ Len(queue) \in Nat /\ manual \in Nat
<1>1. events \in Seq({"approve", "revoke"}) /\ tx \in Seq(TxRecord)
      /\ queue \in Seq(DOMAIN events) /\ manual \in 0 .. MaxManual
  BY DEF TypeInv, ChainTypeOK, DeliveryTypeOK, BoundsTypeOK
<1>2. QED
  BY <1>1, LenProperties, ElementOfSeq

LEMMA InitTypeInv == Init => TypeInv
  BY RecordsAssumption, BoundsAssumption
  DEF Init, TypeInv, ChainTypeOK, DeliveryTypeOK, HandlingTypeOK, BoundsTypeOK,
      HandlingHasEvent, NoRecord, Record, Statuses, Providers

(* What is quiet keeps its types, though events and records may be added.  *)
LEMMA ChainStays ==
  ASSUME TypeInv, UNCHANGED <<record, tx>>,
         DOMAIN events \subseteq DOMAIN events', manual' \in Nat, manual <= manual'
  PROVE  ChainTypeOK'
<1>1. TxRecord \subseteq TxRecord'
  BY Sizes DEF TxRecord
<1>2. tx \in Seq(TxRecord')
  BY <1>1, SeqMonotonic DEF TypeInv, ChainTypeOK
<1>3. QED
  BY <1>2 DEF TypeInv, ChainTypeOK

LEMMA DeliveryStays ==
  ASSUME TypeInv, UNCHANGED <<review, events, queue>>,
         unanswered' \subseteq unanswered, lastEventAt' \in {lastEventAt, handled}
  PROVE  DeliveryTypeOK'
  BY DEF TypeInv, DeliveryTypeOK, HandlingTypeOK

LEMMA IdleIsTyped ==
  ASSUME Idle, manual' \in Nat, Len(events') \in Nat
  PROVE  HandlingTypeOK' /\ HandlingHasEvent'
  BY DEF Idle, HandlingTypeOK, HandlingHasEvent, NoRecord, Record, Statuses,
     Providers

LEMMA HandlingStays ==
  ASSUME TypeInv, UNCHANGED handling, DOMAIN events \subseteq DOMAIN events',
         Len(events') \in Nat, Len(events) <= Len(events'),
         manual' \in Nat, manual <= manual'
  PROVE  HandlingTypeOK' /\ HandlingHasEvent'
  BY Sizes DEF TypeInv, handling, HandlingTypeOK, HandlingHasEvent

LEMMA DecideKeepsTypes ==
  ASSUME TypeInv, NEW kind \in {"approve", "revoke"}, Decide(kind)
  PROVE  TypeInv'
<1>1. /\ events \in Seq({"approve", "revoke"}) /\ events' = Append(events, kind)
      /\ UNCHANGED <<record, tx, lastEventAt, queue, handling, bounds, manual>>
  BY DEF TypeInv, DeliveryTypeOK, Decide, cluster, bounds
<1>2. /\ events' \in Seq({"approve", "revoke"}) /\ Len(events') = Len(events) + 1
      /\ Len(events) \in Nat /\ DOMAIN events = 1 .. Len(events)
      /\ DOMAIN events' = 1 .. Len(events')
  BY <1>1, AppendProperties, LenProperties
<1>3. DOMAIN events \subseteq DOMAIN events' /\ Len(events) <= Len(events')
  BY <1>2
<1>4. manual' \in Nat /\ manual <= manual'
  BY <1>1, Sizes
<1>5. DeliveryTypeOK'
  <2>1. queue \in Seq(DOMAIN events')
    BY <1>3, SeqMonotonic DEF TypeInv, DeliveryTypeOK
  <2>2. review' \in {"none", "green", "red"}
        /\ unanswered' = unanswered \cup {Len(events')}
    BY DEF Decide
  <2>3. QED
    BY <1>1, <1>2, <1>3, <2>1, <2>2 DEF TypeInv, DeliveryTypeOK
<1>6. ChainTypeOK'
  BY <1>1, <1>3, <1>4, ChainStays
<1>7. HandlingTypeOK' /\ HandlingHasEvent'
  BY <1>1, <1>2, <1>3, <1>4, HandlingStays
<1>8. BoundsTypeOK'
  BY <1>1 DEF TypeInv, BoundsTypeOK, bounds
<1>9. QED
  BY <1>5, <1>6, <1>7, <1>8 DEF TypeInv

LEMMA DeliverKeepsTypes ==
  ASSUME TypeInv, NEW e, Deliver(e)
  PROVE  TypeInv'
<1>1. /\ queue' = Append(queue, e) /\ e \in DOMAIN events
      /\ UNCHANGED <<record, tx, review, events, unanswered, lastEventAt,
                     handling, manual, troubles, crashes>>
      /\ repeats' \in 0 .. MaxRepeats
  BY BoundsAssumption DEF Deliver, cluster, sumsub, TypeInv, BoundsTypeOK
<1>2. queue' \in Seq(DOMAIN events')
  BY <1>1, AppendProperties DEF TypeInv, DeliveryTypeOK
<1>3. DeliveryTypeOK' /\ BoundsTypeOK'
  BY <1>1, <1>2 DEF TypeInv, DeliveryTypeOK, BoundsTypeOK
<1>4. ChainTypeOK' /\ HandlingTypeOK' /\ HandlingHasEvent'
  BY <1>1, Sizes, ChainStays, HandlingStays
<1>5. QED
  BY <1>3, <1>4 DEF TypeInv

(* A webhook leaves the queue.                                             *)
LEMMA QueueAdvances ==
  ASSUME TypeInv, queue # <<>>
  PROVE  Head(queue) \in DOMAIN events /\ Tail(queue) \in Seq(DOMAIN events)
  BY HeadTailProperties DEF TypeInv, DeliveryTypeOK

LEMMA HandleKeepsTypes ==
  ASSUME TypeInv, Handle \/ CallFails
  PROVE  TypeInv'
<1>1. ASSUME UNCHANGED <<record, tx, manual, events>>
      PROVE  ChainTypeOK'
  BY <1>1, Sizes, ChainStays
<1>2. ASSUME UNCHANGED bounds
      PROVE  BoundsTypeOK' /\ manual' = manual
  BY <1>2 DEF bounds, TypeInv, BoundsTypeOK
<1>3. CASE IgnoreStale
  <2>1. /\ UNCHANGED <<record, tx, review, events, lastEventAt, handling, bounds>>
        /\ queue # <<>> /\ queue' = Tail(queue) /\ unanswered' \subseteq unanswered
    BY <1>3 DEF IgnoreStale, NextInQueue, AnswerStale, Answered, cluster
  <2>2. DeliveryTypeOK'
    BY <2>1, QueueAdvances DEF TypeInv, DeliveryTypeOK
  <2>3. HandlingTypeOK' /\ HandlingHasEvent'
    BY <1>2, <2>1, Sizes, HandlingStays
  <2>4. QED
    BY <1>1, <1>2, <2>1, <2>2, <2>3 DEF TypeInv
<1>4. CASE StartEvent
  <2>1. /\ UNCHANGED <<record, tx, review, events, unanswered, lastEventAt,
                       planned, readAt, bounds>>
        /\ queue # <<>> /\ queue' = Tail(queue) /\ handled' = Head(queue)
        /\ step' \in {"applicant", "record"}
    BY <1>4 DEF StartEvent, NextInQueue, cluster, sumsub
  <2>2. DeliveryTypeOK'
    BY <2>1, QueueAdvances DEF TypeInv, DeliveryTypeOK
  <2>3. handled' \in DOMAIN events
    BY <2>1, QueueAdvances
  <2>4. HandlingTypeOK' /\ HandlingHasEvent'
    BY <1>2, <2>1, <2>3, Sizes DEF TypeInv, HandlingTypeOK, HandlingHasEvent
  <2>5. QED
    BY <1>1, <1>2, <2>1, <2>2, <2>4 DEF TypeInv
<1>5. CASE ReadApplicant
  <2>1. /\ UNCHANGED <<record, tx, review, events, lastEventAt, queue, bounds>>
        /\ unanswered' \subseteq unanswered
        /\ Idle \/ (step' = "record" /\ step = "applicant"
                     /\ UNCHANGED <<handled, planned, readAt>>)
    BY <1>5 DEF ReadApplicant, Answered, cluster
  <2>2. DeliveryTypeOK'
    BY <2>1, DeliveryStays
  <2>3. HandlingTypeOK' /\ HandlingHasEvent'
    <3>1. CASE Idle
      BY <1>2, <2>1, <3>1, Sizes, IdleIsTyped
    <3>2. CASE ~Idle
      BY <1>2, <2>1, <3>2 DEF TypeInv, HandlingTypeOK, HandlingHasEvent
    <3>3. QED
      BY <3>1, <3>2
  <2>4. QED
    BY <1>1, <1>2, <2>1, <2>2, <2>3 DEF TypeInv
<1>6. CASE KeepRecord \/ WriteConfirmed
  <2>1. /\ UNCHANGED <<record, tx, review, events, queue, bounds>> /\ Idle
        /\ unanswered' \subseteq unanswered
        /\ lastEventAt' \in {lastEventAt, handled}
    BY <1>6 DEF KeepRecord, WriteConfirmed, Applied, Answered, cluster
  <2>2. DeliveryTypeOK'
    BY <2>1, DeliveryStays
  <2>3. HandlingTypeOK' /\ HandlingHasEvent'
    BY <1>2, <2>1, Sizes, IdleIsTyped
  <2>4. QED
    BY <1>1, <1>2, <2>1, <2>2, <2>3 DEF TypeInv
<1>7. CASE PlanWrite
  <2>1. /\ UNCHANGED <<record, tx, review, events, unanswered, lastEventAt,
                       queue, handled, bounds>>
        /\ step = "record" /\ step' = "send" /\ readAt' = manual
        /\ planned' = PlannedFor(handled, record) /\ MayWrite(handled, record)
    BY <1>7 DEF PlanWrite, cluster, sumsub
  <2>2. record \in Record /\ manual \in Nat
    BY Sizes DEF TypeInv, ChainTypeOK
  <2>3. planned' \in Record /\ planned' \in WrittenRecord
    BY <2>1, <2>2
    DEF PlannedFor, MayWrite, Revocable, Approved, Record, WrittenRecord, Statuses,
        Providers
  <2>4. HandlingTypeOK' /\ HandlingHasEvent'
    BY <1>2, <2>1, <2>2, <2>3 DEF TypeInv, HandlingTypeOK, HandlingHasEvent
  <2>5. DeliveryTypeOK'
    BY <2>1, DeliveryStays
  <2>6. QED
    BY <1>1, <1>2, <2>1, <2>4, <2>5 DEF TypeInv
<1>8. ASSUME NEW fate \in {"inFlight", "lost", "landed"}, step = "send",
             SignedAs(fate), UNCHANGED <<record, events, manual>>
      PROVE  ChainTypeOK'
  <2> DEFINE new == [event |-> handled, record |-> planned, readAt |-> readAt,
                     valid |-> TRUE, fate |-> fate]
  <2>1. new \in TxRecord /\ tx \in Seq(TxRecord) /\ tx' = Append(tx, new)
    BY <1>8
    DEF SignedAs, TypeInv, HandlingTypeOK, HandlingHasEvent, TxRecord, ChainTypeOK
  <2>2. tx' \in Seq(TxRecord)
    BY <2>1, AppendProperties
  <2>3. TxRecord' = TxRecord
    BY <1>8 DEF TxRecord
  <2>4. QED
    BY <1>8, <2>2, <2>3 DEF TypeInv, ChainTypeOK
<1>9. CASE SendWrite
  <2>1. /\ UNCHANGED <<record, review, events, unanswered, lastEventAt, queue,
                       handled, planned, readAt, bounds>>
        /\ step = "send" /\ step' = "confirm" /\ SignedAs("inFlight")
    BY <1>9 DEF SendWrite, sumsub
  <2>2. ChainTypeOK'
    BY <1>2, <1>8, <2>1
  <2>3. HandlingTypeOK' /\ HandlingHasEvent'
    BY <1>2, <2>1 DEF TypeInv, HandlingTypeOK, HandlingHasEvent
  <2>4. DeliveryTypeOK'
    BY <2>1, DeliveryStays
  <2>5. QED
    BY <1>2, <2>1, <2>2, <2>3, <2>4 DEF TypeInv
<1>10. CASE WriteExpired
  <2>1. /\ UNCHANGED <<record, tx, review, events, unanswered, lastEventAt,
                       queue, bounds>>
        /\ Idle
    BY <1>10 DEF WriteExpired, cluster, sumsub
  <2>2. DeliveryTypeOK' /\ HandlingTypeOK' /\ HandlingHasEvent'
    BY <1>2, <2>1, Sizes, DeliveryStays, IdleIsTyped
  <2>3. QED
    BY <1>1, <1>2, <2>1, <2>2 DEF TypeInv
<1>11. CASE CallFails
  <2>1. /\ UNCHANGED <<record, review, events, unanswered, lastEventAt, queue,
                       manual, repeats, crashes>>
        /\ Idle /\ troubles < MaxTroubles /\ troubles' = troubles + 1
    BY <1>11 DEF CallFails, sumsub
  <2>2. DeliveryTypeOK' /\ HandlingTypeOK' /\ HandlingHasEvent'
    BY <2>1, Sizes, DeliveryStays, IdleIsTyped
  <2>3. BoundsTypeOK'
    BY <2>1, BoundsAssumption DEF TypeInv, BoundsTypeOK
  <2>4. ChainTypeOK'
    BY <1>1, <1>8, <1>11, <2>1 DEF CallFails
  <2>5. QED
    BY <2>2, <2>3, <2>4 DEF TypeInv
<1>12. QED
  BY <1>3, <1>4, <1>5, <1>6, <1>7, <1>9, <1>10, <1>11 DEF Handle

LEMMA FateChangesTypes ==
  ASSUME TypeInv, NEW n \in DOMAIN tx, Lands(n) \/ Expires(n)
  PROVE  TypeInv'
<1>1. tx \in Seq(TxRecord) /\ tx[n] \in TxRecord /\ n \in 1 .. Len(tx)
  BY Sizes DEF TypeInv, ChainTypeOK
<1>2. /\ UNCHANGED <<review, events, unanswered, lastEventAt, queue, handling,
                     manual, repeats, crashes>>
      /\ TxRecord' = TxRecord
  BY DEF Lands, Expires, sumsub, bounds, TxRecord
<1>3. record' \in Record
  BY <1>1 DEF Lands, Expires, TxRecord, WrittenRecord, Record, TypeInv, ChainTypeOK
<1>4. tx' \in Seq(TxRecord)
  <2>1. PICK new \in TxRecord : tx' = [tx EXCEPT ![n] = new]
    <3>1. CASE Lands(n)
      <4> DEFINE new == [tx[n] EXCEPT !.fate = "landed"]
      <4>1. new \in TxRecord /\ tx' = [tx EXCEPT ![n] = new]
        BY <1>1, <3>1 DEF Lands, TxRecord
      <4>2. QED
        BY <4>1
    <3>2. CASE Expires(n)
      <4> DEFINE new == [tx[n] EXCEPT !.valid = FALSE]
      <4>1. new \in TxRecord /\ tx' = [tx EXCEPT ![n] = new]
        BY <1>1, <3>2 DEF Expires, TxRecord
      <4>2. QED
        BY <4>1
    <3>3. QED
      BY <3>1, <3>2
  <2>2. QED
    BY <1>1, <2>1, ExceptSeq
<1>5. BoundsTypeOK'
  BY <1>2, BoundsAssumption
  DEF Lands, Expires, bounds, TypeInv, BoundsTypeOK
<1>6. DeliveryTypeOK' /\ HandlingTypeOK' /\ HandlingHasEvent'
  BY <1>2, Sizes, DeliveryStays, HandlingStays
<1>7. QED
  BY <1>2, <1>3, <1>4, <1>5, <1>6 DEF TypeInv, ChainTypeOK

LEMMA WorldKeepsTypes ==
  ASSUME TypeInv, Crash \/ \E r \in ManualRecords : WriteByHand(r)
  PROVE  TypeInv'
<1>1. /\ UNCHANGED <<tx, review, events, unanswered, lastEventAt, repeats, troubles>>
      /\ queue' \in {queue, <<>>} /\ <<>> \in Seq(DOMAIN events)
      /\ manual \in Nat /\ manual' \in Nat /\ manual <= manual'
  BY Sizes DEF Crash, WriteByHand, cluster, sumsub
<1>2. record' \in Record
  BY RecordsAssumption
  DEF Crash, WriteByHand, cluster, TypeInv, ChainTypeOK, WrittenRecord, Record
<1>3. tx' \in Seq(TxRecord')
  <2>1. TxRecord \subseteq TxRecord'
    BY <1>1 DEF TxRecord
  <2>2. QED
    BY <1>1, <2>1, SeqMonotonic DEF TypeInv, ChainTypeOK
<1>4. HandlingTypeOK' /\ HandlingHasEvent'
  <2>1. CASE Crash
    BY <1>1, <2>1, Sizes, IdleIsTyped DEF Crash
  <2>2. CASE ~Crash
    BY <1>1, <2>2, Sizes, HandlingStays DEF WriteByHand
  <2>3. QED
    BY <2>1, <2>2
<1>5. DeliveryTypeOK'
  BY <1>1 DEF TypeInv, DeliveryTypeOK
<1>6. BoundsTypeOK'
  BY <1>1, BoundsAssumption DEF Crash, WriteByHand, TypeInv, BoundsTypeOK
<1>7. QED
  BY <1>2, <1>3, <1>4, <1>5, <1>6 DEF TypeInv, ChainTypeOK

LEMMA NextKeepsTypes ==
  ASSUME TypeInv, [Next]_vars
  PROVE  TypeInv'
<1>1. CASE UNCHANGED vars
  <2>1. /\ UNCHANGED <<record, tx, review, events, unanswered, lastEventAt,
                       queue, handling, manual, repeats, troubles, crashes>>
    BY <1>1 DEF vars, cluster, sumsub, bounds
  <2>2. ChainTypeOK' /\ DeliveryTypeOK' /\ HandlingTypeOK' /\ HandlingHasEvent'
    BY <2>1, Sizes, ChainStays, DeliveryStays, HandlingStays
  <2>3. QED
    BY <2>1, <2>2 DEF TypeInv, BoundsTypeOK
<1>2. QED
  BY <1>1, DecideKeepsTypes, DeliverKeepsTypes, HandleKeepsTypes,
     FateChangesTypes, WorldKeepsTypes DEF Next

LEMMA TypesAreInvariant == Spec => []TypeInv
  BY InitTypeInv, NextKeepsTypes, PTL DEF Spec

(* Every state of the webhook is well typed; the record never becomes one  *)
(* that set_investor refuses.                                              *)
THEOREM TypeCorrect == Spec => []TypeOK
  BY TypeInvIsTypeOK, TypesAreInvariant, PTL
-----------------------------------------------------------------------------
(* Records written by hand.                                                *)

(* Every record the backend signs is Sumsub's, approved or revoked.        *)
SumsubRecord(r) == r.provider = "sumsub" /\ r.status \in {"active", "revoked"}

(* A record planned when manual was at may replace the one on chain, if    *)
(* that has not been written by hand since.                                *)
PlannedWell(r, at) ==
  /\ SumsubRecord(r)
  /\ at = manual =>
       /\ record.status # "frozen"
       /\ r.status = "revoked" => record.provider = "sumsub"

WritesInv ==
  /\ step = "send" => PlannedWell(planned, readAt)
  /\ \A n \in DOMAIN tx : PlannedWell(tx[n].record, tx[n].readAt)

LEMMA QuietKeepsWrites ==
  ASSUME WritesInv, UNCHANGED <<record, manual, tx>>,
         step' = "send" => step = "send" /\ UNCHANGED <<planned, readAt>>
  PROVE  WritesInv'
  BY DEF WritesInv, PlannedWell

(* What the plan makes of the record it read.                              *)
LEMMA PlansAreWell ==
  ASSUME TypeInv, WritesInv, PlanWrite
  PROVE  WritesInv'
<1>1. /\ UNCHANGED <<record, manual, tx>>
      /\ MayWrite(handled, record)
      /\ planned' = PlannedFor(handled, record) /\ readAt' = manual
  BY DEF PlanWrite, cluster, bounds
<1>2. record \in Record
  BY DEF TypeInv, ChainTypeOK
<1>3. PlannedWell(planned', readAt')
  BY <1>1, <1>2
  DEF PlannedWell, SumsubRecord, PlannedFor, MayWrite, Approvable, Revocable,
      Approved, Record
<1>4. QED
  BY <1>1, <1>3 DEF WritesInv, PlannedWell

LEMMA SigningKeepsWrites ==
  ASSUME TypeInv, WritesInv, step = "send", step' # "send",
         UNCHANGED <<record, manual>>, NEW fate, SignedAs(fate)
  PROVE  WritesInv'
<1> DEFINE new == [event |-> handled, record |-> planned, readAt |-> readAt,
                   valid |-> TRUE, fate |-> fate]
<1>1. tx' = Append(tx, new) /\ tx \in Seq(TxRecord)
  BY DEF SignedAs, TypeInv, ChainTypeOK
<1>2. new.record = planned /\ new.readAt = readAt
  OBVIOUS
<1> HIDE DEF new
<1>3. /\ Len(tx') = Len(tx) + 1 /\ DOMAIN tx' = 1 .. Len(tx')
      /\ \A n \in 1 .. Len(tx) : tx'[n] = tx[n]
      /\ tx'[Len(tx) + 1] = new
      /\ DOMAIN tx = 1 .. Len(tx) /\ Len(tx) \in Nat
  BY <1>1
<1>4. ASSUME NEW n \in DOMAIN tx'
      PROVE  PlannedWell(tx'[n].record, tx'[n].readAt)
  <2>1. CASE n \in DOMAIN tx
    BY <1>3, <2>1 DEF WritesInv
  <2>2. CASE n = Len(tx) + 1
    BY <1>2, <1>3, <2>2 DEF WritesInv
  <2>3. QED
    BY <1>3, <2>1, <2>2
<1>5. QED
  BY <1>4 DEF WritesInv, PlannedWell

(* What lands is Sumsub's and not frozen, so every other plan stays well.  *)
LEMMA LandingKeepsWrites ==
  ASSUME TypeInv, WritesInv, NEW n \in DOMAIN tx, Lands(n) \/ Expires(n)
  PROVE  WritesInv'
<1>1. /\ UNCHANGED <<step, planned, readAt, manual>>
      /\ record' = record \/ record' = tx[n].record
  BY DEF Lands, Expires, handling, bounds
<1>2. /\ DOMAIN tx' = DOMAIN tx
      /\ \A m \in DOMAIN tx : /\ tx'[m].record = tx[m].record
                              /\ tx'[m].readAt = tx[m].readAt
  <2>1. \A m \in DOMAIN tx : tx[m] \in TxRecord
    BY Sizes
  <2>2. CASE Lands(n)
    BY <2>1, <2>2 DEF Lands, TxRecord
  <2>3. CASE Expires(n)
    BY <2>1, <2>3 DEF Expires, TxRecord
  <2>4. QED
    BY <2>2, <2>3
<1>3. SumsubRecord(tx[n].record)
  BY DEF WritesInv, PlannedWell
<1>4. ASSUME NEW r, NEW at, PlannedWell(r, at)
      PROVE  PlannedWell(r, at)'
  BY <1>1, <1>3, <1>4 DEF PlannedWell, SumsubRecord
<1>5. QED
  BY <1>1, <1>2, <1>4 DEF WritesInv, PlannedWell

(* After a record written by hand, nothing that was planned is recent.     *)
LEMMA HandKeepsWrites ==
  ASSUME TypeInv, WritesInv, NEW r \in ManualRecords, WriteByHand(r)
  PROVE  WritesInv'
<1>1. /\ manual' = manual + 1 /\ manual \in Nat
      /\ UNCHANGED <<tx, step, planned, readAt>>
  BY Sizes DEF WriteByHand, handling
<1>2. readAt <= manual /\ readAt \in Nat
  BY <1>1 DEF TypeInv, HandlingTypeOK
<1>3. \A n \in DOMAIN tx : tx[n].readAt <= manual /\ tx[n].readAt \in Nat
  BY <1>1, Sizes DEF TxRecord
<1>4. QED
  BY <1>1, <1>2, <1>3 DEF WritesInv, PlannedWell

LEMMA NextKeepsWrites ==
  ASSUME TypeInv, WritesInv, [Next]_vars
  PROVE  WritesInv'
<1>1. CASE PlanWrite
  BY <1>1, PlansAreWell
<1>2. CASE SendWrite
  BY <1>2, SigningKeepsWrites DEF SendWrite, bounds
<1>3. CASE CallFails /\ step = "send"
  <2>1. step' # "send" /\ UNCHANGED <<record, manual>>
    BY <1>3 DEF CallFails, Idle
  <2>2. \E fate \in {"inFlight", "lost"} : SignedAs(fate)
    BY <1>3 DEF CallFails
  <2>3. QED
    BY <1>3, <2>1, <2>2, SigningKeepsWrites
<1>4. CASE CallFails /\ step # "send"
  BY <1>4, QuietKeepsWrites DEF CallFails, Idle
<1>5. CASE \E n \in DOMAIN tx : Lands(n) \/ Expires(n)
  BY <1>5, LandingKeepsWrites
<1>6. CASE \E r \in ManualRecords : WriteByHand(r)
  BY <1>6, HandKeepsWrites
<1>7. CASE \/ \E kind \in {"approve", "revoke"} : Decide(kind)
           \/ \E e \in 1 .. MaxEvents : Deliver(e)
           \/ UNCHANGED vars
  BY <1>7, QuietKeepsWrites DEF Decide, Deliver, vars, cluster, bounds, handling
<1>8. CASE Crash
  BY <1>8, QuietKeepsWrites DEF Crash, Idle, cluster
<1>9. CASE \/ IgnoreStale \/ StartEvent \/ ReadApplicant \/ KeepRecord
           \/ WriteConfirmed \/ WriteExpired
  <2>1. UNCHANGED <<record, manual, tx>>
    BY <1>9 DEF IgnoreStale, StartEvent, ReadApplicant, KeepRecord,
       WriteConfirmed, WriteExpired, cluster, bounds
  <2>2. step' = "send" => step = "send" /\ UNCHANGED <<planned, readAt>>
    BY <1>9 DEF IgnoreStale, StartEvent, ReadApplicant, KeepRecord,
       WriteConfirmed, WriteExpired, Idle, handling
  <2>3. QED
    BY <2>1, <2>2, QuietKeepsWrites
<1>10. QED
  BY <1>1, <1>2, <1>3, <1>4, <1>5, <1>6, <1>7, <1>8, <1>9 DEF Next, Handle

LEMMA WritesAreInvariant == Spec => []WritesInv
<1>1. Init => WritesInv
  BY DEF Init, WritesInv
<1>2. QED
  BY <1>1, NextKeepsWrites, TypesAreInvariant, PTL DEF Spec

(* investor-plan.ts: whatever fails, is repeated or lands late, a webhook  *)
(* changes neither a frozen record nor, by a revocation, a manual or demo  *)
(* one, unless it was written by hand after the webhook read it.           *)
THEOREM WebhooksRespectTheHand == Spec => HandWrittenOutlastNewPlans
<1>1. TypeInv /\ WritesInv /\ [Next]_vars
        => [\A n \in DOMAIN tx : LandsNow(n) /\ tx[n].readAt = manual =>
              /\ record.status # "frozen"
              /\ tx[n].record.status = "revoked" => record.provider = "sumsub"]_vars
  BY DEF WritesInv, PlannedWell
<1>2. QED
  BY <1>1, TypesAreInvariant, WritesAreInvariant, PTL
  DEF Spec, HandWrittenOutlastNewPlans
-----------------------------------------------------------------------------
(* Events in any order.                                                    *)

(* A record that agrees with what event e asks for.                        *)
Fits(r, e) == IF events[e] = "approve" THEN r = Approved ELSE r # Approved

ReviewIsLast ==
  events # <<>> => (review = "green" <=> events[Len(events)] = "approve")

(* No event is handled that is older than one that was applied.            *)
HandlingAgrees ==
  /\ step # "idle" => lastEventAt <= handled
  /\ step = "applicant" => events[handled] = "approve"
  /\ step \in {"send", "confirm"} =>
       Fits(planned, handled) /\ planned.status # "frozen"

(* Every transaction has landed, but perhaps the one that is waited for.   *)
OthersLanded ==
  \A n \in DOMAIN tx :
    tx[n].valid /\ (tx[n].fate # "landed" => step = "confirm" /\ n = Len(tx))

Awaited ==
  step = "confirm" =>
    /\ tx # <<>> /\ tx[Len(tx)].fate \in {"inFlight", "landed"}
    /\ tx[Len(tx)].record = planned
    /\ tx[Len(tx)].fate = "landed" => record = planned

(* The newest event is answered by applying it, and stays applied.         *)
NewestStays ==
  events # <<>> =>
    /\ Len(events) \in unanswered \/ lastEventAt = Len(events)
    /\ lastEventAt = Len(events) => Fits(record, Len(events))

Orderly ==
  /\ record.status # "frozen"
  /\ ReviewIsLast /\ HandlingAgrees /\ OthersLanded /\ Awaited /\ NewestStays

OrderInv == Undisturbed => Orderly

(* Steps that touch neither the chain nor the newest event.                *)
LEMMA DecideKeepsOrder ==
  ASSUME TypeInv, Orderly, NEW kind \in {"approve", "revoke"}, Decide(kind)
  PROVE  Orderly'
<1>1. /\ events' = Append(events, kind) /\ events \in Seq({"approve", "revoke"})
      /\ UNCHANGED <<record, tx, lastEventAt, handled, step, planned>>
      /\ unanswered' = unanswered \cup {Len(events')}
      /\ review' = IF kind = "approve" THEN "green" ELSE "red"
  BY DEF Decide, cluster, handling, TypeInv, DeliveryTypeOK
<1>2. /\ Len(events') = Len(events) + 1 /\ Len(events) \in Nat
      /\ events'[Len(events')] = kind
      /\ \A e \in DOMAIN events : events'[e] = events[e]
  BY <1>1, Sizes, AppendProperties
<1>3. lastEventAt <= Len(events) /\ lastEventAt \in Nat
  BY <1>2 DEF TypeInv, DeliveryTypeOK
<1>4. ReviewIsLast'
  BY <1>1, <1>2 DEF ReviewIsLast
<1>5. HandlingAgrees'
  BY <1>1, <1>2 DEF Orderly, HandlingAgrees, Fits, TypeInv, HandlingHasEvent
<1>6. NewestStays'
  BY <1>1, <1>2, <1>3 DEF NewestStays
<1>7. OthersLanded' /\ Awaited' /\ record'.status # "frozen"
  BY <1>1 DEF Orderly, OthersLanded, Awaited
<1>8. QED
  BY <1>4, <1>5, <1>6, <1>7 DEF Orderly

LEMMA QuietKeepsOrder ==
  ASSUME Orderly, UNCHANGED <<record, tx, events, review, lastEventAt>>,
         UNCHANGED <<unanswered, handled, step, planned>>
  PROVE  Orderly'
  BY DEF Orderly, ReviewIsLast, HandlingAgrees, Fits, OthersLanded, Awaited,
     NewestStays

(* The queue: what is stale is older than the newest event.                *)
LEMMA TakingKeepsOrder ==
  ASSUME TypeInv, Orderly, IgnoreStale \/ StartEvent
  PROVE  Orderly'
<1>1. UNCHANGED <<record, tx, events, review, lastEventAt, planned>>
      /\ step = "idle" /\ queue # <<>>
  BY DEF IgnoreStale, StartEvent, NextInQueue, cluster, sumsub, handling
<1>2. Head(queue) \in DOMAIN events /\ lastEventAt \in 0 .. Len(events)
      /\ Len(events) \in Nat /\ DOMAIN events = 1 .. Len(events)
  BY <1>1, QueueAdvances, Sizes DEF TypeInv, DeliveryTypeOK
<1>3. CASE IgnoreStale
  <2>1. Head(queue) < lastEventAt /\ unanswered' = unanswered \ {Head(queue)}
        /\ UNCHANGED <<handled, step>>
    BY <1>3 DEF IgnoreStale, IsStale, AnswerStale, Answered, handling
  <2>2. Head(queue) # Len(events)
    BY <1>2, <2>1
  <2>3. NewestStays'
    BY <1>1, <2>1, <2>2 DEF Orderly, NewestStays, Fits
  <2>4. QED
    BY <1>1, <2>1, <2>3
    DEF Orderly, ReviewIsLast, HandlingAgrees, Fits, OthersLanded, Awaited
<1>4. CASE StartEvent
  <2>1. /\ handled' = Head(queue) /\ lastEventAt <= handled'
        /\ UNCHANGED unanswered
        /\ step' = IF events[Head(queue)] = "approve" THEN "applicant"
                   ELSE "record"
    BY <1>2, <1>4 DEF StartEvent, IsStale, sumsub
  <2>2. step' \in {"applicant", "record"}
        /\ (step' = "applicant" => events'[handled'] = "approve")
    BY <1>1, <2>1
  <2>3. HandlingAgrees'
    BY <1>1, <2>1, <2>2 DEF HandlingAgrees
  <2>4. OthersLanded' /\ Awaited'
    BY <1>1, <2>2 DEF Orderly, OthersLanded, Awaited
  <2>5. QED
    BY <1>1, <2>1, <2>3, <2>4 DEF Orderly, ReviewIsLast, NewestStays, Fits
<1>5. QED
  BY <1>3, <1>4

(* An approval that the API denies is not the newest event.                *)
LEMMA ReadingKeepsOrder ==
  ASSUME TypeInv, Orderly, ReadApplicant
  PROVE  Orderly'
<1>1. /\ UNCHANGED <<record, tx, events, review, lastEventAt>>
      /\ step = "applicant" /\ events[handled] = "approve"
      /\ lastEventAt <= handled /\ handled \in DOMAIN events
  BY DEF ReadApplicant, cluster, Orderly, HandlingAgrees, TypeInv,
     HandlingHasEvent
<1>2. step' \in {"record", "idle"} /\ (step' = "record" => handled' = handled)
  BY DEF ReadApplicant, Idle
<1>3. HandlingAgrees'
  BY <1>1, <1>2 DEF HandlingAgrees
<1>4. OthersLanded' /\ Awaited'
  BY <1>1, <1>2 DEF Orderly, OthersLanded, Awaited
<1>5. NewestStays'
  <2>1. CASE review = "green"
    BY <1>1, <2>1 DEF ReadApplicant, Orderly, NewestStays, Fits
  <2>2. CASE review # "green"
    <3>1. unanswered' = unanswered \ {handled}
      BY <2>2 DEF ReadApplicant, Answered
    <3>2. events # <<>> => handled # Len(events)
      BY <1>1, <2>2 DEF Orderly, ReviewIsLast
    <3>3. QED
      BY <1>1, <3>1, <3>2 DEF Orderly, NewestStays, Fits
  <2>3. QED
    BY <2>1, <2>2
<1>6. QED
  BY <1>1, <1>3, <1>4, <1>5 DEF Orderly, ReviewIsLast

(* An applied event agrees with the record, and becomes the last one.      *)
LEMMA ApplyingKeepsOrder ==
  ASSUME TypeInv, Orderly, step # "idle", Fits(record, handled),
         Applied(handled), Idle, UNCHANGED <<record, tx, events, review>>,
         \A n \in DOMAIN tx : tx[n].fate = "landed"
  PROVE  Orderly'
<1>1. /\ lastEventAt <= handled /\ handled \in 1 .. Len(events)
      /\ lastEventAt \in 0 .. Len(events)
  BY Sizes
  DEF Orderly, HandlingAgrees, TypeInv, HandlingHasEvent, DeliveryTypeOK
<1>2. lastEventAt' = handled /\ unanswered' = unanswered \ {handled}
  BY <1>1, Sizes DEF Applied, Answered
<1>3. NewestStays'
  BY <1>1, <1>2 DEF Orderly, NewestStays, Fits
<1>4. HandlingAgrees' /\ OthersLanded' /\ Awaited'
  BY DEF Idle, Orderly, HandlingAgrees, OthersLanded, Awaited
<1>5. QED
  BY <1>3, <1>4 DEF Orderly, ReviewIsLast

LEMMA KeepingKeepsOrder ==
  ASSUME TypeInv, Orderly, KeepRecord
  PROVE  Orderly'
<1>1. /\ step = "record" /\ MayKeep(handled, record)
      /\ Applied(handled) /\ Idle
      /\ UNCHANGED <<record, tx, events, review>>
  BY DEF KeepRecord, cluster
<1>2. Fits(record, handled)
  BY <1>1
  DEF MayKeep, MayWrite, Approvable, Revocable, Fits, Orderly, Approved
<1>3. \A n \in DOMAIN tx : tx[n].fate = "landed"
  BY <1>1 DEF Orderly, OthersLanded
<1>4. QED
  BY <1>1, <1>2, <1>3, ApplyingKeepsOrder

LEMMA ConfirmingKeepsOrder ==
  ASSUME TypeInv, Orderly, WriteConfirmed
  PROVE  Orderly'
<1>1. /\ step = "confirm" /\ tx[Len(tx)].fate = "landed"
      /\ Applied(handled) /\ Idle
      /\ UNCHANGED <<record, tx, events, review>>
  BY DEF WriteConfirmed, Last, cluster
<1>2. Fits(record, handled)
  BY <1>1 DEF Orderly, Awaited, HandlingAgrees
<1>3. \A n \in DOMAIN tx : tx[n].fate = "landed"
  BY <1>1 DEF Orderly, OthersLanded
<1>4. QED
  BY <1>1, <1>2, <1>3, ApplyingKeepsOrder

LEMMA PlanningKeepsOrder ==
  ASSUME TypeInv, Orderly, PlanWrite
  PROVE  Orderly'
<1>1. /\ step = "record" /\ step' = "send" /\ MayWrite(handled, record)
      /\ planned' = PlannedFor(handled, record)
      /\ UNCHANGED <<record, tx, events, review, lastEventAt, unanswered, handled>>
  BY DEF PlanWrite, cluster, sumsub
<1>2. Fits(planned', handled) /\ planned'.status # "frozen"
  BY <1>1 DEF MayWrite, Revocable, PlannedFor, Fits, Approved, TypeInv,
     ChainTypeOK, Record
<1>3. HandlingAgrees'
  BY <1>1, <1>2 DEF Orderly, HandlingAgrees, Fits
<1>4. OthersLanded' /\ Awaited' /\ NewestStays' /\ ReviewIsLast'
  BY <1>1 DEF Orderly, OthersLanded, Awaited, NewestStays, ReviewIsLast, Fits
<1>5. QED
  BY <1>1, <1>3, <1>4 DEF Orderly

LEMMA SendingKeepsOrder ==
  ASSUME TypeInv, Orderly, SendWrite
  PROVE  Orderly'
<1> DEFINE new == [event |-> handled, record |-> planned, readAt |-> readAt,
                   valid |-> TRUE, fate |-> "inFlight"]
<1>1. /\ tx' = Append(tx, new) /\ tx \in Seq(TxRecord)
      /\ step = "send" /\ step' = "confirm"
      /\ UNCHANGED <<record, events, review, lastEventAt, unanswered, handled,
                     planned>>
  BY DEF SendWrite, SignedAs, sumsub, TypeInv, ChainTypeOK
<1>2. new.record = planned /\ new.fate = "inFlight" /\ new.valid
  OBVIOUS
<1> HIDE DEF new
<1>3. /\ Len(tx') = Len(tx) + 1 /\ DOMAIN tx' = 1 .. Len(tx')
      /\ \A n \in 1 .. Len(tx) : tx'[n] = tx[n]
      /\ tx'[Len(tx) + 1] = new
      /\ DOMAIN tx = 1 .. Len(tx) /\ Len(tx) \in Nat
  BY <1>1, Sizes, AppendProperties, LenProperties
<1>4. OthersLanded'
  <2>1. \A n \in DOMAIN tx : tx[n].valid /\ tx[n].fate = "landed"
    BY <1>1 DEF Orderly, OthersLanded
  <2>2. QED
    BY <1>1, <1>2, <1>3, <2>1 DEF OthersLanded
<1>5. Awaited'
  <2>1. tx' # <<>>
    BY <1>3
  <2>2. QED
    BY <1>1, <1>2, <1>3, <2>1 DEF Awaited
<1>6. HandlingAgrees' /\ NewestStays' /\ ReviewIsLast'
  BY <1>1 DEF Orderly, HandlingAgrees, NewestStays, ReviewIsLast, Fits
<1>7. QED
  BY <1>1, <1>4, <1>5, <1>6 DEF Orderly

(* Only what is waited for can land, for the newest event or an older one. *)
LEMMA LandingKeepsOrder ==
  ASSUME TypeInv, Orderly, NEW n \in DOMAIN tx, Lands(n)
  PROVE  Orderly'
<1>1. /\ step = "confirm" /\ n = Len(tx) /\ tx[n].record = planned
  BY DEF Lands, Orderly, OthersLanded, Awaited
<1>2. /\ UNCHANGED <<events, review, unanswered, lastEventAt, handled, step,
                     planned>>
      /\ record' = planned
  BY <1>1 DEF Lands, sumsub, handling
<1>3. tx[n] \in TxRecord /\ tx \in Seq(TxRecord)
  BY Sizes DEF TypeInv, ChainTypeOK
<1>4. /\ Len(tx') = Len(tx) /\ DOMAIN tx' = DOMAIN tx
      /\ tx'[n].fate = "landed" /\ tx'[n].record = planned
      /\ tx'[n].valid = tx[n].valid
      /\ \A m \in DOMAIN tx : m # n => tx'[m] = tx[m]
  <2>1. tx' = [tx EXCEPT ![n] = [tx[n] EXCEPT !.fate = "landed"]]
    BY DEF Lands
  <2>2. [tx[n] EXCEPT !.fate = "landed"] \in TxRecord
    BY <1>3 DEF TxRecord
  <2>3. Len(tx') = Len(tx)
    BY <1>3, <2>1, <2>2, ExceptSeq
  <2>4. QED
    BY <1>1, <1>3, <2>1, <2>3 DEF TxRecord
<1>5. OthersLanded'
  BY <1>2, <1>4 DEF Orderly, OthersLanded
<1>6. Awaited'
  <2>1. tx' # <<>>
    BY <1>4
  <2>2. QED
    BY <1>1, <1>2, <1>4, <2>1 DEF Awaited
<1>7. Fits(planned, handled) /\ planned.status # "frozen"
      /\ lastEventAt <= handled
  BY <1>1 DEF Orderly, HandlingAgrees
<1>8. NewestStays'
  <2>1. handled \in 1 .. Len(events) /\ lastEventAt \in 0 .. Len(events)
    BY <1>1, Sizes DEF TypeInv, HandlingHasEvent, DeliveryTypeOK
  <2>2. lastEventAt = Len(events) => handled = Len(events)
    BY <1>7, <2>1
  <2>3. QED
    BY <1>2, <1>7, <2>2 DEF Orderly, NewestStays, Fits
<1>9. QED
  BY <1>2, <1>5, <1>6, <1>7, <1>8
  DEF Orderly, ReviewIsLast, HandlingAgrees, Fits

(* Trouble, a crash and a record written by hand end the peace for good.   *)
LEMMA NextKeepsOrder ==
  ASSUME TypeInv, OrderInv, [Next]_vars
  PROVE  OrderInv'
<1>1. /\ manual \in Nat /\ troubles \in Nat /\ crashes \in Nat
  BY BoundsAssumption DEF TypeInv, BoundsTypeOK
<1>2. CASE CallFails \/ Crash \/ (\E r \in ManualRecords : WriteByHand(r))
           \/ \E n \in DOMAIN tx : Expires(n)
  BY <1>1, <1>2
  DEF CallFails, Crash, WriteByHand, Expires, OrderInv, Undisturbed
<1>3. ASSUME UNCHANGED <<manual, troubles, crashes>>, Orderly => Orderly'
      PROVE  OrderInv'
  BY <1>3 DEF OrderInv, Undisturbed
<1>4. CASE \E kind \in {"approve", "revoke"} : Decide(kind)
  BY <1>3, <1>4, DecideKeepsOrder DEF Decide, bounds
<1>5. CASE (\E e \in 1 .. MaxEvents : Deliver(e)) \/ UNCHANGED vars
  <2>1. /\ UNCHANGED <<record, tx, events, review, lastEventAt>>
        /\ UNCHANGED <<unanswered, handled, step, planned>>
        /\ UNCHANGED <<manual, troubles, crashes>>
    BY <1>5 DEF Deliver, vars, cluster, sumsub, handling, bounds
  <2>2. QED
    BY <1>3, <2>1, QuietKeepsOrder
<1>6. CASE IgnoreStale \/ StartEvent
  BY <1>3, <1>6, TakingKeepsOrder DEF IgnoreStale, StartEvent, bounds
<1>7. CASE ReadApplicant
  BY <1>3, <1>7, ReadingKeepsOrder DEF ReadApplicant, bounds
<1>8. CASE KeepRecord
  BY <1>3, <1>8, KeepingKeepsOrder DEF KeepRecord, bounds
<1>9. CASE PlanWrite
  BY <1>3, <1>9, PlanningKeepsOrder DEF PlanWrite, bounds
<1>10. CASE SendWrite
  BY <1>3, <1>10, SendingKeepsOrder DEF SendWrite, bounds
<1>11. CASE WriteConfirmed
  BY <1>3, <1>11, ConfirmingKeepsOrder DEF WriteConfirmed, bounds
<1>12. CASE WriteExpired
  <2>1. tx[Len(tx)].valid = FALSE /\ step = "confirm"
        /\ UNCHANGED <<manual, troubles, crashes>>
    BY <1>12, Sizes DEF WriteExpired, Last, bounds
  <2>2. ~Orderly
    <3>1. Orderly => Len(tx) \in DOMAIN tx
      BY <2>1, Sizes DEF Orderly, Awaited
    <3>2. QED
      BY <2>1, <3>1 DEF Orderly, OthersLanded
  <2>3. QED
    BY <1>3, <2>1, <2>2
<1>13. CASE \E n \in DOMAIN tx : Lands(n)
  BY <1>3, <1>13, LandingKeepsOrder DEF Lands, bounds
<1>14. QED
  BY <1>2, <1>4, <1>5, <1>6, <1>7, <1>8, <1>9, <1>10, <1>11, <1>12, <1>13
  DEF Next, Handle

(* docs/architecture.md: however many decisions there are, and however     *)
(* often and in whatever order their events come, once all are answered    *)
(* the record is what the last one asked for.  The wallet's first record   *)
(* must not be frozen: a webhook leaves that alone.                        *)
THEOREM AnsweredEventsAreDone ==
  (\A r \in InitialRecords : r.status # "frozen")
    => (Spec => []AnsweredMeansDone)
<1> SUFFICES ASSUME \A r \in InitialRecords : r.status # "frozen"
             PROVE  Spec => []AnsweredMeansDone
  OBVIOUS
<1>1. Init => OrderInv
  BY DEF Init, OrderInv, Orderly, ReviewIsLast, HandlingAgrees, OthersLanded,
     Awaited, NewestStays
<1>2. TypeInv /\ OrderInv => AnsweredMeansDone
  <2>1. SUFFICES ASSUME TypeInv, OrderInv, Undisturbed, events # <<>>,
                        unanswered = {}
                 PROVE  Fits(record, Len(events))
    BY DEF AnsweredMeansDone, Last, Fits
  <2>2. QED
    BY <2>1 DEF OrderInv, Orderly, NewestStays
<1>3. QED
  BY <1>1, <1>2, NextKeepsOrder, TypesAreInvariant, PTL DEF Spec
=============================================================================
