----------------------------- MODULE KycWebhook -----------------------------
(***************************************************************************)
(* Sumsub decides about one applicant; backend/src/kyc turns its events    *)
(* into set_investor transactions for the wallet bound to it.  An event is *)
(* delivered until it is answered, perhaps again and in any order; events  *)
(* of one wallet are handled one at a time.  An action is what the backend *)
(* does between two awaits, or a step of Sumsub, of the cluster, of the    *)
(* compliance officer who holds the KYC key too, or a crash.               *)
(*                                                                         *)
(* An event is known by its number, which is its createdAt: events without *)
(* one, which skip the check for staleness and leave last_event_at as it   *)
(* is, and events of the same millisecond are left out.  Whether an        *)
(* approval would change an active record depends on jurisdiction, flags   *)
(* and expiry, which are left out: both outcomes are possible.             *)
(*                                                                         *)
(* A definition named X_Fault is X with one plausible bug.                 *)
(***************************************************************************)
EXTENDS Naturals, SequencesExt, FiniteSets

CONSTANTS
  InitialRecords,  \* records the wallet may have at first
  ManualRecords,   \* records the compliance officer may write
  MaxEvents,       \* bound: decisions of Sumsub
  MaxManual,       \* bound: records written by hand
  MaxRepeats,      \* bound: deliveries of an event already answered
  MaxTroubles,     \* bound: calls that fail or are lost
  MaxCrashes       \* bound: crashes of the backend

Statuses == {"none", "active", "revoked", "frozen"}
Providers == {"manual", "sumsub", "demo"}
Record == [status : Statuses, provider : Providers]
WrittenRecord == [status : Statuses \ {"none"}, provider : Providers]

ASSUME RecordsAssumption ==
  InitialRecords \subseteq Record /\ ManualRecords \subseteq WrittenRecord

ASSUME BoundsAssumption ==
  /\ MaxEvents \in Nat /\ MaxManual \in Nat /\ MaxRepeats \in Nat
  /\ MaxTroubles \in Nat /\ MaxCrashes \in Nat

VARIABLES
  record,      \* the wallet's Investor account
  tx,          \* every transaction the backend signed
  review,      \* what the Sumsub API says of the applicant
  events,      \* what each event asks for: "approve" or "revoke"
  unanswered,  \* events Sumsub keeps delivering
  lastEventAt, \* kyc_bindings.last_event_at
  queue,       \* webhooks waiting for the wallet's turn
  handled, step, planned, readAt,  \* the webhook being handled
  manual, repeats, troubles, crashes

cluster == <<record, tx>>
sumsub == <<review, events, unanswered>>
handling == <<handled, step, planned, readAt>>
bounds == <<manual, repeats, troubles, crashes>>
vars == <<cluster, sumsub, lastEventAt, queue, handling, bounds>>

NoRecord == [status |-> "none", provider |-> "manual"]
Approved == [status |-> "active", provider |-> "sumsub"]
Idle == /\ handled' = 0 /\ step' = "idle"
        /\ planned' = NoRecord /\ readAt' = 0

Init ==
  /\ record \in InitialRecords
  /\ tx = <<>>
  /\ review = "none" /\ events = <<>> /\ unanswered = {}
  /\ lastEventAt = 0
  /\ queue = <<>>
  /\ handled = 0 /\ step = "idle" /\ planned = NoRecord /\ readAt = 0
  /\ manual = 0 /\ repeats = 0 /\ troubles = 0 /\ crashes = 0
-----------------------------------------------------------------------------
(* Sumsub reviews, resets or deactivates the applicant and reports it.     *)

Decide(kind) ==
  /\ Len(events) < MaxEvents
  /\ review' = IF kind = "approve" THEN "green" ELSE "red"
  /\ events' = Append(events, kind)
  /\ unanswered' = unanswered \cup {Len(events')}
  /\ UNCHANGED <<cluster, lastEventAt, queue, handling, bounds>>

(* A delivery waits for the wallet's queue; one that was answered already  *)
(* may come again.                                                         *)
Deliver(e) ==
  /\ e \in DOMAIN events /\ e \notin Range(queue)
  /\ e \notin unanswered => repeats < MaxRepeats
  /\ repeats' = IF e \in unanswered THEN repeats ELSE repeats + 1
  /\ queue' = Append(queue, e)
  /\ UNCHANGED <<cluster, sumsub, lastEventAt, handling, manual, troubles,
                 crashes>>
-----------------------------------------------------------------------------
(* KycWebhookService.apply and InvestorRegistry.update.                    *)

Answered(e) == unanswered' = unanswered \ {e}

(* The event is done: remembered as the newest applied one, and answered.  *)
Applied(e) ==
  /\ lastEventAt' = IF e > lastEventAt THEN e ELSE lastEventAt
  /\ Answered(e)

IsStale_Fault(e) == FALSE
IsStale(e) == e < lastEventAt

AnswerStale_Fault(e) == UNCHANGED unanswered
AnswerStale(e) == Answered(e)

NextInQueue == step = "idle" /\ queue # <<>>

IgnoreStale ==
  /\ NextInQueue /\ IsStale(Head(queue))
  /\ AnswerStale(Head(queue))
  /\ queue' = Tail(queue)
  /\ UNCHANGED <<cluster, review, events, lastEventAt, handling, bounds>>

StartEvent ==
  /\ NextInQueue /\ ~IsStale(Head(queue))
  /\ handled' = Head(queue)
  /\ step' = IF events[Head(queue)] = "approve" THEN "applicant" ELSE "record"
  /\ queue' = Tail(queue)
  /\ UNCHANGED <<cluster, sumsub, lastEventAt, planned, readAt, bounds>>

(* An approval is confirmed with the Sumsub API; otherwise it is ignored.  *)
ReadApplicant ==
  /\ step = "applicant"
  /\ IF review = "green"
     THEN /\ step' = "record"
          /\ UNCHANGED <<unanswered, handled, planned, readAt>>
     ELSE Answered(handled) /\ Idle
  /\ UNCHANGED <<cluster, review, events, lastEventAt, queue, bounds>>

(* planApproval and planRevocation: the records an event may change.       *)
Approvable_Fault(r) == TRUE
Approvable(r) == r.status # "frozen"

Revocable(r) == r.status = "active" /\ r.provider = "sumsub"

MayWrite(e, r) ==
  IF events[e] = "approve" THEN Approvable(r) ELSE Revocable(r)

MayKeep(e, r) == ~MayWrite(e, r) \/ (r = Approved /\ events[e] = "approve")

PlannedFor_Fault(e, r) ==
  IF events[e] = "approve" THEN [r EXCEPT !.provider = "sumsub"]
  ELSE [r EXCEPT !.status = "revoked"]
PlannedFor(e, r) ==
  IF events[e] = "approve" THEN Approved ELSE [r EXCEPT !.status = "revoked"]

(* The record is blocked or would not change.                              *)
KeepRecord ==
  /\ step = "record" /\ MayKeep(handled, record)
  /\ Applied(handled)
  /\ Idle
  /\ UNCHANGED <<cluster, review, events, queue, bounds>>

PlanWrite ==
  /\ step = "record" /\ MayWrite(handled, record)
  /\ planned' = PlannedFor(handled, record) /\ readAt' = manual
  /\ step' = "send"
  /\ UNCHANGED <<cluster, sumsub, lastEventAt, queue, handled, bounds>>

SignedAs(fate) ==
  tx' = Append(tx, [event |-> handled, record |-> planned, readAt |-> readAt,
                    valid |-> TRUE, fate |-> fate])

(* Signed on a fresh blockhash and received by the cluster.                *)
SendWrite ==
  /\ step = "send"
  /\ SignedAs("inFlight")
  /\ step' = "confirm"
  /\ UNCHANGED <<record, sumsub, lastEventAt, queue, handled, planned, readAt,
                 bounds>>

WriteConfirmed ==
  /\ step = "confirm"
  /\ Last(tx).fate = "landed"
  /\ Applied(handled)
  /\ Idle
  /\ UNCHANGED <<cluster, review, events, queue, bounds>>

(* It can no longer land: an error, and Sumsub delivers the event again.   *)
WriteExpired ==
  /\ step = "confirm"
  /\ Last(tx).fate = "inFlight" /\ ~Last(tx).valid
  /\ Idle
  /\ UNCHANGED <<cluster, sumsub, lastEventAt, queue, bounds>>

(* A call fails; of a sending or a confirmation the outcome is unknown.    *)
CallFails ==
  /\ step # "idle" /\ troubles < MaxTroubles
  /\ troubles' = troubles + 1
  /\ IF step = "send"
     THEN \E fate \in {"inFlight", "lost"} : SignedAs(fate)
     ELSE UNCHANGED tx
  /\ Idle
  /\ UNCHANGED <<record, sumsub, lastEventAt, queue, manual, repeats, crashes>>
-----------------------------------------------------------------------------
(* set_investor overwrites the record, whatever it has become.             *)
Lands(n) ==
  /\ tx[n].fate = "inFlight" /\ tx[n].valid
  /\ record' = tx[n].record
  /\ tx' = [tx EXCEPT ![n].fate = "landed"]
  /\ UNCHANGED <<sumsub, lastEventAt, queue, handling, bounds>>

Expires(n) ==
  /\ tx[n].fate = "inFlight" /\ tx[n].valid
  /\ troubles < MaxTroubles
  /\ troubles' = troubles + 1
  /\ tx' = [tx EXCEPT ![n].valid = FALSE]
  /\ UNCHANGED <<record, sumsub, lastEventAt, queue, handling, manual, repeats,
                 crashes>>

WriteByHand(r) ==
  /\ manual < MaxManual
  /\ manual' = manual + 1
  /\ record' = r
  /\ UNCHANGED <<tx, sumsub, lastEventAt, queue, handling, repeats, troubles,
                 crashes>>

Crash ==
  /\ crashes < MaxCrashes
  /\ crashes' = crashes + 1
  /\ queue' = <<>>
  /\ Idle
  /\ UNCHANGED <<cluster, sumsub, lastEventAt, manual, repeats, troubles>>

Handle ==
  \/ IgnoreStale \/ StartEvent \/ ReadApplicant \/ KeepRecord \/ PlanWrite
  \/ SendWrite \/ WriteConfirmed \/ WriteExpired

Next ==
  \/ \E kind \in {"approve", "revoke"} : Decide(kind)
  \/ \E e \in 1 .. MaxEvents : Deliver(e)
  \/ Handle \/ CallFails
  \/ \E n \in DOMAIN tx : Lands(n) \/ Expires(n)
  \/ \E r \in ManualRecords : WriteByHand(r)
  \/ Crash

Spec == Init /\ [][Next]_vars

(* Sumsub repeats what was not answered, handling goes on, and the cluster *)
(* decides every transaction.                                              *)
FairSpec ==
  /\ Spec
  /\ WF_vars(Handle)
  /\ \A e \in 1 .. MaxEvents : WF_vars(e \in unanswered /\ Deliver(e))
  /\ WF_vars(\E n \in DOMAIN tx : Lands(n))
-----------------------------------------------------------------------------
(* Type invariant; set_investor refuses the status none.                   *)
TypeOK ==
  /\ record \in Record
  /\ tx \in Seq([event : DOMAIN events, record : WrittenRecord,
                 readAt : 0 .. manual, valid : BOOLEAN,
                 fate : {"inFlight", "lost", "landed"}])
  /\ review \in {"none", "green", "red"}
  /\ events \in Seq({"approve", "revoke"})
  /\ unanswered \subseteq DOMAIN events
  /\ lastEventAt \in 0 .. Len(events)
  /\ queue \in Seq(DOMAIN events)
  /\ handled \in 0 .. Len(events)
  /\ step \in {"idle", "applicant", "record", "send", "confirm"}
  /\ planned \in Record
  /\ step \in {"send", "confirm"} => planned \in WrittenRecord
  /\ readAt \in 0 .. manual
  /\ manual \in 0 .. MaxManual /\ repeats \in 0 .. MaxRepeats
  /\ troubles \in 0 .. MaxTroubles /\ crashes \in 0 .. MaxCrashes

LandsNow(n) == tx[n].fate = "inFlight" /\ tx'[n].fate = "landed"

(* docs/architecture.md, retries are safe: once every event is answered,   *)
(* in whatever order and however often they came, the record is what the   *)
(* last decision asked for, if no call failed and nobody else wrote it.    *)
Undisturbed == troubles = 0 /\ crashes = 0 /\ manual = 0

AnsweredMeansDone ==
  Undisturbed /\ events # <<>> /\ unanswered = {} =>
    IF Last(events) = "approve" THEN record = Approved ELSE record # Approved

(* docs/architecture.md: a sanctions freeze is never lifted or overwritten *)
(* by a webhook.                                                           *)
FreezeIsNeverLifted ==
  [][record.status = "frozen" /\ record'.status # "frozen"
       => manual' # manual]_vars

(* investor-plan.ts, as far as a read before a write can keep it: whatever *)
(* fails, is repeated or lands late, a webhook changes neither a frozen    *)
(* record nor, by a revocation, a manual or demo one, unless it was        *)
(* written by hand after the webhook read it.                              *)
HandWrittenOutlastNewPlans ==
  [][\A n \in DOMAIN tx : LandsNow(n) /\ tx[n].readAt = manual =>
       /\ record.status # "frozen"
       /\ tx[n].record.status = "revoked" => record.provider = "sumsub"]_vars

(* Every decision of Sumsub is answered in the end.                        *)
EventsAreAnswered ==
  \A e \in 1 .. MaxEvents : e \in unanswered ~> e \notin unanswered
=============================================================================
