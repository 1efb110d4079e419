---------------------------- MODULE Attestation ----------------------------
(***************************************************************************)
(* The oracle co-signs revenue deposits of one car: backend/src/reports.   *)
(* A draft is built and co-signed by the backend, then signed and sent by  *)
(* the operator; an attested deposit is built and signed by the operator   *)
(* first.  The cluster and the operator go on while a request is checked;  *)
(* an action is what the backend does between two awaits, or a step of one *)
(* of the others.                                                          *)
(*                                                                         *)
(* The backend is the project's oracle throughout, and the days of every   *)
(* report are published.  A refusal changes nothing, so a crash, which     *)
(* forgets the request, is a refusal too.                                  *)
(*                                                                         *)
(* A definition named X_Fault is X with one plausible bug.                 *)
(***************************************************************************)
EXTENDS Naturals, SequencesExt, FiniteSets

CONSTANTS
  Reports,     \* the reports an operator may state
  MaxAhead,    \* how far past the next index an operator may build a deposit
  MaxDeposits, \* bound: co-signed deposits
  MaxSwitches  \* bound: pauses and resumptions of the project

Report == [first : Nat, last : Nat, kind : {"regular", "final"}]

ASSUME AttestationAssumption ==
  /\ Reports \subseteq {r \in Report : r.first <= r.last}
  /\ MaxAhead \in Nat
  /\ MaxDeposits \in Nat /\ MaxSwitches \in Nat

VARIABLES
  operating,  \* the project takes deposits
  periods,    \* its revenue periods: which deposit created each
  deposits,   \* report_attestations and deposit_drafts, and what became of them
  step,       \* what the backend waits for
  request,    \* the deposit it is asked to co-sign
  count,      \* Project.period_count as it read it
  todo,       \* conflicting deposits it still has to look up
  suspect,    \* the one whose status was unknown
  switches

backend == <<step, request, count, todo, suspect>>
vars == <<operating, periods, deposits, backend, switches>>

NoRequest == [form |-> "none"]
NextIndex == Len(periods)
Paid(i) == deposits[periods[i]].report

Idle ==
  /\ step' = "idle" /\ request' = NoRequest
  /\ count' = 0 /\ todo' = {} /\ suspect' = 0

Init ==
  /\ operating = TRUE
  /\ periods = <<>> /\ deposits = <<>>
  /\ step = "idle" /\ request = NoRequest
  /\ count = 0 /\ todo = {} /\ suspect = 0
  /\ switches = 0
-----------------------------------------------------------------------------
(* ReportsService.build reads the project; requests of one car are handled *)
(* one at a time.                                                          *)

Begin(form, report, index, again) ==
  /\ step = "idle" /\ operating
  /\ again = 0 => Len(deposits) < MaxDeposits
  /\ request' = [form |-> form, report |-> report, index |-> index,
                 again |-> again]
  /\ count' = NextIndex
  /\ step' = "periods"
  /\ UNCHANGED <<operating, periods, deposits, todo, suspect, switches>>

AskForDraft(report) == Begin("draft", report, NextIndex, 0)

AskToAttest(report, index) == Begin("attested", report, index, 0)

(* The same signed deposit is sent for attestation once more.              *)
AskAgain(d) ==
  /\ deposits[d].form = "attested"
  /\ Begin("attested", deposits[d].report, deposits[d].index, d)
-----------------------------------------------------------------------------
(* AttestationService.checkOverlaps.                                       *)

Overlap(r, s) == r.first <= s.last /\ s.first <= r.last

InTheWay_Fault(r, s) == Overlap(r, s)
InTheWay(r, s) == s.kind = "final" \/ Overlap(r, s)

Conflicting(form) ==
  {d \in DOMAIN deposits :
     deposits[d].form = form /\ InTheWay(request.report, deposits[d].report)}

Attestations == Conflicting("attested") \ {request.again}

(* A draft lands only at the index that is next: there it excludes the     *)
(* deposit asked for, unless that is built for another index.              *)
Drafts_Fault ==
  {d \in Conflicting("draft") : deposits[d].index = request.index}
Drafts ==
  IF request.index = count THEN {}
  ELSE {d \in Conflicting("draft") : deposits[d].index = count}

ReadPeriods ==
  /\ step = "periods"
  /\ \A i \in 1 .. count : ~InTheWay(request.report, Paid(i))
  /\ todo' = Attestations \cup Drafts
  /\ step' = "deposits"
  /\ UNCHANGED <<operating, periods, deposits, request, count, suspect, switches>>

LookUp(d) == step = "deposits" /\ d \in todo /\ deposits[d].form = "attested"

Dismiss(d) ==
  /\ todo' = todo \ {d} /\ step' = "deposits" /\ suspect' = 0
  /\ UNCHANGED <<operating, periods, deposits, request, count, switches>>

(* getSignatureStatuses; a status is kept about as long as a blockhash is. *)
StatusIsError(d) ==
  /\ LookUp(d) /\ deposits[d].fate = "failed"
  /\ Dismiss(d)

StatusIsUnknown(d) ==
  /\ LookUp(d) /\ (deposits[d].fate = "none" \/ ~deposits[d].live)
  /\ step' = "blockhash" /\ suspect' = d
  /\ UNCHANGED <<operating, periods, deposits, request, count, todo, switches>>

(* canStillLand, of an attested deposit or, after these, of a draft.       *)
BlockhashIsExpired(d) ==
  /\ \/ step = "blockhash" /\ d = suspect
     \/ /\ step = "deposits" /\ d \in todo
        /\ \A e \in todo : deposits[e].form = "draft"
  /\ ~deposits[d].live
  /\ Dismiss(d)

(* Any check refuses, a call fails, or the backend crashes.                *)
Refuse ==
  /\ step # "idle"
  /\ Idle
  /\ UNCHANGED <<operating, periods, deposits, switches>>

(* Deposits that landed and expired since the project was read.  Its       *)
(* periods do not show them, and their blockhash says that they are over,  *)
(* so a check that had not read their status before, or reads none because *)
(* they are drafts, takes them for deposits that never landed.             *)
Unseen ==
  {d \in DOMAIN deposits : ~deposits[d].live /\ \E i \in DOMAIN periods :
                                                  i > count /\ periods[i] = d}

(* The oracle signs; the store remembers the deposit before it is handed   *)
(* out, a known one only once.  History, for the properties: unseen.       *)
Cosigned ==
  [form |-> request.form, report |-> request.report, index |-> request.index,
   live |-> TRUE, fate |-> "none", unseen |-> Unseen]

Cosign ==
  /\ step = "deposits" /\ todo = {}
  /\ deposits' = IF request.again = 0 THEN Append(deposits, Cosigned)
                 ELSE deposits
  /\ Idle
  /\ UNCHANGED <<operating, periods, switches>>
-----------------------------------------------------------------------------
(* The operator sends a co-signed deposit whenever it likes; deposit_revenue *)
(* creates the period at the project's period_count.                       *)

MayLand(d) == deposits[d].live /\ deposits[d].fate = "none"

Fits_Fault(d) == operating
Fits(d) == operating /\ deposits[d].index = NextIndex

Land(d) ==
  /\ MayLand(d) /\ Fits(d)
  /\ periods' = Append(periods, d)
  /\ deposits' = [deposits EXCEPT ![d].fate = "landed"]
  /\ UNCHANGED <<operating, backend, switches>>

FailOnChain(d) ==
  /\ MayLand(d) /\ ~Fits(d)
  /\ deposits' = [deposits EXCEPT ![d].fate = "failed"]
  /\ UNCHANGED <<operating, periods, backend, switches>>

(* A blockhash expires however late its deposit landed, and whatever is    *)
(* being checked.                                                          *)
Expire(d) ==
  /\ deposits[d].live
  /\ deposits' = [deposits EXCEPT ![d].live = FALSE]
  /\ UNCHANGED <<operating, periods, backend, switches>>

(* pause_project and resume_project.                                       *)
Switch ==
  /\ switches < MaxSwitches
  /\ switches' = switches + 1 /\ operating' = ~operating
  /\ UNCHANGED <<periods, deposits, backend>>

Next ==
  \/ \E r \in Reports :
       \/ AskForDraft(r)
       \/ \E i \in 0 .. NextIndex + MaxAhead : AskToAttest(r, i)
  \/ ReadPeriods \/ Refuse \/ Cosign \/ Switch
  \/ \E d \in DOMAIN deposits :
       \/ AskAgain(d)
       \/ StatusIsError(d) \/ StatusIsUnknown(d) \/ BlockhashIsExpired(d)
       \/ Land(d) \/ FailOnChain(d) \/ Expire(d)

Spec == Init /\ [][Next]_vars
-----------------------------------------------------------------------------
Deposit == [form : {"draft", "attested"}, report : Reports, index : Nat,
            live : BOOLEAN, fate : {"none", "landed", "failed"},
            unseen : SUBSET Nat]

(* Type invariant; revenue periods are numbered without gaps, each created *)
(* by the deposit that was built for its index.                            *)
TypeOK ==
  /\ operating \in BOOLEAN /\ switches \in 0 .. MaxSwitches
  /\ deposits \in Seq(Deposit)
  /\ periods \in Seq(DOMAIN deposits)
  /\ \A i \in DOMAIN periods : /\ deposits[periods[i]].index = i - 1
                               /\ deposits[periods[i]].fate = "landed"
  /\ step \in {"idle", "periods", "deposits", "blockhash"}
  /\ request = NoRequest \/ request.report \in Reports
  /\ count \in 0 .. Len(periods)
  /\ todo \subseteq DOMAIN deposits
  /\ suspect \in todo \cup {0}

DaysOf(r) == r.first .. r.last

(* checkOverlaps, in its own words: one deposit per day of income.  It is  *)
(* not so: see OnlyUnseenDaysArePaidTwice.                                 *)
OneDepositPerDay ==
  \A i, j \in DOMAIN periods : i # j => DaysOf(Paid(i)) \cap DaysOf(Paid(j)) = {}

(* What checkOverlaps does ensure, whatever indexes the operator builds    *)
(* for and whenever it sends what was co-signed: a day is paid once more   *)
(* only by a deposit whose check missed the earlier one, which landed and  *)
(* expired between the check's first read and its end.                     *)
OnlyUnseenDaysArePaidTwice ==
  \A i, j \in DOMAIN periods :
    i < j /\ DaysOf(Paid(i)) \cap DaysOf(Paid(j)) # {}
      => periods[i] \in deposits[periods[j]].unseen

IsSale(i) == Paid(i).kind = "final"

SeenSold == \E i \in DOMAIN periods : IsSale(i) /\ periods[i] \notin Unseen

(* checkOverlaps: once the car's sale is paid out, the oracle co-signs     *)
(* nothing that could still land, unless the check missed the sale, which  *)
(* landed and expired after its first read.  One co-signed earlier, ahead  *)
(* of the sale's index and for days its report does not cover, still can.  *)
SaleEndsCosigning ==
  [][SeenSold /\ Len(deposits') > Len(deposits)
       => Last(deposits').index < NextIndex]_vars
=============================================================================
