-------------------------- MODULE AttestationProofs --------------------------
(***************************************************************************)
(* The oracle's co-signing of one car's deposits, for any reports, any     *)
(* number of deposits and however far ahead an operator builds them.       *)
(* What was co-signed and can still land is kept apart from what landed,   *)
(* except from what landed and expired unseen by the check; so whatever    *)
(* lands next is a deposit for other days, or for days of the unseen.      *)
(***************************************************************************)
EXTENDS Attestation, SequenceTheorems, TLAPS

(* What a request is while it is checked.  A draft is for the index that   *)
(* was next when the request began.                                        *)
Asked ==
  /\ step \in {"idle", "periods"} => suspect = 0
  /\ step # "idle" =>
       /\ request \in [form : {"draft", "attested"}, report : Reports,
                       index : Nat, again : Nat]
       /\ request.form = "draft" => request.index = count /\ request.again = 0

TypeInv == TypeOK /\ Asked

LEMMA TypesOfDeposits ==
  ASSUME TypeOK
  PROVE  /\ Len(deposits) \in Nat /\ DOMAIN deposits = 1 .. Len(deposits)
         /\ \A d \in DOMAIN deposits : deposits[d] \in Deposit
         /\ Len(periods) \in Nat /\ DOMAIN periods = 1 .. Len(periods)
         /\ \A i \in DOMAIN periods : periods[i] \in DOMAIN deposits
         /\ count \in Nat /\ count <= Len(periods)
<1>1. deposits \in Seq(Deposit) /\ periods \in Seq(DOMAIN deposits)
  BY DEF TypeOK
<1>2. /\ Len(deposits) \in Nat /\ DOMAIN deposits = 1 .. Len(deposits)
      /\ Len(periods) \in Nat /\ DOMAIN periods = 1 .. Len(periods)
  BY <1>1, LenProperties
<1>3. \A d \in 1 .. Len(deposits) : deposits[d] \in Deposit
  BY <1>1, ElementOfSeq
<1>4. \A i \in 1 .. Len(periods) : periods[i] \in DOMAIN deposits
  BY <1>1, ElementOfSeq
<1>5. QED
  BY <1>2, <1>3, <1>4 DEF TypeOK

(* What a co-signature adds, and what a change of one deposit leaves.      *)
LEMMA CosignAppends ==
  ASSUME TypeInv, Cosign, request.again = 0
  PROVE  /\ Cosigned \in Deposit
         /\ deposits' \in Seq(Deposit)
         /\ Len(deposits') = Len(deposits) + 1
         /\ DOMAIN deposits' = 1 .. Len(deposits) + 1
         /\ \A d \in DOMAIN deposits : deposits'[d] = deposits[d]
         /\ deposits'[Len(deposits) + 1] = Cosigned
<1>1. deposits' = Append(deposits, Cosigned) /\ deposits \in Seq(Deposit)
  BY DEF Cosign, TypeInv, TypeOK
<1>2. Cosigned \in Deposit
  <2>1. Unseen \in SUBSET Nat
    BY TypesOfDeposits DEF TypeInv, Unseen
  <2>2. QED
    BY <2>1 DEF Cosign, TypeInv, Asked, Cosigned, Deposit
<1>3. /\ deposits' \in Seq(Deposit)
      /\ Len(deposits') = Len(deposits) + 1
      /\ \A d \in 1 .. Len(deposits) : deposits'[d] = deposits[d]
      /\ deposits'[Len(deposits) + 1] = Cosigned
  BY <1>1, <1>2, AppendProperties
<1>4. /\ DOMAIN deposits' = 1 .. Len(deposits')
      /\ DOMAIN deposits = 1 .. Len(deposits)
  BY <1>1, <1>3, LenProperties
<1>5. QED
  BY <1>2, <1>3, <1>4

(* The steps that touch one co-signed deposit, on the cluster.             *)
ChangesFate(d) == Land(d) \/ FailOnChain(d) \/ Expire(d)

LEMMA FateChanges ==
  ASSUME TypeInv, NEW d \in DOMAIN deposits, ChangesFate(d)
  PROVE  /\ deposits' \in Seq(Deposit)
         /\ Len(deposits') = Len(deposits)
         /\ DOMAIN deposits' = DOMAIN deposits
         /\ \A e \in DOMAIN deposits :
              /\ deposits'[e].form = deposits[e].form
              /\ deposits'[e].report = deposits[e].report
              /\ deposits'[e].index = deposits[e].index
              /\ deposits'[e].unseen = deposits[e].unseen
              /\ e # d => deposits'[e] = deposits[e]
         /\ Expire(d) => ~deposits'[d].live /\ deposits'[d].fate = deposits[d].fate
         /\ Land(d) => deposits'[d].fate = "landed" /\ deposits'[d].live
         /\ FailOnChain(d) => deposits'[d].fate = "failed"
         /\ UNCHANGED backend
<1>1. /\ deposits \in Seq(Deposit) /\ DOMAIN deposits = 1 .. Len(deposits)
      /\ deposits[d] \in Deposit
  BY TypesOfDeposits DEF TypeInv, TypeOK
<1>2. ASSUME NEW new \in Deposit, deposits' = [deposits EXCEPT ![d] = new],
             new.form = deposits[d].form, new.report = deposits[d].report,
             new.index = deposits[d].index, new.unseen = deposits[d].unseen
      PROVE  /\ deposits' \in Seq(Deposit)
             /\ Len(deposits') = Len(deposits)
             /\ DOMAIN deposits' = DOMAIN deposits
             /\ deposits'[d] = new
             /\ \A e \in DOMAIN deposits :
                  /\ deposits'[e].form = deposits[e].form
                  /\ deposits'[e].report = deposits[e].report
                  /\ deposits'[e].index = deposits[e].index
                  /\ deposits'[e].unseen = deposits[e].unseen
                  /\ e # d => deposits'[e] = deposits[e]
  BY <1>1, <1>2, ExceptSeq
<1>3. CASE Expire(d)
  <2> DEFINE new == [deposits[d] EXCEPT !.live = FALSE]
  <2>1. /\ new \in Deposit /\ deposits' = [deposits EXCEPT ![d] = new]
        /\ new.form = deposits[d].form /\ new.report = deposits[d].report
        /\ new.index = deposits[d].index /\ new.unseen = deposits[d].unseen
        /\ ~new.live
        /\ new.fate = deposits[d].fate /\ deposits[d].live
    BY <1>1, <1>3 DEF Expire, Deposit
  <2> HIDE DEF new
  <2>2. /\ UNCHANGED backend /\ ~Land(d) /\ ~FailOnChain(d)
    <3>1. ~deposits'[d].live /\ deposits'[d].fate = deposits[d].fate
      BY <1>2, <2>1
    <3>2. UNCHANGED backend
      BY <1>3 DEF Expire
    <3>3. ~Land(d) /\ ~FailOnChain(d)
      <4>1. Land(d) => deposits'[d].fate = "landed" /\ deposits[d].fate = "none"
        BY <1>1 DEF Land, MayLand, Deposit
      <4>2. FailOnChain(d) =>
              deposits'[d].fate = "failed" /\ deposits[d].fate = "none"
        BY <1>1 DEF FailOnChain, MayLand, Deposit
      <4>3. QED
        BY <3>1, <4>1, <4>2
    <3>4. QED
      BY <3>2, <3>3
  <2>3. QED
    BY <1>2, <2>1, <2>2
<1>4. CASE Land(d) \/ FailOnChain(d)
  <2>1. PICK fate \in {"landed", "failed"} :
          /\ deposits' = [deposits EXCEPT ![d].fate = fate]
          /\ Land(d) => fate = "landed"
          /\ FailOnChain(d) => fate = "failed"
    <3>1. CASE Land(d)
      <4>1. deposits' = [deposits EXCEPT ![d].fate = "landed"] /\ ~FailOnChain(d)
        BY <3>1 DEF Land, FailOnChain
      <4>2. QED
        BY <4>1
    <3>2. CASE FailOnChain(d)
      <4>1. deposits' = [deposits EXCEPT ![d].fate = "failed"] /\ ~Land(d)
        BY <3>2 DEF Land, FailOnChain
      <4>2. QED
        BY <4>1
    <3>3. QED
      BY <1>4, <3>1, <3>2
  <2>2. deposits[d].live /\ deposits[d].fate = "none" /\ UNCHANGED backend
    BY <1>4 DEF Land, FailOnChain, MayLand
  <2> DEFINE new == [deposits[d] EXCEPT !.fate = fate]
  <2>3. /\ new \in Deposit /\ deposits' = [deposits EXCEPT ![d] = new]
        /\ new.form = deposits[d].form /\ new.report = deposits[d].report
        /\ new.index = deposits[d].index /\ new.unseen = deposits[d].unseen
        /\ new.live /\ new.fate = fate
    BY <1>1, <2>1, <2>2 DEF Deposit
  <2> HIDE DEF new
  <2>4. deposits'[d] = new
    BY <1>2, <2>3
  <2>5. ~Expire(d)
    <3>1. Expire(d) => ~deposits'[d].live
      BY <1>1 DEF Expire, Deposit
    <3>2. QED
      BY <2>3, <2>4, <3>1
  <2>6. QED
    BY <1>2, <2>1, <2>2, <2>3, <2>5
<1>5. QED
  BY <1>3, <1>4 DEF ChangesFate

(* A deposit lands at the index that is next.                              *)
LEMMA LandAppends ==
  ASSUME TypeInv, NEW d \in DOMAIN deposits, Land(d)
  PROVE  /\ Len(periods') = Len(periods) + 1
         /\ DOMAIN periods' = 1 .. Len(periods) + 1
         /\ \A i \in DOMAIN periods : periods'[i] = periods[i]
         /\ periods'[Len(periods) + 1] = d
         /\ deposits[d].index = Len(periods) /\ MayLand(d)
         /\ periods' \in Seq(DOMAIN deposits)
<1>1. periods \in Seq(DOMAIN deposits) /\ periods' = Append(periods, d)
  BY DEF Land, TypeInv, TypeOK
<1>2. /\ Len(periods') = Len(periods) + 1 /\ periods' \in Seq(DOMAIN deposits)
      /\ \A i \in 1 .. Len(periods) : periods'[i] = periods[i]
      /\ periods'[Len(periods) + 1] = d
  BY <1>1, AppendProperties
<1>3. /\ DOMAIN periods' = 1 .. Len(periods')
      /\ DOMAIN periods = 1 .. Len(periods)
  BY <1>1, <1>2, LenProperties
<1>4. QED
  BY <1>2, <1>3 DEF Land, Fits, NextIndex

(* A request begins: the project is read.                                  *)
Asks ==
  \/ \E r \in Reports :
       \/ AskForDraft(r)
       \/ \E i \in 0 .. NextIndex + MaxAhead : AskToAttest(r, i)
  \/ \E d \in DOMAIN deposits : AskAgain(d)

Dismisses(d) == StatusIsError(d) \/ BlockhashIsExpired(d)

LEMMA StepsOfNext ==
  ASSUME Next
  PROVE  \/ Asks \/ ReadPeriods \/ Refuse \/ Cosign \/ Switch
         \/ \E d \in DOMAIN deposits :
              Dismisses(d) \/ StatusIsUnknown(d) \/ ChangesFate(d)
  BY DEF Next, Asks, Dismisses, ChangesFate

LEMMA RequestBegins ==
  ASSUME TypeInv, Asks
  PROVE  /\ step = "idle" /\ step' = "periods" /\ count' = Len(periods)
         /\ request' \in [form : {"draft", "attested"}, report : Reports,
                          index : Nat, again : Nat]
         /\ request'.form = "draft" =>
              request'.index = count' /\ request'.again = 0
         /\ UNCHANGED <<operating, periods, deposits, todo, suspect, switches>>
<1>1. ASSUME NEW r \in Reports, NEW i \in Nat, NEW again \in Nat,
             NEW form \in {"draft", "attested"},
             form = "draft" => i = Len(periods) /\ again = 0,
             Begin(form, r, i, again)
      PROVE  /\ step = "idle" /\ step' = "periods" /\ count' = Len(periods)
             /\ request' \in [form : {"draft", "attested"}, report : Reports,
                              index : Nat, again : Nat]
             /\ request'.form = "draft" =>
                  request'.index = count' /\ request'.again = 0
             /\ UNCHANGED <<operating, periods, deposits, todo, suspect, switches>>
  BY <1>1 DEF Begin, NextIndex
<1>2. Len(periods) \in Nat
  BY TypesOfDeposits DEF TypeInv
<1>3. CASE \E r \in Reports : AskForDraft(r)
  BY <1>1, <1>2, <1>3 DEF AskForDraft, NextIndex
<1>4. CASE \E r \in Reports : \E i \in 0 .. NextIndex + MaxAhead :
             AskToAttest(r, i)
  BY <1>1, <1>2, <1>4, AttestationAssumption DEF AskToAttest, NextIndex
<1>5. ASSUME NEW d \in DOMAIN deposits, AskAgain(d)
      PROVE  \E r \in Reports, i \in Nat, again \in Nat :
               Begin("attested", r, i, again)
  <2>1. deposits[d] \in Deposit /\ d \in Nat
    BY TypesOfDeposits DEF TypeInv
  <2>2. QED
    BY <1>5, <2>1 DEF AskAgain, Deposit
<1>6. QED
  BY <1>1, <1>3, <1>4, <1>5 DEF Asks

LEMMA InitTypeInv == Init => TypeInv
  BY AttestationAssumption DEF Init, TypeInv, TypeOK, Asked

(* Revenue periods and their deposits, when the deposits stay as they are. *)
LEMMA TypesWithoutLanding ==
  ASSUME TypeInv, UNCHANGED <<deposits, periods>>,
         operating' \in BOOLEAN, switches' \in 0 .. MaxSwitches,
         step' \in {"idle", "periods", "deposits", "blockhash"},
         request' = NoRequest \/ request'.report \in Reports,
         count' \in 0 .. Len(periods),
         todo' \subseteq DOMAIN deposits, suspect' \in todo' \cup {0}
  PROVE  TypeOK'
  BY DEF TypeInv, TypeOK

LEMMA NextKeepsTypes ==
  ASSUME TypeInv, [Next]_vars
  PROVE  TypeInv'
<1> USE DEF TypeInv
<1>1. /\ operating \in BOOLEAN /\ switches \in 0 .. MaxSwitches
      /\ step \in {"idle", "periods", "deposits", "blockhash"}
      /\ request = NoRequest \/ request.report \in Reports
      /\ count \in 0 .. Len(periods)
      /\ todo \subseteq DOMAIN deposits /\ suspect \in todo \cup {0}
  BY DEF TypeOK
<1>2. CASE Asks
  <2>1. TypeOK'
    <3>1. Len(periods) \in 0 .. Len(periods)
      BY TypesOfDeposits
    <3>2. QED
      BY <1>1, <1>2, <3>1, RequestBegins, TypesWithoutLanding
  <2>2. Asked'
    BY <1>2, RequestBegins DEF Asked
  <2>3. QED
    BY <2>1, <2>2
<1>3. CASE ReadPeriods
  <2>1. TypeOK'
    BY <1>1, <1>3, TypesWithoutLanding
    DEF ReadPeriods, Asked, Attestations, Drafts, Conflicting
  <2>2. Asked'
    BY <1>3 DEF ReadPeriods, Asked
  <2>3. QED
    BY <2>1, <2>2
<1>4. CASE Refuse
  <2>1. 0 \in 0 .. Len(periods)
    BY TypesOfDeposits
  <2>2. QED
    BY <1>1, <1>4, <2>1, TypesWithoutLanding DEF Refuse, Idle, Asked
<1>5. CASE Cosign
  <2>1. step' = "idle" /\ request' = NoRequest /\ count' = 0 /\ todo' = {}
        /\ suspect' = 0 /\ UNCHANGED <<operating, periods, switches>>
    BY <1>5 DEF Cosign, Idle
  <2>2. 0 \in 0 .. Len(periods)
    BY TypesOfDeposits
  <2>3. CASE request.again = 0
    <3>1. /\ deposits' \in Seq(Deposit)
          /\ \A d \in DOMAIN deposits : /\ d \in DOMAIN deposits'
                                        /\ deposits'[d] = deposits[d]
      BY <1>5, <2>3, CosignAppends, TypesOfDeposits
    <3>2. periods' \in Seq(DOMAIN deposits')
      <4>1. DOMAIN deposits \subseteq DOMAIN deposits'
        BY <3>1
      <4>2. QED
        BY <2>1, <4>1, SeqMonotonic DEF TypeOK
    <3>3. \A i \in DOMAIN periods' :
            /\ deposits'[periods'[i]].index = i - 1
            /\ deposits'[periods'[i]].fate = "landed"
      BY <2>1, <3>1, TypesOfDeposits DEF TypeOK
    <3>4. TypeOK'
      BY <1>1, <2>1, <2>2, <3>1, <3>2, <3>3 DEF TypeOK
    <3>5. QED
      BY <2>1, <3>4 DEF Asked
  <2>4. CASE request.again # 0
    <3>1. deposits' = deposits
      BY <1>5, <2>4 DEF Cosign
    <3>2. TypeOK'
      BY <1>1, <2>1, <2>2, <3>1, TypesWithoutLanding
    <3>3. QED
      BY <2>1, <3>2 DEF Asked
  <2>5. QED
    BY <2>3, <2>4
<1>6. CASE Switch
  <2>1. switches' \in 0 .. MaxSwitches /\ operating' \in BOOLEAN
    BY <1>1, <1>6, AttestationAssumption DEF Switch
  <2>2. UNCHANGED <<periods, deposits, step, request, count, todo, suspect>>
    BY <1>6 DEF Switch, backend
  <2>3. TypeOK'
    BY <1>1, <2>1, <2>2, TypesWithoutLanding
  <2>4. QED
    BY <2>2, <2>3 DEF Asked
<1>7. ASSUME NEW d \in DOMAIN deposits, Dismisses(d)
      PROVE  TypeInv'
  <2>1. /\ todo' = todo \ {d} /\ step' = "deposits" /\ suspect' = 0
        /\ UNCHANGED <<operating, periods, deposits, request, count, switches>>
        /\ step # "idle"
    BY <1>7 DEF Dismisses, StatusIsError, BlockhashIsExpired, Dismiss, LookUp
  <2>2. TypeOK'
    BY <1>1, <2>1, TypesWithoutLanding
  <2>3. QED
    BY <2>1, <2>2 DEF Asked
<1>8. ASSUME NEW d \in DOMAIN deposits, StatusIsUnknown(d)
      PROVE  TypeInv'
  <2>1. /\ step' = "blockhash" /\ suspect' = d /\ d \in todo
        /\ UNCHANGED <<operating, periods, deposits, request, count, todo, switches>>
        /\ step # "idle"
    BY <1>8 DEF StatusIsUnknown, LookUp
  <2>2. TypeOK'
    BY <1>1, <2>1, TypesWithoutLanding
  <2>3. QED
    BY <2>1, <2>2 DEF Asked
<1>9. ASSUME NEW d \in DOMAIN deposits, ChangesFate(d)
      PROVE  TypeInv'
  <2>1. /\ deposits' \in Seq(Deposit) /\ DOMAIN deposits' = DOMAIN deposits
        /\ \A e \in DOMAIN deposits : deposits'[e].index = deposits[e].index
        /\ \A e \in DOMAIN deposits :
             deposits[e].fate = "landed" => deposits'[e].fate = "landed"
        /\ UNCHANGED <<step, request, count, todo, suspect, operating, switches>>
    <3>1. UNCHANGED <<step, request, count, todo, suspect, operating, switches>>
      BY <1>9 DEF ChangesFate, Land, FailOnChain, Expire, backend
    <3>2. deposits[d].fate = "landed" => Expire(d)
      BY <1>9 DEF ChangesFate, Land, FailOnChain, MayLand
    <3>3. QED
      BY <1>9, <3>1, <3>2, FateChanges
  <2>2. Asked'
    BY <2>1 DEF Asked
  <2>3. CASE Land(d)
    <3>1. /\ periods' \in Seq(DOMAIN deposits')
          /\ Len(periods') = Len(periods) + 1
          /\ \A i \in DOMAIN periods' :
               \/ i \in DOMAIN periods /\ periods'[i] = periods[i]
               \/ i = Len(periods) + 1 /\ periods'[i] = d
                  /\ deposits[d].index = Len(periods)
      BY <2>1, <2>3, LandAppends, TypesOfDeposits
    <3>2. deposits'[d].fate = "landed"
      BY <1>9, <2>3, FateChanges
    <3>3. ASSUME NEW i \in DOMAIN periods'
          PROVE  /\ deposits'[periods'[i]].index = i - 1
                 /\ deposits'[periods'[i]].fate = "landed"
      <4>1. CASE i \in DOMAIN periods /\ periods'[i] = periods[i]
        BY <2>1, <4>1, TypesOfDeposits DEF TypeOK
      <4>2. CASE i = Len(periods) + 1 /\ periods'[i] = d
                 /\ deposits[d].index = Len(periods)
        BY <2>1, <3>2, <4>2, TypesOfDeposits
      <4>3. QED
        BY <3>1, <4>1, <4>2
    <3>4. count' \in 0 .. Len(periods')
      BY <1>1, <2>1, <3>1, TypesOfDeposits
    <3>5. TypeOK'
      BY <1>1, <2>1, <3>1, <3>3, <3>4 DEF TypeOK
    <3>6. QED
      BY <2>2, <3>5
  <2>4. CASE ~Land(d)
    <3>1. periods' = periods
      BY <1>9, <2>4 DEF ChangesFate, FailOnChain, Expire
    <3>2. \A i \in DOMAIN periods :
            /\ deposits'[periods[i]].index = i - 1
            /\ deposits'[periods[i]].fate = "landed"
      BY <2>1, TypesOfDeposits DEF TypeOK
    <3>3. TypeOK'
      BY <1>1, <2>1, <3>1, <3>2 DEF TypeOK
    <3>4. QED
      BY <2>2, <3>3
  <2>5. QED
    BY <2>3, <2>4
<1>10. CASE UNCHANGED vars
  <2>1. UNCHANGED <<operating, switches, periods, deposits, step, request,
                    count, todo, suspect>>
    BY <1>10 DEF vars, backend
  <2>2. TypeOK'
    BY <1>1, <2>1, TypesWithoutLanding
  <2>3. QED
    BY <2>1, <2>2 DEF Asked
<1>11. QED
  BY <1>2, <1>3, <1>4, <1>5, <1>6, <1>7, <1>8, <1>9, <1>10, StepsOfNext

LEMMA TypesAreInvariant == Spec => []TypeInv
  BY InitTypeInv, NextKeepsTypes, PTL DEF Spec

(* Every revenue period has its own index and the deposit built for it,    *)
(* whatever else was built for that index.                                 *)
THEOREM TypeCorrect == Spec => []TypeOK
<1>1. TypeInv => TypeOK
  BY DEF TypeInv
<1>2. QED
  BY <1>1, TypesAreInvariant, PTL
-----------------------------------------------------------------------------
(* What landed, what can still land, and what a check has yet to look at.  *)

(* A draft is built for the index that is next, so it is never ahead.      *)
DraftsAreNotAhead ==
  \A d \in DOMAIN deposits : deposits[d].form = "draft" =>
    /\ deposits[d].index <= Len(periods)
    /\ step # "idle" => deposits[d].index <= count

LandedIsPaid ==
  \A d \in DOMAIN deposits : deposits[d].fate = "landed" =>
    \E i \in DOMAIN periods : periods[i] = d

(* Deposits the request must not be co-signed beside, unless they are over *)
(* or the check misses them.                                               *)
Concerns(d) ==
  /\ d # request.again
  /\ InTheWay(request.report, deposits[d].report)
  /\ \/ deposits[d].form = "attested"
     \/ request.index # count /\ deposits[d].index = count

Over(d) ==
  \/ deposits[d].fate = "failed"
  \/ deposits[d].fate = "none" /\ ~deposits[d].live
  \/ d \in Unseen

Checked ==
  step \in {"deposits", "blockhash"} =>
    /\ \A i \in 1 .. count : ~InTheWay(request.report, Paid(i))
    /\ \A d \in DOMAIN deposits : Concerns(d) => d \in todo \/ Over(d)

CheckInv == DraftsAreNotAhead /\ LandedIsPaid /\ Checked

LEMMA InitCheckInv == Init => CheckInv
  BY DEF Init, CheckInv, DraftsAreNotAhead, LandedIsPaid, Checked

(* A step that moves neither the deposits nor the periods.                 *)
LEMMA BooksStay ==
  ASSUME CheckInv, UNCHANGED <<deposits, periods>>,
         step' # "idle" => step # "idle" /\ count' = count
  PROVE  DraftsAreNotAhead' /\ LandedIsPaid'
  BY DEF CheckInv, DraftsAreNotAhead, LandedIsPaid

(* A deposit is dismissed only when it is over, unseen or of no concern.   *)
LEMMA DismissedIsOver ==
  ASSUME TypeInv, CheckInv, NEW d \in DOMAIN deposits, Dismisses(d), Concerns(d)
  PROVE  Over(d)
<1>1. /\ step \in {"deposits", "blockhash"}
      /\ deposits[d].fate = "failed" \/ ~deposits[d].live
  BY DEF Dismisses, StatusIsError, BlockhashIsExpired, LookUp
<1>2. deposits[d] \in Deposit
  BY TypesOfDeposits DEF TypeInv
<1>3. CASE deposits[d].fate = "landed"
  <2>1. PICK i \in DOMAIN periods : periods[i] = d
    BY <1>3 DEF CheckInv, LandedIsPaid
  <2>2. CASE i > count
    BY <1>1, <1>3, <2>1, <2>2 DEF Over, Unseen
  <2>3. CASE i \in 1 .. count
    <3>1. ~InTheWay(request.report, Paid(i)) /\ Paid(i) = deposits[d].report
      BY <1>1, <2>1, <2>3 DEF CheckInv, Checked, Paid
    <3>2. QED
      BY <3>1 DEF Concerns
  <2>4. QED
    BY <2>2, <2>3, TypesOfDeposits DEF TypeInv
<1>4. CASE deposits[d].fate # "landed"
  BY <1>1, <1>2, <1>4 DEF Over, Deposit
<1>5. QED
  BY <1>3, <1>4

LEMMA CosignKeepsChecks ==
  ASSUME TypeInv, CheckInv, Cosign
  PROVE  CheckInv'
<1>1. step' = "idle" /\ periods' = periods /\ step # "idle"
  BY DEF Cosign, Idle
<1>2. Checked'
  BY <1>1 DEF Checked
<1>3. CASE request.again = 0
  <2>1. ASSUME NEW d \in DOMAIN deposits'
        PROVE  \/ d \in DOMAIN deposits /\ deposits'[d] = deposits[d]
               \/ deposits'[d] = Cosigned
    BY <1>3, <2>1, CosignAppends, TypesOfDeposits DEF TypeInv
  <2>2. Cosigned.form = "draft" => Cosigned.index <= Len(periods)
    BY <1>1, TypesOfDeposits DEF Cosigned, TypeInv, Asked
  <2>3. Cosigned.fate = "none"
    BY DEF Cosigned
  <2>4. QED
    BY <1>1, <1>2, <2>1, <2>2, <2>3
    DEF CheckInv, DraftsAreNotAhead, LandedIsPaid
<1>4. CASE request.again # 0
  <2>1. deposits' = deposits
    BY <1>4 DEF Cosign
  <2>2. QED
    BY <1>1, <1>2, <2>1, BooksStay DEF CheckInv
<1>5. QED
  BY <1>3, <1>4

LEMMA FateKeepsChecks ==
  ASSUME TypeInv, CheckInv, NEW d \in DOMAIN deposits, ChangesFate(d)
  PROVE  CheckInv'
<1>1. /\ DOMAIN deposits' = DOMAIN deposits
      /\ \A e \in DOMAIN deposits :
           /\ deposits'[e].form = deposits[e].form
           /\ deposits'[e].report = deposits[e].report
           /\ deposits'[e].index = deposits[e].index
           /\ e # d => deposits'[e] = deposits[e]
      /\ UNCHANGED <<step, request, count, todo>>
  BY FateChanges DEF backend
<1>2. /\ Len(periods) <= Len(periods')
      /\ \A i \in DOMAIN periods : i \in DOMAIN periods' /\ periods'[i] = periods[i]
      /\ \A i \in DOMAIN periods' :
           i \in DOMAIN periods \/ (periods'[i] = d /\ Land(d))
      /\ Land(d) => Len(periods) + 1 \in DOMAIN periods'
                    /\ periods'[Len(periods) + 1] = d
      /\ Len(periods') \in Nat
  <2>1. CASE Land(d)
    BY <2>1, LandAppends, TypesOfDeposits DEF TypeInv
  <2>2. CASE ~Land(d)
    <3>1. periods' = periods
      BY <2>2 DEF ChangesFate, FailOnChain, Expire
    <3>2. QED
      BY <2>2, <3>1, TypesOfDeposits DEF TypeInv
  <2>3. QED
    BY <2>1, <2>2
<1>3. DraftsAreNotAhead'
  <2> SUFFICES ASSUME NEW e \in DOMAIN deposits, deposits[e].form = "draft"
               PROVE  /\ deposits[e].index <= Len(periods')
                      /\ step # "idle" => deposits[e].index <= count
    BY <1>1 DEF DraftsAreNotAhead
  <2>1. deposits[e].index \in Nat /\ Len(periods) \in Nat
    BY TypesOfDeposits DEF TypeInv, Deposit
  <2>2. QED
    BY <1>2, <2>1 DEF CheckInv, DraftsAreNotAhead
<1>4. LandedIsPaid'
  <2> SUFFICES ASSUME NEW e \in DOMAIN deposits, deposits'[e].fate = "landed"
               PROVE  \E i \in DOMAIN periods' : periods'[i] = e
    BY <1>1 DEF LandedIsPaid
  <2>1. CASE Land(d) /\ e = d
    BY <1>2, <2>1
  <2>2. CASE deposits[e].fate = "landed"
    BY <1>2, <2>2 DEF CheckInv, LandedIsPaid
  <2>3. deposits[e].fate = "landed" \/ (Land(d) /\ e = d)
    BY <1>1, FateChanges DEF ChangesFate
  <2>4. QED
    BY <2>1, <2>2, <2>3
<1>5. Unseen \subseteq Unseen'
  <2> SUFFICES ASSUME NEW e \in Unseen
               PROVE  e \in Unseen'
    OBVIOUS
  <2>1. /\ e \in DOMAIN deposits /\ ~deposits[e].live
        /\ \E i \in DOMAIN periods : i > count /\ periods[i] = e
    BY DEF Unseen
  <2>2. ~deposits'[e].live
    <3>1. CASE e # d
      BY <1>1, <2>1, <3>1
    <3>2. CASE e = d
      <4>1. Expire(d)
        BY <2>1, <3>2 DEF ChangesFate, Land, FailOnChain, MayLand
      <4>2. QED
        BY <3>2, <4>1, FateChanges
    <3>3. QED
      BY <3>1, <3>2
  <2>3. QED
    BY <1>1, <1>2, <2>1, <2>2 DEF Unseen
<1>6. Checked'
  <2> SUFFICES ASSUME step \in {"deposits", "blockhash"}
               PROVE  /\ \A i \in 1 .. count : ~InTheWay(request.report, Paid(i)')
                      /\ \A e \in DOMAIN deposits :
                           Concerns(e)' => e \in todo \/ Over(e)'
    BY <1>1 DEF Checked
  <2>1. ASSUME NEW i \in 1 .. count
        PROVE  ~InTheWay(request.report, Paid(i)')
    <3>1. i \in DOMAIN periods /\ periods[i] \in DOMAIN deposits
      BY TypesOfDeposits DEF TypeInv
    <3>2. Paid(i)' = Paid(i)
      BY <1>1, <1>2, <3>1 DEF Paid
    <3>3. QED
      BY <3>2 DEF CheckInv, Checked
  <2>2. ASSUME NEW e \in DOMAIN deposits, Concerns(e)'
        PROVE  e \in todo \/ Over(e)'
    <3>1. Concerns(e)
      BY <1>1, <2>2 DEF Concerns
    <3>2. e \in todo \/ Over(e)
      BY <3>1 DEF CheckInv, Checked
    <3>3. Over(e) => Over(e)'
      <4>1. CASE e # d
        BY <1>1, <1>5, <4>1 DEF Over
      <4>2. CASE e = d
        <5>1. CASE Land(d) \/ FailOnChain(d)
          BY <1>5, <4>2, <5>1 DEF Land, FailOnChain, MayLand, Over
        <5>2. CASE Expire(d)
          BY <1>5, <4>2, <5>2, FateChanges DEF Over
        <5>3. QED
          BY <5>1, <5>2 DEF ChangesFate
      <4>3. QED
        BY <4>1, <4>2
    <3>4. QED
      BY <3>2, <3>3
  <2>3. QED
    BY <2>1, <2>2
<1>7. QED
  BY <1>3, <1>4, <1>6 DEF CheckInv

LEMMA NextKeepsChecks ==
  ASSUME TypeInv, CheckInv, [Next]_vars
  PROVE  CheckInv'
<1>1. CASE Asks
  <2>1. /\ step = "idle" /\ step' = "periods" /\ count' = Len(periods)
        /\ UNCHANGED <<periods, deposits>>
    BY <1>1, RequestBegins
  <2>2. DraftsAreNotAhead' /\ LandedIsPaid' /\ Checked'
    BY <2>1 DEF CheckInv, DraftsAreNotAhead, LandedIsPaid, Checked
  <2>3. QED
    BY <2>2 DEF CheckInv
<1>2. CASE ReadPeriods
  <2>1. /\ step = "periods" /\ step' = "deposits"
        /\ todo' = Attestations \cup Drafts
        /\ \A i \in 1 .. count : ~InTheWay(request.report, Paid(i))
        /\ UNCHANGED <<periods, deposits, request, count>>
    BY <1>2 DEF ReadPeriods
  <2>2. ASSUME NEW d \in DOMAIN deposits, Concerns(d)
        PROVE  d \in todo'
    <3>1. CASE deposits[d].form = "attested"
      BY <2>1, <2>2, <3>1 DEF Concerns, Attestations, Conflicting
    <3>2. CASE deposits[d].form = "draft"
      BY <2>1, <2>2, <3>2 DEF Concerns, Drafts, Conflicting
    <3>3. QED
      BY <3>1, <3>2, TypesOfDeposits DEF TypeInv, Deposit
  <2>3. Checked'
    BY <2>1, <2>2 DEF Checked, Concerns, Paid
  <2>4. QED
    BY <2>1, <2>3, BooksStay DEF CheckInv
<1>3. CASE Refuse
  <2>1. step' = "idle" /\ UNCHANGED <<periods, deposits>>
    BY <1>3 DEF Refuse, Idle
  <2>2. QED
    BY <2>1, BooksStay DEF CheckInv, Checked
<1>4. CASE Cosign
  BY <1>4, CosignKeepsChecks
<1>5. CASE Switch \/ UNCHANGED vars
  <2>1. UNCHANGED <<periods, deposits, step, request, count, todo>>
    BY <1>5 DEF Switch, vars, backend
  <2>2. Checked'
    BY <2>1 DEF CheckInv, Checked, Concerns, Over, Unseen, Paid
  <2>3. QED
    BY <2>1, <2>2, BooksStay DEF CheckInv
<1>6. ASSUME NEW d \in DOMAIN deposits, Dismisses(d)
      PROVE  CheckInv'
  <2>1. /\ todo' = todo \ {d} /\ step' = "deposits"
        /\ step \in {"deposits", "blockhash"}
        /\ UNCHANGED <<periods, deposits, request, count>>
    BY <1>6 DEF Dismisses, StatusIsError, BlockhashIsExpired, Dismiss, LookUp
  <2>2. \A e \in DOMAIN deposits : Concerns(e) => e \in todo' \/ Over(e)
    BY <1>6, <2>1, DismissedIsOver DEF CheckInv, Checked
  <2>3. Checked'
    BY <2>1, <2>2 DEF CheckInv, Checked, Concerns, Over, Unseen, Paid
  <2>4. QED
    BY <2>1, <2>3, BooksStay DEF CheckInv
<1>7. ASSUME NEW d \in DOMAIN deposits, StatusIsUnknown(d)
      PROVE  CheckInv'
  <2>1. /\ step = "deposits" /\ step' = "blockhash"
        /\ UNCHANGED <<periods, deposits, request, count, todo>>
    BY <1>7 DEF StatusIsUnknown, LookUp
  <2>2. Checked'
    BY <2>1 DEF CheckInv, Checked, Concerns, Over, Unseen, Paid
  <2>3. QED
    BY <2>1, <2>2, BooksStay DEF CheckInv
<1>8. ASSUME NEW d \in DOMAIN deposits, ChangesFate(d)
      PROVE  CheckInv'
  BY <1>8, FateKeepsChecks
<1>9. QED
  BY <1>1, <1>2, <1>3, <1>4, <1>5, <1>6, <1>7, <1>8, StepsOfNext

LEMMA ChecksAreInvariant == Spec => []CheckInv
<1>1. TypeInv /\ CheckInv /\ [Next]_vars => CheckInv'
  BY NextKeepsChecks
<1>2. QED
  BY <1>1, InitCheckInv, TypesAreInvariant, PTL DEF Spec
-----------------------------------------------------------------------------
(* A day is paid again only by a deposit whose check missed the first.     *)

CanLand(d) == MayLand(d) /\ deposits[d].index >= Len(periods)

Separate ==
  /\ \A i, j \in DOMAIN periods :
       i < j /\ Overlap(Paid(i), Paid(j))
         => periods[i] \in deposits[periods[j]].unseen
  /\ \A i \in DOMAIN periods, d \in DOMAIN deposits :
       CanLand(d) /\ Overlap(Paid(i), deposits[d].report)
         => periods[i] \in deposits[d].unseen
  /\ \A d, e \in DOMAIN deposits :
       CanLand(d) /\ CanLand(e) /\ deposits[d].index # deposits[e].index
         => ~Overlap(deposits[d].report, deposits[e].report)

LEMMA OverlapIsMutual ==
  ASSUME NEW r, NEW s, Overlap(r, s)
  PROVE  Overlap(s, r) /\ InTheWay(r, s) /\ InTheWay(s, r)
  BY DEF Overlap, InTheWay

(* A payment in the way that the check did not look up, and that is not    *)
(* unseen, is a draft that landed at the index of the new deposit.         *)
LEMMA ClearOfPeriods ==
  ASSUME TypeInv, CheckInv, Cosign, request.again = 0,
         NEW i \in DOMAIN periods, InTheWay(request.report, Paid(i)),
         periods[i] \notin Unseen
  PROVE  request.index < Len(periods)
<1> DEFINE d == periods[i]
<1>1. /\ step = "deposits" /\ todo = {}
      /\ i \in 1 .. Len(periods) /\ count \in Nat /\ Len(periods) \in Nat
      /\ d \in DOMAIN deposits /\ d # 0 /\ deposits[d] \in Deposit
      /\ deposits[d].index = i - 1 /\ deposits[d].fate = "landed"
  BY TypesOfDeposits DEF Cosign, TypeInv, TypeOK
<1>2. i > count
  BY <1>1 DEF CheckInv, Checked
<1>3. ~Concerns(d)
  BY <1>1 DEF CheckInv, Checked, Over
<1>4. deposits[d].form = "draft"
      /\ (request.index = count \/ deposits[d].index # count)
  BY <1>1, <1>3 DEF Concerns, Paid, Deposit
<1>5. deposits[d].index <= count
  BY <1>1, <1>4 DEF CheckInv, DraftsAreNotAhead
<1>6. i - 1 = count /\ request.index = count
  BY <1>1, <1>2, <1>4, <1>5
<1>7. QED
  BY <1>1, <1>6

LEMMA ClearOfOpenDeposits ==
  ASSUME TypeInv, CheckInv, Cosign, request.again = 0,
         NEW d \in DOMAIN deposits, CanLand(d),
         InTheWay(request.report, deposits[d].report)
  PROVE  deposits[d].index = request.index
<1>1. /\ step = "deposits" /\ todo = {} /\ d # 0
      /\ count \in Nat /\ Len(periods) \in Nat /\ count <= Len(periods)
      /\ deposits[d] \in Deposit
      /\ deposits[d].live /\ deposits[d].fate = "none"
      /\ deposits[d].index >= Len(periods)
  BY TypesOfDeposits DEF Cosign, TypeInv, CanLand, MayLand
<1>2. ~Concerns(d)
  BY <1>1 DEF CheckInv, Checked, Over, Unseen
<1>3. deposits[d].form = "draft"
      /\ (request.index = count \/ deposits[d].index # count)
  BY <1>1, <1>2 DEF Concerns, Deposit
<1>4. deposits[d].index <= count /\ deposits[d].index \in Nat
  BY <1>1, <1>3 DEF CheckInv, DraftsAreNotAhead, Deposit
<1>5. deposits[d].index = count
  BY <1>1, <1>4
<1>6. QED
  BY <1>3, <1>5

LEMMA CosignSeparates ==
  ASSUME TypeInv, CheckInv, Separate, Cosign, request.again = 0
  PROVE  Separate'
<1>0. PICK new \in Nat : new = Len(deposits) + 1
  BY TypesOfDeposits DEF TypeInv
<1>1. /\ DOMAIN deposits' = DOMAIN deposits \cup {new}
      /\ new \notin DOMAIN deposits
      /\ \A d \in DOMAIN deposits : deposits'[d] = deposits[d]
      /\ deposits'[new].report = request.report
      /\ deposits'[new].index = request.index
      /\ deposits'[new].unseen = Unseen
      /\ periods' = periods
  <2>1. DOMAIN deposits = 1 .. Len(deposits) /\ Len(deposits) \in Nat
    BY TypesOfDeposits DEF TypeInv
  <2>2. periods' = periods
    BY DEF Cosign
  <2>3. QED
    BY <1>0, <2>1, <2>2, CosignAppends DEF Cosigned
<1>2. \A i \in DOMAIN periods : Paid(i)' = Paid(i)
  BY <1>1, TypesOfDeposits DEF Paid, TypeInv
<1>3. /\ \A d \in DOMAIN deposits : CanLand(d)' => CanLand(d)
      /\ \A d \in DOMAIN deposits : deposits'[d].index = deposits[d].index
                                    /\ deposits'[d].report = deposits[d].report
  BY <1>1 DEF CanLand, MayLand
<1>4. CanLand(new)' => request.index >= Len(periods)
  BY <1>1 DEF CanLand
<1>5. request.index \in Nat /\ Len(periods) \in Nat
  BY TypesOfDeposits DEF TypeInv, Asked, Cosign
<1>6. \A i \in DOMAIN periods :
        CanLand(new)' /\ Overlap(Paid(i), request.report)
          => periods[i] \in Unseen
  <2> SUFFICES ASSUME NEW i \in DOMAIN periods, CanLand(new)',
                      Overlap(Paid(i), request.report),
                      periods[i] \notin Unseen
               PROVE  FALSE
    OBVIOUS
  <2>1. InTheWay(request.report, Paid(i))
    BY OverlapIsMutual
  <2>2. QED
    BY <1>4, <1>5, <2>1, ClearOfPeriods
<1>7. \A d \in DOMAIN deposits :
        CanLand(d) /\ deposits[d].index # request.index
          => /\ ~Overlap(request.report, deposits[d].report)
             /\ ~Overlap(deposits[d].report, request.report)
  BY ClearOfOpenDeposits, OverlapIsMutual
<1>8. \A i, j \in DOMAIN periods' :
        i < j /\ Overlap(Paid(i)', Paid(j)')
          => periods'[i] \in deposits'[periods'[j]].unseen
  BY <1>1, <1>2, TypesOfDeposits DEF Separate, TypeInv
<1>9. \A i \in DOMAIN periods', d \in DOMAIN deposits' :
        CanLand(d)' /\ Overlap(Paid(i)', deposits'[d].report)
          => periods'[i] \in deposits'[d].unseen
  BY <1>1, <1>2, <1>3, <1>6 DEF Separate
<1>10. \A d, e \in DOMAIN deposits' :
         CanLand(d)' /\ CanLand(e)' /\ deposits'[d].index # deposits'[e].index
           => ~Overlap(deposits'[d].report, deposits'[e].report)
  BY <1>1, <1>3, <1>7 DEF Separate
<1>11. QED
  BY <1>8, <1>9, <1>10 DEF Separate, Overlap

LEMMA FateSeparates ==
  ASSUME TypeInv, Separate, NEW d \in DOMAIN deposits, ChangesFate(d)
  PROVE  Separate'
<1>1. /\ DOMAIN deposits' = DOMAIN deposits
      /\ \A e \in DOMAIN deposits :
           /\ deposits'[e].report = deposits[e].report
           /\ deposits'[e].index = deposits[e].index
           /\ deposits'[e].unseen = deposits[e].unseen
           /\ e # d => deposits'[e] = deposits[e]
  BY FateChanges
<1>2. MayLand(d)' => MayLand(d)
  <2>1. CASE Expire(d)
    BY <1>1, <2>1, FateChanges DEF MayLand
  <2>2. CASE Land(d) \/ FailOnChain(d)
    BY <2>2 DEF Land, FailOnChain
  <2>3. QED
    BY <2>1, <2>2 DEF ChangesFate
<1>3. CASE ~Land(d)
  <2>1. periods' = periods
    BY <1>3 DEF ChangesFate, FailOnChain, Expire
  <2>2. /\ \A e \in DOMAIN deposits : CanLand(e)' => CanLand(e)
        /\ \A i \in DOMAIN periods :
             Paid(i)' = Paid(i) /\ periods[i] \in DOMAIN deposits
    BY <1>1, <1>2, <2>1, TypesOfDeposits DEF CanLand, MayLand, Paid, TypeInv
  <2>3. QED
    BY <1>1, <2>1, <2>2 DEF Separate, Overlap
<1>4. CASE Land(d)
  <2>0. PICK new \in Nat : new = Len(periods) + 1
    BY TypesOfDeposits DEF TypeInv
  <2>1. /\ DOMAIN periods' = DOMAIN periods \cup {new}
        /\ \A i \in DOMAIN periods : i < new
        /\ \A i \in DOMAIN periods : periods'[i] = periods[i]
        /\ periods'[new] = d /\ Len(periods') = new
        /\ deposits[d].index = Len(periods) /\ MayLand(d)
        /\ Len(periods) \in Nat
    <3>1. DOMAIN periods = 1 .. Len(periods) /\ Len(periods) \in Nat
      BY TypesOfDeposits DEF TypeInv
    <3>2. 1 .. Len(periods) + 1 = 1 .. Len(periods) \cup {Len(periods) + 1}
      BY <3>1
    <3>3. \A i \in DOMAIN periods : i < Len(periods) + 1
      BY <3>1
    <3>4. QED
      BY <1>4, <2>0, <3>1, <3>2, <3>3, LandAppends
  <2>2. CanLand(d)
    BY <2>1 DEF CanLand
  <2>3. /\ \A i \in DOMAIN periods : Paid(i)' = Paid(i)
        /\ Paid(new)' = deposits[d].report
    BY <1>1, <2>1, TypesOfDeposits DEF Paid, TypeInv
  <2>4. \A e \in DOMAIN deposits :
          CanLand(e)' => CanLand(e) /\ deposits[e].index # deposits[d].index
    <3> SUFFICES ASSUME NEW e \in DOMAIN deposits, CanLand(e)'
                 PROVE  CanLand(e) /\ deposits[e].index # deposits[d].index
      OBVIOUS
    <3>1. deposits[e].index \in Nat
      BY TypesOfDeposits DEF TypeInv, Deposit
    <3>2. deposits[e].index >= Len(periods) + 1 /\ MayLand(e)
      BY <1>1, <1>2, <2>0, <2>1 DEF CanLand, MayLand
    <3>3. QED
      BY <2>1, <3>1, <3>2 DEF CanLand
  <2>5. \A i \in DOMAIN periods :
          Overlap(Paid(i), deposits[d].report)
            => periods[i] \in deposits[d].unseen
    BY <2>2 DEF Separate
  <2>6. ASSUME NEW i \in DOMAIN periods', NEW j \in DOMAIN periods', i < j,
               Overlap(Paid(i)', Paid(j)')
        PROVE  periods'[i] \in deposits'[periods'[j]].unseen
    <3>1. i \in DOMAIN periods /\ (j \in DOMAIN periods \/ j = new)
      BY <2>0, <2>1, <2>6, TypesOfDeposits DEF TypeInv
    <3>2. CASE j \in DOMAIN periods
      <4>1. periods[i] \in deposits[periods[j]].unseen
        BY <2>3, <2>6, <3>1, <3>2 DEF Separate, Overlap
      <4>2. periods[j] \in DOMAIN deposits
        BY <3>2, TypesOfDeposits DEF TypeInv
      <4>3. QED
        BY <1>1, <2>1, <3>1, <3>2, <4>1, <4>2
    <3>3. CASE j = new
      <4>1. periods[i] \in deposits[d].unseen
        BY <2>3, <2>5, <2>6, <3>1, <3>3 DEF Overlap
      <4>2. QED
        BY <1>1, <2>1, <3>1, <3>3, <4>1
    <3>4. QED
      BY <3>1, <3>2, <3>3
  <2>7. \A i \in DOMAIN periods', e \in DOMAIN deposits' :
          CanLand(e)' /\ Overlap(Paid(i)', deposits'[e].report)
            => periods'[i] \in deposits'[e].unseen
    BY <1>1, <2>1, <2>2, <2>3, <2>4 DEF Separate
  <2>8. \A e, f \in DOMAIN deposits' :
          CanLand(e)' /\ CanLand(f)' /\ deposits'[e].index # deposits'[f].index
            => ~Overlap(deposits'[e].report, deposits'[f].report)
    BY <1>1, <2>4 DEF Separate
  <2>9. QED
    BY <2>6, <2>7, <2>8 DEF Separate, Overlap
<1>5. QED
  BY <1>3, <1>4

LEMMA SeparateIsInvariant == Spec => []Separate
<1>1. Init => Separate
  BY DEF Init, Separate
<1>2. TypeInv /\ CheckInv /\ Separate /\ [Next]_vars => Separate'
  <2> SUFFICES ASSUME TypeInv, CheckInv, Separate, [Next]_vars
               PROVE  Separate'
    OBVIOUS
  <2>1. CASE Cosign /\ request.again = 0
    BY <2>1, CosignSeparates
  <2>2. ASSUME NEW d \in DOMAIN deposits, ChangesFate(d)
        PROVE  Separate'
    BY <2>2, FateSeparates
  <2>3. CASE UNCHANGED <<deposits, periods>>
    BY <2>3 DEF Separate, CanLand, MayLand, Paid, Overlap
  <2>4. UNCHANGED <<deposits, periods>>
        \/ (Cosign /\ request.again = 0)
        \/ \E d \in DOMAIN deposits : ChangesFate(d)
    <3>1. Asks => UNCHANGED <<deposits, periods>>
      BY RequestBegins
    <3>2. Cosign /\ request.again # 0 => UNCHANGED <<deposits, periods>>
      BY DEF Cosign
    <3>3. ReadPeriods \/ Refuse \/ Switch => UNCHANGED <<deposits, periods>>
      BY DEF ReadPeriods, Refuse, Switch
    <3>4. \A d \in DOMAIN deposits :
            Dismisses(d) \/ StatusIsUnknown(d) => UNCHANGED <<deposits, periods>>
      BY DEF Dismisses, StatusIsError, BlockhashIsExpired, Dismiss,
             StatusIsUnknown
    <3>5. UNCHANGED vars => UNCHANGED <<deposits, periods>>
      BY DEF vars
    <3>6. QED
      BY <3>1, <3>2, <3>3, <3>4, <3>5, StepsOfNext
  <2>5. QED
    BY <2>1, <2>2, <2>3, <2>4
<1>3. QED
  BY <1>1, <1>2, TypesAreInvariant, ChecksAreInvariant, PTL DEF Spec

(* checkOverlaps: a day of income is paid again only by a deposit whose    *)
(* check missed the first one, for any reports, any number of deposits and *)
(* any order in which they are built, co-signed, sent and dropped.         *)
THEOREM OnlyTheUnseenIsPaidAgain == Spec => []OnlyUnseenDaysArePaidTwice
<1>1. TypeInv /\ Separate => OnlyUnseenDaysArePaidTwice
  <2> SUFFICES ASSUME TypeInv, Separate,
                      NEW i \in DOMAIN periods, NEW j \in DOMAIN periods, i < j,
                      NEW day \in DaysOf(Paid(i)), day \in DaysOf(Paid(j))
               PROVE  periods[i] \in deposits[periods[j]].unseen
    BY DEF OnlyUnseenDaysArePaidTwice
  <2>1. Paid(i) \in Report /\ Paid(j) \in Report
    <3>1. deposits[periods[i]] \in Deposit /\ deposits[periods[j]] \in Deposit
      BY TypesOfDeposits DEF TypeInv
    <3>2. QED
      BY <3>1, AttestationAssumption DEF Paid, Deposit
  <2>2. Overlap(Paid(i), Paid(j))
    BY <2>1 DEF DaysOf, Overlap, Report
  <2>3. QED
    BY <2>2 DEF Separate
<1>2. QED
  BY <1>1, TypesAreInvariant, SeparateIsInvariant, PTL

(* checkOverlaps: after the deposit of the car's sale the oracle co-signs  *)
(* nothing that can still land, unless the check missed that deposit.      *)
THEOREM SaleEndsTheCosigning == Spec => SaleEndsCosigning
<1>1. TypeInv /\ CheckInv /\ [Next]_vars
        => [SeenSold /\ Len(deposits') > Len(deposits)
             => Last(deposits').index < NextIndex]_vars
  <2> SUFFICES ASSUME TypeInv, CheckInv, [Next]_vars, SeenSold,
                      Len(deposits') > Len(deposits)
               PROVE  Last(deposits').index < NextIndex
    OBVIOUS
  <2>1. Len(deposits) \in Nat
    BY TypesOfDeposits DEF TypeInv
  <2>2. Cosign /\ request.again = 0
    <3>1. deposits' = deposits => FALSE
      BY <2>1
    <3>2. Asks => deposits' = deposits
      BY RequestBegins
    <3>3. ReadPeriods \/ Refuse \/ Switch \/ UNCHANGED vars
            => deposits' = deposits
      BY DEF ReadPeriods, Refuse, Switch, vars
    <3>4. Cosign /\ request.again # 0 => deposits' = deposits
      BY DEF Cosign
    <3>5. \A d \in DOMAIN deposits :
            Dismisses(d) \/ StatusIsUnknown(d) => deposits' = deposits
      BY DEF Dismisses, StatusIsError, BlockhashIsExpired, Dismiss,
             StatusIsUnknown
    <3>6. \A d \in DOMAIN deposits : ~ChangesFate(d)
      <4>1. \A d \in DOMAIN deposits :
              ChangesFate(d) => Len(deposits') = Len(deposits)
        BY FateChanges
      <4>2. QED
        BY <2>1, <4>1
    <3>7. QED
      BY <3>1, <3>2, <3>3, <3>4, <3>5, <3>6, StepsOfNext
  <2>3. PICK i \in DOMAIN periods : Paid(i).kind = "final" /\ periods[i] \notin Unseen
    BY DEF SeenSold, IsSale
  <2>4. InTheWay(request.report, Paid(i))
    BY <2>3 DEF InTheWay
  <2>5. request.index < Len(periods)
    BY <2>2, <2>3, <2>4, ClearOfPeriods
  <2>6. Last(deposits').index = request.index
    BY <2>2, CosignAppends DEF Last, Cosigned
  <2>7. QED
    BY <2>5, <2>6 DEF NextIndex
<1>2. QED
  BY <1>1, TypesAreInvariant, ChecksAreInvariant, PTL DEF Spec, SaleEndsCosigning
=============================================================================
