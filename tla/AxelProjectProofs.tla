-------------------------- MODULE AxelProjectProofs --------------------------
(***************************************************************************)
(* Theorems about AxelProject, for every finite set of owners, every       *)
(* price, supply, fee, deadline and fixed-point one that the assumptions   *)
(* allow: types, the ledger, when shares and earned revenue may leave a    *)
(* position, what the escrow and the revenue vault hold, what activation   *)
(* pays out, and that a raise implements EscrowPromise.                    *)
(***************************************************************************)
EXTENDS AxelEscrow, TLAPS

-----------------------------------------------------------------------------
(* The fixed-point arithmetic, for every amount, every supply and every    *)
(* value of the fixed-point one.                                           *)

(* Floored division: what the quotient is worth, and what it leaves out.   *)
LEMMA FloorIsClose ==
  ASSUME NEW a \in Nat, NEW b \in Nat, b > 0
  PROVE  /\ a \div b \in Nat
         /\ (a \div b) * b <= a
         /\ a < (a \div b) * b + b
  BY SMT

(* A product grows with its factors.                                       *)
LEMMA ProductIsMonotonic ==
  ASSUME NEW a \in Nat, NEW b \in Nat, NEW c \in Nat, a <= b
  PROVE  a * c <= b * c /\ a * c \in Nat /\ b * c \in Nat
  BY SMT

LEMMA FloorIsBounded ==
  ASSUME NEW a \in Nat, NEW b \in Nat, NEW c \in Nat, b > 0, a <= c * b
  PROVE  a \div b \in 0 .. c
  BY SMT

(* A larger amount leaves no smaller quotient.                             *)
LEMMA FloorIsMonotonic ==
  ASSUME NEW a \in Nat, NEW b \in Nat, NEW c \in Nat, c > 0, a <= b
  PROVE  a \div c <= b \div c
<1> DEFINE p == a \div c
<1> DEFINE q == b \div c
<1>1. /\ p \in Nat /\ q \in Nat
      /\ p * c <= a /\ b < q * c + c
  BY FloorIsClose
<1> HIDE DEF p, q
<1>2. ASSUME p > q PROVE FALSE
  <2>1. q + 1 \in Nat /\ q + 1 <= p
    BY <1>1, <1>2
  <2>2. (q + 1) * c <= p * c /\ p * c \in Nat /\ q * c \in Nat
    BY <1>1, <2>1, ProductIsMonotonic
  <2>3. (q + 1) * c = q * c + c
    BY <1>1
  <2>4. QED
    BY <1>1, <2>2, <2>3
<1>3. p <= q
  BY <1>1, <1>2
<1>4. QED
  BY <1>3 DEF p, q

(* split_fee: the fee and the net are both parts of the amount.            *)
LEMMA FeeIsAPart ==
  ASSUME NEW amount \in Nat, NEW bps \in 0 .. BpsDenominator
  PROVE  Fee(amount, bps) \in 0 .. amount /\ NetOfFee(amount, bps) \in 0 .. amount
<1>1. BpsDenominator \in Nat /\ BpsDenominator > 0 /\ bps \in Nat
  BY DEF BpsDenominator
<1>2. amount * bps \in Nat /\ amount * bps <= amount * BpsDenominator
  BY <1>1, ProductIsMonotonic
<1>3. Fee(amount, bps) \in 0 .. amount
  BY <1>1, <1>2, FloorIsBounded DEF Fee
<1>4. QED
  BY <1>3 DEF NetOfFee

(* pro_rata: the part is at most the amount.                               *)
LEMMA ProRataIsAPart ==
  ASSUME NEW amount \in Nat, NEW part \in Nat, NEW whole \in Nat,
         part <= whole, whole > 0
  PROVE  ProRata(amount, part, whole) \in 0 .. amount
<1>1. part * amount <= whole * amount
  BY ProductIsMonotonic
<1>2. amount * part \in Nat /\ amount * part <= amount * whole
  BY <1>1
<1>3. QED
  BY <1>2, FloorIsBounded DEF ProRata

(* shares_value: prices and shares multiply to an amount.                  *)
LEMMA SharesValueIsNat ==
  ASSUME NEW shares \in Nat, NEW price \in Nat
  PROVE  SharesValue(shares, price) \in Nat
  BY DEF SharesValue

(* acc_increment: all the shares together earn no more than the deposit.   *)
LEMMA IncrementIsCovered ==
  ASSUME NEW net \in Nat, NEW outstanding \in Nat, outstanding > 0
  PROVE  /\ AccIncrement(net, outstanding) \in Nat
         /\ outstanding * AccIncrement(net, outstanding) <= net * One
<1>1. net * One \in Nat
  BY OneAssumption
<1>2. QED
  BY <1>1, FloorIsClose DEF AccIncrement

(* owed: rounding down, and never more than the accumulator earned.        *)
LEMMA OwedIsFloored ==
  ASSUME NEW shares \in Nat, NEW acc \in Nat, NEW checkpoint \in 0 .. acc
  PROVE  /\ Owed(shares, acc, checkpoint) \in Nat
         /\ Owed(shares, acc, checkpoint) * One <= shares * (acc - checkpoint)
<1>1. shares * (acc - checkpoint) \in Nat
  OBVIOUS
<1>2. QED
  BY <1>1, FloorIsClose, OneAssumption DEF Owed
-----------------------------------------------------------------------------
(* Facts about the helpers.                                                *)

LEMMA SharesFit == TotalShares \in U64 /\ One \in Nat /\ MaxU64 \in Nat
                   /\ MaxU128 \in Nat /\ MaxU64 <= MaxU128
<1>1. One \in Nat /\ MaxU64 \in Nat
  BY OneAssumption DEF MaxU64
<1>2. MaxU128 \in Nat /\ MaxU64 <= MaxU128
  BY OneAssumption DEF MaxU64, MaxU128
<1>3. TotalShares <= TotalShares * Price
  BY TermsAssumption
<1>4. QED
  BY <1>1, <1>2, <1>3, TermsAssumption DEF U64

LEMMA ConstantsAreFine ==
  /\ Price \in Nat /\ TotalShares \in Nat
  /\ RaiseFeeBps \in 0 .. BpsDenominator
  /\ RevenueFeeBps \in 0 .. BpsDenominator
  /\ U64 \subseteq Nat /\ U128 \subseteq Nat /\ 0 \in U64 /\ 0 \in U128
  BY TermsAssumption, SharesFit DEF U64, U128

LEMMA PriceOfShares ==
  ASSUME NEW n \in Nat
  PROVE  SharesValue(n, Price) \in Nat
  BY ConstantsAreFine, SharesValueIsNat

LEMMA OpenedPositionType ==
  ASSUME TypeOK, NEW o \in Owners
  PROVE  OpenedPosition(o) \in PositionRecord
  BY ConstantsAreFine DEF TypeOK, LedgerTypeOK, RevenueTypeOK,
      OpenedPosition, PositionRecord, NoPosition

LEMMA CanonicalAccountType ==
  ASSUME TypeOK, NEW o \in Owners
  PROVE  /\ CanonicalAccount(o) \in ShareAccountRecord
         /\ CanonicalAccount(o).exists
  BY DEF TypeOK, LedgerTypeOK, CanonicalAccount, ShareAccountRecord, EmptyShareAccount

(* settle keeps the shares and adds what was earned, if it succeeds.       *)
LEMMA SettledType ==
  ASSUME accPerShare \in U128, NEW pos \in PositionRecord, SettleIsOk(pos)
  PROVE  /\ Earned(pos) \in Nat
         /\ Settled(pos) \in PositionRecord
         /\ Settled(pos).open = pos.open
         /\ Settled(pos).shares = pos.shares
         /\ Settled(pos).accrued = pos.accrued + Earned(pos)
         /\ Settled(pos).accCheckpoint = accPerShare
         /\ Settled(pos).totalClaimed = pos.totalClaimed
<1>1. pos.accCheckpoint <= accPerShare /\ pos.accrued + Earned(pos) <= MaxU64
  BY DEF SettleIsOk, OwedIsOk
<1>2. /\ pos.shares \in Nat /\ pos.accCheckpoint \in Nat /\ accPerShare \in Nat
      /\ pos.accrued \in Nat
  BY ConstantsAreFine DEF PositionRecord
<1>3. pos.accCheckpoint \in 0 .. accPerShare
  BY <1>1, <1>2
<1>4. Earned(pos) \in Nat
  BY <1>2, <1>3, OwedIsFloored DEF Earned
<1>5. pos.accrued + Earned(pos) \in U64
  BY <1>1, <1>2, <1>4, SharesFit DEF U64
<1>6. QED
  BY <1>4, <1>5 DEF Settled, PositionRecord
-----------------------------------------------------------------------------
(* Type correctness.                                                       *)

(* A pending recovery names shares to move and another wallet, and gives   *)
(* the owner at least the shortest veto window.                            *)
RequestsAreSound ==
  \A o \in Owners : request[o].pending =>
    /\ request[o].shares > 0
    /\ request[o].to # o
    /\ request[o].eta >= request[o].proposedAt + MinRecoveryDelay

TypeInv == TypeOK /\ RequestsAreSound

LEMMA InitTypeInv == Init => TypeInv
<1> SUFFICES ASSUME Init PROVE TypeInv
  OBVIOUS
<1>1. WorldTypeOK
  BY InputsAssumption DEF Init, WorldTypeOK
<1>2. RaiseTypeOK
  BY ConstantsAreFine DEF Init, RaiseTypeOK
<1>3. RevenueTypeOK /\ FeeTypeOK
  BY ConstantsAreFine DEF Init, RevenueTypeOK, FeeTypeOK
<1>4. position \in [Owners -> PositionRecord]
  BY ConstantsAreFine DEF Init, NoPosition, PositionRecord
<1>5. shareAccount \in [Owners -> ShareAccountRecord]
  BY DEF Init, NoShareAccount, ShareAccountRecord
<1>6. LedgerTypeOK
  BY <1>4, <1>5, ConstantsAreFine DEF Init, LedgerTypeOK
<1>7. request \in [Owners -> RequestRecord] /\ RequestsAreSound
  BY DEF Init, NoRequest, RequestRecord, RequestsAreSound
<1>8. QED
  BY <1>1, <1>2, <1>3, <1>6, <1>7 DEF Init, TypeInv, TypeOK, ProjectStates

(* What a step leaves alone keeps its types.                               *)
LEMMA FramesKeepTypes ==
  ASSUME TypeInv
  PROVE  /\ UNCHANGED world => WorldTypeOK'
         /\ UNCHANGED raiseVars => RaiseTypeOK'
         /\ UNCHANGED revenueVars => RevenueTypeOK'
         /\ UNCHANGED feeVars => FeeTypeOK'
         /\ UNCHANGED ledgerVars => LedgerTypeOK'
         /\ UNCHANGED request =>
              request' \in [Owners -> RequestRecord] /\ RequestsAreSound'
<1> USE DEF TypeInv, TypeOK
<1>1. UNCHANGED world => WorldTypeOK'
  BY DEF world, configVars, outsideVars, WorldTypeOK
<1>2. UNCHANGED raiseVars => RaiseTypeOK'
  BY DEF raiseVars, refundVars, RaiseTypeOK
<1>3. UNCHANGED revenueVars => RevenueTypeOK'
  BY DEF revenueVars, RevenueTypeOK
<1>4. UNCHANGED feeVars => FeeTypeOK'
  BY DEF feeVars, FeeTypeOK
<1>5. UNCHANGED ledgerVars => LedgerTypeOK'
  BY DEF ledgerVars, LedgerTypeOK
<1>6. UNCHANGED request =>
        request' \in [Owners -> RequestRecord] /\ RequestsAreSound'
  BY DEF RequestsAreSound
<1>7. QED
  BY <1>1, <1>2, <1>3, <1>4, <1>5, <1>6

LEMMA BuyPreservesTypes ==
  ASSUME TypeInv, NEW o \in Owners, NEW n \in BuyAmounts, BuyShares(o, n)
  PROVE  TypeInv'
<1> DEFINE pos == OpenedPosition(o)
<1> DEFINE account == CanonicalAccount(o)
<1>1. n \in Nat /\ SharesValue(n, Price) \in Nat
  BY InputsAssumption, PriceOfShares
<1>2. pos \in PositionRecord /\ account \in ShareAccountRecord
  BY OpenedPositionType, CanonicalAccountType DEF TypeInv
<1>3. position' \in [Owners -> PositionRecord]
  <2>1. /\ pos.shares + n \in U64
        /\ pos.paidIn + SharesValue(n, Price) \in U64
    BY <1>1, <1>2, SharesFit DEF BuyShares, PositionRecord, U64
  <2>2. position' = [position EXCEPT ![o] =
          [pos EXCEPT !.shares = @ + n, !.paidIn = @ + SharesValue(n, Price)]]
    BY DEF BuyShares
  <2>3. QED
    BY <1>2, <2>1, <2>2 DEF TypeInv, TypeOK, LedgerTypeOK, PositionRecord
<1>4. shareAccount' \in [Owners -> ShareAccountRecord]
  <2>1. Thawed(account) \in ShareAccountRecord
    BY <1>2 DEF Thawed, ShareAccountRecord
  <2>2. shareAccount' =
          [shareAccount EXCEPT ![o] = [Thawed(account) EXCEPT !.amount = @ + n]]
    BY DEF BuyShares
  <2>3. QED
    BY <1>1, <2>1, <2>2 DEF TypeInv, TypeOK, LedgerTypeOK, ShareAccountRecord
<1>5. LedgerTypeOK'
  BY <1>1, <1>3, <1>4 DEF BuyShares, TypeInv, TypeOK, LedgerTypeOK
<1>6. RaiseTypeOK'
  BY <1>1, ConstantsAreFine, TermsAssumption
  DEF BuyShares, SharesLeft, TypeInv, TypeOK, WorldTypeOK, RaiseTypeOK, world,
      refundVars
<1>7. state' \in ProjectStates /\ roles' = roles
  BY DEF BuyShares, TypeInv, TypeOK, ProjectStates
<1>8. UNCHANGED <<world, request, revenueVars, feeVars>>
  BY DEF BuyShares
<1>9. QED
  BY <1>5, <1>6, <1>7, <1>8, FramesKeepTypes DEF TypeInv, TypeOK

LEMMA FinalizePreservesTypes ==
  ASSUME TypeInv, FinalizeRaise
  PROVE  TypeInv'
<1>1. /\ activationDeadline' \in Nat
      /\ state' \in ProjectStates
  BY TermsAssumption
  DEF FinalizeRaise, FinalizeFunded, FinalizeFailed, FinalizeExpired, TypeInv,
      TypeOK, WorldTypeOK, RaiseTypeOK, ProjectStates
<1>2. UNCHANGED <<world, roles, request, revenueVars, feeVars, ledgerVars,
                  refundVars, sharesSold, escrow, released>>
  BY DEF FinalizeRaise
<1>3. RaiseTypeOK'
  BY <1>1, <1>2 DEF TypeInv, TypeOK, RaiseTypeOK, refundVars
<1>4. QED
  BY <1>1, <1>2, <1>3, FramesKeepTypes DEF TypeInv, TypeOK

(* The fee cannot exceed what the escrow holds.                            *)
LEMMA ActivatePreservesTypes ==
  ASSUME TypeInv, ActivateProject
  PROVE  TypeInv'
<1> DEFINE gross == SharesValue(OutstandingShares, Price)
<1> DEFINE fee == Fee(gross, RaiseFeeBps)
<1>1. gross \in U64 /\ escrow.amount >= gross /\ totalFees + fee <= MaxU64
  BY DEF ActivateProject
<1>2. gross \in Nat /\ fee \in 0 .. gross
  BY <1>1, ConstantsAreFine, FeeIsAPart
<1>3. released'.amount = escrow.amount - fee /\ released'.fee = fee
  BY DEF ActivateProject
<1>4. escrow' \in [open : BOOLEAN, amount : Nat]
  BY DEF ActivateProject
<1>5. UNCHANGED <<world, roles, request, revenueVars, ledgerVars, refundVars,
                  sharesSold, activationDeadline>>
  BY DEF ActivateProject
<1>6. RaiseTypeOK'
  BY <1>1, <1>2, <1>3, <1>4, <1>5
  DEF TypeInv, TypeOK, RaiseTypeOK, refundVars
<1>7. FeeTypeOK'
  BY <1>1, <1>2, ConstantsAreFine, SharesFit
  DEF ActivateProject, TypeInv, TypeOK, FeeTypeOK, U64
<1>8. state' \in ProjectStates
  BY DEF ActivateProject, ProjectStates
<1>9. QED
  BY <1>5, <1>6, <1>7, <1>8, FramesKeepTypes DEF TypeInv, TypeOK

LEMMA RefundPreservesTypes ==
  ASSUME TypeInv, NEW o \in Owners, Refund(o)
  PROVE  TypeInv'
<1> DEFINE n == position[o].shares
<1> DEFINE amount == RefundAmount(position[o])
<1>1. n \in Nat /\ amount \in Nat
  <2>1. n \in Nat
    BY ConstantsAreFine DEF TypeInv, TypeOK, LedgerTypeOK, PositionRecord
  <2>2. QED
    BY <2>1, PriceOfShares DEF RefundAmount
<1>2. /\ shareAccount[o].amount = n /\ escrow.amount >= amount /\ supply >= n
      /\ sharesRefunded + n <= MaxU64 /\ totalRefunded + amount <= MaxU64
  BY DEF Refund, LedgerMatches
<1>3. position' \in [Owners -> PositionRecord]
  <2>1. position' = [position EXCEPT ![o] = [position[o] EXCEPT !.shares = 0]]
    BY DEF Refund, RefundedPosition
  <2>2. QED
    BY <2>1, ConstantsAreFine DEF TypeInv, TypeOK, LedgerTypeOK, PositionRecord
<1>4. shareAccount' \in [Owners -> ShareAccountRecord]
  <2>1. shareAccount' = [shareAccount EXCEPT ![o] =
          [shareAccount[o] EXCEPT !.amount = shareAccount[o].amount - n]]
    BY DEF Refund
  <2>2. QED
    BY <1>1, <1>2, <2>1 DEF TypeInv, TypeOK, LedgerTypeOK, ShareAccountRecord
<1>5. LedgerTypeOK'
  BY <1>1, <1>2, <1>3, <1>4 DEF Refund, TypeInv, TypeOK, LedgerTypeOK
<1>6. UNCHANGED <<world, state, roles, request, revenueVars, feeVars,
                  sharesSold, activationDeadline, sharesRetired, released>>
  BY DEF Refund
<1>7. escrow' \in [open : BOOLEAN, amount : Nat]
  BY <1>1, <1>2 DEF Refund, TypeInv, TypeOK, RaiseTypeOK
<1>8. sharesRefunded' \in U64 /\ totalRefunded' \in U64
  BY <1>1, <1>2, SharesFit DEF Refund, TypeInv, TypeOK, RaiseTypeOK, U64
<1>9. RaiseTypeOK'
  BY <1>6, <1>7, <1>8 DEF TypeInv, TypeOK, RaiseTypeOK
<1>10. QED
  BY <1>5, <1>6, <1>9, FramesKeepTypes DEF TypeInv, TypeOK

LEMMA ManagePreservesTypes ==
  ASSUME TypeInv, CancelRaise \/ ManageStep
  PROVE  TypeInv'
<1>1. UNCHANGED <<world, request, raiseVars, revenueVars, feeVars, ledgerVars>>
  BY DEF CancelRaise, ManageStep, PauseProject, ResumeProject, SetRoles,
         CloseProject, ManagedUnchanged
<1>2. /\ state' \in ProjectStates
      /\ roles' \in RoleChanges \cup {CreationRoles}
  BY DEF CancelRaise, ManageStep, PauseProject, ResumeProject, SetRoles,
         CloseProject, ProjectStates, TypeInv, TypeOK
<1>3. QED
  BY <1>1, <1>2, FramesKeepTypes DEF TypeInv, TypeOK

LEMMA OpenPreservesTypes ==
  ASSUME TypeInv, NEW o \in Owners, OpenPosition(o)
  PROVE  TypeInv'
<1>1. /\ OpenedPosition(o) \in PositionRecord
      /\ Thawed(CanonicalAccount(o)) \in ShareAccountRecord
  BY OpenedPositionType, CanonicalAccountType
  DEF TypeInv, Thawed, ShareAccountRecord
<1>2. LedgerTypeOK'
  BY <1>1 DEF OpenPosition, TypeInv, TypeOK, LedgerTypeOK
<1>3. UNCHANGED <<world, state, roles, request, raiseVars, revenueVars, feeVars>>
  BY DEF OpenPosition
<1>4. QED
  BY <1>2, <1>3, FramesKeepTypes DEF TypeInv, TypeOK

LEMMA ClosePreservesTypes ==
  ASSUME TypeInv, NEW o \in Owners, ClosePosition(o)
  PROVE  TypeInv'
<1>1. /\ NoPosition \in PositionRecord
      /\ NoShareAccount \in ShareAccountRecord
      /\ position[o].shares \in Nat
  BY ConstantsAreFine
  DEF NoPosition, PositionRecord, NoShareAccount, ShareAccountRecord, TypeInv,
      TypeOK, LedgerTypeOK
<1>2. LedgerTypeOK'
  BY <1>1, SharesFit DEF ClosePosition, TypeInv, TypeOK, LedgerTypeOK, U64
<1>3. UNCHANGED <<world, state, roles, request, raiseVars, revenueVars, feeVars>>
  BY DEF ClosePosition
<1>4. QED
  BY <1>2, <1>3, FramesKeepTypes DEF TypeInv, TypeOK

LEMMA DepositPreservesTypes ==
  ASSUME TypeInv, NEW gross \in GrossAmounts, DepositRevenue(gross)
  PROVE  TypeInv'
<1> DEFINE fee == Fee(gross, RevenueFeeBps)
<1> DEFINE net == NetOfFee(gross, RevenueFeeBps)
<1>1. /\ gross \in U64 /\ gross \in Nat
      /\ fee \in 0 .. gross /\ net \in 0 .. gross
  BY InputsAssumption, ConstantsAreFine, FeeIsAPart
<1>2. OutstandingShares \in U64 /\ OutstandingShares > 0
  BY SharesFit, ConstantsAreFine
  DEF DepositRevenue, TypeInv, TypeOK, RaiseTypeOK, LedgerTypeOK, U64,
      OutstandingShares
<1>3. AccIncrement(net, OutstandingShares) \in Nat
  BY <1>1, <1>2, ConstantsAreFine, IncrementIsCovered
<1>4. /\ AccAfter(net) <= MaxU128
      /\ totalDepositedNet + net <= MaxU64
      /\ totalFees + fee <= MaxU64
  BY DEF DepositRevenue
<1>5. AccAfter(net) \in U128
  BY <1>3, <1>4, SharesFit, ConstantsAreFine
  DEF AccAfter, TypeInv, TypeOK, RevenueTypeOK, U128
<1>6. fee \in U64 /\ net \in U64
  <2> HIDE DEF fee, net
  <2>1. QED
    BY <1>1, SharesFit DEF U64
<1>7. periods' \in Seq(PeriodRecord)
  <2> DEFINE period == [gross |-> gross, fee |-> fee, net |-> net,
                        supply |-> OutstandingShares, accAfter |-> AccAfter(net)]
  <2>1. period \in PeriodRecord
    BY <1>1, <1>2, <1>5, <1>6 DEF PeriodRecord
  <2>2. periods' = Append(periods, period)
    BY DEF DepositRevenue
  <2>3. periods \in Seq(PeriodRecord)
    BY DEF TypeInv, TypeOK, RevenueTypeOK
  <2> HIDE DEF period
  <2>4. QED
    BY <2>1, <2>2, <2>3
<1>8. UNCHANGED <<world, state, roles, request, raiseVars, ledgerVars,
                  totalClaimed>>
  BY DEF DepositRevenue
<1>9. /\ accPerShare' = AccAfter(net) /\ totalDepositedNet' = totalDepositedNet + net
      /\ revenueVault' = revenueVault + net
      /\ totalFees' = totalFees + fee /\ treasury' = treasury + fee
  BY DEF DepositRevenue, PaidToVault
<1>10. RevenueTypeOK'
  BY <1>1, <1>4, <1>5, <1>7, <1>8, <1>9, SharesFit
  DEF TypeInv, TypeOK, RevenueTypeOK, U64
<1>11. FeeTypeOK'
  BY <1>1, <1>4, <1>9, SharesFit DEF TypeInv, TypeOK, FeeTypeOK, U64
<1>12. QED
  BY <1>8, <1>10, <1>11, FramesKeepTypes DEF TypeInv, TypeOK

LEMMA ClaimPreservesTypes ==
  ASSUME TypeInv, NEW o \in Owners, Claim(o)
  PROVE  TypeInv'
<1> DEFINE pos == position[o]
<1> DEFINE amount == Settled(pos).accrued
<1>1. /\ pos \in PositionRecord /\ SettleIsOk(pos) /\ accPerShare \in U128
  BY DEF Claim, TypeInv, TypeOK, LedgerTypeOK, RevenueTypeOK
<1>2. Settled(pos) \in PositionRecord /\ Settled(pos).totalClaimed = pos.totalClaimed
  BY <1>1, SettledType
<1>3. amount \in Nat /\ pos.totalClaimed \in Nat
  BY <1>1, <1>2, ConstantsAreFine DEF PositionRecord
<1>4. /\ pos.totalClaimed + amount <= MaxU64
      /\ totalClaimed + amount <= MaxU64
      /\ revenueVault >= amount
  BY DEF Claim
<1>5. ClaimedPosition(pos) \in PositionRecord
  <2>1. pos.totalClaimed + amount \in U64
    BY <1>3, <1>4, SharesFit DEF U64
  <2>2. ClaimedPosition(pos) =
          [Settled(pos) EXCEPT !.accrued = 0,
             !.totalClaimed = Settled(pos).totalClaimed + amount]
    BY DEF ClaimedPosition
  <2>3. Settled(pos).totalClaimed + amount \in U64
    BY <1>2, <2>1
  <2> HIDE DEF amount
  <2>4. QED
    BY <1>2, <2>2, <2>3, ConstantsAreFine DEF PositionRecord
<1>6. UNCHANGED <<world, state, roles, request, raiseVars, feeVars,
                  sharesRetired, accPerShare, totalDepositedNet, periods,
                  shareAccount, supply>>
  BY DEF Claim
<1>7. LedgerTypeOK'
  BY <1>5, <1>6 DEF Claim, TypeInv, TypeOK, LedgerTypeOK
<1>8. RevenueTypeOK'
  BY <1>3, <1>4, <1>6, SharesFit DEF Claim, TypeInv, TypeOK, RevenueTypeOK, U64
<1>9. QED
  BY <1>6, <1>7, <1>8, FramesKeepTypes DEF TypeInv, TypeOK

(* What a movement of shares leaves in the two ledger entries.             *)
LEMMA SentType ==
  ASSUME accPerShare \in U128, NEW pos \in PositionRecord, SettleIsOk(pos),
         NEW n \in Nat, n <= pos.shares
  PROVE  /\ Sent(pos, n) \in PositionRecord
         /\ Sent(pos, n).open = pos.open
         /\ Sent(pos, n).shares = pos.shares - n
         /\ Sent(pos, n).accrued = Settled(pos).accrued
         /\ Sent(pos, n).accCheckpoint = accPerShare
<1>1. pos.shares \in U64 /\ pos.shares - n \in U64
  BY SharesFit DEF PositionRecord, U64
<1>2. Settled(pos).shares - n \in U64
  BY <1>1, SettledType
<1>3. QED
  BY <1>2, SettledType DEF Sent, PositionRecord

LEMMA ReceivedType ==
  ASSUME accPerShare \in U128, NEW pos \in PositionRecord, SettleIsOk(pos),
         NEW n \in Nat, pos.shares + n <= MaxU64
  PROVE  /\ Received(pos, n) \in PositionRecord
         /\ Received(pos, n).open = pos.open
         /\ Received(pos, n).shares = pos.shares + n
         /\ Received(pos, n).accrued = Settled(pos).accrued
         /\ Received(pos, n).accCheckpoint = accPerShare
<1>1. pos.shares \in U64 /\ pos.shares + n \in U64
  BY SharesFit DEF PositionRecord, U64
<1>2. Settled(pos).shares + n \in U64
  BY <1>1, SettledType
<1>3. QED
  BY <1>2, SettledType DEF Received, PositionRecord

LEMMA TransferPreservesTypes ==
  ASSUME TypeInv, NEW from \in Owners, NEW to \in Owners,
         NEW n \in TransferAmounts, Transfer(from, to, n)
  PROVE  TypeInv'
<1>1. /\ n \in Nat /\ accPerShare \in U128
      /\ position[from] \in PositionRecord /\ position[to] \in PositionRecord
      /\ shareAccount \in [Owners -> ShareAccountRecord]
  BY InputsAssumption DEF TypeInv, TypeOK, LedgerTypeOK, RevenueTypeOK
<1>2. /\ n <= position[from].shares /\ position[to].shares + n <= MaxU64
      /\ SettleIsOk(position[from]) /\ SettleIsOk(position[to])
      /\ n <= shareAccount[from].amount
  <2>1. position[from].shares >= n /\ shareAccount[from].amount >= n
    BY DEF Transfer
  <2>2. position[from].shares \in Nat /\ shareAccount[from].amount \in Nat
    BY <1>1, ConstantsAreFine DEF PositionRecord, ShareAccountRecord
  <2>3. QED
    BY <1>1, <2>1, <2>2 DEF Transfer
<1>3. /\ Sent(position[from], n) \in PositionRecord
      /\ Received(position[to], n) \in PositionRecord
  BY <1>1, <1>2, SentType, ReceivedType
<1>4. position' \in [Owners -> PositionRecord]
  BY <1>3 DEF Transfer, TypeInv, TypeOK, LedgerTypeOK
<1>5. shareAccount' \in [Owners -> ShareAccountRecord]
  <2> DEFINE source ==
        [shareAccount[from] EXCEPT !.amount = shareAccount[from].amount - n]
  <2> DEFINE destination ==
        [shareAccount[to] EXCEPT !.amount = shareAccount[to].amount + n]
  <2>1. source \in ShareAccountRecord /\ destination \in ShareAccountRecord
    BY <1>1, <1>2 DEF ShareAccountRecord
  <2>2. shareAccount' =
          [shareAccount EXCEPT ![from] = source, ![to] = destination]
    BY DEF Transfer
  <2> HIDE DEF source, destination
  <2>3. QED
    BY <1>1, <2>1, <2>2
<1>6. UNCHANGED <<world, state, roles, request, raiseVars, revenueVars,
                  feeVars, sharesRetired, supply>>
  BY DEF Transfer
<1>7. LedgerTypeOK'
  BY <1>4, <1>5, <1>6 DEF TypeInv, TypeOK, LedgerTypeOK
<1>8. QED
  BY <1>6, <1>7, FramesKeepTypes DEF TypeInv, TypeOK

LEMMA ProposePreservesTypes ==
  ASSUME TypeInv, NEW from \in Owners, NEW to \in Owners,
         NEW n \in RecoveryAmounts, ProposeRecovery(from, to, n)
  PROVE  TypeInv'
<1> DEFINE new == [pending |-> TRUE, to |-> to, shares |-> n,
                   proposedAt |-> now, eta |-> ReadyAt]
<1>1. /\ n \in Nat /\ n > 0 /\ from # to /\ now \in Nat /\ ReadyAt \in Nat
      /\ ReadyAt >= now + MinRecoveryDelay
  BY InputsAssumption
  DEF ProposeRecovery, ReadyAt, TypeInv, TypeOK, WorldTypeOK
<1>2. request' = [request EXCEPT ![from] = new]
  BY DEF ProposeRecovery
<1>3. new \in RequestRecord
  BY <1>1 DEF RequestRecord
<1>4. request' \in [Owners -> RequestRecord]
  BY <1>2, <1>3 DEF TypeInv, TypeOK
<1>5. RequestsAreSound'
  BY <1>1, <1>2 DEF RequestsAreSound, TypeInv, TypeOK
<1>6. UNCHANGED <<world, state, roles, raiseVars, revenueVars, feeVars,
                  ledgerVars>>
  BY DEF ProposeRecovery
<1>7. QED
  BY <1>4, <1>5, <1>6, FramesKeepTypes DEF TypeInv, TypeOK

LEMMA ClosedRequestIsSound ==
  ASSUME TypeInv, NEW from \in Owners,
         request' = [request EXCEPT ![from] = NoRequest(from)]
  PROVE  request' \in [Owners -> RequestRecord] /\ RequestsAreSound'
<1>1. NoRequest(from) \in RequestRecord /\ ~NoRequest(from).pending
  BY DEF NoRequest, RequestRecord
<1>2. QED
  BY <1>1 DEF TypeInv, TypeOK, RequestsAreSound

LEMMA CancelPreservesTypes ==
  ASSUME TypeInv, NEW from \in Owners, RequestClosed(from)
  PROVE  TypeInv'
<1>1. UNCHANGED <<world, state, roles, raiseVars, revenueVars, feeVars,
                  ledgerVars>>
  BY DEF RequestClosed
<1>2. request' \in [Owners -> RequestRecord] /\ RequestsAreSound'
  BY ClosedRequestIsSound DEF RequestClosed
<1>3. QED
  BY <1>1, <1>2, FramesKeepTypes DEF TypeInv, TypeOK

(* What a recovery moves of the accrued revenue is a part of it, because   *)
(* the shares it moves are a part of the holding and not none.             *)
LEMMA RecoveryLedger ==
  ASSUME TypeInv, NEW from \in Owners, ExecuteRecovery(from)
  PROVE  LET to == request[from].to
             n == request[from].shares
             moved == AccruedMoved(position[from], n)
         IN /\ to \in Owners /\ to # from
            /\ n \in Nat /\ n > 0 /\ n <= position[from].shares
            /\ moved \in 0 .. Settled(position[from]).accrued
            /\ RecoveredFrom(position[from], n) \in PositionRecord
            /\ RecoveredFrom(position[from], n).open
            /\ RecoveredFrom(position[from], n).shares = position[from].shares - n
            /\ RecoveredFrom(position[from], n).accCheckpoint = accPerShare
            /\ RecoveredFrom(position[from], n).accrued =
                 Settled(position[from]).accrued - moved
            /\ RecoveredTo(OpenedPosition(to), n, moved) \in PositionRecord
            /\ RecoveredTo(OpenedPosition(to), n, moved).open
            /\ RecoveredTo(OpenedPosition(to), n, moved).shares =
                 OpenedPosition(to).shares + n
            /\ RecoveredTo(OpenedPosition(to), n, moved).accCheckpoint = accPerShare
            /\ RecoveredTo(OpenedPosition(to), n, moved).accrued =
                 Settled(OpenedPosition(to)).accrued + moved
<1> DEFINE to == request[from].to
<1> DEFINE n == request[from].shares
<1> DEFINE pos == position[from]
<1> DEFINE toPos == OpenedPosition(to)
<1> DEFINE moved == AccruedMoved(pos, n)
<1>1. /\ request[from] \in RequestRecord /\ request[from].pending
  BY DEF TypeInv, TypeOK, ExecuteRecovery, RecoveryIsReady
<1>2. to \in Owners /\ to # from /\ n \in Nat /\ n > 0
  BY <1>1 DEF RequestRecord, TypeInv, RequestsAreSound
<1>3. /\ pos \in PositionRecord /\ toPos \in PositionRecord
      /\ accPerShare \in U128
  BY <1>2, OpenedPositionType DEF TypeInv, TypeOK, LedgerTypeOK, RevenueTypeOK
<1>4. /\ pos.open /\ pos.shares >= n /\ SettleIsOk(pos) /\ SettleIsOk(toPos)
      /\ toPos.shares + n <= MaxU64
      /\ Settled(toPos).accrued + moved <= MaxU64
  BY DEF ExecuteRecovery
<1>5. toPos.open
  BY <1>3 DEF OpenedPosition, NoPosition
<1>6. n <= pos.shares /\ pos.shares \in Nat
  BY <1>2, <1>3, <1>4, ConstantsAreFine DEF PositionRecord
<1>7. /\ Settled(pos).accrued \in Nat /\ Settled(toPos).accrued \in Nat
  BY <1>3, <1>4, SettledType, ConstantsAreFine DEF PositionRecord
<1>8. moved \in 0 .. Settled(pos).accrued
  BY SMTT(30), <1>2, <1>6, <1>7, ProRataIsAPart DEF AccruedMoved
<1>9. /\ Sent(pos, n) \in PositionRecord
      /\ Sent(pos, n).open = pos.open
      /\ Sent(pos, n).shares = pos.shares - n
      /\ Sent(pos, n).accrued = Settled(pos).accrued
      /\ Sent(pos, n).accCheckpoint = accPerShare
  BY <1>2, <1>3, <1>4, <1>6, SentType
<1>10. /\ Received(toPos, n) \in PositionRecord
       /\ Received(toPos, n).open = toPos.open
       /\ Received(toPos, n).shares = toPos.shares + n
       /\ Received(toPos, n).accrued = Settled(toPos).accrued
       /\ Received(toPos, n).accCheckpoint = accPerShare
  BY <1>2, <1>3, <1>4, ReceivedType
<1>11. Settled(pos).accrued - moved \in U64
  BY <1>7, <1>8, <1>9, SharesFit DEF PositionRecord, U64
<1>12. Settled(toPos).accrued + moved \in U64
  BY <1>4, <1>7, <1>8, SharesFit DEF U64
<1> HIDE DEF to, n, pos, toPos, moved
<1>13. /\ RecoveredFrom(pos, n) \in PositionRecord
       /\ RecoveredFrom(pos, n).open
       /\ RecoveredFrom(pos, n).shares = pos.shares - n
       /\ RecoveredFrom(pos, n).accCheckpoint = accPerShare
       /\ RecoveredFrom(pos, n).accrued = Settled(pos).accrued - moved
  <2>1. RecoveredFrom(pos, n) =
          [Sent(pos, n) EXCEPT !.accrued = Sent(pos, n).accrued - moved]
    BY DEF RecoveredFrom, moved
  <2>2. QED
    BY <1>4, <1>9, <1>11, <2>1 DEF PositionRecord
<1>14. /\ RecoveredTo(toPos, n, moved) \in PositionRecord
       /\ RecoveredTo(toPos, n, moved).open
       /\ RecoveredTo(toPos, n, moved).shares = toPos.shares + n
       /\ RecoveredTo(toPos, n, moved).accCheckpoint = accPerShare
       /\ RecoveredTo(toPos, n, moved).accrued = Settled(toPos).accrued + moved
  BY <1>5, <1>10, <1>12 DEF RecoveredTo, PositionRecord
<1>15. QED
  BY <1>2, <1>6, <1>8, <1>13, <1>14 DEF to, n, pos, toPos, moved

LEMMA ExecutePreservesTypes ==
  ASSUME TypeInv, NEW from \in Owners, ExecuteRecovery(from)
  PROVE  TypeInv'
<1> DEFINE to == request[from].to
<1> DEFINE n == request[from].shares
<1> DEFINE newFrom == RecoveredFrom(position[from], n)
<1> DEFINE newTo == RecoveredTo(OpenedPosition(to), n, AccruedMoved(position[from], n))
<1> DEFINE source ==
      [shareAccount[from] EXCEPT !.amount = shareAccount[from].amount - n]
<1> DEFINE destination ==
      [Thawed(CanonicalAccount(to)) EXCEPT
         !.amount = Thawed(CanonicalAccount(to)).amount + n]
<1>1. /\ to \in Owners /\ n \in Nat /\ n <= position[from].shares
      /\ newFrom \in PositionRecord /\ newTo \in PositionRecord
  BY RecoveryLedger
<1>2. /\ position' = [position EXCEPT ![from] = newFrom, ![to] = newTo]
      /\ shareAccount' = [shareAccount EXCEPT ![from] = source, ![to] = destination]
      /\ supply >= n /\ supply' = supply - n + n
      /\ shareAccount[from].amount = position[from].shares
      /\ request' = [request EXCEPT ![from] = NoRequest(from)]
      /\ UNCHANGED <<world, state, roles, raiseVars, revenueVars, feeVars,
                     sharesRetired>>
  BY DEF ExecuteRecovery, LedgerMatches, SupplyAfterReissue
<1>3. source \in ShareAccountRecord
  <2>1. shareAccount[from] \in ShareAccountRecord
    BY DEF TypeInv, TypeOK, LedgerTypeOK
  <2>2. shareAccount[from].amount - n \in Nat
    BY <1>1, <1>2, <2>1 DEF ShareAccountRecord
  <2>3. QED
    BY <2>1, <2>2 DEF ShareAccountRecord
<1>4. destination \in ShareAccountRecord
  <2>1. Thawed(CanonicalAccount(to)) \in ShareAccountRecord
    BY <1>1, CanonicalAccountType DEF TypeInv, Thawed, ShareAccountRecord
  <2> HIDE DEF to, n
  <2>2. QED
    BY <1>1, <2>1 DEF ShareAccountRecord
<1> HIDE DEF to, n, newFrom, newTo, source, destination
<1>5. LedgerTypeOK'
  BY <1>1, <1>2, <1>3, <1>4 DEF TypeInv, TypeOK, LedgerTypeOK
<1>6. request' \in [Owners -> RequestRecord] /\ RequestsAreSound'
  BY <1>2, ClosedRequestIsSound
<1>7. QED
  BY <1>2, <1>5, <1>6, FramesKeepTypes DEF TypeInv, TypeOK

LEMMA RegistryPreservesTypes ==
  ASSUME TypeInv, RegistryStep
  PROVE  TypeInv'
<1>1. UNCHANGED <<now, outsideVars, state, roles, request, raiseVars,
                  revenueVars, feeVars, ledgerVars>>
  BY DEF RegistryStep, SetInvestor, SetInvestorDemo, KycWritten, UpdateConfig
<1>2. kyc' \in [Owners -> KycRecord]
  BY InputsAssumption
  DEF RegistryStep, SetInvestor, SetInvestorDemo, KycWritten, UpdateConfig,
      TypeInv, TypeOK, WorldTypeOK
<1>3. paused' \in BOOLEAN /\ recoveryDelay' \in RecoveryDelays
  BY InputsAssumption
  DEF RegistryStep, SetInvestor, SetInvestorDemo, KycWritten, UpdateConfig,
      configVars, TypeInv, TypeOK, WorldTypeOK
<1>4. WorldTypeOK'
  BY <1>1, <1>2, <1>3 DEF outsideVars, TypeInv, TypeOK, WorldTypeOK
<1>5. QED
  BY <1>1, <1>4, FramesKeepTypes DEF TypeInv, TypeOK

LEMMA OutsidePreservesTypes ==
  ASSUME TypeInv, OutsideStep
  PROVE  TypeInv'
<1> USE DEF TypeInv, TypeOK
<1>1. CASE Tick
  <2>1. UNCHANGED <<configVars, kyc, outsideVars, state, roles, request,
                    raiseVars, revenueVars, feeVars, ledgerVars>>
    BY <1>1 DEF Tick
  <2>2. WorldTypeOK'
    BY <1>1, <2>1 DEF Tick, WorldTypeOK, configVars, outsideVars
  <2>3. QED
    BY <2>1, <2>2, FramesKeepTypes
<1>2. ASSUME NEW n \in DonationAmounts, DonateToEscrow(n)
      PROVE  TypeInv'
  <2>1. UNCHANGED <<now, configVars, kyc, state, roles, request, revenueVars,
                    feeVars, ledgerVars, refundVars, sharesSold,
                    activationDeadline, released, burned>>
    BY <1>2 DEF DonateToEscrow
  <2>2. n \in Nat
    BY InputsAssumption
  <2>3. RaiseTypeOK'
    BY <1>2, <2>1, <2>2 DEF DonateToEscrow, RaiseTypeOK, refundVars
  <2>4. WorldTypeOK'
    BY <1>2, <2>1, <2>2 DEF DonateToEscrow, WorldTypeOK, configVars
  <2>5. QED
    BY <2>1, <2>3, <2>4, FramesKeepTypes
<1>3. ASSUME NEW n \in DonationAmounts, DonateToVault(n)
      PROVE  TypeInv'
  <2>1. UNCHANGED <<now, configVars, kyc, state, roles, request, raiseVars,
                    feeVars, ledgerVars, accPerShare, totalDepositedNet,
                    periods, totalClaimed, burned>>
    BY <1>3 DEF DonateToVault
  <2>2. n \in Nat
    BY InputsAssumption
  <2>3. RevenueTypeOK'
    BY <1>3, <2>1, <2>2 DEF DonateToVault, RevenueTypeOK
  <2>4. WorldTypeOK'
    BY <1>3, <2>1, <2>2 DEF DonateToVault, WorldTypeOK, configVars
  <2>5. QED
    BY <2>1, <2>3, <2>4, FramesKeepTypes
<1>4. ASSUME NEW o \in AccountOwners, CreateShareAccount(o) \/ CloseShareAccount(o)
      PROVE  TypeInv'
  <2>1. UNCHANGED <<world, state, roles, request, raiseVars, revenueVars,
                    feeVars, sharesRetired, position, supply>>
    BY <1>4 DEF CreateShareAccount, CloseShareAccount
  <2>2. /\ EmptyShareAccount \in ShareAccountRecord
        /\ NoShareAccount \in ShareAccountRecord
    BY DEF EmptyShareAccount, NoShareAccount, ShareAccountRecord
  <2>3. shareAccount' \in [Owners -> ShareAccountRecord]
    BY <1>4, <2>2, InputsAssumption
    DEF CreateShareAccount, CloseShareAccount, LedgerTypeOK
  <2>4. QED
    BY <2>1, <2>3, FramesKeepTypes DEF LedgerTypeOK
<1>5. ASSUME NEW o \in Owners, NEW n \in BurnAmounts, BurnOwnShares(o, n)
      PROVE  TypeInv'
  <2>1. UNCHANGED <<now, configVars, kyc, state, roles, request, raiseVars,
                    revenueVars, feeVars, sharesRetired, position, donated>>
    BY <1>5 DEF BurnOwnShares
  <2>2. /\ n \in Nat /\ shareAccount[o].amount >= n /\ supply >= n
        /\ shareAccount[o] \in ShareAccountRecord
    BY <1>5, InputsAssumption DEF BurnOwnShares, LedgerTypeOK
  <2>3. [shareAccount[o] EXCEPT !.amount = shareAccount[o].amount - n]
          \in ShareAccountRecord
    BY <2>2 DEF ShareAccountRecord
  <2>4. shareAccount' = [shareAccount EXCEPT ![o] =
          [shareAccount[o] EXCEPT !.amount = shareAccount[o].amount - n]]
    BY <1>5 DEF BurnOwnShares
  <2>5. LedgerTypeOK'
    BY <1>5, <2>1, <2>2, <2>3, <2>4 DEF BurnOwnShares, LedgerTypeOK
  <2>6. WorldTypeOK'
    BY <1>5, <2>1, <2>2 DEF BurnOwnShares, WorldTypeOK, configVars
  <2>7. QED
    BY <2>1, <2>5, <2>6, FramesKeepTypes
<1>6. QED
  BY <1>1, <1>2, <1>3, <1>4, <1>5 DEF OutsideStep

LEMMA StutterPreservesTypes ==
  ASSUME TypeInv, UNCHANGED vars
  PROVE  TypeInv'
  BY FramesKeepTypes DEF vars, TypeInv, TypeOK

LEMMA NextPreservesTypes ==
  ASSUME TypeInv, [Next]_vars
  PROVE  TypeInv'
<1>1. CASE RaiseStep
  BY <1>1, BuyPreservesTypes, FinalizePreservesTypes, ActivatePreservesTypes,
     ManagePreservesTypes, RefundPreservesTypes DEF RaiseStep
<1>2. CASE ManageStep
  BY <1>2, ManagePreservesTypes
<1>3. CASE HoldingStep
  BY <1>3, OpenPreservesTypes, ClosePreservesTypes, DepositPreservesTypes,
     ClaimPreservesTypes, TransferPreservesTypes DEF HoldingStep
<1>4. CASE RecoveryStep
  BY <1>4, ProposePreservesTypes, CancelPreservesTypes, ExecutePreservesTypes
  DEF RecoveryStep, VetoRecovery, WithdrawRecovery
<1>5. CASE RegistryStep
  BY <1>5, RegistryPreservesTypes
<1>6. CASE OutsideStep
  BY <1>6, OutsidePreservesTypes
<1>7. CASE UNCHANGED vars
  BY <1>7, StutterPreservesTypes
<1>8. QED
  BY <1>1, <1>2, <1>3, <1>4, <1>5, <1>6, <1>7 DEF Next

LEMMA TypesAreInvariant == Spec => []TypeInv
<1>1. Init => TypeInv
  BY InitTypeInv
<1>2. TypeInv /\ [Next]_vars => TypeInv'
  BY NextPreservesTypes
<1>3. QED
  BY <1>1, <1>2, PTL DEF Spec

(* No counter, balance or ledger entry leaves the range of its integer     *)
(* type, no subtraction goes below zero and every record keeps its shape.  *)
THEOREM TypeCorrect == Spec => []TypeOK
<1>1. TypeInv => TypeOK
  BY DEF TypeInv
<1>2. QED
  BY <1>1, TypesAreInvariant, PTL
-----------------------------------------------------------------------------
(* The ledger of shares: positions against share accounts.  The inductive  *)
(* invariant says it owner by owner, because every instruction touches the *)
(* entries of one owner or of two.                                         *)

(* The ledger entry of one owner is in order: it covers the balance, only  *)
(* a thawed account of an open position holds shares, a closed position    *)
(* has none, and no checkpoint is ahead of the accumulator.                *)
EntryIsSound(o) ==
  /\ position[o].shares = shareAccount[o].amount + burned[o]
  /\ shareAccount[o].exists /\ ~shareAccount[o].frozen => position[o].open
  /\ shareAccount[o].frozen \/ ~shareAccount[o].exists
       => shareAccount[o].amount = 0
  /\ ~position[o].open => position[o].shares = 0
  /\ position[o].accCheckpoint <= accPerShare

LedgerInv == \A o \in Owners : EntryIsSound(o)

LEMMA InitLedgerInv == Init => LedgerInv
  BY DEF Init, LedgerInv, EntryIsSound, NoPosition, NoShareAccount

(* A step that touches at most two owners leaves the others in order.      *)
LEMMA OthersStaySound ==
  ASSUME LedgerInv, NEW a \in Owners, NEW b \in Owners,
         \A o \in Owners \ {a, b} :
           /\ position'[o] = position[o] /\ burned'[o] = burned[o]
           /\ shareAccount'[o] = shareAccount[o],
         accPerShare' = accPerShare,
         EntryIsSound(a)', EntryIsSound(b)'
  PROVE  LedgerInv'
<1>1. ASSUME NEW o \in Owners PROVE EntryIsSound(o)'
  <2>1. CASE o \in {a, b}
    BY <2>1
  <2>2. CASE o \notin {a, b}
    BY <2>2 DEF LedgerInv, EntryIsSound
  <2>3. QED
    BY <2>1, <2>2
<1>2. QED
  BY <1>1 DEF LedgerInv

LEMMA UntouchedLedger ==
  ASSUME LedgerInv, UNCHANGED <<position, shareAccount, burned, accPerShare>>
  PROVE  LedgerInv'
  BY DEF LedgerInv, EntryIsSound

(* What the ledger check of an instruction says of the accounts it opens.  *)
LEMMA MatchedEntry ==
  ASSUME TypeInv, LedgerInv, NEW o \in Owners,
         LedgerMatches(CanonicalAccount(o), OpenedPosition(o))
  PROVE  /\ burned[o] = 0
         /\ CanonicalAccount(o).amount = OpenedPosition(o).shares
         /\ CanonicalAccount(o).exists /\ OpenedPosition(o).open
         /\ CanonicalAccount(o).amount \in Nat
<1>1. /\ shareAccount[o] \in ShareAccountRecord /\ burned[o] \in Nat
      /\ position[o] \in PositionRecord
  BY DEF TypeInv, TypeOK, LedgerTypeOK, WorldTypeOK
<1>2. EntryIsSound(o)
  BY DEF LedgerInv
<1>3. CanonicalAccount(o).amount = shareAccount[o].amount
  BY <1>2 DEF CanonicalAccount, EmptyShareAccount, EntryIsSound
<1>4. /\ OpenedPosition(o).shares = position[o].shares
      /\ OpenedPosition(o).open
  BY <1>2 DEF OpenedPosition, NoPosition, EntryIsSound
<1>5. position[o].shares = shareAccount[o].amount + burned[o]
  BY <1>2 DEF EntryIsSound
<1>6. shareAccount[o].amount \in Nat
  BY <1>1 DEF ShareAccountRecord
<1>7. CanonicalAccount(o).amount = OpenedPosition(o).shares
  BY DEF LedgerMatches
<1>8. burned[o] = 0
  BY <1>1, <1>3, <1>4, <1>5, <1>6, <1>7
<1>9. CanonicalAccount(o).exists
  BY CanonicalAccountType DEF TypeInv
<1>10. QED
  BY <1>3, <1>4, <1>6, <1>7, <1>8, <1>9

LEMMA OpenedCheckpoint ==
  ASSUME TypeInv, LedgerInv, NEW o \in Owners
  PROVE  OpenedPosition(o).accCheckpoint <= accPerShare
<1>1. /\ position[o].accCheckpoint <= accPerShare
      /\ position[o] \in PositionRecord
      /\ accPerShare \in Nat
  BY ConstantsAreFine
  DEF LedgerInv, EntryIsSound, TypeInv, TypeOK, LedgerTypeOK, RevenueTypeOK
<1>2. QED
  BY <1>1 DEF OpenedPosition, NoPosition

LEMMA BuyKeepsLedger ==
  ASSUME TypeInv, LedgerInv, NEW o \in Owners, NEW n \in BuyAmounts,
         BuyShares(o, n)
  PROVE  LedgerInv'
<1> DEFINE pos == OpenedPosition(o)
<1> DEFINE account == CanonicalAccount(o)
<1>1. /\ pos \in PositionRecord /\ account \in ShareAccountRecord /\ n \in Nat
  BY OpenedPositionType, CanonicalAccountType, InputsAssumption DEF TypeInv
<1>2. /\ burned[o] = 0 /\ account.amount = pos.shares
      /\ account.exists /\ pos.open /\ account.amount \in Nat
  BY MatchedEntry DEF BuyShares
<1>3. /\ position' = [position EXCEPT ![o] =
           [pos EXCEPT !.shares = @ + n, !.paidIn = @ + SharesValue(n, Price)]]
      /\ shareAccount' = [shareAccount EXCEPT ![o] =
           [Thawed(account) EXCEPT !.amount = @ + n]]
      /\ burned' = burned /\ accPerShare' = accPerShare
  BY DEF BuyShares, world, outsideVars, revenueVars
<1>4. /\ Thawed(account) \in ShareAccountRecord
      /\ Thawed(account).exists /\ ~Thawed(account).frozen
      /\ Thawed(account).amount = account.amount
  BY <1>1, <1>2 DEF Thawed, ShareAccountRecord
<1> HIDE DEF pos, account
<1>5. /\ position'[o].shares = pos.shares + n /\ position'[o].open
      /\ position'[o].accCheckpoint = pos.accCheckpoint
      /\ shareAccount'[o].amount = account.amount + n
      /\ shareAccount'[o].exists /\ ~shareAccount'[o].frozen
  BY <1>1, <1>2, <1>3, <1>4
  DEF TypeInv, TypeOK, LedgerTypeOK, PositionRecord, ShareAccountRecord
<1>6. EntryIsSound(o)'
  BY <1>1, <1>2, <1>3, <1>5, OpenedCheckpoint DEF EntryIsSound, pos
<1>7. \A p \in Owners \ {o, o} :
        /\ position'[p] = position[p] /\ burned'[p] = burned[p]
        /\ shareAccount'[p] = shareAccount[p]
  BY <1>3 DEF TypeInv, TypeOK, LedgerTypeOK
<1>8. QED
  BY <1>3, <1>6, <1>7, OthersStaySound

LEMMA RefundKeepsLedger ==
  ASSUME TypeInv, LedgerInv, NEW o \in Owners, Refund(o)
  PROVE  LedgerInv'
<1> DEFINE n == position[o].shares
<1>1. /\ shareAccount[o].amount = n
      /\ position' = [position EXCEPT ![o] = [position[o] EXCEPT !.shares = 0]]
      /\ shareAccount' = [shareAccount EXCEPT ![o] =
           [shareAccount[o] EXCEPT !.amount = shareAccount[o].amount - n]]
      /\ burned' = burned /\ accPerShare' = accPerShare
  BY DEF Refund, LedgerMatches, RefundedPosition, world, outsideVars, revenueVars
<1>2. /\ position[o] \in PositionRecord /\ shareAccount[o] \in ShareAccountRecord
      /\ n \in Nat /\ burned[o] \in Nat /\ EntryIsSound(o)
  BY ConstantsAreFine
  DEF TypeInv, TypeOK, LedgerTypeOK, WorldTypeOK, PositionRecord, LedgerInv
<1>3. /\ position'[o].shares = 0 /\ position'[o].open = position[o].open
      /\ position'[o].accCheckpoint = position[o].accCheckpoint
      /\ shareAccount'[o].amount = 0
      /\ shareAccount'[o].exists = shareAccount[o].exists
      /\ shareAccount'[o].frozen = shareAccount[o].frozen
  BY <1>1, <1>2
  DEF TypeInv, TypeOK, LedgerTypeOK, PositionRecord, ShareAccountRecord
<1>4. burned[o] = 0
  BY <1>1, <1>2 DEF EntryIsSound
<1>5. EntryIsSound(o)'
  BY <1>1, <1>2, <1>3, <1>4 DEF EntryIsSound
<1>6. \A p \in Owners \ {o, o} :
        /\ position'[p] = position[p] /\ burned'[p] = burned[p]
        /\ shareAccount'[p] = shareAccount[p]
  BY <1>1 DEF TypeInv, TypeOK, LedgerTypeOK
<1>7. QED
  BY <1>1, <1>5, <1>6, OthersStaySound

LEMMA OpenKeepsLedger ==
  ASSUME TypeInv, LedgerInv, NEW o \in Owners, OpenPosition(o)
  PROVE  LedgerInv'
<1> DEFINE pos == OpenedPosition(o)
<1> DEFINE account == CanonicalAccount(o)
<1>1. /\ pos \in PositionRecord /\ account \in ShareAccountRecord
  BY OpenedPositionType, CanonicalAccountType DEF TypeInv
<1>2. /\ burned[o] = 0 /\ account.amount = pos.shares
      /\ account.exists /\ pos.open /\ account.amount \in Nat
  BY MatchedEntry DEF OpenPosition
<1>3. /\ position' = [position EXCEPT ![o] = pos]
      /\ shareAccount' = [shareAccount EXCEPT ![o] = Thawed(account)]
      /\ burned' = burned /\ accPerShare' = accPerShare
  BY DEF OpenPosition, world, outsideVars, revenueVars
<1>4. /\ Thawed(account).exists /\ ~Thawed(account).frozen
      /\ Thawed(account).amount = account.amount
  BY <1>1, <1>2 DEF Thawed, ShareAccountRecord
<1>5. pos.accCheckpoint <= accPerShare
  BY OpenedCheckpoint
<1> HIDE DEF pos, account
<1>6. position'[o] = pos /\ shareAccount'[o] = Thawed(account)
  BY <1>3 DEF TypeInv, TypeOK, LedgerTypeOK
<1>7. EntryIsSound(o)'
  BY <1>1, <1>2, <1>3, <1>4, <1>5, <1>6 DEF EntryIsSound
<1>8. \A p \in Owners \ {o, o} :
        /\ position'[p] = position[p] /\ burned'[p] = burned[p]
        /\ shareAccount'[p] = shareAccount[p]
  BY <1>3 DEF TypeInv, TypeOK, LedgerTypeOK
<1>9. QED
  BY <1>3, <1>7, <1>8, OthersStaySound

(* close_position finds the balance equal to the ledger, so the owner has  *)
(* burned nothing and nothing remains.                                     *)
LEMMA CloseKeepsLedger ==
  ASSUME TypeInv, LedgerInv, NEW o \in Owners, ClosePosition(o)
  PROVE  LedgerInv'
<1>1. /\ position[o].open
      /\ LedgerMatches(CanonicalAccount(o), position[o])
      /\ position' = [position EXCEPT ![o] = NoPosition]
      /\ shareAccount' = [shareAccount EXCEPT ![o] = NoShareAccount]
      /\ burned' = burned /\ accPerShare' = accPerShare
  BY DEF ClosePosition, world, outsideVars, revenueVars
<1>2. OpenedPosition(o) = position[o]
  BY <1>1 DEF OpenedPosition
<1>3. burned[o] = 0
  BY <1>1, <1>2, MatchedEntry
<1>4. position'[o] = NoPosition /\ shareAccount'[o] = NoShareAccount
  BY <1>1 DEF TypeInv, TypeOK, LedgerTypeOK
<1>5. accPerShare \in Nat
  BY ConstantsAreFine DEF TypeInv, TypeOK, RevenueTypeOK
<1>6. EntryIsSound(o)'
  BY <1>1, <1>3, <1>4, <1>5 DEF EntryIsSound, NoPosition, NoShareAccount
<1>7. \A p \in Owners \ {o, o} :
        /\ position'[p] = position[p] /\ burned'[p] = burned[p]
        /\ shareAccount'[p] = shareAccount[p]
  BY <1>1 DEF TypeInv, TypeOK, LedgerTypeOK
<1>8. QED
  BY <1>1, <1>6, <1>7, OthersStaySound

LEMMA ClaimKeepsLedger ==
  ASSUME TypeInv, LedgerInv, NEW o \in Owners, Claim(o)
  PROVE  LedgerInv'
<1> DEFINE pos == position[o]
<1>1. /\ pos \in PositionRecord /\ accPerShare \in U128 /\ SettleIsOk(pos)
      /\ EntryIsSound(o) /\ accPerShare \in Nat
  BY ConstantsAreFine
  DEF Claim, TypeInv, TypeOK, LedgerTypeOK, RevenueTypeOK, LedgerInv
<1>2. /\ Settled(pos) \in PositionRecord
      /\ Settled(pos).open = pos.open /\ Settled(pos).shares = pos.shares
      /\ Settled(pos).accCheckpoint = accPerShare
  BY <1>1, SettledType
<1>3. /\ ClaimedPosition(pos).open = pos.open
      /\ ClaimedPosition(pos).shares = pos.shares
      /\ ClaimedPosition(pos).accCheckpoint = accPerShare
  BY <1>2 DEF ClaimedPosition, PositionRecord
<1>4. /\ position' = [position EXCEPT ![o] = ClaimedPosition(pos)]
      /\ shareAccount' = shareAccount
      /\ burned' = burned /\ accPerShare' = accPerShare
  BY DEF Claim, world, outsideVars
<1>5. position'[o] = ClaimedPosition(pos)
  BY <1>4 DEF TypeInv, TypeOK, LedgerTypeOK
<1>6. EntryIsSound(o)'
  BY <1>1, <1>3, <1>4, <1>5 DEF EntryIsSound
<1>7. \A p \in Owners \ {o, o} :
        /\ position'[p] = position[p] /\ burned'[p] = burned[p]
        /\ shareAccount'[p] = shareAccount[p]
  BY <1>4 DEF TypeInv, TypeOK, LedgerTypeOK
<1>8. QED
  BY <1>4, <1>6, <1>7, OthersStaySound

LEMMA TransferKeepsLedger ==
  ASSUME TypeInv, LedgerInv, NEW from \in Owners, NEW to \in Owners,
         NEW n \in TransferAmounts, Transfer(from, to, n)
  PROVE  LedgerInv'
<1> DEFINE newFrom == Sent(position[from], n)
<1> DEFINE newTo == Received(position[to], n)
<1> DEFINE source ==
      [shareAccount[from] EXCEPT !.amount = shareAccount[from].amount - n]
<1> DEFINE destination ==
      [shareAccount[to] EXCEPT !.amount = shareAccount[to].amount + n]
<1>1. /\ n \in Nat /\ accPerShare \in U128 /\ accPerShare \in Nat
      /\ position[from] \in PositionRecord /\ position[to] \in PositionRecord
      /\ shareAccount[from] \in ShareAccountRecord
      /\ shareAccount[to] \in ShareAccountRecord
      /\ position[from].shares \in Nat /\ position[to].shares \in Nat
      /\ shareAccount[from].amount \in Nat /\ shareAccount[to].amount \in Nat
      /\ burned[from] \in Nat /\ burned[to] \in Nat
  BY InputsAssumption, ConstantsAreFine
  DEF TypeInv, TypeOK, LedgerTypeOK, RevenueTypeOK, WorldTypeOK, PositionRecord,
      ShareAccountRecord
<1>2. /\ from # to
      /\ shareAccount[from].exists /\ ~shareAccount[from].frozen
      /\ shareAccount[to].exists /\ ~shareAccount[to].frozen
      /\ position[from].open /\ position[to].open
      /\ position[from].shares >= n /\ position[to].shares + n <= MaxU64
      /\ SettleIsOk(position[from]) /\ SettleIsOk(position[to])
  BY DEF Transfer
<1>3. /\ newFrom.open /\ newFrom.shares = position[from].shares - n
      /\ newFrom.accCheckpoint = accPerShare
      /\ newTo.open /\ newTo.shares = position[to].shares + n
      /\ newTo.accCheckpoint = accPerShare
  BY <1>1, <1>2, SentType, ReceivedType
<1>4. /\ source.exists /\ ~source.frozen
      /\ source.amount = shareAccount[from].amount - n
      /\ destination.exists /\ ~destination.frozen
      /\ destination.amount = shareAccount[to].amount + n
  BY <1>1, <1>2 DEF ShareAccountRecord
<1>5. /\ position' = [position EXCEPT ![from] = newFrom, ![to] = newTo]
      /\ shareAccount' = [shareAccount EXCEPT ![from] = source, ![to] = destination]
      /\ burned' = burned /\ accPerShare' = accPerShare
  BY DEF Transfer, world, outsideVars, revenueVars
<1> HIDE DEF newFrom, newTo, source, destination
<1>6. /\ position'[from] = newFrom /\ position'[to] = newTo
      /\ shareAccount'[from] = source /\ shareAccount'[to] = destination
  BY <1>2, <1>5 DEF TypeInv, TypeOK, LedgerTypeOK
<1>7. EntryIsSound(from) /\ EntryIsSound(to)
  BY DEF LedgerInv
<1>8. EntryIsSound(from)'
  BY <1>1, <1>3, <1>4, <1>5, <1>6, <1>7 DEF EntryIsSound
<1>9. EntryIsSound(to)'
  BY <1>1, <1>3, <1>4, <1>5, <1>6, <1>7 DEF EntryIsSound
<1>10. \A p \in Owners \ {from, to} :
        /\ position'[p] = position[p] /\ burned'[p] = burned[p]
        /\ shareAccount'[p] = shareAccount[p]
  BY <1>5 DEF TypeInv, TypeOK, LedgerTypeOK
<1>11. QED
  BY <1>5, <1>8, <1>9, <1>10, OthersStaySound

(* A recovery finds both balances equal to the ledger and moves both.      *)
LEMMA ExecuteKeepsLedger ==
  ASSUME TypeInv, LedgerInv, NEW from \in Owners, ExecuteRecovery(from)
  PROVE  LedgerInv'
<1>0. PICK to \in Owners, n \in Nat :
        to = request[from].to /\ n = request[from].shares
  BY RecoveryLedger
<1> DEFINE moved == AccruedMoved(position[from], n)
<1> DEFINE newFrom == RecoveredFrom(position[from], n)
<1> DEFINE newTo == RecoveredTo(OpenedPosition(to), n, moved)
<1> DEFINE source ==
      [shareAccount[from] EXCEPT !.amount = shareAccount[from].amount - n]
<1> DEFINE toAccount == CanonicalAccount(to)
<1> DEFINE destination ==
      [Thawed(toAccount) EXCEPT !.amount = Thawed(toAccount).amount + n]
<1>1. /\ to \in Owners /\ to # from /\ n \in Nat /\ n <= position[from].shares
      /\ newFrom.open /\ newFrom.shares = position[from].shares - n
      /\ newFrom.accCheckpoint = accPerShare
      /\ newTo.open /\ newTo.shares = OpenedPosition(to).shares + n
      /\ newTo.accCheckpoint = accPerShare
  BY <1>0, RecoveryLedger
<1>2. /\ position' = [position EXCEPT ![from] = newFrom, ![to] = newTo]
      /\ shareAccount' = [shareAccount EXCEPT ![from] = source, ![to] = destination]
      /\ shareAccount[from].exists /\ position[from].open
      /\ shareAccount[from].amount = position[from].shares
      /\ LedgerMatches(CanonicalAccount(to), OpenedPosition(to))
      /\ burned' = burned /\ accPerShare' = accPerShare
  BY <1>0 DEF ExecuteRecovery, LedgerMatches, world, outsideVars, revenueVars
<1>3. /\ burned[to] = 0 /\ toAccount.amount = OpenedPosition(to).shares
      /\ toAccount.exists /\ toAccount.amount \in Nat
      /\ toAccount \in ShareAccountRecord
  BY <1>1, <1>2, MatchedEntry, CanonicalAccountType DEF TypeInv
<1>4. /\ shareAccount[from] \in ShareAccountRecord
      /\ shareAccount[from].amount \in Nat /\ burned[from] \in Nat
      /\ accPerShare \in Nat
  BY ConstantsAreFine
  DEF TypeInv, TypeOK, LedgerTypeOK, RevenueTypeOK, WorldTypeOK,
      ShareAccountRecord
<1> HIDE DEF moved, newFrom, newTo, toAccount
<1>5. /\ source.exists = shareAccount[from].exists
      /\ source.frozen = shareAccount[from].frozen
      /\ source.amount = shareAccount[from].amount - n
  BY <1>4 DEF ShareAccountRecord
<1>6. /\ destination.exists /\ ~destination.frozen
      /\ destination.amount = toAccount.amount + n
  <2>1. /\ Thawed(toAccount) \in ShareAccountRecord
        /\ Thawed(toAccount).exists /\ ~Thawed(toAccount).frozen
        /\ Thawed(toAccount).amount = toAccount.amount
    BY <1>3 DEF Thawed, ShareAccountRecord
  <2>2. QED
    BY <2>1 DEF ShareAccountRecord
<1> HIDE DEF source, destination
<1>7. /\ position'[from] = newFrom /\ position'[to] = newTo
      /\ shareAccount'[from] = source /\ shareAccount'[to] = destination
  BY <1>1, <1>2 DEF TypeInv, TypeOK, LedgerTypeOK
<1>8. EntryIsSound(from)
  BY DEF LedgerInv
<1>9. EntryIsSound(from)'
  <2>1. /\ burned[from] = 0
        /\ shareAccount[from].frozen => n = 0
    BY <1>1, <1>2, <1>4, <1>8 DEF EntryIsSound
  <2>2. /\ newFrom.shares = source.amount
        /\ source.frozen \/ ~source.exists => source.amount = 0
    BY <1>1, <1>2, <1>4, <1>5, <2>1, <1>8 DEF EntryIsSound
  <2>3. source.amount \in Nat /\ burned'[from] = 0
    BY <1>1, <1>2, <1>4, <1>5, <2>1
  <2>4. QED
    BY <1>1, <1>2, <1>4, <1>7, <2>2, <2>3 DEF EntryIsSound
<1>10. EntryIsSound(to)'
  BY <1>1, <1>2, <1>3, <1>4, <1>6, <1>7 DEF EntryIsSound
<1>11. \A p \in Owners \ {from, to} :
        /\ position'[p] = position[p] /\ burned'[p] = burned[p]
        /\ shareAccount'[p] = shareAccount[p]
  BY <1>2 DEF TypeInv, TypeOK, LedgerTypeOK
<1>12. QED
  BY <1>1, <1>2, <1>9, <1>10, <1>11, OthersStaySound

(* A deposit only moves the accumulator, and moves it forward.             *)
LEMMA DepositMovesForward ==
  ASSUME TypeInv, NEW gross \in GrossAmounts, DepositRevenue(gross)
  PROVE  /\ position' = position /\ shareAccount' = shareAccount
         /\ burned' = burned
         /\ accPerShare' >= accPerShare
         /\ accPerShare \in Nat /\ accPerShare' \in Nat
<1> DEFINE net == NetOfFee(gross, RevenueFeeBps)
<1>1. /\ position' = position /\ shareAccount' = shareAccount
      /\ burned' = burned
      /\ accPerShare' = accPerShare + AccIncrement(net, OutstandingShares)
  BY DEF DepositRevenue, AccAfter, world, outsideVars, ledgerVars
<1>2. net \in Nat /\ OutstandingShares \in Nat /\ OutstandingShares > 0
  <2>1. gross \in Nat
    BY InputsAssumption, ConstantsAreFine
  <2>2. net \in Nat
    BY <2>1, ConstantsAreFine, FeeIsAPart
  <2>3. OutstandingShares \in Int
    BY ConstantsAreFine
    DEF OutstandingShares, TypeInv, TypeOK, RaiseTypeOK, LedgerTypeOK
  <2> HIDE DEF net
  <2>4. QED
    BY <2>2, <2>3 DEF DepositRevenue
<1> HIDE DEF net
<1>3. AccIncrement(net, OutstandingShares) \in Nat
  BY <1>2, IncrementIsCovered
<1>4. QED
  BY <1>1, <1>3, ConstantsAreFine DEF TypeInv, TypeOK, RevenueTypeOK

LEMMA DepositKeepsLedger ==
  ASSUME TypeInv, LedgerInv, NEW gross \in GrossAmounts, DepositRevenue(gross)
  PROVE  LedgerInv'
<1>1. /\ position' = position /\ shareAccount' = shareAccount
      /\ burned' = burned
      /\ accPerShare' >= accPerShare
      /\ accPerShare \in Nat /\ accPerShare' \in Nat
  BY DepositMovesForward
<1>2. ASSUME NEW o \in Owners PROVE EntryIsSound(o)'
  <2>1. EntryIsSound(o) /\ position[o].accCheckpoint \in Nat
    BY ConstantsAreFine
    DEF LedgerInv, TypeInv, TypeOK, LedgerTypeOK, PositionRecord
  <2>2. QED
    BY <1>1, <2>1 DEF EntryIsSound
<1>3. QED
  BY <1>2 DEF LedgerInv

LEMMA AccountStepsKeepLedger ==
  ASSUME TypeInv, LedgerInv, NEW o \in Owners,
         CreateShareAccount(o) \/ CloseShareAccount(o)
  PROVE  LedgerInv'
<1>1. /\ position' = position /\ burned' = burned /\ accPerShare' = accPerShare
  BY DEF CreateShareAccount, CloseShareAccount, world, outsideVars, revenueVars
<1>2. /\ shareAccount[o].amount = 0
      /\ \A p \in Owners \ {o, o} : shareAccount'[p] = shareAccount[p]
      /\ shareAccount'[o].amount = 0
      /\ ~(shareAccount'[o].exists /\ ~shareAccount'[o].frozen)
  BY DEF CreateShareAccount, CloseShareAccount, EmptyShareAccount,
         NoShareAccount, TypeInv, TypeOK, LedgerTypeOK, LedgerInv, EntryIsSound
<1>3. EntryIsSound(o)'
  BY <1>1, <1>2 DEF LedgerInv, EntryIsSound
<1>4. QED
  BY <1>1, <1>2, <1>3, OthersStaySound

(* Shares burned outside of the program stay in the ledger as burned.      *)
LEMMA BurnKeepsLedger ==
  ASSUME TypeInv, LedgerInv, NEW o \in Owners, NEW n \in BurnAmounts,
         BurnOwnShares(o, n)
  PROVE  LedgerInv'
<1> DEFINE rest ==
      [shareAccount[o] EXCEPT !.amount = shareAccount[o].amount - n]
<1>1. /\ position' = position /\ accPerShare' = accPerShare
      /\ shareAccount' = [shareAccount EXCEPT ![o] = rest]
      /\ burned' = [burned EXCEPT ![o] = burned[o] + n]
      /\ shareAccount[o].exists /\ ~shareAccount[o].frozen
  BY DEF BurnOwnShares, revenueVars
<1>2. /\ shareAccount[o] \in ShareAccountRecord /\ n \in Nat
      /\ burned[o] \in Nat /\ shareAccount[o].amount \in Nat
  BY InputsAssumption
  DEF TypeInv, TypeOK, LedgerTypeOK, WorldTypeOK, ShareAccountRecord
<1>3. /\ rest.exists /\ ~rest.frozen
      /\ rest.amount = shareAccount[o].amount - n
  BY <1>1, <1>2 DEF ShareAccountRecord
<1> HIDE DEF rest
<1>4. shareAccount'[o] = rest /\ burned'[o] = burned[o] + n
  BY <1>1 DEF TypeInv, TypeOK, LedgerTypeOK, WorldTypeOK
<1>5. EntryIsSound(o)'
  BY <1>1, <1>2, <1>3, <1>4 DEF LedgerInv, EntryIsSound
<1>6. \A p \in Owners \ {o, o} :
        /\ position'[p] = position[p] /\ burned'[p] = burned[p]
        /\ shareAccount'[p] = shareAccount[p]
  BY <1>1 DEF TypeInv, TypeOK, LedgerTypeOK, WorldTypeOK
<1>7. QED
  BY <1>1, <1>5, <1>6, OthersStaySound

LEMMA NextKeepsLedger ==
  ASSUME TypeInv, LedgerInv, [Next]_vars
  PROVE  LedgerInv'
<1>1. CASE RaiseStep
  <2>1. CASE FinalizeRaise \/ ActivateProject \/ CancelRaise
    BY <2>1, UntouchedLedger
    DEF FinalizeRaise, ActivateProject, CancelRaise, ledgerVars, revenueVars,
        world, outsideVars
  <2>2. QED
    BY <1>1, <2>1, BuyKeepsLedger, RefundKeepsLedger DEF RaiseStep
<1>2. CASE ManageStep
  BY <1>2, UntouchedLedger
  DEF ManageStep, PauseProject, ResumeProject, SetRoles, CloseProject,
      ManagedUnchanged, ledgerVars, revenueVars, world, outsideVars
<1>3. CASE HoldingStep
  BY <1>3, OpenKeepsLedger, CloseKeepsLedger, DepositKeepsLedger,
     ClaimKeepsLedger, TransferKeepsLedger DEF HoldingStep
<1>4. CASE RecoveryStep
  <2>1. ASSUME NEW from \in Owners, RequestClosed(from)
        PROVE  LedgerInv'
    BY <2>1, UntouchedLedger
    DEF RequestClosed, ledgerVars, revenueVars, world, outsideVars
  <2>2. ASSUME NEW from \in Owners, NEW to \in Owners,
               NEW n \in RecoveryAmounts, ProposeRecovery(from, to, n)
        PROVE  LedgerInv'
    BY <2>2, UntouchedLedger
    DEF ProposeRecovery, ledgerVars, revenueVars, world, outsideVars
  <2>3. QED
    BY <1>4, <2>1, <2>2, ExecuteKeepsLedger
    DEF RecoveryStep, VetoRecovery, WithdrawRecovery
<1>5. CASE RegistryStep
  BY <1>5, UntouchedLedger
  DEF RegistryStep, SetInvestor, SetInvestorDemo, KycWritten, UpdateConfig,
      ledgerVars, revenueVars, outsideVars
<1>6. CASE OutsideStep
  <2>1. CASE Tick
    BY <2>1, UntouchedLedger DEF Tick, ledgerVars, revenueVars, outsideVars
  <2>2. ASSUME NEW n \in DonationAmounts, DonateToEscrow(n) \/ DonateToVault(n)
        PROVE  LedgerInv'
    BY <2>2, UntouchedLedger
    DEF DonateToEscrow, DonateToVault, ledgerVars, revenueVars
  <2>3. AccountOwners \subseteq Owners
    BY InputsAssumption
  <2>4. QED
    BY <1>6, <2>1, <2>2, <2>3, AccountStepsKeepLedger, BurnKeepsLedger
    DEF OutsideStep
<1>7. CASE UNCHANGED vars
  BY <1>7, UntouchedLedger
  DEF vars, ledgerVars, revenueVars, world, outsideVars
<1>8. QED
  BY <1>1, <1>2, <1>3, <1>4, <1>5, <1>6, <1>7 DEF Next

LEMMA LedgerIsInvariant == Spec => []LedgerInv
<1>1. Init => LedgerInv
  BY InitLedgerInv
<1>2. TypeInv /\ LedgerInv /\ [Next]_vars => LedgerInv'
  BY NextKeepsLedger
<1>3. QED
  BY <1>1, <1>2, TypesAreInvariant, PTL DEF Spec

(* I3 of docs/v2.md as the program keeps it: whatever the sequence of      *)
(* purchases, transfers, refunds, recoveries and closings, a position is   *)
(* what its share account holds plus what its owner burned by itself.      *)
THEOREM LedgerCoversTheBalances == Spec => []LedgerCoversBalances
<1>1. LedgerInv => LedgerCoversBalances
  BY DEF LedgerInv, EntryIsSound, LedgerCoversBalances
<1>2. QED
  BY <1>1, LedgerIsInvariant, PTL

(* Only an account that belongs to an open position can move shares.       *)
THEOREM OnlyPositionsMoveShares == Spec => []ThawedAccountsHavePositions
<1>1. LedgerInv => ThawedAccountsHavePositions
  BY DEF LedgerInv, EntryIsSound, ThawedAccountsHavePositions
<1>2. QED
  BY <1>1, LedgerIsInvariant, PTL

(* I5 of docs/v2.md: settling never meets a checkpoint from the future.    *)
THEOREM CheckpointsStayBehind == Spec => []CheckpointsBehind
<1>1. LedgerInv => CheckpointsBehind
  BY DEF LedgerInv, EntryIsSound, CheckpointsBehind
<1>2. QED
  BY <1>1, LedgerIsInvariant, PTL
-----------------------------------------------------------------------------
(* What the instructions leave in the entries of the ledger.               *)

(* The part of the state that decides what everybody is owed.              *)
dueVars == <<accPerShare, totalDepositedNet, sharesSold, sharesRefunded>>

(* A position after its settlement, with this many shares.                 *)
IsSettled(pos, old, shares) ==
  /\ pos.open /\ pos.shares = shares
  /\ pos.accCheckpoint = accPerShare
  /\ pos.accrued = old.accrued + (old.shares * (accPerShare - old.accCheckpoint)) \div One
  /\ pos.totalClaimed = old.totalClaimed

LEMMA PositionTypes ==
  ASSUME TypeInv, NEW o \in Owners
  PROVE  /\ position[o] \in PositionRecord /\ position[o].open \in BOOLEAN
         /\ position[o].shares \in Nat /\ position[o].accrued \in Nat
         /\ position[o].accCheckpoint \in Nat
         /\ position[o].totalClaimed \in Nat
         /\ accPerShare \in Nat /\ accPerShare \in U128
         /\ sharesSold \in Nat /\ sharesRefunded \in Nat
         /\ totalDepositedNet \in Nat
<1>1. position[o] \in PositionRecord
  BY DEF TypeInv, TypeOK, LedgerTypeOK
<1>2. /\ position[o].open \in BOOLEAN
      /\ position[o].shares \in Nat /\ position[o].accrued \in Nat
      /\ position[o].accCheckpoint \in Nat /\ position[o].totalClaimed \in Nat
  BY <1>1, ConstantsAreFine DEF PositionRecord
<1>3. /\ accPerShare \in Nat /\ accPerShare \in U128
      /\ sharesRefunded \in Nat /\ totalDepositedNet \in Nat
  BY ConstantsAreFine DEF TypeInv, TypeOK, RevenueTypeOK, RaiseTypeOK
<1>4. sharesSold \in Nat
  BY ConstantsAreFine DEF TypeInv, TypeOK, RaiseTypeOK
<1>5. QED
  BY <1>1, <1>2, <1>3, <1>4

LEMMA SettledIsSettled ==
  ASSUME accPerShare \in U128, NEW pos \in PositionRecord, SettleIsOk(pos),
         pos.open
  PROVE  IsSettled(Settled(pos), pos, pos.shares)
  BY SettledType DEF IsSettled, Earned, Owed

LEMMA MovedIsSettled ==
  ASSUME accPerShare \in U128, NEW pos \in PositionRecord, SettleIsOk(pos),
         pos.open, NEW n \in Nat
  PROVE  /\ n <= pos.shares => IsSettled(Sent(pos, n), pos, pos.shares - n)
         /\ pos.shares + n <= MaxU64
              => IsSettled(Received(pos, n), pos, pos.shares + n)
<1>1. /\ Settled(pos) \in PositionRecord /\ IsSettled(Settled(pos), pos, pos.shares)
      /\ Settled(pos).totalClaimed = pos.totalClaimed
  BY SettledType, SettledIsSettled
<1>2. /\ Sent(pos, n).totalClaimed = pos.totalClaimed
      /\ Received(pos, n).totalClaimed = pos.totalClaimed
  BY <1>1 DEF Sent, Received, PositionRecord
<1>3. CASE n <= pos.shares
  <2>1. /\ Sent(pos, n).open /\ Sent(pos, n).shares = pos.shares - n
        /\ Sent(pos, n).accrued = Settled(pos).accrued
        /\ Sent(pos, n).accCheckpoint = accPerShare
    BY <1>3, SentType
  <2>2. IsSettled(Sent(pos, n), pos, pos.shares - n)
    BY <1>1, <1>2, <2>1 DEF IsSettled
  <2>3. CASE pos.shares + n <= MaxU64
    <3>1. /\ Received(pos, n).open /\ Received(pos, n).shares = pos.shares + n
          /\ Received(pos, n).accrued = Settled(pos).accrued
          /\ Received(pos, n).accCheckpoint = accPerShare
      BY <2>3, ReceivedType
    <3>2. QED
      BY <1>1, <1>2, <2>2, <3>1 DEF IsSettled
  <2>4. QED
    BY <2>2, <2>3
<1>4. CASE pos.shares + n <= MaxU64 /\ ~(n <= pos.shares)
  <2>1. /\ Received(pos, n).open /\ Received(pos, n).shares = pos.shares + n
        /\ Received(pos, n).accrued = Settled(pos).accrued
        /\ Received(pos, n).accCheckpoint = accPerShare
    BY <1>4, ReceivedType
  <2>2. QED
    BY <1>1, <1>2, <1>4, <2>1 DEF IsSettled
<1>5. QED
  BY <1>3, <1>4

LEMMA TransferEffect ==
  ASSUME TypeInv, NEW from \in Owners, NEW to \in Owners,
         NEW n \in TransferAmounts, Transfer(from, to, n)
  PROVE  /\ from # to /\ n \in Nat
         /\ position[from].open /\ position[to].open
         /\ IsSettled(position'[from], position[from], position[from].shares - n)
         /\ IsSettled(position'[to], position[to], position[to].shares + n)
         /\ \A o \in Owners \ {from, to} : position'[o] = position[o]
         /\ UNCHANGED <<dueVars, state, request>>
<1>1. /\ from # to /\ position[from].open /\ position[to].open
      /\ SettleIsOk(position[from]) /\ SettleIsOk(position[to])
      /\ position[from].shares >= n /\ position[to].shares + n <= MaxU64
      /\ position' = [position EXCEPT
           ![from] = Sent(position[from], n), ![to] = Received(position[to], n)]
      /\ UNCHANGED <<dueVars, state, request>>
  BY DEF Transfer, dueVars, raiseVars, refundVars, revenueVars
<1>2. n \in Nat
  BY InputsAssumption
<1>3. /\ position'[from] = Sent(position[from], n)
      /\ position'[to] = Received(position[to], n)
      /\ \A o \in Owners \ {from, to} : position'[o] = position[o]
  BY <1>1 DEF TypeInv, TypeOK, LedgerTypeOK
<1>4. n <= position[from].shares
  BY <1>1, <1>2, PositionTypes
<1>5. /\ IsSettled(Sent(position[from], n), position[from], position[from].shares - n)
      /\ IsSettled(Received(position[to], n), position[to], position[to].shares + n)
  BY <1>1, <1>2, <1>4, PositionTypes, MovedIsSettled
<1>6. QED
  BY <1>1, <1>2, <1>3, <1>5

LEMMA ClaimEffect ==
  ASSUME TypeInv, NEW o \in Owners, Claim(o)
  PROVE  LET pos == position[o]
             amount == pos.accrued + (pos.shares * (accPerShare - pos.accCheckpoint)) \div One
         IN /\ pos.open /\ amount \in Nat
            /\ position'[o].open /\ position'[o].shares = pos.shares
            /\ position'[o].accCheckpoint = accPerShare
            /\ position'[o].accrued = 0
            /\ position'[o].totalClaimed = pos.totalClaimed + amount
            /\ totalClaimed' - totalClaimed = amount
            /\ \A p \in Owners \ {o} : position'[p] = position[p]
            /\ UNCHANGED <<dueVars, state, request>>
<1> DEFINE pos == position[o]
<1>1. /\ pos.open /\ SettleIsOk(pos)
      /\ position' = [position EXCEPT ![o] = ClaimedPosition(pos)]
      /\ totalClaimed' = totalClaimed + Settled(pos).accrued
      /\ UNCHANGED <<dueVars, state, request>>
  BY DEF Claim, dueVars, raiseVars, refundVars
<1>2. pos \in PositionRecord /\ accPerShare \in U128 /\ totalClaimed \in Nat
  BY ConstantsAreFine, PositionTypes DEF TypeInv, TypeOK, RevenueTypeOK
<1>3. /\ IsSettled(Settled(pos), pos, pos.shares)
      /\ Settled(pos) \in PositionRecord /\ Settled(pos).accrued \in Nat
  BY <1>1, <1>2, SettledIsSettled, SettledType, ConstantsAreFine DEF PositionRecord
<1>4. /\ position'[o] = ClaimedPosition(pos)
      /\ \A p \in Owners \ {o} : position'[p] = position[p]
  BY <1>1 DEF TypeInv, TypeOK, LedgerTypeOK
<1>5. /\ ClaimedPosition(pos).open = Settled(pos).open
      /\ ClaimedPosition(pos).shares = Settled(pos).shares
      /\ ClaimedPosition(pos).accCheckpoint = Settled(pos).accCheckpoint
      /\ ClaimedPosition(pos).accrued = 0
      /\ ClaimedPosition(pos).totalClaimed =
           Settled(pos).totalClaimed + Settled(pos).accrued
  BY <1>3 DEF ClaimedPosition, PositionRecord
<1>6. totalClaimed' - totalClaimed = Settled(pos).accrued
  BY <1>1, <1>2, <1>3
<1>7. QED
  BY <1>1, <1>3, <1>4, <1>5, <1>6 DEF IsSettled

(* The moved part of the unclaimed revenue leaves one side whole and       *)
(* arrives on the other, which may be a position opened on this occasion.  *)
LEMMA RecoveryEffect ==
  ASSUME TypeInv, NEW from \in Owners, ExecuteRecovery(from)
  PROVE  LET to == request[from].to
             n == request[from].shares
             moved == AccruedMoved(position[from], n)
             old == position[from]
             opened == OpenedPosition(to)
         IN /\ to \in Owners /\ to # from /\ n \in Nat /\ n > 0
            /\ moved \in Nat /\ old.open /\ opened.open
            /\ opened \in PositionRecord
            /\ position'[from].open /\ position'[from].shares = old.shares - n
            /\ position'[from].accCheckpoint = accPerShare
            /\ position'[from].accrued = (old.accrued
                 + (old.shares * (accPerShare - old.accCheckpoint)) \div One) - moved
            /\ position'[from].totalClaimed = old.totalClaimed
            /\ position'[to].open /\ position'[to].shares = opened.shares + n
            /\ position'[to].accCheckpoint = accPerShare
            /\ position'[to].accrued = opened.accrued
                 + (opened.shares * (accPerShare - opened.accCheckpoint)) \div One + moved
            /\ position'[to].totalClaimed = opened.totalClaimed
            /\ \A o \in Owners \ {from, to} : position'[o] = position[o]
            /\ request[from].pending
            /\ request' = [request EXCEPT ![from] = NoRequest(from)]
            /\ UNCHANGED <<dueVars, state>>
<1> DEFINE to == request[from].to
<1> DEFINE n == request[from].shares
<1> DEFINE old == position[from]
<1> DEFINE opened == OpenedPosition(to)
<1> DEFINE moved == AccruedMoved(old, n)
<1>1. /\ to \in Owners /\ to # from /\ n \in Nat /\ n > 0
      /\ n <= old.shares /\ moved \in Nat
      /\ RecoveredFrom(old, n).open
      /\ RecoveredFrom(old, n).shares = old.shares - n
      /\ RecoveredFrom(old, n).accCheckpoint = accPerShare
      /\ RecoveredFrom(old, n).accrued = Settled(old).accrued - moved
      /\ RecoveredTo(opened, n, moved).open
      /\ RecoveredTo(opened, n, moved).shares = opened.shares + n
      /\ RecoveredTo(opened, n, moved).accCheckpoint = accPerShare
      /\ RecoveredTo(opened, n, moved).accrued = Settled(opened).accrued + moved
  BY RecoveryLedger
<1>2. /\ request[from].pending /\ old.open
      /\ SettleIsOk(old) /\ SettleIsOk(opened)
      /\ opened.shares + n <= MaxU64
      /\ position' = [position EXCEPT
           ![from] = RecoveredFrom(old, n), ![to] = RecoveredTo(opened, n, moved)]
      /\ request' = [request EXCEPT ![from] = NoRequest(from)]
      /\ UNCHANGED <<dueVars, state>>
  BY DEF ExecuteRecovery, RecoveryIsReady, dueVars, raiseVars, refundVars,
         revenueVars
<1>3. /\ old \in PositionRecord /\ opened \in PositionRecord
      /\ accPerShare \in U128
  BY <1>1, PositionTypes, OpenedPositionType DEF TypeInv
<1>4. opened.open
  BY <1>3 DEF OpenedPosition, NoPosition
<1>5. /\ Settled(old).accrued = old.accrued
           + (old.shares * (accPerShare - old.accCheckpoint)) \div One
      /\ Settled(opened).accrued = opened.accrued
           + (opened.shares * (accPerShare - opened.accCheckpoint)) \div One
      /\ Sent(old, n) \in PositionRecord /\ Received(opened, n) \in PositionRecord
      /\ Sent(old, n).totalClaimed = old.totalClaimed
      /\ Received(opened, n).totalClaimed = opened.totalClaimed
  <2> HIDE DEF to, n, old, opened, moved
  <2>1. /\ IsSettled(Settled(old), old, old.shares)
        /\ IsSettled(Settled(opened), opened, opened.shares)
    BY <1>2, <1>3, <1>4, SettledIsSettled
  <2>2. /\ IsSettled(Sent(old, n), old, old.shares - n)
        /\ IsSettled(Received(opened, n), opened, opened.shares + n)
    BY <1>1, <1>2, <1>3, <1>4, MovedIsSettled
  <2>3. Sent(old, n) \in PositionRecord /\ Received(opened, n) \in PositionRecord
    BY <1>1, <1>2, <1>3, SentType, ReceivedType
  <2>4. QED
    BY <2>1, <2>2, <2>3 DEF IsSettled
<1>6. /\ RecoveredFrom(old, n).totalClaimed = old.totalClaimed
      /\ RecoveredTo(opened, n, moved).totalClaimed = opened.totalClaimed
  <2> HIDE DEF to, n, old, opened, moved
  <2>1. QED
    BY <1>5 DEF RecoveredFrom, RecoveredTo, PositionRecord
<1>7. /\ position'[from] = RecoveredFrom(old, n)
      /\ position'[to] = RecoveredTo(opened, n, moved)
      /\ \A o \in Owners \ {from, to} : position'[o] = position[o]
  <2> HIDE DEF to, n, opened, moved
  <2>1. QED
    BY <1>1, <1>2 DEF TypeInv, TypeOK, LedgerTypeOK
<1> HIDE DEF to, n, old, opened, moved
<1>8. /\ position'[from].open /\ position'[from].shares = old.shares - n
      /\ position'[from].accCheckpoint = accPerShare
      /\ position'[from].accrued = (old.accrued
           + (old.shares * (accPerShare - old.accCheckpoint)) \div One) - moved
      /\ position'[from].totalClaimed = old.totalClaimed
  BY <1>1, <1>5, <1>6, <1>7
<1>9. /\ position'[to].open /\ position'[to].shares = opened.shares + n
      /\ position'[to].accCheckpoint = accPerShare
      /\ position'[to].accrued = opened.accrued
           + (opened.shares * (accPerShare - opened.accCheckpoint)) \div One + moved
      /\ position'[to].totalClaimed = opened.totalClaimed
  BY <1>1, <1>5, <1>6, <1>7
<1>10. QED
  BY <1>1, <1>2, <1>3, <1>4, <1>7, <1>8, <1>9 DEF to, n, old, opened, moved
-----------------------------------------------------------------------------
(* Custody: who can change a holding.                                      *)

(* The steps that can change the position of one owner.                    *)
TouchesPosition(o) ==
  \/ \E n \in BuyAmounts : BuyShares(o, n)
  \/ Refund(o) \/ OpenPosition(o) \/ ClosePosition(o) \/ Claim(o)
  \/ \E p \in Owners, n \in TransferAmounts :
       Transfer(o, p, n) \/ Transfer(p, o, n)
  \/ ExecuteRecovery(o)
  \/ \E p \in Owners : ExecuteRecovery(p) /\ request[p].to = o

(* The accumulator stands still, except in a deposit, which touches no     *)
(* position.                                                               *)
LEMMA OnlyTheseTouchPositions ==
  ASSUME TypeInv, [Next]_vars, NEW o \in Owners
  PROVE  \/ position'[o] = position[o]
         \/ TouchesPosition(o) /\ accPerShare' = accPerShare
<1>1. position \in [Owners -> PositionRecord]
  BY DEF TypeInv, TypeOK, LedgerTypeOK
<1>2. CASE RaiseStep
  <2>1. CASE FinalizeRaise \/ ActivateProject \/ CancelRaise
    BY <2>1 DEF FinalizeRaise, ActivateProject, CancelRaise, ledgerVars
  <2>2. ASSUME NEW p \in Owners, NEW n \in BuyAmounts, BuyShares(p, n)
        PROVE  \/ position'[o] = position[o]
               \/ TouchesPosition(o) /\ accPerShare' = accPerShare
    <3>1. /\ accPerShare' = accPerShare
          /\ o # p => position'[o] = position[o]
      BY <1>1, <2>2 DEF BuyShares, revenueVars
    <3>2. QED
      BY <2>2, <3>1 DEF TouchesPosition
  <2>3. ASSUME NEW p \in Owners, Refund(p)
        PROVE  \/ position'[o] = position[o]
               \/ TouchesPosition(o) /\ accPerShare' = accPerShare
    BY <1>1, <2>3 DEF Refund, TouchesPosition, revenueVars
  <2>4. QED
    BY <1>2, <2>1, <2>2, <2>3 DEF RaiseStep
<1>3. CASE ManageStep
  BY <1>3 DEF ManageStep, PauseProject, ResumeProject, SetRoles, CloseProject,
     ManagedUnchanged, ledgerVars
<1>4. CASE HoldingStep
  <2>1. ASSUME NEW p \in Owners, OpenPosition(p) \/ ClosePosition(p) \/ Claim(p)
        PROVE  \/ position'[o] = position[o]
               \/ TouchesPosition(o) /\ accPerShare' = accPerShare
    <3>1. /\ accPerShare' = accPerShare
          /\ o # p => position'[o] = position[o]
      BY <1>1, <2>1 DEF OpenPosition, ClosePosition, Claim, revenueVars
    <3>2. QED
      BY <2>1, <3>1 DEF TouchesPosition
  <2>2. CASE \E gross \in GrossAmounts : DepositRevenue(gross)
    BY <2>2 DEF DepositRevenue, ledgerVars
  <2>3. ASSUME NEW from \in Owners, NEW to \in Owners,
               NEW n \in TransferAmounts, Transfer(from, to, n)
        PROVE  \/ position'[o] = position[o]
               \/ TouchesPosition(o) /\ accPerShare' = accPerShare
    <3>1. /\ accPerShare' = accPerShare
          /\ o \notin {from, to} => position'[o] = position[o]
      BY <2>3, TransferEffect DEF dueVars
    <3>2. QED
      BY <2>3, <3>1 DEF TouchesPosition
  <2>4. QED
    BY <1>4, <2>1, <2>2, <2>3 DEF HoldingStep
<1>5. CASE RecoveryStep
  <2>1. \/ position' = position
        \/ \E from \in Owners : ExecuteRecovery(from)
    BY <1>5
    DEF RecoveryStep, ProposeRecovery, VetoRecovery, WithdrawRecovery,
        RequestClosed, ledgerVars
  <2>2. ASSUME NEW from \in Owners, ExecuteRecovery(from)
        PROVE  \/ position'[o] = position[o]
               \/ TouchesPosition(o) /\ accPerShare' = accPerShare
    <3>1. /\ accPerShare' = accPerShare
          /\ o \notin {from, request[from].to} => position'[o] = position[o]
      BY <2>2, RecoveryEffect DEF dueVars
    <3>2. QED
      BY <2>2, <3>1 DEF TouchesPosition
  <2>3. QED
    BY <2>1, <2>2
<1>6. CASE RegistryStep
  BY <1>6
  DEF RegistryStep, SetInvestor, SetInvestorDemo, KycWritten, UpdateConfig,
      ledgerVars
<1>7. CASE OutsideStep
  BY <1>7
  DEF OutsideStep, Tick, DonateToEscrow, DonateToVault, CreateShareAccount,
      CloseShareAccount, BurnOwnShares, ledgerVars
<1>8. CASE UNCHANGED vars
  BY <1>8 DEF vars, ledgerVars
<1>9. QED
  BY <1>2, <1>3, <1>4, <1>5, <1>6, <1>7, <1>8 DEF Next

(* Of a recovery: the wallet that loses and the wallet that gains.         *)
LEMMA RecoveryIsVetoable ==
  ASSUME TypeInv, LedgerInv, NEW from \in Owners, ExecuteRecovery(from)
  PROVE  LET to == request[from].to
             n == request[from].shares
         IN /\ to \in Owners /\ to # from /\ n \in Nat /\ n > 0
            /\ Eligible(to) /\ MayBeRecovered(from) /\ ~paused
            /\ request[from].pending /\ ~request'[from].pending
            /\ now >= request[from].proposedAt + MinRecoveryDelay
            /\ position'[from].shares = position[from].shares - n
            /\ position'[to].shares = position[to].shares + n
<1> DEFINE to == request[from].to
<1>1. /\ to \in Owners /\ to # from
      /\ request[from].shares \in Nat /\ request[from].shares > 0
      /\ request[from].pending
      /\ request' = [request EXCEPT ![from] = NoRequest(from)]
      /\ position'[from].shares = position[from].shares - request[from].shares
      /\ position'[to].shares = OpenedPosition(to).shares + request[from].shares
  BY RecoveryEffect
<1>2. /\ Eligible(to) /\ MayBeRecovered(from) /\ ~paused
      /\ now >= request[from].eta
  BY DEF ExecuteRecovery, RecoveryIsReady
<1>3. ~request'[from].pending
  BY <1>1 DEF NoRequest, TypeInv, TypeOK
<1>4. now >= request[from].proposedAt + MinRecoveryDelay
  <2>1. request[from] \in RequestRecord /\ now \in Nat
    BY DEF TypeInv, TypeOK, WorldTypeOK
  <2>2. /\ request[from].eta \in Nat /\ request[from].proposedAt \in Nat
        /\ MinRecoveryDelay \in Nat
    BY <2>1, InputsAssumption DEF RequestRecord
  <2>3. request[from].eta >= request[from].proposedAt + MinRecoveryDelay
    BY <1>1 DEF TypeInv, RequestsAreSound
  <2>4. QED
    BY <1>2, <2>1, <2>2, <2>3
<1>5. OpenedPosition(to).shares = position[to].shares
  BY <1>1 DEF OpenedPosition, NoPosition, LedgerInv, EntryIsSound
<1>6. QED
  BY <1>1, <1>2, <1>3, <1>4, <1>5

(* Of a purchase, a refund, an opened and a closed position, and a claim.  *)
LEMMA OwnStepsMoveShares ==
  ASSUME TypeInv, LedgerInv, NEW o \in Owners
  PROVE  /\ \A n \in BuyAmounts : BuyShares(o, n) =>
              /\ position'[o].shares = position[o].shares + n
              /\ n \in Nat /\ Eligible(o) /\ ~paused
         /\ Refund(o) => position'[o].shares = 0 /\ MayBePaid(o)
         /\ OpenPosition(o) => position'[o].shares = position[o].shares
         /\ ClosePosition(o) => /\ position'[o].shares = 0
                                /\ MayCloseWith(position[o].shares)
         /\ Claim(o) => position'[o].shares = position[o].shares
<1>1. /\ position \in [Owners -> PositionRecord]
      /\ OpenedPosition(o) \in PositionRecord
      /\ OpenedPosition(o).shares = position[o].shares
  BY OpenedPositionType
  DEF TypeInv, TypeOK, LedgerTypeOK, OpenedPosition, NoPosition, LedgerInv,
      EntryIsSound
<1>2. ASSUME NEW n \in BuyAmounts, BuyShares(o, n)
      PROVE  /\ position'[o].shares = position[o].shares + n
             /\ n \in Nat /\ Eligible(o) /\ ~paused
  <2>1. n \in Nat
    BY InputsAssumption
  <2>2. position'[o].shares = OpenedPosition(o).shares + n
    <3> DEFINE pos == OpenedPosition(o)
    <3>1. position'[o] = [pos EXCEPT !.shares = pos.shares + n,
                            !.paidIn = pos.paidIn + SharesValue(n, Price)]
      BY <1>1, <1>2 DEF BuyShares
    <3> HIDE DEF pos
    <3>2. position'[o].shares = pos.shares + n
      BY <1>1, <3>1 DEF pos, PositionRecord
    <3>3. QED
      BY <3>2 DEF pos
  <2>3. QED
    BY <1>1, <1>2, <2>1, <2>2 DEF BuyShares
<1>3. ASSUME Refund(o) PROVE position'[o].shares = 0 /\ MayBePaid(o)
  BY <1>1, <1>3 DEF Refund, RefundedPosition, PositionRecord
<1>4. ASSUME OpenPosition(o) PROVE position'[o].shares = position[o].shares
  BY <1>1, <1>4 DEF OpenPosition
<1>5. ASSUME ClosePosition(o)
      PROVE  position'[o].shares = 0 /\ MayCloseWith(position[o].shares)
  BY <1>1, <1>5 DEF ClosePosition, NoPosition
<1>6. ASSUME Claim(o) PROVE position'[o].shares = position[o].shares
  BY <1>6, ClaimEffect
<1>7. QED
  BY <1>2, <1>3, <1>4, <1>5, <1>6

(* What each step that touches a position can do to its shares.            *)
LEMMA TouchedShares ==
  ASSUME TypeInv, LedgerInv, NEW o \in Owners, TouchesPosition(o)
  PROVE  \/ position'[o].shares = position[o].shares
         \/ /\ position'[o].shares > position[o].shares
            /\ Eligible(o) /\ ~paused
         \/ OwnerSigned(o) /\ kyc[o].status # "Frozen"
         \/ state = "Closed" /\ ClosePosition(o)
         \/ ExecuteRecovery(o)
<1>1. position[o].shares \in Nat
  BY PositionTypes
<1>2. ASSUME NEW n \in BuyAmounts, BuyShares(o, n)
      PROVE  \/ position'[o].shares = position[o].shares
             \/ /\ position'[o].shares > position[o].shares
                /\ Eligible(o) /\ ~paused
  BY <1>1, <1>2, OwnStepsMoveShares
<1>3. CASE Refund(o)
  BY <1>3, OwnStepsMoveShares DEF OwnerSigned, MayBePaid
<1>4. CASE OpenPosition(o) \/ Claim(o)
  BY <1>4, OwnStepsMoveShares
<1>5. CASE ClosePosition(o)
  BY <1>5, OwnStepsMoveShares DEF MayCloseWith
<1>6. ASSUME NEW p \in Owners, NEW n \in TransferAmounts, Transfer(o, p, n)
      PROVE  OwnerSigned(o) /\ kyc[o].status # "Frozen"
  <2>1. Eligible(o)
    BY <1>6 DEF Transfer
  <2>2. QED
    BY <1>6, <2>1 DEF OwnerSigned, Eligible
<1>7. ASSUME NEW p \in Owners, NEW n \in TransferAmounts, Transfer(p, o, n)
      PROVE  \/ position'[o].shares = position[o].shares
             \/ /\ position'[o].shares > position[o].shares
                /\ Eligible(o) /\ ~paused
  <2>1. Eligible(o) /\ ~paused
    BY <1>7 DEF Transfer
  <2>2. n \in Nat /\ position'[o].shares = position[o].shares + n
    BY <1>7, TransferEffect DEF IsSettled
  <2>3. QED
    BY <1>1, <2>1, <2>2
<1>8. ASSUME NEW p \in Owners, ExecuteRecovery(p), request[p].to = o
      PROVE  /\ position'[o].shares > position[o].shares
             /\ Eligible(o) /\ ~paused
  <2>1. /\ request[p].shares \in Nat /\ request[p].shares > 0
        /\ position'[o].shares = position[o].shares + request[p].shares
        /\ Eligible(o) /\ ~paused
    BY <1>8, RecoveryIsVetoable
  <2>2. QED
    BY <1>1, <2>1
<1>9. QED
  BY <1>2, <1>3, <1>4, <1>5, <1>6, <1>7, <1>8 DEF TouchesPosition

(* What a recovery takes from a wallet, as the property says it.           *)
LEMMA RecoveryTakes ==
  ASSUME TypeInv, LedgerInv, NEW o \in Owners, ExecuteRecovery(o)
  PROVE  /\ position'[o].shares < position[o].shares
         /\ kyc[o].status # "Frozen"
         /\ request[o].pending /\ ~request'[o].pending
         /\ now >= request[o].proposedAt + MinRecoveryDelay
         /\ position'[o].shares = position[o].shares - request[o].shares
         /\ position'[request[o].to].shares
              = position[request[o].to].shares + request[o].shares
<1>1. position[o].shares \in Nat
  BY PositionTypes
<1>2. QED
  BY <1>1, RecoveryIsVetoable DEF MayBeRecovered

(* investor.rs, sharing rule of every way to acquire shares: no history    *)
(* gives shares to a wallet without a valid record, or during a pause.     *)
THEOREM SharesGoToEligibleWallets == Spec => SharesReachOnlyEligibleWallets
<1> DEFINE GrowsOnlyEligible ==
      \A o \in Owners : position'[o].shares > position[o].shares =>
        /\ kyc[o].status = "Active" /\ now < kyc[o].expiresAt
        /\ kyc[o].demo => AllowsDemo
        /\ ~paused
<1>1. ASSUME TypeInv, TypeInv', LedgerInv, [Next]_vars
      PROVE  GrowsOnlyEligible
  <2> SUFFICES ASSUME NEW o \in Owners,
                      position'[o].shares > position[o].shares
               PROVE  /\ kyc[o].status = "Active" /\ now < kyc[o].expiresAt
                      /\ kyc[o].demo => AllowsDemo
                      /\ ~paused
    OBVIOUS
  <2>1. position[o].shares \in Nat /\ position'[o].shares \in Nat
    BY <1>1, PositionTypes, ConstantsAreFine
    DEF TypeInv, TypeOK, LedgerTypeOK, PositionRecord
  <2>2. TouchesPosition(o)
    BY <1>1, <2>1, OnlyTheseTouchPositions
  <2>3. Eligible(o) /\ ~paused
    <3>1. ~ExecuteRecovery(o)
      BY <1>1, <2>1, RecoveryTakes
    <3>2. ~OwnerSigned(o)
      <4>1. ~Refund(o) /\ ~ClosePosition(o)
        BY <1>1, <2>1, OwnStepsMoveShares
      <4>2. ASSUME NEW to \in Owners, NEW n \in TransferAmounts,
                   Transfer(o, to, n)
            PROVE  FALSE
        <5>1. n \in Nat /\ position'[o].shares = position[o].shares - n
          BY <1>1, <4>2, TransferEffect DEF IsSettled
        <5>2. QED
          BY <2>1, <5>1
      <4>3. QED
        BY <4>1, <4>2 DEF OwnerSigned
    <3>3. ~ClosePosition(o)
      BY <3>2 DEF OwnerSigned
    <3>4. QED
      BY <1>1, <2>1, <2>2, <3>1, <3>2, <3>3, TouchedShares
  <2>4. now \in Nat /\ kyc[o].expiresAt \in Nat
    BY <1>1 DEF TypeInv, TypeOK, WorldTypeOK, KycRecord
  <2>5. QED
    BY <2>3, <2>4 DEF Eligible
<1>2. TypeInv /\ TypeInv' /\ LedgerInv /\ [Next]_vars
        => [GrowsOnlyEligible]_vars
  BY <1>1
<1>3. QED
  BY <1>2, TypesAreInvariant, LedgerIsInvariant, PTL
  DEF Spec, SharesReachOnlyEligibleWallets

(* docs/v2.md, recovery: whoever holds the admin keys, shares leave a      *)
(* position without its owner's signature only after the veto window, and  *)
(* all of them arrive where the request said.                              *)
THEOREM SharesLeaveByOwnerOrRecovery == Spec => SharesLeaveOnlyByOwnerOrRecovery
<1> DEFINE LeavesProperly ==
      \A o \in Owners : position'[o].shares < position[o].shares =>
        \/ OwnerSigned(o)
        \/ /\ request[o].pending /\ ~request'[o].pending
           /\ now >= request[o].proposedAt + MinRecoveryDelay
           /\ position'[o].shares = position[o].shares - request[o].shares
           /\ position'[request[o].to].shares
                = position[request[o].to].shares + request[o].shares
<1>1. ASSUME TypeInv, TypeInv', LedgerInv, [Next]_vars
      PROVE  LeavesProperly
  <2> SUFFICES ASSUME NEW o \in Owners,
                      position'[o].shares < position[o].shares,
                      ~OwnerSigned(o)
               PROVE  ExecuteRecovery(o)
    BY <1>1, RecoveryTakes
  <2>1. position[o].shares \in Nat /\ position'[o].shares \in Nat
    BY <1>1, PositionTypes, ConstantsAreFine
    DEF TypeInv, TypeOK, LedgerTypeOK, PositionRecord
  <2>2. TouchesPosition(o)
    BY <1>1, <2>1, OnlyTheseTouchPositions
  <2>3. ~ClosePosition(o)
    BY DEF OwnerSigned
  <2>4. QED
    BY <1>1, <2>1, <2>2, <2>3, TouchedShares
<1>2. TypeInv /\ TypeInv' /\ LedgerInv /\ [Next]_vars => [LeavesProperly]_vars
  BY <1>1
<1>3. QED
  BY <1>2, TypesAreInvariant, LedgerIsInvariant, PTL
  DEF Spec, SharesLeaveOnlyByOwnerOrRecovery

LEMMA OnlyDepositsEarn ==
  ASSUME [Next]_vars
  PROVE  \/ accPerShare' = accPerShare
         \/ \E gross \in GrossAmounts : DepositRevenue(gross)
<1>1. CASE RaiseStep
  <2>1. CASE FinalizeRaise \/ ActivateProject \/ CancelRaise
    BY <2>1 DEF FinalizeRaise, ActivateProject, CancelRaise, revenueVars
  <2>2. CASE \E o \in Owners, n \in BuyAmounts : BuyShares(o, n)
    BY <2>2 DEF BuyShares, revenueVars
  <2>3. CASE \E o \in Owners : Refund(o)
    BY <2>3 DEF Refund, revenueVars
  <2>4. QED
    BY <1>1, <2>1, <2>2, <2>3 DEF RaiseStep
<1>2. CASE ManageStep
  BY <1>2 DEF ManageStep, PauseProject, ResumeProject, SetRoles, CloseProject,
     ManagedUnchanged, revenueVars
<1>3. CASE HoldingStep
  <2>1. CASE \E o \in Owners : OpenPosition(o) \/ ClosePosition(o) \/ Claim(o)
    BY <2>1 DEF OpenPosition, ClosePosition, Claim, revenueVars
  <2>2. CASE \E from, to \in Owners, n \in TransferAmounts :
               Transfer(from, to, n)
    BY <2>2 DEF Transfer, revenueVars
  <2>3. QED
    BY <1>3, <2>1, <2>2 DEF HoldingStep
<1>4. CASE RecoveryStep
  BY <1>4 DEF RecoveryStep, ProposeRecovery, VetoRecovery, WithdrawRecovery,
     RequestClosed, ExecuteRecovery, revenueVars
<1>5. CASE RegistryStep
  BY <1>5 DEF RegistryStep, SetInvestor, SetInvestorDemo, KycWritten,
     UpdateConfig, revenueVars
<1>6. CASE OutsideStep
  BY <1>6 DEF OutsideStep, Tick, DonateToEscrow, DonateToVault,
     CreateShareAccount, CloseShareAccount, BurnOwnShares, revenueVars
<1>7. CASE UNCHANGED vars
  BY <1>7 DEF vars, revenueVars
<1>8. QED
  BY <1>1, <1>2, <1>3, <1>4, <1>5, <1>6, <1>7 DEF Next

(* The accumulator never goes back.                                        *)
LEMMA AccumulatorGrows ==
  ASSUME TypeInv, [Next]_vars
  PROVE  /\ accPerShare' >= accPerShare /\ accPerShare \in Nat
         /\ accPerShare' \in Nat
<1>1. accPerShare \in Nat
  BY ConstantsAreFine DEF TypeInv, TypeOK, RevenueTypeOK
<1>2. QED
  BY <1>1, OnlyDepositsEarn, DepositMovesForward

(* What is owed to an open position now and after a step.                  *)
LEMMA PendingOfOpen ==
  ASSUME TypeInv, LedgerInv, NEW o \in Owners
  PROVE  /\ position[o].open =>
              Pending(o) = position[o].accrued
                + (position[o].shares
                     * (accPerShare - position[o].accCheckpoint)) \div One
         /\ position'[o].open =>
              Pending(o)' = position'[o].accrued
                + (position'[o].shares
                     * (accPerShare' - position'[o].accCheckpoint)) \div One
         /\ ~position[o].open => Pending(o) = 0
         /\ ~position'[o].open => Pending(o)' = 0
         /\ accPerShare - position[o].accCheckpoint \in Nat
         /\ Pending(o) \in Nat
<1>1. EntryIsSound(o)
  BY DEF LedgerInv
<1>2. accPerShare - position[o].accCheckpoint \in Nat
  BY <1>1, PositionTypes DEF EntryIsSound
<1>3. (position[o].shares * (accPerShare - position[o].accCheckpoint)) \div One
        \in Nat
  <2>1. position[o].shares * (accPerShare - position[o].accCheckpoint) \in Nat
    BY <1>2, PositionTypes
  <2>2. QED
    BY <2>1, FloorIsClose, OneAssumption
<1>4. QED
  BY <1>2, <1>3, PositionTypes DEF Pending, Earned, Owed

(* An untouched holding only earns.                                        *)
LEMMA WaitingOnlyEarns ==
  ASSUME TypeInv, LedgerInv, [Next]_vars, NEW o \in Owners,
         position'[o] = position[o]
  PROVE  Pending(o)' >= Pending(o)
<1> DEFINE s == position[o].shares
<1> DEFINE d == accPerShare - position[o].accCheckpoint
<1> DEFINE e == accPerShare' - position[o].accCheckpoint
<1>1. s \in Nat /\ d \in Nat /\ e \in Nat /\ d <= e
  BY AccumulatorGrows, PendingOfOpen, PositionTypes
<1>2. (s * d) \div One <= (s * e) \div One
  <2> HIDE DEF s, d, e
  <2>1. d * s <= e * s /\ s * d = d * s /\ s * e = e * s
    BY <1>1, ProductIsMonotonic
  <2>2. s * d \in Nat /\ s * e \in Nat /\ s * d <= s * e
    BY <1>1, <2>1
  <2>3. QED
    BY <2>2, FloorIsMonotonic, OneAssumption
<1>3. (s * d) \div One \in Int /\ (s * e) \div One \in Int
  BY <1>1, OneAssumption
<1>4. CASE position[o].open
  <2>1. /\ Pending(o) = position[o].accrued + (s * d) \div One
        /\ Pending(o)' = position[o].accrued + (s * e) \div One
    BY <1>4, PendingOfOpen
  <2>2. position[o].accrued \in Nat
    BY PositionTypes
  <2> HIDE DEF s, d, e
  <2>3. QED
    BY <1>2, <1>3, <2>1, <2>2
<1>5. CASE ~position[o].open
  BY <1>5, PendingOfOpen
<1>6. QED
  BY <1>4, <1>5

(* A frozen wallet takes part in nothing but closing its position.         *)
LEMMA FrozenIsUntouched ==
  ASSUME TypeInv, LedgerInv, NEW o \in Owners, kyc[o].status = "Frozen",
         TouchesPosition(o)
  PROVE  ClosePosition(o)
<1>1. ~Eligible(o) /\ ~MayBePaid(o) /\ ~MayBeRecovered(o)
  BY DEF Eligible, MayBePaid, MayBeRecovered
<1>2. \A n \in BuyAmounts : ~BuyShares(o, n)
  BY <1>1 DEF BuyShares
<1>3. ~Refund(o) /\ ~OpenPosition(o) /\ ~Claim(o)
  BY <1>1 DEF Refund, OpenPosition, Claim
<1>4. \A p \in Owners, n \in TransferAmounts : ~Transfer(o, p, n) /\ ~Transfer(p, o, n)
  BY <1>1 DEF Transfer
<1>5. ~ExecuteRecovery(o)
  BY <1>1 DEF ExecuteRecovery
<1>6. \A p \in Owners : request[p].to = o => ~ExecuteRecovery(p)
  BY <1>1 DEF ExecuteRecovery
<1>7. QED
  BY <1>2, <1>3, <1>4, <1>5, <1>6 DEF TouchesPosition

(* Closing a position forfeits nothing.                                    *)
LEMMA NothingIsForfeited ==
  ASSUME TypeInv, LedgerInv, NEW o \in Owners, ClosePosition(o)
  PROVE  /\ Pending(o) = 0 /\ Pending(o)' = 0
         /\ position'[o].totalClaimed = 0 /\ position'[o].shares = 0
         /\ MayCloseWith(position[o].shares)
<1>1. /\ position'[o] = NoPosition /\ position[o].open
      /\ SettleIsOk(position[o]) /\ Settled(position[o]).accrued = 0
      /\ MayCloseWith(position[o].shares)
  BY DEF ClosePosition, NothingUnclaimed, TypeInv, TypeOK, LedgerTypeOK
<1>2. Pending(o) = 0
  BY <1>1, PositionTypes, SettledType DEF Pending
<1>3. QED
  BY <1>1, <1>2, PendingOfOpen DEF NoPosition

(* investor.rs, sanctions freeze: nothing anybody does, the admin included, *)
(* moves a frozen holding, pays it or takes revenue from it.               *)
THEOREM FreezeIsRespected == Spec => FreezeHoldsTheHolding
<1> DEFINE HeldWhileFrozen ==
      \A o \in Owners : kyc[o].status = "Frozen" =>
        /\ \/ position'[o].shares = position[o].shares
           \/ state = "Closed" /\ ClosePosition(o)
        /\ Pending(o)' >= Pending(o)
        /\ position'[o].totalClaimed <= position[o].totalClaimed
<1>1. ASSUME TypeInv, LedgerInv, [Next]_vars PROVE HeldWhileFrozen
  <2> SUFFICES ASSUME NEW o \in Owners, kyc[o].status = "Frozen"
               PROVE  /\ \/ position'[o].shares = position[o].shares
                         \/ state = "Closed" /\ ClosePosition(o)
                      /\ Pending(o)' >= Pending(o)
                      /\ position'[o].totalClaimed <= position[o].totalClaimed
    OBVIOUS
  <2>1. position[o].totalClaimed \in Nat /\ position[o].shares \in Nat
    BY <1>1, PositionTypes
  <2>2. CASE position'[o] = position[o]
    BY <1>1, <2>1, <2>2, WaitingOnlyEarns
  <2>3. CASE position'[o] # position[o]
    <3>1. ClosePosition(o)
      BY <1>1, <2>3, OnlyTheseTouchPositions, FrozenIsUntouched
    <3>2. QED
      BY <1>1, <2>1, <3>1, NothingIsForfeited DEF MayCloseWith
  <2>4. QED
    BY <2>2, <2>3
<1>2. TypeInv /\ LedgerInv /\ [Next]_vars => [HeldWhileFrozen]_vars
  BY <1>1
<1>3. QED
  BY <1>2, TypesAreInvariant, LedgerIsInvariant, PTL
  DEF Spec, FreezeHoldsTheHolding

(* Before the project operates, and if it never does, there is no revenue. *)
NeverOperated == state \in {"Fundraising", "Funded", "Failed"}
NoRevenueYet == NeverOperated => accPerShare = 0

LEMMA OperationIsForGood ==
  ASSUME [Next]_vars, NeverOperated'
  PROVE  NeverOperated
<1>1. CASE RaiseStep
  <2>1. CASE \E o \in Owners, n \in BuyAmounts : BuyShares(o, n)
    BY <2>1 DEF BuyShares, RaiseIsOpen, NeverOperated
  <2>2. CASE FinalizeRaise
    BY <2>2 DEF FinalizeRaise, FinalizeFunded, FinalizeFailed, FinalizeExpired,
       NeverOperated
  <2>3. CASE ActivateProject
    BY <2>3 DEF ActivateProject, NeverOperated
  <2>4. CASE CancelRaise
    BY <2>4 DEF CancelRaise, NeverOperated
  <2>5. CASE \E o \in Owners : Refund(o)
    BY <2>5 DEF Refund, RefundIsOpen, NeverOperated
  <2>6. QED
    BY <1>1, <2>1, <2>2, <2>3, <2>4, <2>5 DEF RaiseStep
<1>2. CASE ManageStep
  BY <1>2 DEF ManageStep, PauseProject, ResumeProject, SetRoles, CloseProject,
     NeverOperated
<1>3. CASE HoldingStep
  <2>1. state' = state
    <3>1. CASE \E o \in Owners : OpenPosition(o) \/ ClosePosition(o) \/ Claim(o)
      BY <3>1 DEF OpenPosition, ClosePosition, Claim
    <3>2. CASE \E gross \in GrossAmounts : DepositRevenue(gross)
      BY <3>2 DEF DepositRevenue
    <3>3. CASE \E from, to \in Owners, n \in TransferAmounts :
                 Transfer(from, to, n)
      BY <3>3 DEF Transfer
    <3>4. QED
      BY <1>3, <3>1, <3>2, <3>3 DEF HoldingStep
  <2>2. QED
    BY <2>1 DEF NeverOperated
<1>4. CASE RecoveryStep
  BY <1>4 DEF RecoveryStep, ProposeRecovery, VetoRecovery, WithdrawRecovery,
     RequestClosed, ExecuteRecovery, NeverOperated
<1>5. CASE RegistryStep
  BY <1>5 DEF RegistryStep, SetInvestor, SetInvestorDemo, KycWritten,
     UpdateConfig, NeverOperated
<1>6. CASE OutsideStep
  BY <1>6 DEF OutsideStep, Tick, DonateToEscrow, DonateToVault,
     CreateShareAccount, CloseShareAccount, BurnOwnShares, NeverOperated
<1>7. CASE UNCHANGED vars
  BY <1>7 DEF vars, NeverOperated
<1>8. QED
  BY <1>1, <1>2, <1>3, <1>4, <1>5, <1>6, <1>7 DEF Next

LEMMA NoRevenueIsInvariant == Spec => []NoRevenueYet
<1>1. Init => NoRevenueYet
  BY DEF Init, NoRevenueYet
<1>2. TypeInv /\ NoRevenueYet /\ [Next]_vars => NoRevenueYet'
  <2> SUFFICES ASSUME TypeInv, NoRevenueYet, [Next]_vars, NeverOperated'
               PROVE  accPerShare' = 0
    BY DEF NoRevenueYet
  <2>1. NeverOperated /\ accPerShare = 0
    BY OperationIsForGood DEF NoRevenueYet
  <2>2. \/ accPerShare' = accPerShare
        \/ \E gross \in GrossAmounts : DepositRevenue(gross)
    BY OnlyDepositsEarn
  <2>3. \A gross \in GrossAmounts : ~DepositRevenue(gross)
    BY <2>1 DEF DepositRevenue, NeverOperated
  <2>4. QED
    BY <2>1, <2>2, <2>3
<1>3. QED
  BY <1>1, <1>2, TypesAreInvariant, PTL DEF Spec

(* A settled position is owed what it accrued.                             *)
LEMMA PendingOfSettled ==
  ASSUME NEW o \in Owners, accPerShare' \in Nat, position'[o].open,
         position'[o].accCheckpoint = accPerShare', position'[o].shares \in Nat,
         position'[o].accrued \in Nat
  PROVE  Pending(o)' = position'[o].accrued
<1>1. position'[o].shares * (accPerShare' - accPerShare') = 0
  OBVIOUS
<1>2. QED
  BY <1>1, OneAssumption DEF Pending, Earned, Owed

(* Before there is revenue a holding is owed what it accrued, so a step    *)
(* that keeps that owes as much.                                           *)
LEMMA WithoutRevenueNothingIsLost ==
  ASSUME TypeInv, TypeInv', LedgerInv, NEW o \in Owners,
         accPerShare = 0, accPerShare' = 0,
         position'[o].accrued = OpenedPosition(o).accrued,
         position'[o].accCheckpoint = OpenedPosition(o).accCheckpoint,
         position'[o].open
  PROVE  Pending(o)' = Pending(o)
<1>1. position'[o] \in PositionRecord /\ OpenedPosition(o) \in PositionRecord
  BY OpenedPositionType DEF TypeInv, TypeOK, LedgerTypeOK
<1>2. OpenedPosition(o).accCheckpoint = 0 /\ OpenedPosition(o).accrued \in Nat
  <2>1. OpenedPosition(o).accCheckpoint <= 0
    BY OpenedCheckpoint
  <2>2. /\ OpenedPosition(o).accCheckpoint \in Nat
        /\ OpenedPosition(o).accrued \in Nat
    BY <1>1, ConstantsAreFine DEF PositionRecord
  <2>3. QED
    BY <2>1, <2>2
<1>3. Pending(o)' = OpenedPosition(o).accrued
  <2>1. position'[o].shares \in Nat
    BY <1>1, ConstantsAreFine DEF PositionRecord
  <2>2. QED
    BY <1>2, <2>1, PendingOfSettled
<1>4. CASE position[o].open
  <2>1. OpenedPosition(o) = position[o]
    BY <1>4 DEF OpenedPosition
  <2>2. position[o].shares * (accPerShare - position[o].accCheckpoint) = 0
    BY <1>2, <2>1, PositionTypes
  <2>3. Pending(o) = position[o].accrued
    BY <1>4, <2>2, PositionTypes, OneAssumption DEF Pending, Earned, Owed
  <2>4. QED
    BY <1>2, <1>3, <2>1, <2>3
<1>5. CASE ~position[o].open
  BY <1>2, <1>3, <1>5, PendingOfOpen DEF OpenedPosition, NoPosition
<1>6. QED
  BY <1>4, <1>5

LEMMA PurchaseLosesNothing ==
  ASSUME TypeInv, TypeInv', LedgerInv, NoRevenueYet, NEW o \in Owners,
         NEW n \in BuyAmounts, BuyShares(o, n)
  PROVE  Pending(o)' = Pending(o)
<1> DEFINE pos == OpenedPosition(o)
<1> DEFINE new == [pos EXCEPT !.shares = pos.shares + n,
                     !.paidIn = pos.paidIn + SharesValue(n, Price)]
<1>1. /\ position' = [position EXCEPT ![o] = new]
      /\ accPerShare' = accPerShare /\ state = "Fundraising"
  BY DEF BuyShares, RaiseIsOpen, revenueVars
<1>2. pos \in PositionRecord /\ pos.open
  BY OpenedPositionType DEF TypeInv, OpenedPosition, NoPosition
<1>3. position'[o] = new
  <2> HIDE DEF new
  <2>1. QED
    BY <1>1 DEF TypeInv, TypeOK, LedgerTypeOK
<1> HIDE DEF pos
<1>4. /\ position'[o].accrued = pos.accrued /\ position'[o].open
      /\ position'[o].accCheckpoint = pos.accCheckpoint
  BY <1>2, <1>3 DEF PositionRecord
<1>5. accPerShare = 0 /\ accPerShare' = 0
  BY <1>1 DEF NoRevenueYet, NeverOperated
<1>6. QED
  BY <1>4, <1>5, WithoutRevenueNothingIsLost DEF pos

LEMMA RefundLosesNothing ==
  ASSUME TypeInv, TypeInv', LedgerInv, NoRevenueYet, NEW o \in Owners, Refund(o)
  PROVE  Pending(o)' = Pending(o)
<1>1. /\ position' = [position EXCEPT ![o] = [position[o] EXCEPT !.shares = 0]]
      /\ accPerShare' = accPerShare /\ state = "Failed" /\ position[o].open
  BY DEF Refund, RefundIsOpen, RefundedPosition, revenueVars
<1>2. OpenedPosition(o) = position[o] /\ position[o] \in PositionRecord
  BY <1>1 DEF OpenedPosition, TypeInv, TypeOK, LedgerTypeOK
<1>3. /\ position'[o].accrued = position[o].accrued /\ position'[o].open
      /\ position'[o].accCheckpoint = position[o].accCheckpoint
  BY <1>1, <1>2 DEF TypeInv, TypeOK, LedgerTypeOK, PositionRecord
<1>4. accPerShare = 0 /\ accPerShare' = 0
  BY <1>1 DEF NoRevenueYet, NeverOperated
<1>5. QED
  BY <1>2, <1>3, <1>4, WithoutRevenueNothingIsLost

LEMMA OpeningLosesNothing ==
  ASSUME TypeInv, TypeInv', LedgerInv, [Next]_vars, NEW o \in Owners,
         OpenPosition(o)
  PROVE  Pending(o)' = Pending(o)
<1>1. position'[o] = OpenedPosition(o)
  BY DEF OpenPosition, TypeInv, TypeOK, LedgerTypeOK
<1>2. CASE position[o].open
  BY <1>1, <1>2 DEF OpenedPosition, OpenPosition, Pending, Earned, revenueVars
<1>3. CASE ~position[o].open
  <2>1. /\ Pending(o) = 0 /\ accPerShare' \in Nat
        /\ accPerShare' = accPerShare
    BY <1>3, PendingOfOpen, PositionTypes DEF OpenPosition, revenueVars
  <2>2. /\ position'[o].open /\ position'[o].accCheckpoint = accPerShare'
        /\ position'[o].shares = 0 /\ position'[o].accrued = 0
    BY <1>1, <1>3, <2>1 DEF OpenedPosition, NoPosition
  <2>3. Pending(o)' = 0
    BY <2>1, <2>2, PendingOfSettled
  <2>4. QED
    BY <2>1, <2>3
<1>4. QED
  BY <1>2, <1>3

(* A side of a transfer, and the wallet that claims.                       *)
LEMMA TransferLosesNothing ==
  ASSUME TypeInv, TypeInv', LedgerInv, NEW from \in Owners, NEW to \in Owners,
         NEW n \in TransferAmounts, Transfer(from, to, n), NEW o \in {from, to}
  PROVE  Pending(o)' = Pending(o)
<1>1. /\ position[o].open /\ o \in Owners
      /\ accPerShare' = accPerShare
      /\ \E m : IsSettled(position'[o], position[o], m)
  BY TransferEffect DEF dueVars
<1>2. /\ position'[o].open /\ position'[o].accCheckpoint = accPerShare
      /\ position'[o].accrued = Pending(o)
  BY <1>1, PendingOfOpen DEF IsSettled
<1>3. position'[o].shares \in Nat /\ accPerShare' \in Nat
  BY <1>1, PositionTypes, ConstantsAreFine
  DEF TypeInv, TypeOK, LedgerTypeOK, PositionRecord
<1>4. Pending(o) \in Nat
  BY <1>1, PendingOfOpen
<1>5. QED
  BY <1>1, <1>2, <1>3, <1>4, PendingOfSettled

LEMMA ClaimPaysWhatIsPending ==
  ASSUME TypeInv, LedgerInv, NEW o \in Owners, Claim(o)
  PROVE  totalClaimed' = totalClaimed + Pending(o)
<1>1. /\ position[o].open
      /\ totalClaimed' - totalClaimed = position[o].accrued
           + (position[o].shares
                * (accPerShare - position[o].accCheckpoint)) \div One
      /\ totalClaimed' = totalClaimed + Settled(position[o]).accrued
  BY ClaimEffect DEF Claim
<1>2. Settled(position[o]).accrued = Pending(o)
  BY <1>1, PositionTypes, SettledType DEF Claim, Pending
<1>3. QED
  BY <1>1, <1>2

(* What a recovery takes from one wallet's revenue the other one gets.     *)
LEMMA RecoveryLosesNothing ==
  ASSUME TypeInv, TypeInv', LedgerInv, NEW from \in Owners, ExecuteRecovery(from),
         NEW to \in Owners, to = request[from].to
  PROVE  /\ Pending(from) + Pending(to) = Pending(from)' + Pending(to)'
         /\ Pending(to)' >= Pending(to)
<1> DEFINE moved == AccruedMoved(position[from], request[from].shares)
<1> DEFINE opened == OpenedPosition(to)
<1>1. /\ moved \in Nat /\ position[from].open
      /\ position'[from].open
      /\ position'[from].accCheckpoint = accPerShare
      /\ position'[from].accrued = (position[from].accrued
           + (position[from].shares
                * (accPerShare - position[from].accCheckpoint)) \div One) - moved
      /\ position'[to].open /\ position'[to].accCheckpoint = accPerShare
      /\ position'[to].accrued = opened.accrued
           + (opened.shares * (accPerShare - opened.accCheckpoint)) \div One + moved
      /\ accPerShare' = accPerShare
  BY RecoveryEffect DEF dueVars
<1>2. Pending(to) = opened.accrued
         + (opened.shares * (accPerShare - opened.accCheckpoint)) \div One
  <2>1. CASE position[to].open
    BY <1>1, <2>1, PendingOfOpen DEF OpenedPosition
  <2>2. CASE ~position[to].open
    <3>1. /\ opened.accrued = 0 /\ opened.shares = 0
          /\ opened.accCheckpoint = accPerShare
      BY <2>2 DEF OpenedPosition, NoPosition
    <3>2. 0 * (accPerShare - accPerShare) = 0 /\ 0 \div One = 0
      BY PositionTypes, OneAssumption, <1>1
    <3>3. QED
      BY <1>1, <2>2, <3>1, <3>2, PendingOfOpen
  <2>3. QED
    BY <2>1, <2>2
<1>3. /\ position'[from].accrued = Pending(from) - moved
      /\ position'[to].accrued = Pending(to) + moved
  BY <1>1, <1>2, PendingOfOpen
<1> HIDE DEF moved, opened
<1>4. ASSUME NEW o \in {from, to} PROVE Pending(o)' = position'[o].accrued
  <2>1. /\ o \in Owners /\ position'[o] \in PositionRecord
        /\ accPerShare' \in Nat
    BY <1>1, PositionTypes DEF TypeInv, TypeOK, LedgerTypeOK
  <2>2. position'[o].shares \in Nat /\ position'[o].accrued \in Nat
    BY <2>1, ConstantsAreFine DEF PositionRecord
  <2>3. QED
    BY <1>1, <2>1, <2>2, PendingOfSettled
<1>5. Pending(from) \in Nat /\ Pending(to) \in Nat
  BY <1>1, PendingOfOpen
<1>6. QED
  BY <1>1, <1>3, <1>4, <1>5

LEMMA PendingStaysNatural ==
  ASSUME TypeInv', LedgerInv', NEW o \in Owners
  PROVE  Pending(o)' \in Nat
<1>1. /\ position'[o] \in PositionRecord /\ accPerShare' \in Nat
      /\ position'[o].accCheckpoint <= accPerShare'
  BY ConstantsAreFine
  DEF TypeInv, TypeOK, LedgerTypeOK, RevenueTypeOK, LedgerInv, EntryIsSound
<1>2. /\ position'[o].shares \in Nat /\ position'[o].accrued \in Nat
      /\ position'[o].accCheckpoint \in 0 .. accPerShare'
  <2>1. /\ position'[o].shares \in Nat /\ position'[o].accrued \in Nat
        /\ position'[o].accCheckpoint \in Nat
    BY <1>1, ConstantsAreFine DEF PositionRecord
  <2>2. QED
    BY <1>1, <2>1
<1>3. Owed(position'[o].shares, accPerShare', position'[o].accCheckpoint) \in Nat
  BY <1>1, <1>2, OwedIsFloored
<1>4. QED
  BY <1>2, <1>3 DEF Pending, Earned

(* Revenue once earned is lost by no history of purchases, transfers,      *)
(* refunds, recoveries, closings and reopenings: it is paid to its holder, *)
(* or it moves with the recovered shares, whole.                           *)
THEOREM EarnedRevenueIsKept == Spec => RevenueLeavesOnlyByPayment
<1> DEFINE LeavesWhenPaid ==
      \A o \in Owners : Pending(o)' < Pending(o) =>
        \/ totalClaimed' = totalClaimed + Pending(o)
        \/ /\ request[o].pending /\ ~request'[o].pending
           /\ \E to \in Owners :
                /\ to = request[o].to
                /\ Pending(o) + Pending(to) = Pending(o)' + Pending(to)'
<1>1. ASSUME TypeInv, TypeInv', LedgerInv, LedgerInv', NoRevenueYet, [Next]_vars
      PROVE  LeavesWhenPaid
  <2> SUFFICES ASSUME NEW o \in Owners, Pending(o)' < Pending(o)
               PROVE  Claim(o) \/ ExecuteRecovery(o)
    <3>1. \A o \in Owners : request[o].to \in Owners
      BY <1>1 DEF TypeInv, TypeOK, RequestRecord
    <3>2. \A o \in Owners : Claim(o) => totalClaimed' = totalClaimed + Pending(o)
      BY <1>1, ClaimPaysWhatIsPending
    <3>3. \A o, to \in Owners :
            ExecuteRecovery(o) /\ to = request[o].to =>
              /\ request[o].pending /\ ~request'[o].pending
              /\ Pending(o) + Pending(to) = Pending(o)' + Pending(to)'
      BY <1>1, RecoveryTakes, RecoveryLosesNothing
    <3>4. QED
      BY <3>1, <3>2, <3>3
  <2>1. Pending(o) \in Nat /\ Pending(o)' \in Nat
    BY <1>1, PendingOfOpen, PendingStaysNatural
  <2>2. ~(Pending(o)' >= Pending(o))
    BY <2>1
  <2>3. TouchesPosition(o)
    BY <1>1, <2>2, OnlyTheseTouchPositions, WaitingOnlyEarns
  <2>4. ~Refund(o) /\ \A n \in BuyAmounts : ~BuyShares(o, n)
    BY <1>1, <2>1, <2>2, PurchaseLosesNothing, RefundLosesNothing
  <2>5. ~ClosePosition(o)
    BY <1>1, <2>2, NothingIsForfeited
  <2>6. ~OpenPosition(o)
    BY <1>1, <2>1, <2>2, OpeningLosesNothing
  <2>7. \A p \in Owners, n \in TransferAmounts : ~Transfer(o, p, n) /\ ~Transfer(p, o, n)
    BY <1>1, <2>1, <2>2, TransferLosesNothing
  <2>8. \A p \in Owners : request[p].to = o => ~ExecuteRecovery(p)
    BY <1>1, <2>2, RecoveryLosesNothing
  <2>9. QED
    BY <2>3, <2>4, <2>5, <2>6, <2>7, <2>8 DEF TouchesPosition
<1>2. TypeInv /\ TypeInv' /\ LedgerInv /\ LedgerInv' /\ NoRevenueYet /\ [Next]_vars
        => [LeavesWhenPaid]_vars
  BY <1>1
<1>3. QED
  BY <1>2, TypesAreInvariant, LedgerIsInvariant, NoRevenueIsInvariant, PTL
  DEF Spec, RevenueLeavesOnlyByPayment
-----------------------------------------------------------------------------
(* The money of a project.                                                 *)

(* While the escrow exists nobody's role has changed; before the raise is  *)
(* decided nothing has been refunded, and before the project is closed     *)
(* nothing retired.  So activation splits the price of every share sold.   *)
NothingReturnedYet ==
  /\ escrow.open => roles = CreationRoles
  /\ state \in {"Fundraising", "Funded"} => sharesRefunded = 0
  /\ state # "Closed" => sharesRetired = 0

MoneyInv ==
  EscrowIsExact /\ ReleaseIsExact /\ VaultIsExact /\ NothingReturnedYet

LEMMA PriceDistributes ==
  ASSUME NEW a \in Int, NEW b \in Int
  PROVE  /\ (a + b) * Price = a * Price + b * Price
         /\ (a - b) * Price = a * Price - b * Price
         /\ a * Price \in Int /\ b * Price \in Int
  BY ConstantsAreFine

LEMMA InitMoneyInv == Init => MoneyInv
<1> SUFFICES ASSUME Init PROVE MoneyInv
  OBVIOUS
<1>1. EscrowIsExact
  BY ConstantsAreFine DEF Init, EscrowIsExact
<1>2. ReleaseIsExact /\ VaultIsExact /\ NothingReturnedYet
  BY DEF Init, ReleaseIsExact, VaultIsExact, NothingReturnedYet
<1>3. QED
  BY <1>1, <1>2 DEF MoneyInv

(* A step that touches neither the raise, the vault nor the state.         *)
LEMMA UntouchedMoney ==
  ASSUME MoneyInv,
         UNCHANGED <<raiseVars, revenueVars, outsideVars, state, roles,
                     sharesRetired>>
  PROVE  MoneyInv'
<1> USE DEF raiseVars, refundVars, revenueVars, outsideVars, MoneyInv
<1>1. EscrowIsExact'
  BY DEF EscrowIsExact
<1>2. ReleaseIsExact'
  BY DEF ReleaseIsExact
<1>3. VaultIsExact' /\ NothingReturnedYet'
  BY DEF VaultIsExact, NothingReturnedYet
<1>4. QED
  BY <1>1, <1>2, <1>3

LEMMA SameVault ==
  ASSUME VaultIsExact, UNCHANGED revenueVars, donated'.revenue = donated.revenue
  PROVE  VaultIsExact'
  BY DEF VaultIsExact, revenueVars

LEMMA BuyKeepsMoney ==
  ASSUME TypeInv, MoneyInv, NEW o \in Owners, NEW n \in BuyAmounts,
         BuyShares(o, n)
  PROVE  MoneyInv'
<1>1. /\ state = "Fundraising" /\ state' \in {"Fundraising", "Funded"}
      /\ escrow' = [escrow EXCEPT !.amount = escrow.amount + n * Price]
      /\ sharesSold' = sharesSold + n
      /\ UNCHANGED <<donated, revenueVars, sharesRefunded, sharesRetired, roles,
                     released>>
  BY DEF BuyShares, RaiseIsOpen, SharesValue, world, outsideVars, refundVars
<1>2. /\ n \in Nat /\ sharesSold \in Nat /\ sharesRefunded \in Nat
      /\ escrow \in [open : BOOLEAN, amount : Nat]
      /\ donated.escrow \in Nat
  BY InputsAssumption, ConstantsAreFine
  DEF TypeInv, TypeOK, RaiseTypeOK, WorldTypeOK
<1>3. /\ escrow.open
      /\ escrow.amount = (sharesSold - sharesRefunded) * Price + donated.escrow
  BY <1>1 DEF MoneyInv, EscrowIsExact
<1>4. escrow'.open /\ escrow'.amount = escrow.amount + n * Price
  BY <1>1, <1>2, <1>3
<1>5. EscrowIsExact'
  <2>1. (sharesSold + n - sharesRefunded) * Price
          = (sharesSold - sharesRefunded) * Price + n * Price
    <3>1. sharesSold + n - sharesRefunded = (sharesSold - sharesRefunded) + n
      BY <1>2
    <3>2. sharesSold - sharesRefunded \in Int /\ n \in Int
      BY <1>2
    <3>3. QED
      BY <3>1, <3>2, PriceDistributes
  <2>2. /\ (sharesSold - sharesRefunded) * Price \in Int /\ n * Price \in Int
    <3>1. sharesSold - sharesRefunded \in Int /\ n \in Int
      BY <1>2
    <3>2. QED
      BY <3>1, PriceDistributes
  <2>3. QED
    BY <1>1, <1>2, <1>3, <1>4, <2>1, <2>2 DEF EscrowIsExact
<1>6. ReleaseIsExact'
  BY <1>4 DEF ReleaseIsExact
<1>7. VaultIsExact' /\ NothingReturnedYet'
  BY <1>1, <1>3, SameVault DEF MoneyInv, NothingReturnedYet
<1>8. QED
  BY <1>5, <1>6, <1>7 DEF MoneyInv

(* cancel_raise and finalize_raise decide a raise, and move nothing.       *)
LEMMA DecisionKeepsMoney ==
  ASSUME TypeInv, MoneyInv, FinalizeRaise \/ CancelRaise
  PROVE  MoneyInv'
<1>1. /\ state \in {"Fundraising", "Funded"} /\ state' \in {"Funded", "Failed"}
      /\ UNCHANGED <<donated, revenueVars, sharesSold, sharesRefunded,
                     sharesRetired, roles, released, escrow>>
  BY DEF FinalizeRaise, FinalizeFunded, FinalizeFailed, FinalizeExpired,
         CancelRaise, raiseVars, refundVars, ledgerVars, world, outsideVars
<1>2. EscrowIsExact' /\ escrow'.open
  BY <1>1 DEF MoneyInv, EscrowIsExact
<1>3. ReleaseIsExact'
  BY <1>2 DEF ReleaseIsExact
<1>4. VaultIsExact' /\ NothingReturnedYet'
  BY <1>1, SameVault DEF MoneyInv, NothingReturnedYet
<1>5. QED
  BY <1>2, <1>3, <1>4 DEF MoneyInv

(* At activation every share sold is still outstanding, so the fee is the  *)
(* fee on the whole raise and the operator receives everything else.       *)
LEMMA ActivateKeepsMoney ==
  ASSUME TypeInv, MoneyInv, ActivateProject
  PROVE  MoneyInv'
<1> DEFINE price == SharesValue(sharesSold, Price)
<1>1. /\ state = "Funded" /\ state' = "Operating"
      /\ escrow' = [open |-> FALSE, amount |-> 0]
      /\ UNCHANGED <<donated, revenueVars, sharesSold, sharesRefunded,
                     sharesRetired, roles>>
  BY DEF ActivateProject, MayActivate, refundVars, ledgerVars, world, outsideVars
<1>2. /\ sharesRefunded = 0 /\ sharesRetired = 0 /\ sharesSold \in Nat
      /\ escrow.open /\ roles = CreationRoles
      /\ escrow.amount = (sharesSold - sharesRefunded) * Price + donated.escrow
      /\ donated.escrow \in Nat /\ escrow.amount \in Nat
  BY <1>1, ConstantsAreFine
  DEF MoneyInv, NothingReturnedYet, EscrowIsExact, TypeInv, TypeOK, RaiseTypeOK,
      WorldTypeOK
<1>3. OutstandingShares = sharesSold /\ sharesSold - sharesRefunded = sharesSold
  BY <1>2 DEF OutstandingShares
<1>4. escrow.amount = price + donated.escrow /\ price \in Nat
  BY <1>2, <1>3, PriceOfShares DEF SharesValue
<1>5. released' = [to |-> roles.operator,
                   amount |-> escrow.amount - Fee(price, RaiseFeeBps),
                   fee |-> Fee(price, RaiseFeeBps)]
  BY <1>3 DEF ActivateProject
<1>6. Fee(price, RaiseFeeBps) \in Nat
  BY <1>4, ConstantsAreFine, FeeIsAPart
<1> HIDE DEF price
<1>7. ReleaseIsExact'
  <2>1. price' = price
    BY <1>1 DEF price
  <2>2. /\ released'.to = CreationRoles.operator
        /\ released'.fee = Fee(price, RaiseFeeBps)
        /\ released'.amount + released'.fee = price + donated.escrow
    BY <1>2, <1>4, <1>5, <1>6
  <2>3. QED
    BY <1>1, <2>1, <2>2 DEF ReleaseIsExact, price
<1>8. EscrowIsExact'
  BY <1>1 DEF EscrowIsExact
<1>9. VaultIsExact' /\ NothingReturnedYet'
  BY <1>1, <1>2, SameVault DEF MoneyInv, NothingReturnedYet
<1>10. QED
  BY <1>7, <1>8, <1>9 DEF MoneyInv

LEMMA RefundKeepsMoney ==
  ASSUME TypeInv, MoneyInv, NEW o \in Owners, Refund(o)
  PROVE  MoneyInv'
<1> DEFINE n == position[o].shares
<1>1. /\ state = "Failed" /\ state' = state
      /\ escrow' = [escrow EXCEPT !.amount = escrow.amount - n * Price]
      /\ sharesRefunded' = sharesRefunded + n
      /\ UNCHANGED <<donated, revenueVars, sharesSold, sharesRetired, roles,
                     released>>
  BY DEF Refund, RefundIsOpen, RefundAmount, SharesValue, world, outsideVars
<1>2. /\ n \in Nat /\ sharesSold \in Nat /\ sharesRefunded \in Nat
      /\ escrow \in [open : BOOLEAN, amount : Nat]
      /\ donated.escrow \in Nat
  <2>1. position[o] \in PositionRecord
    BY DEF TypeInv, TypeOK, LedgerTypeOK
  <2>2. n \in Nat
    BY <2>1, ConstantsAreFine DEF PositionRecord
  <2>3. QED
    BY <2>2, ConstantsAreFine DEF TypeInv, TypeOK, RaiseTypeOK, WorldTypeOK
<1> HIDE DEF n
<1>3. /\ escrow.open
      /\ escrow.amount = (sharesSold - sharesRefunded) * Price + donated.escrow
  BY <1>1 DEF MoneyInv, EscrowIsExact
<1>4. escrow'.open /\ escrow'.amount = escrow.amount - n * Price
  BY <1>1, <1>2, <1>3
<1>5. EscrowIsExact'
  <2>1. (sharesSold - (sharesRefunded + n)) * Price
          = (sharesSold - sharesRefunded) * Price - n * Price
    <3>1. sharesSold - (sharesRefunded + n) = (sharesSold - sharesRefunded) - n
      BY <1>2
    <3>2. sharesSold - sharesRefunded \in Int /\ n \in Int
      BY <1>2
    <3>3. QED
      BY <3>1, <3>2, PriceDistributes
  <2>2. /\ (sharesSold - sharesRefunded) * Price \in Int /\ n * Price \in Int
    <3>1. sharesSold - sharesRefunded \in Int /\ n \in Int
      BY <1>2
    <3>2. QED
      BY <3>1, PriceDistributes
  <2>3. QED
    BY <1>1, <1>2, <1>3, <1>4, <2>1, <2>2 DEF EscrowIsExact
<1>6. ReleaseIsExact'
  BY <1>4 DEF ReleaseIsExact
<1>7. VaultIsExact' /\ NothingReturnedYet'
  BY <1>1, <1>3, SameVault DEF MoneyInv, NothingReturnedYet
<1>8. QED
  BY <1>5, <1>6, <1>7 DEF MoneyInv

LEMMA ManageKeepsMoney ==
  ASSUME TypeInv, MoneyInv, ManageStep
  PROVE  MoneyInv'
<1>1. /\ state \in {"Operating", "Paused"}
      /\ state' \in {"Operating", "Paused", "Closed"}
      /\ UNCHANGED <<donated, revenueVars, sharesSold, sharesRefunded,
                     sharesRetired, released, escrow>>
  BY DEF ManageStep, PauseProject, ResumeProject, SetRoles, CloseProject,
         RolesAreChangeable, ManagedUnchanged, raiseVars, refundVars,
         ledgerVars, world, outsideVars
<1>2. EscrowIsExact' /\ ~escrow'.open
  BY <1>1 DEF MoneyInv, EscrowIsExact
<1>3. ReleaseIsExact'
  BY <1>1, <1>2 DEF MoneyInv, EscrowIsExact, ReleaseIsExact
<1>4. VaultIsExact' /\ NothingReturnedYet'
  BY <1>1, <1>2, SameVault DEF MoneyInv, NothingReturnedYet
<1>5. QED
  BY <1>2, <1>3, <1>4 DEF MoneyInv

(* A holder can only retire shares of a closed project.                    *)
LEMMA CloseKeepsMoney ==
  ASSUME TypeInv, MoneyInv, NEW o \in Owners, ClosePosition(o)
  PROVE  MoneyInv'
<1>1. /\ UNCHANGED <<donated, revenueVars, raiseVars, state, roles>>
      /\ sharesRetired' = sharesRetired + position[o].shares
      /\ state = "Closed" \/ position[o].shares = 0
  BY DEF ClosePosition, MayCloseWith, world, outsideVars
<1>2. sharesRetired \in Nat
  BY ConstantsAreFine DEF TypeInv, TypeOK, LedgerTypeOK
<1>3. EscrowIsExact' /\ ReleaseIsExact'
  BY <1>1 DEF MoneyInv, EscrowIsExact, ReleaseIsExact, raiseVars, refundVars
<1>4. NothingReturnedYet'
  BY <1>1, <1>2 DEF MoneyInv, NothingReturnedYet, raiseVars, refundVars
<1>5. QED
  BY <1>1, <1>3, <1>4, SameVault DEF MoneyInv

(* Deposits, claims and donations: the vault follows the books.            *)
LEMMA RevenueKeepsMoney ==
  ASSUME TypeInv, MoneyInv,
         UNCHANGED <<raiseVars, state, roles, sharesRetired>>,
         donated'.escrow = donated.escrow,
         VaultIsExact'
  PROVE  MoneyInv'
<1>1. EscrowIsExact' /\ ReleaseIsExact' /\ NothingReturnedYet'
  BY DEF MoneyInv, EscrowIsExact, ReleaseIsExact, NothingReturnedYet, raiseVars,
         refundVars
<1>2. QED
  BY <1>1 DEF MoneyInv

LEMMA DepositKeepsMoney ==
  ASSUME TypeInv, MoneyInv, NEW gross \in GrossAmounts, DepositRevenue(gross)
  PROVE  MoneyInv'
<1> DEFINE net == NetOfFee(gross, RevenueFeeBps)
<1>1. /\ totalDepositedNet' = totalDepositedNet + net
      /\ revenueVault' = revenueVault + net
      /\ UNCHANGED <<raiseVars, state, roles, sharesRetired, donated, totalClaimed>>
  BY DEF DepositRevenue, PaidToVault, world, outsideVars, ledgerVars
<1>2. gross \in U64 /\ net \in 0 .. gross
  BY InputsAssumption, ConstantsAreFine, FeeIsAPart
<1>3. /\ net \in Int
      /\ totalDepositedNet \in Nat /\ totalClaimed \in Nat /\ revenueVault \in Nat
      /\ donated.revenue \in Nat
  BY <1>2, ConstantsAreFine
  DEF TypeInv, TypeOK, RevenueTypeOK, WorldTypeOK
<1> HIDE DEF net
<1>4. VaultIsExact'
  BY <1>1, <1>3 DEF MoneyInv, VaultIsExact
<1>5. QED
  BY <1>1, <1>4, RevenueKeepsMoney

LEMMA ClaimKeepsMoney ==
  ASSUME TypeInv, MoneyInv, NEW o \in Owners, Claim(o)
  PROVE  MoneyInv'
<1> DEFINE amount == Settled(position[o]).accrued
<1>1. /\ totalClaimed' = totalClaimed + amount
      /\ revenueVault' = revenueVault - amount
      /\ UNCHANGED <<raiseVars, state, roles, sharesRetired, donated,
                     totalDepositedNet>>
  BY DEF Claim, world, outsideVars
<1>2. /\ position[o] \in PositionRecord /\ SettleIsOk(position[o])
      /\ accPerShare \in U128
  BY DEF Claim, TypeInv, TypeOK, LedgerTypeOK, RevenueTypeOK
<1>3. Settled(position[o]) \in PositionRecord
  BY <1>2, SettledType
<1>4. amount \in Nat
  BY <1>3, ConstantsAreFine DEF PositionRecord
<1>5. /\ totalDepositedNet \in Nat /\ totalClaimed \in Nat /\ revenueVault \in Nat
      /\ donated.revenue \in Nat
  BY ConstantsAreFine DEF TypeInv, TypeOK, RevenueTypeOK, WorldTypeOK
<1> HIDE DEF amount
<1>6. VaultIsExact'
  BY <1>1, <1>4, <1>5 DEF MoneyInv, VaultIsExact
<1>7. QED
  BY <1>1, <1>6, RevenueKeepsMoney

(* Tokens from outside raise a vault and the record of them alike.         *)
LEMMA DonationsKeepMoney ==
  ASSUME TypeInv, MoneyInv, NEW n \in DonationAmounts,
         DonateToEscrow(n) \/ DonateToVault(n)
  PROVE  MoneyInv'
<1>1. n \in Nat /\ donated \in [escrow : Nat, revenue : Nat]
  BY InputsAssumption DEF TypeInv, TypeOK, WorldTypeOK
<1>2. CASE DonateToEscrow(n)
  <2>1. /\ escrow.open /\ UNCHANGED <<state, roles, revenueVars, sharesRetired,
                            sharesSold, sharesRefunded, released>>
        /\ escrow' = [escrow EXCEPT !.amount = escrow.amount + n]
        /\ donated' = [donated EXCEPT !.escrow = donated.escrow + n]
    BY <1>2 DEF DonateToEscrow, refundVars, ledgerVars
  <2>2. /\ escrow \in [open : BOOLEAN, amount : Nat]
        /\ sharesSold \in Nat /\ sharesRefunded \in Nat
    BY ConstantsAreFine DEF TypeInv, TypeOK, RaiseTypeOK
  <2>3. /\ escrow'.open /\ escrow'.amount = escrow.amount + n
        /\ donated'.escrow = donated.escrow + n
        /\ donated'.revenue = donated.revenue
    BY <1>1, <2>1, <2>2
  <2>4. (sharesSold - sharesRefunded) * Price \in Int
    <3>1. sharesSold - sharesRefunded \in Int
      BY <2>2
    <3>2. QED
      BY <3>1, PriceDistributes
  <2>5. EscrowIsExact'
    BY <1>1, <2>1, <2>2, <2>3, <2>4 DEF MoneyInv, EscrowIsExact
  <2>6. ReleaseIsExact'
    BY <2>3 DEF ReleaseIsExact
  <2>7. VaultIsExact' /\ NothingReturnedYet'
    BY <2>1, <2>3, SameVault DEF MoneyInv, NothingReturnedYet
  <2>8. QED
    BY <2>5, <2>6, <2>7 DEF MoneyInv
<1>3. CASE DonateToVault(n)
  <2>1. /\ UNCHANGED <<raiseVars, state, roles, sharesRetired, totalDepositedNet,
                       totalClaimed>>
        /\ revenueVault' = revenueVault + n
        /\ donated' = [donated EXCEPT !.revenue = donated.revenue + n]
    BY <1>3 DEF DonateToVault, ledgerVars
  <2>2. /\ totalDepositedNet \in Nat /\ totalClaimed \in Nat
        /\ revenueVault \in Nat
    BY ConstantsAreFine DEF TypeInv, TypeOK, RevenueTypeOK
  <2>3. /\ donated'.revenue = donated.revenue + n
        /\ donated'.escrow = donated.escrow
    BY <1>1, <2>1
  <2>4. VaultIsExact'
    BY <1>1, <2>1, <2>2, <2>3 DEF MoneyInv, VaultIsExact
  <2>5. QED
    BY <2>1, <2>3, <2>4, RevenueKeepsMoney
<1>4. QED
  BY <1>2, <1>3

LEMMA NextKeepsMoney ==
  ASSUME TypeInv, MoneyInv, [Next]_vars
  PROVE  MoneyInv'
<1>1. CASE RaiseStep
  BY <1>1, BuyKeepsMoney, DecisionKeepsMoney, ActivateKeepsMoney,
     RefundKeepsMoney DEF RaiseStep
<1>2. CASE ManageStep
  BY <1>2, ManageKeepsMoney
<1>3. CASE HoldingStep
  <2>1. ASSUME NEW o \in Owners, OpenPosition(o)
        PROVE  MoneyInv'
    BY <2>1, UntouchedMoney DEF OpenPosition, world
  <2>2. ASSUME NEW from \in Owners, NEW to \in Owners,
               NEW n \in TransferAmounts, Transfer(from, to, n)
        PROVE  MoneyInv'
    BY <2>2, UntouchedMoney DEF Transfer, world
  <2>3. QED
    BY <1>3, <2>1, <2>2, CloseKeepsMoney, DepositKeepsMoney, ClaimKeepsMoney
    DEF HoldingStep
<1>4. CASE RecoveryStep
  <2>1. UNCHANGED <<raiseVars, revenueVars, outsideVars, state, roles,
                    sharesRetired>>
    BY <1>4
    DEF RecoveryStep, ProposeRecovery, VetoRecovery, WithdrawRecovery,
        RequestClosed, ExecuteRecovery, world, ledgerVars
  <2>2. QED
    BY <2>1, UntouchedMoney
<1>5. CASE RegistryStep
  BY <1>5, UntouchedMoney
  DEF RegistryStep, SetInvestor, SetInvestorDemo, KycWritten, UpdateConfig,
      ledgerVars
<1>6. CASE OutsideStep
  <2>1. CASE Tick
    BY <2>1, UntouchedMoney DEF Tick, ledgerVars
  <2>2. ASSUME NEW o \in AccountOwners, CreateShareAccount(o) \/ CloseShareAccount(o)
        PROVE  MoneyInv'
    BY <2>2, UntouchedMoney DEF CreateShareAccount, CloseShareAccount, world
  <2>3. ASSUME NEW o \in Owners, NEW n \in BurnAmounts, BurnOwnShares(o, n)
        PROVE  MoneyInv'
    <3>1. UNCHANGED <<raiseVars, revenueVars, donated, state, roles,
                      sharesRetired>>
      BY <2>3 DEF BurnOwnShares
    <3>2. VaultIsExact'
      BY <3>1, SameVault DEF MoneyInv
    <3>3. QED
      BY <3>1, <3>2, RevenueKeepsMoney
  <2>4. QED
    BY <1>6, <2>1, <2>2, <2>3, DonationsKeepMoney DEF OutsideStep
<1>7. CASE UNCHANGED vars
  BY <1>7, UntouchedMoney DEF vars, world, ledgerVars
<1>8. QED
  BY <1>1, <1>2, <1>3, <1>4, <1>5, <1>6, <1>7 DEF Next

LEMMA MoneyIsInvariant == Spec => []MoneyInv
<1>1. Init => MoneyInv
  BY InitMoneyInv
<1>2. TypeInv /\ MoneyInv /\ [Next]_vars => MoneyInv'
  BY NextKeepsMoney
<1>3. QED
  BY <1>1, <1>2, TypesAreInvariant, PTL DEF Spec

(* I4 of docs/v2.md for every price, cap and sequence of instructions: the *)
(* escrow holds exactly the price of the shares sold and not refunded,     *)
(* apart from tokens nobody paid for shares.                               *)
THEOREM TheEscrowIsExact == Spec => []EscrowIsExact
<1>1. MoneyInv => EscrowIsExact
  BY DEF MoneyInv
<1>2. QED
  BY <1>1, MoneyIsInvariant, PTL

(* activate_project pays the whole escrow once, to the operator named at   *)
(* creation and to the treasury, whatever happened before and happens next.*)
THEOREM TheReleaseIsExact == Spec => []ReleaseIsExact
<1>1. MoneyInv => ReleaseIsExact
  BY DEF MoneyInv
<1>2. QED
  BY <1>1, MoneyIsInvariant, PTL

(* The revenue vault holds exactly what was deposited net and not claimed. *)
THEOREM TheVaultIsExact == Spec => []VaultIsExact
<1>1. MoneyInv => VaultIsExact
  BY DEF MoneyInv
<1>2. QED
  BY <1>1, MoneyIsInvariant, PTL
-----------------------------------------------------------------------------
(* The supply of shares after the raise.                                   *)

LEMMA SupplyOnlyFalls ==
  ASSUME TypeInv, [Next]_vars, \A o \in Owners, n \in BuyAmounts : ~BuyShares(o, n)
  PROVE  supply' <= supply
<1>1. supply \in Nat /\ position \in [Owners -> PositionRecord]
  BY DEF TypeInv, TypeOK, LedgerTypeOK
<1>2. ASSUME NEW o \in Owners, Refund(o) \/ ClosePosition(o)
      PROVE  supply' <= supply
  <2>1. supply' = supply - position[o].shares
    BY <1>2 DEF Refund, ClosePosition
  <2>2. position[o].shares \in Nat
    BY <1>1, ConstantsAreFine DEF PositionRecord
  <2>3. QED
    BY <1>1, <2>1, <2>2
<1>3. ASSUME NEW from \in Owners, ExecuteRecovery(from)
      PROVE  supply' <= supply
  <2>1. supply' = supply - request[from].shares + request[from].shares
    BY <1>3 DEF ExecuteRecovery, SupplyAfterReissue
  <2>2. request[from] \in RequestRecord
    BY DEF TypeInv, TypeOK
  <2>3. request[from].shares \in Nat
    BY <2>2 DEF RequestRecord
  <2>4. QED
    BY <1>1, <2>1, <2>3
<1>4. ASSUME NEW o \in Owners, NEW n \in BurnAmounts, BurnOwnShares(o, n)
      PROVE  supply' <= supply
  BY <1>1, <1>4, InputsAssumption DEF BurnOwnShares
<1>5. CASE RaiseStep
  <2>1. CASE FinalizeRaise \/ ActivateProject \/ CancelRaise
    BY <1>1, <2>1 DEF FinalizeRaise, ActivateProject, CancelRaise, ledgerVars
  <2>2. QED
    BY <1>2, <1>5, <2>1 DEF RaiseStep
<1>6. CASE ManageStep
  <2>1. supply' = supply
    BY <1>6 DEF ManageStep, PauseProject, ResumeProject, SetRoles, CloseProject,
       ManagedUnchanged, ledgerVars
  <2>2. QED
    BY <1>1, <2>1
<1>7. CASE HoldingStep
  <2>1. CASE \E o \in Owners : OpenPosition(o) \/ Claim(o)
    BY <1>1, <2>1 DEF OpenPosition, Claim, ledgerVars
  <2>2. CASE \E gross \in GrossAmounts : DepositRevenue(gross)
    BY <1>1, <2>2 DEF DepositRevenue, ledgerVars
  <2>3. CASE \E from, to \in Owners, n \in TransferAmounts :
               Transfer(from, to, n)
    BY <1>1, <2>3 DEF Transfer
  <2>4. QED
    BY <1>2, <1>7, <2>1, <2>2, <2>3 DEF HoldingStep
<1>8. CASE RecoveryStep
  <2>1. supply' = supply \/ \E from \in Owners : ExecuteRecovery(from)
    BY <1>8
    DEF RecoveryStep, ProposeRecovery, VetoRecovery, WithdrawRecovery,
        RequestClosed, ledgerVars
  <2>2. QED
    BY <1>1, <1>3, <2>1
<1>9. CASE RegistryStep
  BY <1>1, <1>9
  DEF RegistryStep, SetInvestor, SetInvestorDemo, KycWritten, UpdateConfig,
      ledgerVars
<1>10. CASE OutsideStep
  BY <1>1, <1>4, <1>10
  DEF OutsideStep, Tick, DonateToEscrow, DonateToVault, CreateShareAccount,
      CloseShareAccount, ledgerVars
<1>11. CASE UNCHANGED vars
  BY <1>1, <1>11 DEF vars, ledgerVars
<1>12. QED
  BY <1>5, <1>6, <1>7, <1>8, <1>9, <1>10, <1>11 DEF Next

(* docs/v2.md, share mint: once the raise is over nothing mints shares; a  *)
(* recovery, which does mint, burns as many first.                         *)
THEOREM SupplyIsFinal == Spec => SupplyNeverGrowsAfterRaise
<1>1. TypeInv /\ [Next]_vars
        => [state # "Fundraising" => supply' <= supply]_vars
  <2> SUFFICES ASSUME TypeInv, [Next]_vars, state # "Fundraising"
               PROVE  supply' <= supply
    OBVIOUS
  <2>1. \A o \in Owners, n \in BuyAmounts : ~BuyShares(o, n)
    BY DEF BuyShares, RaiseIsOpen
  <2>2. QED
    BY <2>1, SupplyOnlyFalls
<1>2. QED
  BY <1>1, TypesAreInvariant, PTL DEF Spec, SupplyNeverGrowsAfterRaise
-----------------------------------------------------------------------------
(* The raise implements EscrowPromise.  A recovery moves no more shares    *)
(* than the mint supplies, and those are at most the shares sold.          *)

SupplyWasSold == supply <= sharesSold

LEMMA OnlyPurchasesSell ==
  ASSUME [Next]_vars, \A o \in Owners, n \in BuyAmounts : ~BuyShares(o, n)
  PROVE  sharesSold' = sharesSold
<1>1. CASE RaiseStep
  <2>1. CASE FinalizeRaise
    BY <2>1 DEF FinalizeRaise
  <2>2. CASE ActivateProject
    BY <2>2 DEF ActivateProject
  <2>3. CASE CancelRaise
    BY <2>3 DEF CancelRaise, raiseVars
  <2>4. CASE \E o \in Owners : Refund(o)
    BY <2>4 DEF Refund
  <2>5. QED
    BY <1>1, <2>1, <2>2, <2>3, <2>4 DEF RaiseStep
<1>2. CASE ManageStep
  BY <1>2 DEF ManageStep, PauseProject, ResumeProject, SetRoles, CloseProject,
     ManagedUnchanged, raiseVars
<1>3. CASE HoldingStep
  <2>1. CASE \E o \in Owners : OpenPosition(o) \/ ClosePosition(o) \/ Claim(o)
    BY <2>1 DEF OpenPosition, ClosePosition, Claim, raiseVars
  <2>2. CASE \E gross \in GrossAmounts : DepositRevenue(gross)
    BY <2>2 DEF DepositRevenue, raiseVars
  <2>3. CASE \E from, to \in Owners, n \in TransferAmounts :
               Transfer(from, to, n)
    BY <2>3 DEF Transfer, raiseVars
  <2>4. QED
    BY <1>3, <2>1, <2>2, <2>3 DEF HoldingStep
<1>4. CASE RecoveryStep
  BY <1>4 DEF RecoveryStep, ProposeRecovery, VetoRecovery, WithdrawRecovery,
     RequestClosed, ExecuteRecovery, raiseVars
<1>5. CASE RegistryStep
  BY <1>5 DEF RegistryStep, SetInvestor, SetInvestorDemo, KycWritten,
     UpdateConfig, raiseVars
<1>6. CASE OutsideStep
  BY <1>6 DEF OutsideStep, Tick, DonateToEscrow, DonateToVault,
     CreateShareAccount, CloseShareAccount, BurnOwnShares, raiseVars
<1>7. CASE UNCHANGED vars
  BY <1>7 DEF vars, raiseVars
<1>8. QED
  BY <1>1, <1>2, <1>3, <1>4, <1>5, <1>6, <1>7 DEF Next

LEMMA SupplyWasSoldIsInvariant == Spec => []SupplyWasSold
<1>1. Init => SupplyWasSold
  BY DEF Init, SupplyWasSold
<1>2. TypeInv /\ SupplyWasSold /\ [Next]_vars => SupplyWasSold'
  <2> SUFFICES ASSUME TypeInv, TypeInv', SupplyWasSold, [Next]_vars
               PROVE  SupplyWasSold'
    BY NextPreservesTypes
  <2>1. /\ supply \in Nat /\ sharesSold \in Nat
        /\ supply' \in Nat
    BY ConstantsAreFine DEF TypeInv, TypeOK, LedgerTypeOK, RaiseTypeOK
  <2>2. ASSUME NEW o \in Owners, NEW n \in BuyAmounts, BuyShares(o, n)
        PROVE  SupplyWasSold'
    <3>1. supply' = supply + n /\ sharesSold' = sharesSold + n /\ n \in Nat
      BY <2>2, InputsAssumption DEF BuyShares
    <3>2. QED
      BY <2>1, <3>1 DEF SupplyWasSold
  <2>3. CASE \A o \in Owners, n \in BuyAmounts : ~BuyShares(o, n)
    <3>1. supply' <= supply /\ sharesSold' = sharesSold
      BY <2>3, SupplyOnlyFalls, OnlyPurchasesSell
    <3>2. QED
      BY <2>1, <3>1 DEF SupplyWasSold
  <2>4. QED
    BY <2>2, <2>3
<1>3. QED
  BY <1>1, <1>2, TypesAreInvariant, PTL DEF Spec

LEMMA PromisePhases ==
  /\ state \in {"Fundraising", "Funded"} => promisePhase = "collecting"
  /\ state = "Failed" => promisePhase = "returning"
  /\ state \in {"Operating", "Paused", "Closed"} => promisePhase = "handedOver"
  /\ state' \in {"Fundraising", "Funded"} => promisePhase' = "collecting"
  /\ state' = "Failed" => promisePhase' = "returning"
  /\ state' \in {"Operating", "Paused", "Closed"} => promisePhase' = "handedOver"
  BY DEF promisePhase

LEMMA PromiseStakes ==
  /\ promiseStake = [o \in Owners |-> promiseStake[o]]
  /\ promiseStake' = [o \in Owners |-> promiseStake'[o]]
  /\ \A o \in Owners :
       /\ promiseStake[o] = IF promisePhase = "handedOver" THEN 0
                            ELSE position[o].shares * Price
       /\ promiseStake'[o] = IF promisePhase' = "handedOver" THEN 0
                             ELSE position'[o].shares * Price
  BY DEF promiseStake, SharesValue

(* A price of some of the shares is a payment the promise knows.           *)
LEMMA SharesCostAPayment ==
  ASSUME NEW n \in Nat, n > 0, n <= TotalShares
  PROVE  n * Price \in {SharesValue(m, Price) : m \in 1 .. TotalShares}
<1>1. n \in 1 .. TotalShares
  BY TermsAssumption
<1>2. n * Price = SharesValue(n, Price)
  BY DEF SharesValue
<1>3. QED
  BY <1>1, <1>2

(* A step the promise does not see.                                        *)
LEMMA PromiseRests ==
  ASSUME promisePhase' = promisePhase,
         UNCHANGED <<sharesSold, totalRefunded>>,
         promisePhase # "handedOver" =>
           \A o \in Owners : position'[o].shares = position[o].shares,
         promisePhase = "handedOver" =>
           released' = released /\ donated'.escrow = donated.escrow
  PROVE  UNCHANGED Promise!promiseVars
<1>1. promiseStake' = promiseStake
  <2>1. \A o \in Owners : promiseStake'[o] = promiseStake[o]
    BY PromiseStakes
  <2>2. QED
    BY <2>1, PromiseStakes
<1>2. promiseHandedOver' = promiseHandedOver
  BY DEF promiseHandedOver
<1>3. QED
  BY <1>1, <1>2 DEF Promise!promiseVars, SharesValue

LEMMA PurchaseIsAPayment ==
  ASSUME TypeInv, LedgerInv, NEW o \in Owners, NEW n \in BuyAmounts,
         BuyShares(o, n)
  PROVE  Promise!Next
<1>1. /\ n \in Nat /\ n > 0 /\ sharesSold \in Nat /\ TotalShares \in Nat
      /\ sharesSold + n <= TotalShares /\ position[o].shares \in Nat
  BY InputsAssumption, ConstantsAreFine, PositionTypes DEF BuyShares, SharesLeft
<1>2. n * Price \in {SharesValue(m, Price) : m \in 1 .. TotalShares}
  BY <1>1, SharesCostAPayment
<1>3. promisePhase = "collecting" /\ promisePhase' = "collecting"
  BY PromisePhases DEF BuyShares, RaiseIsOpen
<1>4. position'[o].shares = position[o].shares + n
  BY OwnStepsMoveShares
<1>5. /\ \A p \in Owners \ {o} : position'[p] = position[p]
      /\ sharesSold' = sharesSold + n /\ totalRefunded' = totalRefunded
  BY DEF BuyShares, refundVars, TypeInv, TypeOK, LedgerTypeOK
<1>6. /\ (position[o].shares + n) * Price = position[o].shares * Price + n * Price
      /\ (sharesSold + n) * Price = sharesSold * Price + n * Price
  BY <1>1, PriceDistributes
<1>7. promiseStake' = [promiseStake EXCEPT ![o] = promiseStake[o] + n * Price]
  <2>1. promiseStake'[o] = promiseStake[o] + n * Price
    BY <1>3, <1>4, <1>6, PromiseStakes
  <2>2. \A p \in Owners \ {o} : promiseStake'[p] = promiseStake[p]
    BY <1>3, <1>5, PromiseStakes
  <2>3. QED
    BY <2>1, <2>2, PromiseStakes
<1>8. promiseHandedOver' = promiseHandedOver
  BY <1>3 DEF promiseHandedOver
<1>9. SharesValue(sharesSold, Price)' = SharesValue(sharesSold, Price) + n * Price
  BY <1>5, <1>6 DEF SharesValue
<1>10. Promise!Pay(o, n * Price)
  BY <1>3, <1>5, <1>7, <1>8, <1>9 DEF Promise!Pay
<1>11. QED
  BY <1>2, <1>10 DEF Promise!Next

(* What leaves the escrow at activation, without the tokens nobody paid    *)
(* for shares, is all that was collected.                                  *)
LEMMA ActivationHandsOver ==
  ASSUME TypeInv, TypeInv', MoneyInv', ActivateProject
  PROVE  Promise!Next
<1>1. promisePhase = "collecting" /\ promisePhase' = "handedOver"
  BY PromisePhases DEF ActivateProject, MayActivate
<1>2. /\ escrow' = [open |-> FALSE, amount |-> 0]
      /\ UNCHANGED <<sharesSold, totalRefunded>>
  BY DEF ActivateProject, refundVars
<1>3. released'.amount + released'.fee
        = SharesValue(sharesSold, Price) + donated'.escrow
  BY <1>2 DEF MoneyInv, ReleaseIsExact, SharesValue
<1>4. SharesValue(sharesSold, Price) \in Nat /\ donated'.escrow \in Nat
  BY ConstantsAreFine, PriceOfShares
  DEF TypeInv, TypeOK, RaiseTypeOK, WorldTypeOK
<1>5. promiseHandedOver' = SharesValue(sharesSold, Price)
  <2>1. promiseHandedOver' = released'.amount + released'.fee - donated'.escrow
    BY <1>1 DEF promiseHandedOver
  <2>2. released'.amount \in Nat /\ released'.fee \in Nat
    BY DEF TypeInv, TypeOK, RaiseTypeOK
  <2>3. ASSUME NEW a \in Nat, NEW b \in Nat, NEW c \in Nat, NEW d \in Nat,
               a + b = c + d
        PROVE  a + b - d = c
    BY <2>3
  <2>4. QED
    BY <1>3, <1>4, <2>1, <2>2, <2>3
<1>6. promiseStake' = [o \in Owners |-> 0]
  BY <1>1, PromiseStakes
<1>7. Promise!HandOver
  BY <1>1, <1>2, <1>5, <1>6 DEF Promise!HandOver, SharesValue
<1>8. QED
  BY <1>7 DEF Promise!Next

LEMMA FailureGivesUp ==
  ASSUME TypeInv, FinalizeRaise \/ CancelRaise
  PROVE  Promise!Next \/ UNCHANGED Promise!promiseVars
<1>1. /\ state \in {"Fundraising", "Funded"} /\ state' \in {"Funded", "Failed"}
      /\ UNCHANGED <<position, sharesSold, totalRefunded, donated, released>>
  BY DEF FinalizeRaise, FinalizeFunded, FinalizeFailed, FinalizeExpired,
         CancelRaise, raiseVars, refundVars, ledgerVars, world, outsideVars
<1>2. promisePhase = "collecting"
  BY <1>1, PromisePhases
<1>3. CASE state' = "Funded"
  BY <1>1, <1>2, <1>3, PromisePhases, PromiseRests
<1>4. CASE state' = "Failed"
  <2>1. promisePhase' = "returning"
    BY <1>4, PromisePhases
  <2>2. promiseStake' = promiseStake
    <3>1. \A o \in Owners : promiseStake'[o] = promiseStake[o]
      BY <1>1, <1>2, <2>1, PromiseStakes
    <3>2. QED
      BY <3>1, PromiseStakes
  <2>3. promiseHandedOver' = promiseHandedOver
    BY <1>2, <2>1 DEF promiseHandedOver
  <2>4. Promise!GiveUp
    BY <1>1, <1>2, <2>1, <2>2, <2>3 DEF Promise!GiveUp, SharesValue
  <2>5. QED
    BY <2>4 DEF Promise!Next
<1>5. QED
  BY <1>1, <1>3, <1>4

LEMMA RefundReturnsTheStake ==
  ASSUME TypeInv, LedgerInv, NEW o \in Owners, Refund(o)
  PROVE  Promise!Next
<1>1. promisePhase = "returning" /\ promisePhase' = "returning"
  BY PromisePhases DEF Refund, RefundIsOpen
<1>2. /\ \A p \in Owners \ {o} : position'[p] = position[p]
      /\ totalRefunded' = totalRefunded + position[o].shares * Price
      /\ sharesSold' = sharesSold
  BY DEF Refund, RefundAmount, SharesValue, TypeInv, TypeOK, LedgerTypeOK
<1>3. position'[o].shares = 0 /\ 0 * Price = 0
  BY OwnStepsMoveShares, ConstantsAreFine
<1>4. promiseStake[o] = position[o].shares * Price /\ promiseStake'[o] = 0
  BY <1>1, <1>3, PromiseStakes
<1>5. promiseStake' = [promiseStake EXCEPT ![o] = 0]
  <2>1. \A p \in Owners \ {o} : promiseStake'[p] = promiseStake[p]
    BY <1>1, <1>2, PromiseStakes
  <2>2. QED
    BY <1>4, <2>1, PromiseStakes
<1>6. promiseHandedOver' = promiseHandedOver
  BY <1>1 DEF promiseHandedOver
<1>7. Promise!Return(o)
  BY <1>1, <1>2, <1>4, <1>5, <1>6 DEF Promise!Return, SharesValue
<1>8. QED
  BY <1>7 DEF Promise!Next

LEMMA RecoveryChangesHands ==
  ASSUME TypeInv, LedgerInv, SupplyWasSold, NEW from \in Owners,
         ExecuteRecovery(from)
  PROVE  Promise!Next \/ UNCHANGED Promise!promiseVars
<1> DEFINE to == request[from].to
<1> DEFINE n == request[from].shares
<1>1. /\ to \in Owners /\ to # from /\ n \in Nat /\ n > 0
      /\ position'[from].shares = position[from].shares - n
      /\ position'[to].shares = position[to].shares + n
  BY RecoveryIsVetoable
<1>2. /\ \A o \in Owners \ {from, to} : position'[o] = position[o]
      /\ position[from].shares >= n /\ supply >= n
      /\ UNCHANGED <<state, sharesSold, totalRefunded, released, donated>>
  <2>1. \A o \in Owners \ {from, to} : position'[o] = position[o]
    BY RecoveryEffect
  <2>2. position[from].shares >= n /\ supply >= n
    BY DEF ExecuteRecovery
  <2>3. UNCHANGED <<state, sharesSold, totalRefunded, released, donated>>
    BY DEF ExecuteRecovery, raiseVars, refundVars, world, outsideVars
  <2>4. QED
    BY <2>1, <2>2, <2>3
<1> HIDE DEF to, n
<1>3. promisePhase' = promisePhase
  BY <1>2 DEF promisePhase
<1>4. CASE promisePhase = "handedOver"
  BY <1>2, <1>3, <1>4, PromiseRests
<1>5. CASE promisePhase # "handedOver"
  <2>1. n <= TotalShares
    BY <1>1, <1>2, ConstantsAreFine
    DEF SupplyWasSold, TypeInv, TypeOK, LedgerTypeOK, RaiseTypeOK
  <2>2. n * Price \in {SharesValue(m, Price) : m \in 1 .. TotalShares}
    BY <1>1, <2>1, SharesCostAPayment
  <2>3. /\ position[from].shares \in Nat /\ position[to].shares \in Nat
        /\ n <= position[from].shares
    BY <1>1, <1>2, PositionTypes
  <2>4. /\ (position[from].shares - n) * Price
             = position[from].shares * Price - n * Price
        /\ (position[to].shares + n) * Price
             = position[to].shares * Price + n * Price
        /\ n * Price <= position[from].shares * Price
    <3>0. /\ n \in Int
          /\ position[from].shares \in Int /\ position[to].shares \in Int
      BY <1>1, <2>3
    <3>1. (position[from].shares - n) * Price
            = position[from].shares * Price - n * Price
      BY <3>0, PriceDistributes, Zenon
    <3>2. (position[to].shares + n) * Price
            = position[to].shares * Price + n * Price
      BY <3>0, PriceDistributes, Zenon
    <3>3. n * Price <= position[from].shares * Price
      BY <1>1, <2>3, ProductIsMonotonic, ConstantsAreFine
    <3>4. QED
      BY <3>1, <3>2, <3>3
  <2>5. /\ promiseStake'[from] = promiseStake[from] - n * Price
        /\ promiseStake'[to] = promiseStake[to] + n * Price
        /\ n * Price <= promiseStake[from]
    BY <1>1, <1>3, <1>5, <2>4, PromiseStakes
  <2>6. promiseStake' = [promiseStake EXCEPT
          ![from] = promiseStake[from] - n * Price,
          ![to] = promiseStake[to] + n * Price]
    <3>1. \A o \in Owners \ {from, to} : promiseStake'[o] = promiseStake[o]
      BY <1>2, <1>3, <1>5, PromiseStakes
    <3>2. QED
      BY <1>1, <2>5, <3>1, PromiseStakes
  <2>7. promiseHandedOver' = promiseHandedOver
    BY <1>3, <1>5 DEF promiseHandedOver
  <2>8. Promise!ChangeHands(from, to, n * Price)
    BY <1>1, <1>2, <1>3, <1>5, <2>5, <2>6, <2>7
    DEF Promise!ChangeHands, SharesValue
  <2>9. QED
    BY <1>1, <2>2, <2>8 DEF Promise!Next
<1>6. QED
  BY <1>4, <1>5

(* The promise is out of the escrow's hands when the escrow is gone.       *)
LEMMA HandedOverIsGone ==
  ASSUME TypeInv, MoneyInv
  PROVE  promisePhase = "handedOver" <=> ~escrow.open
<1>1. escrow.open <=> state \in {"Fundraising", "Funded", "Failed"}
  BY DEF MoneyInv, EscrowIsExact
<1>2. state \in ProjectStates
  BY DEF TypeInv, TypeOK
<1>3. QED
  BY <1>1, <1>2 DEF promisePhase, ProjectStates

LEMMA ManagementRests ==
  ASSUME ManageStep
  PROVE  UNCHANGED Promise!promiseVars
<1>1. /\ state \in {"Operating", "Paused"}
      /\ state' \in {"Operating", "Paused", "Closed"}
      /\ UNCHANGED <<position, sharesSold, totalRefunded, released, donated>>
  BY DEF ManageStep, PauseProject, ResumeProject, SetRoles, CloseProject,
         RolesAreChangeable, ManagedUnchanged, ledgerVars, raiseVars,
         refundVars, world, outsideVars
<1>2. promisePhase = "handedOver" /\ promisePhase' = "handedOver"
  BY <1>1, PromisePhases
<1>3. QED
  BY <1>1, <1>2, PromiseRests

(* While the escrow exists there is no revenue and nobody transfers, so a  *)
(* holding changes by a purchase, a refund or a recovery only.             *)
LEMMA HoldingRests ==
  ASSUME TypeInv, LedgerInv, HoldingStep
  PROVE  UNCHANGED Promise!promiseVars
<1>1. UNCHANGED <<state, sharesSold, totalRefunded, released, donated>>
  <2>1. CASE \E o \in Owners : OpenPosition(o) \/ ClosePosition(o) \/ Claim(o)
    BY <2>1 DEF OpenPosition, ClosePosition, Claim, raiseVars, refundVars,
       world, outsideVars
  <2>2. CASE \E gross \in GrossAmounts : DepositRevenue(gross)
    BY <2>2 DEF DepositRevenue, raiseVars, refundVars, world, outsideVars
  <2>3. CASE \E from, to \in Owners, n \in TransferAmounts :
               Transfer(from, to, n)
    BY <2>3 DEF Transfer, raiseVars, refundVars, world, outsideVars
  <2>4. QED
    BY <2>1, <2>2, <2>3 DEF HoldingStep
<1>2. promisePhase' = promisePhase
  BY <1>1 DEF promisePhase
<1>3. ASSUME promisePhase # "handedOver"
      PROVE  \A o \in Owners : position'[o].shares = position[o].shares
  <2>1. state \notin {"Operating", "Paused", "Closed"}
    BY <1>3, PromisePhases
  <2>2. ASSUME NEW p \in Owners, OpenPosition(p) \/ ClosePosition(p) \/ Claim(p)
        PROVE  \A o \in Owners : position'[o].shares = position[o].shares
    <3>1. \A o \in Owners \ {p} : position'[o] = position[o]
      BY <2>2 DEF OpenPosition, ClosePosition, Claim, TypeInv, TypeOK,
         LedgerTypeOK
    <3>2. position'[p].shares = position[p].shares
      BY <2>1, <2>2, OwnStepsMoveShares DEF MayCloseWith
    <3>3. QED
      BY <3>1, <3>2
  <2>3. CASE \E gross \in GrossAmounts : DepositRevenue(gross)
    BY <2>3 DEF DepositRevenue, ledgerVars
  <2>4. \A from, to \in Owners, n \in TransferAmounts : ~Transfer(from, to, n)
    BY <2>1 DEF Transfer
  <2>5. QED
    BY <2>2, <2>3, <2>4 DEF HoldingStep
<1>4. QED
  BY <1>1, <1>2, <1>3, PromiseRests

(* Requests, the registry and what happens outside of the program; tokens  *)
(* can be sent to the escrow only while it exists.                         *)
LEMMA SurroundingsRest ==
  ASSUME TypeInv, MoneyInv,
         \/ \E from, to \in Owners, n \in RecoveryAmounts :
              ProposeRecovery(from, to, n)
         \/ \E from \in Owners : VetoRecovery(from) \/ WithdrawRecovery(from)
         \/ RegistryStep
         \/ OutsideStep
         \/ UNCHANGED vars
  PROVE  UNCHANGED Promise!promiseVars
<1>1. /\ UNCHANGED <<state, position, sharesSold, totalRefunded, released>>
      /\ donated'.escrow = donated.escrow \/ escrow.open
  <2>1. CASE \E from, to \in Owners, n \in RecoveryAmounts :
               ProposeRecovery(from, to, n)
    BY <2>1 DEF ProposeRecovery, raiseVars, refundVars, ledgerVars, world,
       outsideVars
  <2>2. CASE \E from \in Owners : VetoRecovery(from) \/ WithdrawRecovery(from)
    BY <2>2 DEF VetoRecovery, WithdrawRecovery, RequestClosed, raiseVars,
       refundVars, ledgerVars, world, outsideVars
  <2>3. CASE RegistryStep
    BY <2>3 DEF RegistryStep, SetInvestor, SetInvestorDemo, KycWritten,
       UpdateConfig, raiseVars, refundVars, ledgerVars, outsideVars
  <2>4. CASE \E n \in DonationAmounts : DonateToEscrow(n) \/ DonateToVault(n)
    BY <2>4 DEF DonateToEscrow, DonateToVault, raiseVars, refundVars,
       ledgerVars, TypeInv, TypeOK, WorldTypeOK
  <2>5. CASE Tick \/ \E o \in AccountOwners :
                        CreateShareAccount(o) \/ CloseShareAccount(o)
    BY <2>5 DEF Tick, CreateShareAccount, CloseShareAccount, raiseVars,
       refundVars, ledgerVars, world, outsideVars
  <2>6. CASE \E o \in Owners, n \in BurnAmounts : BurnOwnShares(o, n)
    BY <2>6 DEF BurnOwnShares, raiseVars, refundVars
  <2>7. CASE UNCHANGED vars
    BY <2>7 DEF vars, raiseVars, refundVars, ledgerVars, world, outsideVars
  <2>8. QED
    BY <2>1, <2>2, <2>3, <2>4, <2>5, <2>6, <2>7 DEF OutsideStep
<1>2. promisePhase' = promisePhase
  BY <1>1 DEF promisePhase
<1>3. promisePhase = "handedOver" => donated'.escrow = donated.escrow
  BY <1>1, HandedOverIsGone
<1>4. QED
  BY <1>1, <1>2, <1>3, PromiseRests

LEMMA InitIsAPromise == Init => Promise!Init
<1> SUFFICES ASSUME Init PROVE Promise!Init
  OBVIOUS
<1>1. promisePhase = "collecting" /\ 0 * Price = 0
  BY ConstantsAreFine, PromisePhases DEF Init
<1>2. promiseHandedOver = 0
  BY <1>1 DEF promiseHandedOver
<1>3. promiseStake = [o \in Owners |-> 0]
  <2>1. \A o \in Owners : position[o].shares = 0
    BY DEF Init, NoPosition
  <2>2. \A o \in Owners : promiseStake[o] = 0
    BY <1>1, <2>1, PromiseStakes
  <2>3. QED
    BY <2>2, PromiseStakes
<1>4. QED
  BY <1>1, <1>2, <1>3 DEF Init, Promise!Init, SharesValue

LEMMA NextIsAPromise ==
  ASSUME TypeInv, LedgerInv, MoneyInv, SupplyWasSold,
         TypeInv', MoneyInv', [Next]_vars
  PROVE  [Promise!Next]_(Promise!promiseVars)
<1>1. CASE RaiseStep
  <2>1. CASE ActivateProject
    BY <2>1, ActivationHandsOver
  <2>2. CASE FinalizeRaise \/ CancelRaise
    BY <2>2, FailureGivesUp
  <2>3. ASSUME NEW o \in Owners, NEW n \in BuyAmounts, BuyShares(o, n)
        PROVE  Promise!Next
    BY <2>3, PurchaseIsAPayment
  <2>4. ASSUME NEW o \in Owners, Refund(o)
        PROVE  Promise!Next
    BY <2>4, RefundReturnsTheStake
  <2>5. QED
    BY <1>1, <2>1, <2>2, <2>3, <2>4 DEF RaiseStep
<1>2. ASSUME NEW from \in Owners, ExecuteRecovery(from)
      PROVE  [Promise!Next]_(Promise!promiseVars)
  BY <1>2, RecoveryChangesHands
<1>3. CASE ManageStep
  BY <1>3, ManagementRests
<1>4. CASE HoldingStep
  BY <1>4, HoldingRests
<1>5. CASE RecoveryStep \/ RegistryStep \/ OutsideStep \/ UNCHANGED vars
  BY <1>2, <1>5, SurroundingsRest DEF RecoveryStep
<1>6. QED
  BY <1>1, <1>3, <1>4, <1>5 DEF Next

(* docs/v2.md, design rules: whatever holders, admin, KYC keys and         *)
(* outsiders do, and for any price, caps and fees, a step of the program   *)
(* either keeps the promise a raise makes to its payers by one of the      *)
(* promise's own steps or does not touch it.                               *)
THEOREM TheEscrowKeepsItsPromise == Spec => EscrowKeepsItsPromise
<1>1. Init => Promise!Init
  BY InitIsAPromise
<1>2. TypeInv /\ LedgerInv /\ MoneyInv /\ SupplyWasSold
        /\ TypeInv' /\ MoneyInv' /\ [Next]_vars
        => [Promise!Next]_(Promise!promiseVars)
  BY NextIsAPromise
<1>3. QED
  BY <1>1, <1>2, TypesAreInvariant, LedgerIsInvariant, MoneyIsInvariant,
     SupplyWasSoldIsInvariant, PTL
  DEF Spec, EscrowKeepsItsPromise, Promise!Spec
=============================================================================
