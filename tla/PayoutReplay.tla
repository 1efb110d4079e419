---------------------------- MODULE PayoutReplay ----------------------------
(***************************************************************************)
(* The backend's payout history (backend/src/indexer/payouts.ts): each     *)
(* wallet's position, replayed from the events the program emits, beside   *)
(* the program itself and the auditor's books.                             *)
(*                                                                         *)
(* A step of AxelProject is taken with the events its instruction emits;   *)
(* module Indexer is about their arriving once and in this order.  The     *)
(* replay never reads an account of the program.  The list of periods and  *)
(* the texts of the answer are left out.                                   *)
(***************************************************************************)
EXTENDS AxelRevenueAudit

VARIABLES
  acc,     \* replayPosition: acc, the same for every wallet
  replay   \* replayPosition: position and claimed, of each wallet

replayVars == <<acc, replay>>

ReplayInit ==
  /\ AuditInit
  /\ acc = 0
  /\ replay = [o \in Owners |->
       [shares |-> 0, checkpoint |-> 0, accrued |-> 0, claimed |-> 0]]
-----------------------------------------------------------------------------
(* What one event makes of one wallet's replay.                            *)

(* owed: in unbounded integers, shifted by Q bits.                         *)
ReplayOwed(r) == (r.shares * (acc - r.checkpoint)) \div One

SettledReplay(r) ==
  [r EXCEPT !.accrued = @ + ReplayOwed(r), !.checkpoint = acc]

OnOpenedOrClosed(r) ==
  [r EXCEPT !.shares = 0, !.checkpoint = acc, !.accrued = 0]

OnPurchased(r, n) == [r EXCEPT !.shares = @ + n]
OnRefunded(r) == [r EXCEPT !.shares = 0]

OnTransferred_Fault(r, delta) == [r EXCEPT !.shares = @ + delta]
OnTransferred(r, delta) == [SettledReplay(r) EXCEPT !.shares = @ + delta]

OnClaimed(r, paidOut) ==
  [SettledReplay(r) EXCEPT !.accrued = 0, !.claimed = @ + paidOut]

OnRecovered(r, delta, moved) ==
  [SettledReplay(r) EXCEPT !.shares = @ + delta, !.accrued = @ + moved]
-----------------------------------------------------------------------------
(* The program's steps with the events they emit.                          *)

(* PositionOpened, whenever an instruction fills in an absent position.    *)
Opening(o) ==
  IF position[o].open THEN replay[o] ELSE OnOpenedOrClosed(replay[o])

ReplayBuy(o, n) ==
  /\ BuyShares(o, n)
  /\ replay' = [replay EXCEPT ![o] = OnPurchased(Opening(o), n)]
  /\ UNCHANGED acc

ReplayRefund(o) ==
  /\ Refund(o)
  /\ replay' = [replay EXCEPT ![o] = OnRefunded(@)]
  /\ UNCHANGED acc

ReplayOpen(o) ==
  /\ OpenPosition(o)
  /\ replay' = [replay EXCEPT ![o] = Opening(o)]
  /\ UNCHANGED acc

ReplayClose(o) ==
  /\ ClosePosition(o)
  /\ replay' = [replay EXCEPT ![o] = OnOpenedOrClosed(@)]
  /\ UNCHANGED acc

ReplayDeposit(gross) ==
  /\ DepositRevenue(gross)
  /\ acc' = accPerShare'
  /\ UNCHANGED replay

ReplayClaim(o) ==
  /\ Claim(o)
  /\ replay' = [replay EXCEPT ![o] = OnClaimed(@, totalClaimed' - totalClaimed)]
  /\ UNCHANGED acc

ReplayTransfer(from, to, n) ==
  /\ Transfer(from, to, n)
  /\ replay' = [replay EXCEPT
       ![from] = OnTransferred(@, -n), ![to] = OnTransferred(@, n)]
  /\ UNCHANGED acc

ReplayRecovery(from) ==
  LET to == request[from].to
      n == request[from].shares
      moved == AccruedMoved(position[from], n)
  IN
  /\ ExecuteRecovery(from)
  /\ replay' = [replay EXCEPT
       ![from] = OnRecovered(@, -n, -moved),
       ![to] = OnRecovered(Opening(to), n, moved)]
  /\ UNCHANGED acc

(* Events of these are not among those of a position.                      *)
OtherRaiseStep == FinalizeRaise \/ ActivateProject \/ CancelRaise

OtherRecoveryStep ==
  \/ \E from, to \in Owners, n \in RecoveryAmounts :
       ProposeRecovery(from, to, n)
  \/ \E from \in Owners : VetoRecovery(from) \/ WithdrawRecovery(from)

ReplayNothing ==
  /\ \/ OtherRaiseStep \/ ManageStep
     \/ OtherRecoveryStep \/ RegistryStep \/ OutsideStep
  /\ UNCHANGED replayVars

ReplayNext ==
  \/ \E o \in Owners, n \in BuyAmounts : ReplayBuy(o, n)
  \/ \E o \in Owners :
       ReplayRefund(o) \/ ReplayOpen(o) \/ ReplayClose(o) \/ ReplayClaim(o)
         \/ ReplayRecovery(o)
  \/ \E gross \in GrossAmounts : ReplayDeposit(gross)
  \/ \E from, to \in Owners, n \in TransferAmounts :
       ReplayTransfer(from, to, n)
  \/ ReplayNothing

ReplaySpec ==
  /\ ReplayInit
  /\ [][ReplayNext /\ BooksKept]_<<vars, auditVars, replayVars>>
-----------------------------------------------------------------------------
(* payouts.ts, replayPosition: the shares, the claims and the pending      *)
(* revenue it answers are what the program holds, paid and would pay now,  *)
(* rounding included, though it settles on events alone and the program    *)
(* reopens, recovers and retires positions.                                *)
ReplayEqualsPosition ==
  \A o \in Owners :
    /\ replay[o].shares = position[o].shares
    /\ replay[o].accrued + ReplayOwed(replay[o]) = Pending(o)
    /\ replay[o].claimed = paid[o]
=============================================================================
