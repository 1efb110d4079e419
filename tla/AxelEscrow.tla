----------------------------- MODULE AxelEscrow -----------------------------
(***************************************************************************)
(* A project's raise implements EscrowPromise.  A payer's stake is the     *)
(* price of the shares in its ledger entry for as long as the escrow       *)
(* exists; afterwards the shares are worth revenue, not the money paid.    *)
(***************************************************************************)
EXTENDS AxelProject

promisePhase ==
  CASE state \in {"Fundraising", "Funded"} -> "collecting"
    [] state = "Failed" -> "returning"
    [] OTHER -> "handedOver"

promiseStake ==
  [o \in Owners |->
     IF promisePhase = "handedOver" THEN 0
     ELSE SharesValue(position[o].shares, Price)]

(* Tokens nobody paid for shares leave with the raise; they are no part of *)
(* the promise.                                                            *)
promiseHandedOver ==
  IF promisePhase = "handedOver"
  THEN released.amount + released.fee - donated.escrow
  ELSE 0

Promise == INSTANCE EscrowPromise WITH
  Payers <- Owners,
  Payments <- {SharesValue(n, Price) : n \in 1 .. TotalShares},
  phase <- promisePhase,
  stake <- promiseStake,
  collected <- SharesValue(sharesSold, Price),
  returned <- totalRefunded,
  handedOver <- promiseHandedOver

(* docs/v2.md, design rules: the escrow goes to the operator and the       *)
(* treasury on activation, or back to each buyer on refund.  Every step of *)
(* the program is a step of the promise or leaves it as it is, recoveries, *)
(* donations and closed share accounts included.                           *)
EscrowKeepsItsPromise == Promise!Spec
=============================================================================
