----------------------------- MODULE MC_Escrow -----------------------------
(***************************************************************************)
(* The small instances of MC_Project, for a project's raise and for who    *)
(* comes to hold its shares.  All the circumstances of both at once are    *)
(* too many for TLC, so the constraint Scope bounds how they combine: a    *)
(* state outside of it is checked but not explored further.                *)
(***************************************************************************)
EXTENDS MC_Project, AxelEscrow

(* Any purchases, donations, refunds and recoveries while the escrow       *)
(* exists, by wallets that were verified for long and may be frozen, and   *)
(* that leave their share accounts to the program.                         *)
RaiseScope ==
  /\ escrow.open
  /\ recoveryDelay = MinRecoveryDelay
  /\ \A o \in Owners :
       /\ kyc[o] \in FreezeOrVerify
       /\ burned[o] = 0
       /\ shareAccount[o].exists = position[o].open

(* Any records, recovery delays, share accounts and movements of shares,   *)
(* before and after activation, once one wallet bought the soft cap; no    *)
(* donations, and at most one share burned by its holder.                  *)
CustodyScope ==
  /\ donated = [escrow |-> 0, revenue |-> 0]
  /\ roles = CreationRoles
  /\ sharesSold \in {0, SoftCap}
  /\ \A o \in Owners : position[o].paidIn \in {0, SharesValue(SoftCap, Price)}
  /\ SumFunction(burned) <= 1

Scope == RaiseScope \/ CustodyScope
=============================================================================
