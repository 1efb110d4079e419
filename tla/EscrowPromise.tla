---------------------------- MODULE EscrowPromise ----------------------------
(***************************************************************************)
(* What a raise promises to the people who pay into it, whatever the       *)
(* program does to keep the promise: money is collected against named      *)
(* stakes, and then either all of it is handed over or every stake is      *)
(* returned in full, never both.  A stake may change hands while the       *)
(* money is held; that moves no money.                                     *)
(***************************************************************************)
EXTENDS Naturals, FiniteSetsExt

CONSTANTS
  Payers,
  Payments     \* the sums that are paid in at a time or change hands

VARIABLES
  phase,       \* "collecting", "handedOver" or "returning"
  stake,       \* what each payer could get back
  collected,   \* everything that was paid in
  returned,    \* everything that was paid back
  handedOver   \* everything that was given to the fleet and the platform

promiseVars == <<phase, stake, collected, returned, handedOver>>

Init ==
  /\ phase = "collecting"
  /\ stake = [p \in Payers |-> 0]
  /\ collected = 0 /\ returned = 0 /\ handedOver = 0

Pay(p, amount) ==
  /\ phase = "collecting"
  /\ stake' = [stake EXCEPT ![p] = @ + amount]
  /\ collected' = collected + amount
  /\ UNCHANGED <<phase, returned, handedOver>>

HandOver ==
  /\ phase = "collecting"
  /\ phase' = "handedOver"
  /\ handedOver' = collected
  /\ stake' = [p \in Payers |-> 0]
  /\ UNCHANGED <<collected, returned>>

GiveUp ==
  /\ phase = "collecting"
  /\ phase' = "returning"
  /\ UNCHANGED <<stake, collected, returned, handedOver>>

Return(p) ==
  /\ phase = "returning"
  /\ returned' = returned + stake[p]
  /\ stake' = [stake EXCEPT ![p] = 0]
  /\ UNCHANGED <<phase, collected, handedOver>>

ChangeHands(p, q, amount) ==
  /\ phase # "handedOver"
  /\ p # q /\ amount <= stake[p]
  /\ stake' = [stake EXCEPT ![p] = @ - amount, ![q] = @ + amount]
  /\ UNCHANGED <<phase, collected, returned, handedOver>>

Next ==
  \/ \E p \in Payers, amount \in Payments : Pay(p, amount)
  \/ HandOver
  \/ GiveUp
  \/ \E p \in Payers : Return(p)
  \/ \E p, q \in Payers, amount \in Payments : ChangeHands(p, q, amount)

Spec == Init /\ [][Next]_promiseVars
=============================================================================
