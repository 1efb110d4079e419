------------------------------ MODULE AxelMath ------------------------------
(***************************************************************************)
(* The fixed-point arithmetic of programs/axel-v2/src/math.rs.             *)
(*                                                                         *)
(* The program keeps revenue per share in Q64.64.  Here the fixed-point    *)
(* one is the constant One: 2^64 in the program, small in the model.  The  *)
(* integer widths follow from it exactly as they do in the code, where     *)
(* u64 is the range below one and u128 the range below one squared.  Every *)
(* division floors.  An operation that returns MathResult in the code is   *)
(* a value here together with the condition under which it is Ok.          *)
(*                                                                         *)
(* A definition named X_Fault is what X would be with one plausible bug.   *)
(***************************************************************************)
EXTENDS Integers

CONSTANT One

ASSUME OneAssumption == One \in Nat /\ One > 1

MaxU64 == One - 1
MaxU128 == One * One - 1

U64 == 0 .. MaxU64
U128 == 0 .. MaxU128

BpsDenominator == 10000

(* split_fee: the platform's part of an amount, and what is left of it.    *)
Fee(amount, bps) == (amount * bps) \div BpsDenominator
NetOfFee(amount, bps) == amount - Fee(amount, bps)

(* shares_value: purchase cost, refund and activation gross.               *)
SharesValue(shares, price) == shares * price

(* pro_rata: the part of amount that belongs to part of whole.             *)
ProRata(amount, part, whole) == (amount * part) \div whole

(* acc_increment: what a deposit of net over supply shares adds to the     *)
(* accumulator.  It is an error when supply is zero.                       *)
AccIncrement_Fault(net, supply) == (net \div supply) * One
AccIncrement(net, supply) == (net * One) \div supply

(* owed: revenue earned by shares between a checkpoint and the             *)
(* accumulator.  It is an error when the checkpoint is ahead, when the     *)
(* product leaves u128 or when the result leaves u64.                      *)
Owed_Fault(shares, acc, checkpoint) ==
  (shares * (acc - checkpoint) + One - 1) \div One
Owed(shares, acc, checkpoint) == (shares * (acc - checkpoint)) \div One

OwedIsOk(shares, acc, checkpoint) ==
  /\ checkpoint <= acc
  /\ shares * (acc - checkpoint) <= MaxU128
  /\ Owed(shares, acc, checkpoint) <= MaxU64
=============================================================================
