------------------------------- MODULE MC_Demo -------------------------------
(***************************************************************************)
(* Values for TLC: three requests of any routes for two wallets behind one *)
(* address.  Requests are interchangeable.                                 *)
(***************************************************************************)
EXTENDS DemoLimits, TLC

CONSTANTS w1, w2, r1, r2, r3

MCWallets == {w1, w2}
MCRequests == {r1, r2, r3}
Symmetry == Permutations(MCRequests)
=============================================================================
