---------------------------- MODULE MC_Indexer ----------------------------
(***************************************************************************)
(* Values for TLC: the chain the database is filled from and another one,  *)
(* such as a local validator after a reset.                                *)
(***************************************************************************)
EXTENDS Indexer

CONSTANTS devnet, localnet

TwoChains == {devnet, localnet}
MCLanded == [c \in TwoChains |-> IF c = devnet THEN 2 ELSE 1]
=============================================================================
