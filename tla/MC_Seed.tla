------------------------------- MODULE MC_Seed -------------------------------
(***************************************************************************)
(* Values for TLC: a plan of one step of each kind.  The first is skipped  *)
(* once its work is on the cluster, the second can be repeated, the third  *)
(* is refused the second time.                                             *)
(***************************************************************************)
EXTENDS SeedExecutor

MCSkippable == {1}
MCGuarded == {1, 3}
=============================================================================
