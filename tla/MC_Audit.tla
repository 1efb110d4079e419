------------------------------ MODULE MC_Audit ------------------------------
(* The small instances of MC_Project, with the auditor's books and the    *)
(* backend's replay.                                                       *)
EXTENDS MC_Project, PayoutReplay
=============================================================================
