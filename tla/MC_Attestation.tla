-------------------------- MODULE MC_Attestation --------------------------
(* Reports for TLC's small instances of Attestation: two that overlap, one *)
(* of them apart from the report of the car's sale.                        *)
EXTENDS Attestation

ThreeReports ==
  {[first |-> 1, last |-> 1, kind |-> "regular"],
   [first |-> 1, last |-> 2, kind |-> "regular"],
   [first |-> 2, last |-> 3, kind |-> "final"]}
=============================================================================
