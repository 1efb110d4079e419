------------------------------- MODULE MC_Kyc -------------------------------
(* Records for TLC's small instances of KycWebhook.                        *)
EXTENDS KycWebhook

NoneOrDemo == {NoRecord, [status |-> "active", provider |-> "demo"]}
ByHand ==
  {[status |-> "frozen", provider |-> "sumsub"],
   [status |-> "active", provider |-> "manual"]}
=============================================================================
