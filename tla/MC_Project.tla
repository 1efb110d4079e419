----------------------------- MODULE MC_Project -----------------------------
(***************************************************************************)
(* Values for TLC: wallets, keys and the KYC records of the small          *)
(* instances of AxelProject.  Times are chosen against MaxTime, which no   *)
(* instance sets above 3.                                                  *)
(***************************************************************************)
EXTENDS AxelProject, TLC

CONSTANTS w1, w2, k1, k2

TwoWallets == {w1, w2}
OneWallet == {w1}

(* Wallets are interchangeable wherever every set of them is whole.        *)
AnyWallet == Permutations(Owners)

MCCreationRoles == [operator |-> k1, oracle |-> k2]
MCRoleChanges == {[operator |-> k2, oracle |-> k1]}

LongTerm == 9
Verified == [status |-> "Active", expiresAt |-> LongTerm, demo |-> FALSE]
ShortTerm == [status |-> "Active", expiresAt |-> 2, demo |-> FALSE]
DemoPass == [status |-> "Active", expiresAt |-> 2, demo |-> TRUE]
Frozen == [status |-> "Frozen", expiresAt |-> LongTerm, demo |-> FALSE]

OnlyVerified == {Verified}
LongAndShort == {Verified, ShortTerm}
FreezeOrVerify == {Verified, Frozen}
FreezeVerifyOrDemo == FreezeOrVerify \cup {DemoPass}
=============================================================================
