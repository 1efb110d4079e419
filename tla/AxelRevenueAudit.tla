-------------------------- MODULE AxelRevenueAudit --------------------------
(***************************************************************************)
(* An auditor's books beside AxelProject.  The program keeps one floored   *)
(* accumulator and settles positions lazily; the auditor distributes every *)
(* deposit at once and exactly, to the positions as they are at that       *)
(* moment, and compares.  Shares are whole, so the auditor's unit is one   *)
(* payment unit divided by the shares sold, a number that is the same for   *)
(* every deposit because shares are only retired after the last one.       *)
(***************************************************************************)
EXTENDS AxelProject

VARIABLES
  entitled,   \* exact revenue of each wallet, times the shares sold
  paid,       \* what each wallet was paid, over all its positions
  settles     \* settlements of positions that held unsettled revenue

auditVars == <<entitled, paid, settles>>

AuditInit ==
  /\ Init
  /\ entitled = [o \in Owners |-> 0]
  /\ paid = [o \in Owners |-> 0]
  /\ settles = 0

(* A deposit entitles every position in proportion to its shares.          *)
EntitledByDeposit ==
  [o \in Owners |->
     entitled[o] + (totalDepositedNet' - totalDepositedNet) * position[o].shares]

(* What a recovery moved goes from one wallet's books to the other's.      *)
EntitledByRecovery(from) ==
  LET moved == AccruedMoved(position[from], request[from].shares)
                 * sharesSold
  IN [entitled EXCEPT ![from] = @ - moved, ![request[from].to] = @ + moved]

RecoveryStepOf(from) ==
  /\ request[from].pending /\ ~request'[from].pending
  /\ position' # position

WasPaid(o) ==
  IF position[o].open /\ position'[o].open
  THEN position'[o].totalClaimed - position[o].totalClaimed
  ELSE 0

(* Positions a settlement of which would drop a fraction of a unit.        *)
HasFraction(o) ==
  /\ position[o].open
  /\ Earned(position[o]) * One
       # position[o].shares * (accPerShare - position[o].accCheckpoint)

(* The settlements of a step; one that closes the position leaves nothing  *)
(* that could be settled again.                                            *)
SettledInStep ==
  {o \in Owners :
     /\ HasFraction(o)
     /\ \/ position'[o].accCheckpoint # position[o].accCheckpoint
        \/ ~position'[o].open}

BooksKept ==
  /\ entitled' =
       IF \E o \in Owners : RecoveryStepOf(o)
       THEN EntitledByRecovery(CHOOSE o \in Owners : RecoveryStepOf(o))
       ELSE EntitledByDeposit
  /\ paid' = [o \in Owners |-> paid[o] + WasPaid(o)]
  /\ settles' = settles + Cardinality(SettledInStep)

AuditStep == Next /\ BooksKept

AuditSpec == AuditInit /\ [][AuditStep]_<<vars, auditVars>>

(* docs/v2.md, revenue math: no overpayment, per holder.  Nobody is ever   *)
(* paid or owed more than its exact part of the deposits made while it     *)
(* held shares: buying late, transferring, claiming in any order or        *)
(* closing and reopening a position gains nothing.                         *)
NobodyIsOverpaid ==
  \A o \in Owners :
    (paid[o] + Pending(o)) * sharesSold <= entitled[o]

(* docs/v2.md, revenue math: each deposit and each settle loses less than  *)
(* one base unit, so of the deposits the holders miss less than one unit   *)
(* for each deposit and for each settlement, made or outstanding.          *)
DustIsBounded ==
  LET dust == totalDepositedNet - totalClaimed
                - SumFunction([o \in Owners |-> Pending(o)])
      losses == Len(periods) + settles
                  + Cardinality({o \in Owners : HasFraction(o)})
  IN dust > 0 => dust < losses
=============================================================================
