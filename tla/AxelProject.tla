---------------------------- MODULE AxelProject ----------------------------
(***************************************************************************)
(* One project of the program axel_v2 (programs/axel-v2/src): a tokenized  *)
(* car from the moment create_project has stored it.                       *)
(*                                                                         *)
(* Every instruction that touches a project is an action that executes     *)
(* atomically, as a Solana transaction does: either all its conditions     *)
(* hold and all its effects happen, or nothing changes.  What the program  *)
(* does not control is here as well: the passing of time, the KYC keys,    *)
(* tokens sent to a vault by anyone, and what a holder can do with its own *)
(* share account through Token-2022 without calling the program.           *)
(*                                                                         *)
(* A definition named X_Fault is what X would be with one plausible bug;   *)
(* nothing uses it here.  README.md says which property catches which.     *)
(*                                                                         *)
(* Left out: hashes and dates an instruction only checks for being well    *)
(* formed, the buyer's own price limit, rent, and roles that are merely    *)
(* payers.                                                                 *)
(***************************************************************************)
EXTENDS AxelMath, Sequences, FiniteSetsExt

CONSTANTS
  Owners,            \* wallets that may hold shares
  Price,             \* project.price_per_share
  TotalShares,       \* project.total_shares
  SoftCap,           \* project.soft_cap_shares
  RaiseDeadline,     \* project.raise_deadline
  ActivationWindow,  \* project.activation_window
  RaiseFeeBps,       \* project.raise_fee_bps, fixed at creation
  RevenueFeeBps,     \* project.revenue_fee_bps, fixed at creation
  AllowsDemo,        \* the project accepts DEMO investors
  CreationRoles,     \* operator and oracle named by create_project
  MinRecoveryDelay,  \* MIN_RECOVERY_DELAY
  MaxDemoDuration    \* MAX_DEMO_KYC_DURATION

(* The inputs the model offers to each instruction, and the bounds on what *)
(* would otherwise grow for ever.                                          *)
CONSTANTS
  InitialKyc,        \* KYC records that may exist before the raise
  KycWrites,         \* records the KYC keys may write later
  PauseValues,       \* values update_config may give to config.paused
  RecoveryDelays,    \* values update_config may give to recovery_delay
  RoleChanges,       \* roles set_project_roles may install
  BuyAmounts,        \* shares of one purchase
  TransferAmounts,   \* shares of one transfer
  RecoveryAmounts,   \* shares of one recovery proposal
  BurnAmounts,       \* shares a holder may burn by itself
  AccountOwners,     \* wallets whose share account is made or closed outside
  GrossAmounts,      \* gross of one revenue deposit
  DonationAmounts,   \* tokens sent to a vault outside of the program
  MaxDonated,        \* bound: tokens donated to one vault
  MaxPeriods,        \* bound: revenue deposits (u32 in the program)
  MaxTime            \* bound: the last instant of the clock

Statuses == {"None", "Active", "Revoked", "Frozen"}

(* An investor record; status "None" stands for a wallet without one,      *)
(* because set_investor never stores that status.                          *)
KycRecord == [status : Statuses, expiresAt : Nat, demo : BOOLEAN]
NoKyc == [status |-> "None", expiresAt |-> 0, demo |-> FALSE]

(* What create_project and validate of the config make sure of.            *)
ASSUME TermsAssumption ==
  /\ Price \in Nat \ {0} /\ TotalShares \in Nat \ {0}
  /\ SoftCap \in 1 .. TotalShares
  /\ TotalShares * Price <= MaxU64
  /\ RaiseDeadline \in Nat \ {0} /\ ActivationWindow \in Nat \ {0}
  /\ RaiseFeeBps \in 0 .. BpsDenominator
  /\ RevenueFeeBps \in 0 .. BpsDenominator
  /\ AllowsDemo \in BOOLEAN
  /\ CreationRoles.operator # CreationRoles.oracle

(* The accounts of a ledger are finitely many.                             *)
ASSUME OwnersAssumption == IsFiniteSet(Owners)

ASSUME InputsAssumption ==
  /\ MinRecoveryDelay \in Nat \ {0} /\ MaxDemoDuration \in Nat
  /\ InitialKyc \subseteq KycRecord /\ InitialKyc # {}
  /\ KycWrites \subseteq KycRecord
  /\ PauseValues \subseteq BOOLEAN
  /\ RecoveryDelays \subseteq Nat /\ RecoveryDelays # {}
  /\ \A d \in RecoveryDelays : d >= MinRecoveryDelay
  /\ BuyAmounts \subseteq Nat /\ TransferAmounts \subseteq Nat
  /\ RecoveryAmounts \subseteq Nat /\ BurnAmounts \subseteq Nat
  /\ AccountOwners \subseteq Owners
  /\ GrossAmounts \subseteq U64 /\ DonationAmounts \subseteq Nat
  /\ MaxDonated \in Nat /\ MaxPeriods \in Nat /\ MaxTime \in Nat

VARIABLES
  now,                \* Clock::unix_timestamp
  paused,             \* config.paused
  recoveryDelay,      \* config.recovery_delay
  kyc,                \* the investor record of each wallet
  roles,              \* project.operator and project.oracle
  state,              \* project.state
  sharesSold, sharesRefunded, sharesRetired,
  activationDeadline,
  accPerShare,        \* revenue per share, in units of 1/One
  totalDepositedNet, totalFees, totalClaimed, totalRefunded,
  periods,            \* the RevenuePeriod accounts, in order
  position,           \* the Position account of each wallet
  shareAccount,       \* the canonical Token-2022 share account of each wallet
  supply,             \* supply of the share mint
  escrow,             \* the escrow vault and its balance
  revenueVault,       \* balance of the revenue vault
  treasury,           \* fees that arrived at the treasury
  released,           \* what activation paid: amount to whom, fee
  request,            \* the pending RecoveryRequest against each wallet
  donated,            \* history: tokens sent to each vault by outsiders
  burned              \* history: shares a holder burned by itself

configVars == <<paused, recoveryDelay>>
outsideVars == <<donated, burned>>
world == <<now, configVars, kyc, outsideVars>>
refundVars == <<sharesRefunded, totalRefunded>>
raiseVars == <<sharesSold, activationDeadline, escrow, released, refundVars>>
revenueVars ==
  <<accPerShare, totalDepositedNet, totalClaimed, periods, revenueVault>>
feeVars == <<totalFees, treasury>>
ledgerVars == <<position, shareAccount, supply, sharesRetired>>

vars ==
  <<world, state, roles, request, raiseVars, revenueVars, feeVars, ledgerVars>>

ProjectStates ==
  {"Fundraising", "Funded", "Operating", "Paused", "Failed", "Closed"}

PositionRecord ==
  [open : BOOLEAN, shares : U64, accCheckpoint : U128, accrued : U64,
   totalClaimed : U64, paidIn : U64]
NoPosition ==
  [open |-> FALSE, shares |-> 0, accCheckpoint |-> 0, accrued |-> 0,
   totalClaimed |-> 0, paidIn |-> 0]

ShareAccountRecord == [exists : BOOLEAN, frozen : BOOLEAN, amount : Nat]
NoShareAccount == [exists |-> FALSE, frozen |-> FALSE, amount |-> 0]
EmptyShareAccount == [exists |-> TRUE, frozen |-> TRUE, amount |-> 0]

RequestRecord ==
  [pending : BOOLEAN, to : Owners, shares : Nat, proposedAt : Nat, eta : Nat]
NoRequest(from) ==
  [pending |-> FALSE, to |-> from, shares |-> 0, proposedAt |-> 0, eta |-> 0]

PeriodRecord ==
  [gross : U64, fee : U64, net : U64, supply : U64, accAfter : U128]

Init ==
  /\ now = 0
  /\ paused = FALSE
  /\ recoveryDelay \in RecoveryDelays
  /\ kyc \in [Owners -> InitialKyc]
  /\ roles = CreationRoles
  /\ state = "Fundraising"
  /\ sharesSold = 0 /\ sharesRefunded = 0 /\ sharesRetired = 0
  /\ activationDeadline = 0
  /\ accPerShare = 0
  /\ totalDepositedNet = 0 /\ totalFees = 0
  /\ totalClaimed = 0 /\ totalRefunded = 0
  /\ periods = <<>>
  /\ position = [o \in Owners |-> NoPosition]
  /\ shareAccount = [o \in Owners |-> NoShareAccount]
  /\ supply = 0
  /\ escrow = [open |-> TRUE, amount |-> 0]
  /\ revenueVault = 0
  /\ treasury = 0
  /\ released = [to |-> CreationRoles.operator, amount |-> 0, fee |-> 0]
  /\ request = [o \in Owners |-> NoRequest(o)]
  /\ donated = [escrow |-> 0, revenue |-> 0]
  /\ burned = [o \in Owners |-> 0]
-----------------------------------------------------------------------------
(* Helpers shared by the instructions.                                     *)

(* Investor::require_eligible: why a wallet may acquire shares.            *)
Eligible_Fault(o) == kyc[o].status = "Active" /\ (kyc[o].demo => AllowsDemo)
Eligible(o) ==
  /\ kyc[o].status = "Active"
  /\ kyc[o].expiresAt > now
  /\ kyc[o].demo => AllowsDemo

(* A sanctions freeze holds payouts; so does a missing record, because the *)
(* instructions that pay load it.                                          *)
MayBePaid(o) == kyc[o].status \notin {"None", "Frozen"}

(* Project::outstanding_shares.                                            *)
OutstandingShares == sharesSold - sharesRefunded - sharesRetired

(* Position::new and init_if_needed: an absent position starts empty, at   *)
(* the current accumulator, so it earns only later revenue.                *)
OpenedPosition(o) ==
  IF position[o].open THEN position[o]
  ELSE [NoPosition EXCEPT !.open = TRUE, !.accCheckpoint = accPerShare]

(* The canonical share account, created frozen if it does not exist.       *)
CanonicalAccount(o) ==
  IF shareAccount[o].exists THEN shareAccount[o] ELSE EmptyShareAccount

(* thaw_if_frozen.                                                         *)
Thawed(account) == [account EXCEPT !.frozen = FALSE]

(* The ledger check before and after every movement of shares.             *)
LedgerMatches(account, pos) == account.amount = pos.shares

(* Position::settle and the conditions under which it succeeds.            *)
Earned(pos) == Owed(pos.shares, accPerShare, pos.accCheckpoint)

SettleIsOk(pos) ==
  /\ OwedIsOk(pos.shares, accPerShare, pos.accCheckpoint)
  /\ pos.accrued + Earned(pos) <= MaxU64

Settled(pos) ==
  [pos EXCEPT !.accrued = @ + Earned(pos), !.accCheckpoint = accPerShare]
-----------------------------------------------------------------------------
(* Raise: buy_shares, finalize_raise, activate_project, cancel_raise.      *)

(* Shares still for sale.                                                  *)
SharesLeft_Fault(n) == sharesSold < TotalShares
SharesLeft(n) == sharesSold + n <= TotalShares

RaiseIsOpen == state = "Fundraising" /\ now < RaiseDeadline

(* buy_shares: the cost goes into the escrow, the shares are minted to the *)
(* owner's thawed canonical account and entered in its position; selling   *)
(* the last share funds the raise at once.                                 *)
BuyShares(o, n) ==
  LET cost == SharesValue(n, Price)
      pos == OpenedPosition(o)
      account == CanonicalAccount(o)
  IN
  /\ ~paused
  /\ RaiseIsOpen
  /\ n > 0
  /\ Eligible(o)
  /\ SharesLeft(n)
  /\ cost <= MaxU64
  /\ LedgerMatches(account, pos)
  /\ pos.shares + n <= MaxU64 /\ pos.paidIn + cost <= MaxU64
  /\ escrow' = [escrow EXCEPT !.amount = @ + cost]
  /\ shareAccount' =
       [shareAccount EXCEPT ![o] = [Thawed(account) EXCEPT !.amount = @ + n]]
  /\ supply' = supply + n
  /\ position' = [position EXCEPT
       ![o] = [pos EXCEPT !.shares = @ + n, !.paidIn = @ + cost]]
  /\ sharesSold' = sharesSold + n
  /\ IF sharesSold + n = TotalShares
     THEN /\ state' = "Funded"
          /\ activationDeadline' = now + ActivationWindow
     ELSE UNCHANGED <<state, activationDeadline>>
  /\ UNCHANGED <<world, roles, request, revenueVars, feeVars, refundVars,
                 sharesRetired, released>>

RaiseIsOver == now >= RaiseDeadline
SoldOut == sharesSold = TotalShares
SoftCapMet == sharesSold >= SoftCap
ActivationExpired_Fault == ~paused /\ now > activationDeadline
ActivationExpired == now > activationDeadline

(* finalize_raise of a raise that reached its soft cap.                    *)
FinalizeFunded ==
  /\ state = "Fundraising"
  /\ SoftCapMet /\ (SoldOut \/ RaiseIsOver)
  /\ state' = "Funded"
  /\ activationDeadline' = now + ActivationWindow

(* finalize_raise of a raise that ended below its soft cap.                *)
FinalizeFailed ==
  /\ state = "Fundraising"
  /\ RaiseIsOver /\ ~SoftCapMet
  /\ state' = "Failed"
  /\ UNCHANGED activationDeadline

(* finalize_raise of a funded raise nobody activated in time.              *)
FinalizeExpired ==
  /\ state = "Funded"
  /\ ActivationExpired
  /\ state' = "Failed"
  /\ UNCHANGED activationDeadline

(* finalize_raise: anyone may call it and no pause blocks it.              *)
FinalizeRaise ==
  /\ FinalizeFunded \/ FinalizeFailed \/ FinalizeExpired
  /\ UNCHANGED <<world, roles, request, revenueVars, feeVars, ledgerVars,
                 refundVars, sharesSold, escrow, released>>

MayActivate_Fault == now <= activationDeadline
MayActivate == state = "Funded" /\ now <= activationDeadline

(* activate_project: the fee goes to the treasury, everything else in the  *)
(* escrow to the operator, donations included, and the escrow is closed.   *)
ActivateProject ==
  LET gross == SharesValue(OutstandingShares, Price)
      fee == Fee(gross, RaiseFeeBps)
  IN
  /\ ~paused
  /\ MayActivate
  /\ gross \in U64
  /\ escrow.amount >= gross
  /\ totalFees + fee <= MaxU64
  /\ state' = "Operating"
  /\ escrow' = [open |-> FALSE, amount |-> 0]
  /\ treasury' = treasury + fee
  /\ released' =
       [to |-> roles.operator, amount |-> escrow.amount - fee, fee |-> fee]
  /\ totalFees' = totalFees + fee
  /\ UNCHANGED <<world, roles, request, revenueVars, ledgerVars, refundVars,
                 sharesSold, activationDeadline>>

(* cancel_raise: from here the escrow can only flow back.                  *)
CancelRaise ==
  /\ state \in {"Fundraising", "Funded"}
  /\ state' = "Failed"
  /\ UNCHANGED <<world, roles, request, raiseVars, revenueVars, feeVars,
                 ledgerVars>>

RefundIsOpen_Fault == state = "Failed" /\ ~paused
RefundIsOpen == state = "Failed"

(* A refund is what the shares cost, whoever holds them now.               *)
RefundAmount_Fault(pos) == pos.paidIn
RefundAmount_KeepsFee(pos) ==
  NetOfFee(SharesValue(pos.shares, Price), RaiseFeeBps)
RefundAmount(pos) == SharesValue(pos.shares, Price)

(* What refund burns, and what the holder keeps on record.                 *)
RefundedPosition_Fault(pos) == pos
RefundedPosition(pos) == [pos EXCEPT !.shares = 0]

(* refund: burns all the owner's shares and pays exactly what they cost.   *)
Refund(o) ==
  LET n == position[o].shares
      amount == RefundAmount(position[o])
  IN
  /\ position[o].open /\ shareAccount[o].exists
  /\ RefundIsOpen
  /\ n > 0
  /\ MayBePaid(o)
  /\ LedgerMatches(shareAccount[o], position[o])
  /\ amount <= MaxU64
  /\ escrow.amount >= amount
  /\ supply >= n
  /\ sharesRefunded + n <= MaxU64 /\ totalRefunded + amount <= MaxU64
  /\ shareAccount' = [shareAccount EXCEPT ![o].amount = @ - n]
  /\ supply' = supply - n
  /\ escrow' = [escrow EXCEPT !.amount = @ - amount]
  /\ position' = [position EXCEPT ![o] = RefundedPosition(@)]
  /\ sharesRefunded' = sharesRefunded + n
  /\ totalRefunded' = totalRefunded + amount
  /\ UNCHANGED <<world, state, roles, request, revenueVars, feeVars,
                 sharesSold, activationDeadline, sharesRetired, released>>
-----------------------------------------------------------------------------
(* Management by the admin: pause, resume, set_roles, close.               *)

ManagedUnchanged ==
  UNCHANGED <<world, request, raiseVars, revenueVars, feeVars, ledgerVars>>

PauseProject ==
  /\ state = "Operating"
  /\ state' = "Paused"
  /\ UNCHANGED roles
  /\ ManagedUnchanged

ResumeProject ==
  /\ state = "Paused"
  /\ state' = "Operating"
  /\ UNCHANGED roles
  /\ ManagedUnchanged

(* Roles stay as they are until activation, which pays the operator.       *)
RolesAreChangeable == state \in {"Operating", "Paused"}

SetRoles(newRoles) ==
  /\ RolesAreChangeable
  /\ newRoles.operator # newRoles.oracle
  /\ roles' = newRoles
  /\ UNCHANGED state
  /\ ManagedUnchanged

CloseProject ==
  /\ state \in {"Operating", "Paused"}
  /\ totalDepositedNet >= totalClaimed
  /\ state' = "Closed"
  /\ UNCHANGED roles
  /\ ManagedUnchanged
-----------------------------------------------------------------------------
(* Positions: open_position, close_position.                               *)

(* open_position: onboards an eligible wallet; again, it changes nothing   *)
(* but thaws an account that was created anew.                             *)
OpenPosition(o) ==
  LET account == CanonicalAccount(o)
  IN
  /\ state \in {"Fundraising", "Operating"}
  /\ Eligible(o)
  /\ LedgerMatches(account, OpenedPosition(o))
  /\ position' = [position EXCEPT ![o] = OpenedPosition(o)]
  /\ shareAccount' = [shareAccount EXCEPT ![o] = Thawed(account)]
  /\ UNCHANGED <<world, state, roles, request, raiseVars, revenueVars,
                 feeVars, sharesRetired, supply>>

(* Shares may go only once the project has closed.                         *)
MayCloseWith(n) ==
  \/ state = "Closed"
  \/ state \in {"Operating", "Paused", "Failed"} /\ n = 0

NothingUnclaimed_Fault(pos) == pos.accrued = 0
NothingUnclaimed(pos) == SettleIsOk(pos) /\ Settled(pos).accrued = 0

(* close_position: burns what is left, closes the share account, which is  *)
(* created anew if the owner closed it, and the position.                  *)
ClosePosition(o) ==
  LET n == position[o].shares
  IN
  /\ position[o].open
  /\ MayCloseWith(n)
  /\ NothingUnclaimed(position[o])
  /\ LedgerMatches(CanonicalAccount(o), position[o])
  /\ supply >= n
  /\ sharesRetired + n <= MaxU64
  /\ position' = [position EXCEPT ![o] = NoPosition]
  /\ shareAccount' = [shareAccount EXCEPT ![o] = NoShareAccount]
  /\ supply' = supply - n
  /\ sharesRetired' = sharesRetired + n
  /\ UNCHANGED <<world, state, roles, request, raiseVars, revenueVars,
                 feeVars>>
-----------------------------------------------------------------------------
(* Revenue: deposit_revenue, claim.                                        *)

(* What the operator pays into the revenue vault.                          *)
PaidToVault_Fault(gross) == gross
PaidToVault(gross) == NetOfFee(gross, RevenueFeeBps)

AccAfter(net) == accPerShare + AccIncrement(net, OutstandingShares)

(* deposit_revenue: the fee to the treasury, the net to the revenue vault  *)
(* and into the accumulator, with a record of the period.                  *)
DepositRevenue(gross) ==
  LET fee == Fee(gross, RevenueFeeBps)
      net == NetOfFee(gross, RevenueFeeBps)
  IN
  /\ ~paused
  /\ state = "Operating"
  /\ gross > 0
  /\ OutstandingShares > 0
  /\ AccAfter(net) <= MaxU128
  /\ totalDepositedNet + net <= MaxU64
  /\ totalFees + fee <= MaxU64
  /\ Len(periods) < MaxPeriods
  /\ accPerShare' = AccAfter(net)
  /\ totalDepositedNet' = totalDepositedNet + net
  /\ totalFees' = totalFees + fee
  /\ periods' = Append(periods,
       [gross |-> gross, fee |-> fee, net |-> net,
        supply |-> OutstandingShares, accAfter |-> AccAfter(net)])
  /\ revenueVault' = revenueVault + PaidToVault(gross)
  /\ treasury' = treasury + fee
  /\ UNCHANGED <<world, state, roles, request, raiseVars, ledgerVars,
                 totalClaimed>>

ClaimedPosition(pos) ==
  [Settled(pos) EXCEPT !.accrued = 0, !.totalClaimed = @ + Settled(pos).accrued]

(* Claims stay open for good once the project has operated.                *)
ClaimsAreOpen_Fault == state \in {"Operating", "Paused"}
ClaimsAreOpen == state \in {"Operating", "Paused", "Closed"}

(* claim: anyone may trigger it; it pays the owner's settled revenue.      *)
Claim(o) ==
  LET amount == Settled(position[o]).accrued
  IN
  /\ position[o].open
  /\ ClaimsAreOpen
  /\ MayBePaid(o)
  /\ SettleIsOk(position[o])
  /\ amount > 0
  /\ revenueVault >= amount
  /\ position[o].totalClaimed + amount <= MaxU64
  /\ totalClaimed + amount <= MaxU64
  /\ position' = [position EXCEPT ![o] = ClaimedPosition(@)]
  /\ revenueVault' = revenueVault - amount
  /\ totalClaimed' = totalClaimed + amount
  /\ UNCHANGED <<world, state, roles, request, raiseVars, feeVars,
                 sharesRetired, accPerShare, totalDepositedNet, periods,
                 shareAccount, supply>>
-----------------------------------------------------------------------------
(* Transfers: execute, the hook Token-2022 calls after it moved a balance. *)

(* What the hook leaves in the ledger of the two sides.                    *)
Sent(pos, n) == [Settled(pos) EXCEPT !.shares = @ - n]
Received_Fault(pos, n) == [pos EXCEPT !.shares = @ + n]
Received(pos, n) == [Settled(pos) EXCEPT !.shares = @ + n]

(* A transfer of Token-2022 with its hook.  Token-2022 moves shares only   *)
(* between thawed accounts and does not call the hook when source and      *)
(* destination are one account, so the two owners differ.                  *)
Transfer(from, to, n) ==
  LET source == [shareAccount[from] EXCEPT !.amount = @ - n]
      destination == [shareAccount[to] EXCEPT !.amount = @ + n]
  IN
  /\ from # to
  /\ shareAccount[from].exists /\ ~shareAccount[from].frozen
  /\ shareAccount[to].exists /\ ~shareAccount[to].frozen
  /\ shareAccount[from].amount >= n
  /\ ~paused
  /\ state = "Operating"
  /\ Eligible(from) /\ Eligible(to)
  /\ position[from].open /\ position[to].open
  /\ SettleIsOk(position[from]) /\ SettleIsOk(position[to])
  /\ position[from].shares >= n
  /\ position[to].shares + n <= MaxU64
  /\ LedgerMatches(source, Sent(position[from], n))
  /\ LedgerMatches(destination, Received(position[to], n))
  /\ shareAccount' = [shareAccount EXCEPT ![from] = source, ![to] = destination]
  /\ position' = [position EXCEPT 
       ![from] = Sent(position[from], n), ![to] = Received(position[to], n)]
  /\ UNCHANGED <<world, state, roles, request, raiseVars, revenueVars,
                 feeVars, sharesRetired, supply>>
-----------------------------------------------------------------------------
(* Recovery: propose_recovery, cancel_recovery, execute_recovery.          *)

ReadyAt_Fault == now
ReadyAt == now + recoveryDelay

(* propose_recovery: the admin; one request per wallet can be pending.     *)
ProposeRecovery(from, to, n) ==
  /\ ~request[from].pending
  /\ ~paused
  /\ from # to
  /\ n > 0
  /\ kyc[from].status \notin {"None", "Frozen"}
  /\ position[from].open /\ position[from].shares >= n
  /\ Eligible(to)
  /\ request' = [request EXCEPT ![from] =
       [pending |-> TRUE, to |-> to, shares |-> n,
        proposedAt |-> now, eta |-> ReadyAt]]
  /\ UNCHANGED <<world, state, roles, raiseVars, revenueVars, feeVars,
                 ledgerVars>>

RequestClosed(from) ==
  /\ request' = [request EXCEPT ![from] = NoRequest(from)]
  /\ UNCHANGED <<world, state, roles, raiseVars, revenueVars, feeVars,
                 ledgerVars>>

(* cancel_recovery by the owner whose shares would move.                   *)
VetoRecovery(from) ==
  /\ request[from].pending
  /\ now < request[from].eta
  /\ RequestClosed(from)

(* cancel_recovery by the admin.                                           *)
WithdrawRecovery(from) ==
  /\ request[from].pending
  /\ RequestClosed(from)

RecoveryIsReady(from) == request[from].pending /\ now >= request[from].eta

(* The freeze must not be lifted by moving the holding elsewhere.          *)
MayBeRecovered_Fault(from) == kyc[from].status # "None"
MayBeRecovered(from) == kyc[from].status \notin {"None", "Frozen"}

AccruedMoved(pos, n) == ProRata(Settled(pos).accrued, n, pos.shares)

(* What a recovery leaves in the ledger of the two wallets.                *)
RecoveredFrom(pos, n) ==
  [Sent(pos, n) EXCEPT !.accrued = @ - AccruedMoved(pos, n)]
RecoveredTo_Fault(pos, n, moved) == [Settled(pos) EXCEPT !.accrued = @ + moved]
RecoveredTo(pos, n, moved) ==
  [Received(pos, n) EXCEPT !.accrued = @ + moved]

(* reissue_shares: burns from one wallet and mints as many to the other.   *)
SupplyAfterReissue_Fault(n) == supply + n
SupplyAfterReissue(n) == supply - n + n

(* execute_recovery: anyone may call it once the delay has passed.         *)
ExecuteRecovery(from) ==
  LET to == request[from].to
      n == request[from].shares
      toPosition == OpenedPosition(to)
      toAccount == CanonicalAccount(to)
      moved == AccruedMoved(position[from], n)
  IN
  /\ ~paused
  /\ RecoveryIsReady(from)
  /\ MayBeRecovered(from)
  /\ Eligible(to)
  /\ position[from].open /\ shareAccount[from].exists
  /\ position[from].shares >= n
  /\ LedgerMatches(shareAccount[from], position[from])
  /\ LedgerMatches(toAccount, toPosition)
  /\ SettleIsOk(position[from]) /\ SettleIsOk(toPosition)
  /\ toPosition.shares + n <= MaxU64
  /\ Settled(toPosition).accrued + moved <= MaxU64
  /\ supply >= n
  /\ position' = [position EXCEPT
       ![from] = RecoveredFrom(position[from], n),
       ![to] = RecoveredTo(toPosition, n, moved)]
  /\ shareAccount' = [shareAccount EXCEPT
       ![from].amount = @ - n,
       ![to] = [Thawed(toAccount) EXCEPT !.amount = @ + n]]
  /\ supply' = SupplyAfterReissue(n)
  /\ request' = [request EXCEPT ![from] = NoRequest(from)]
  /\ UNCHANGED <<world, state, roles, raiseVars, revenueVars, feeVars,
                 sharesRetired>>
-----------------------------------------------------------------------------
(* The rest of the program a project depends on: set_investor and          *)
(* update_config.                                                          *)

RecordIsValid(record) ==
  /\ record.status # "None"
  /\ record.status = "Active" => record.expiresAt > now

(* What the demo KYC key may write, and over which records.                *)
InDemoScope(o, record) ==
  /\ record.demo
  /\ record.status # "Frozen"
  /\ record.expiresAt <= now + MaxDemoDuration
  /\ \/ kyc[o].status = "None"
     \/ kyc[o].demo /\ kyc[o].status # "Frozen"

KycWritten(o, record) ==
  /\ RecordIsValid(record)
  /\ kyc' = [kyc EXCEPT ![o] = record]
  /\ UNCHANGED <<now, configVars, outsideVars, state, roles, request,
                 raiseVars, revenueVars, feeVars, ledgerVars>>

(* set_investor signed by the KYC key.                                     *)
SetInvestor(o, record) == KycWritten(o, record)

(* set_investor signed by the demo KYC key.                                *)
SetInvestorDemo(o, record) ==
  /\ InDemoScope(o, record)
  /\ KycWritten(o, record)

(* update_config: the pause flag and the delay of future recoveries.       *)
UpdateConfig(pause, delay) ==
  /\ paused' = pause
  /\ recoveryDelay' = delay
  /\ UNCHANGED <<now, kyc, outsideVars, state, roles, request, raiseVars,
                 revenueVars, feeVars, ledgerVars>>
-----------------------------------------------------------------------------
(* What happens around the program.                                        *)

(* The cluster's clock.                                                    *)
Tick ==
  /\ now < MaxTime
  /\ now' = now + 1
  /\ UNCHANGED <<configVars, kyc, outsideVars, state, roles, request,
                 raiseVars, revenueVars, feeVars, ledgerVars>>

(* Anyone can send payment tokens to the two vaults.                       *)
DonateToEscrow(n) ==
  /\ escrow.open
  /\ n > 0 /\ donated.escrow + n <= MaxDonated
  /\ escrow' = [escrow EXCEPT !.amount = @ + n]
  /\ donated' = [donated EXCEPT !.escrow = @ + n]
  /\ UNCHANGED <<now, configVars, kyc, state, roles, request, revenueVars,
                 feeVars, ledgerVars, refundVars, sharesSold,
                 activationDeadline, released, burned>>

DonateToVault(n) ==
  /\ n > 0 /\ donated.revenue + n <= MaxDonated
  /\ revenueVault' = revenueVault + n
  /\ donated' = [donated EXCEPT !.revenue = @ + n]
  /\ UNCHANGED <<now, configVars, kyc, state, roles, request, raiseVars,
                 feeVars, ledgerVars, accPerShare, totalDepositedNet,
                 periods, totalClaimed, burned>>

(* Anyone can create a wallet's canonical share account; it starts frozen. *)
CreateShareAccount(o) ==
  /\ ~shareAccount[o].exists
  /\ shareAccount' = [shareAccount EXCEPT ![o] = EmptyShareAccount]
  /\ UNCHANGED <<world, state, roles, request, raiseVars, revenueVars,
                 feeVars, sharesRetired, position, supply>>

(* A wallet can close its own share account once it is empty.              *)
CloseShareAccount(o) ==
  /\ shareAccount[o].exists
  /\ shareAccount[o].amount = 0
  /\ shareAccount' = [shareAccount EXCEPT ![o] = NoShareAccount]
  /\ UNCHANGED <<world, state, roles, request, raiseVars, revenueVars,
                 feeVars, sharesRetired, position, supply>>

(* Token-2022 lets the owner of a thawed account burn from it; no hook     *)
(* runs, so the program does not learn of it.                              *)
BurnOwnShares(o, n) ==
  /\ shareAccount[o].exists /\ ~shareAccount[o].frozen
  /\ n > 0 /\ shareAccount[o].amount >= n
  /\ supply >= n
  /\ shareAccount' = [shareAccount EXCEPT ![o].amount = @ - n]
  /\ supply' = supply - n
  /\ burned' = [burned EXCEPT ![o] = @ + n]
  /\ UNCHANGED <<now, configVars, kyc, state, roles, request, raiseVars,
                 revenueVars, feeVars, sharesRetired, position, donated>>
-----------------------------------------------------------------------------
RaiseStep ==
  \/ \E o \in Owners, n \in BuyAmounts : BuyShares(o, n)
  \/ FinalizeRaise
  \/ ActivateProject
  \/ CancelRaise
  \/ \E o \in Owners : Refund(o)

ManageStep ==
  \/ PauseProject
  \/ ResumeProject
  \/ \E newRoles \in RoleChanges : SetRoles(newRoles)
  \/ CloseProject

HoldingStep ==
  \/ \E o \in Owners : OpenPosition(o)
  \/ \E o \in Owners : ClosePosition(o)
  \/ \E gross \in GrossAmounts : DepositRevenue(gross)
  \/ \E o \in Owners : Claim(o)
  \/ \E from, to \in Owners, n \in TransferAmounts : Transfer(from, to, n)

RecoveryStep ==
  \/ \E from, to \in Owners, n \in RecoveryAmounts :
       ProposeRecovery(from, to, n)
  \/ \E from \in Owners : VetoRecovery(from)
  \/ \E from \in Owners : WithdrawRecovery(from)
  \/ \E from \in Owners : ExecuteRecovery(from)

RegistryStep ==
  \/ \E o \in Owners, record \in KycWrites : SetInvestor(o, record)
  \/ \E o \in Owners, record \in KycWrites : SetInvestorDemo(o, record)
  \/ \E pause \in PauseValues, delay \in RecoveryDelays :
       UpdateConfig(pause, delay)

OutsideStep ==
  \/ Tick
  \/ \E n \in DonationAmounts : DonateToEscrow(n)
  \/ \E n \in DonationAmounts : DonateToVault(n)
  \/ \E o \in AccountOwners : CreateShareAccount(o)
  \/ \E o \in AccountOwners : CloseShareAccount(o)
  \/ \E o \in Owners, n \in BurnAmounts : BurnOwnShares(o, n)

Next ==
  \/ RaiseStep
  \/ ManageStep
  \/ HoldingStep
  \/ RecoveryStep
  \/ RegistryStep
  \/ OutsideStep

Spec == Init /\ [][Next]_vars

(* Time passes; finalize_raise and claim need nobody's permission, so      *)
(* someone with an interest calls them; a holder signs its own refund.     *)
(* Nothing is assumed of the admin, of the KYC keys or of the fleet.       *)
FairSpec ==
  /\ Spec
  /\ WF_vars(Tick)
  /\ WF_vars(FinalizeRaise)
  /\ \A o \in Owners : WF_vars(Refund(o)) /\ WF_vars(Claim(o))
-----------------------------------------------------------------------------
(* Type invariant.                                                         *)

WorldTypeOK ==
  /\ now \in Nat
  /\ paused \in BOOLEAN
  /\ recoveryDelay \in RecoveryDelays
  /\ kyc \in [Owners -> KycRecord]
  /\ donated \in [escrow : Nat, revenue : Nat]
  /\ burned \in [Owners -> Nat]

RaiseTypeOK ==
  /\ sharesSold \in 0 .. TotalShares
  /\ sharesRefunded \in U64
  /\ totalRefunded \in U64
  /\ activationDeadline \in Nat
  /\ escrow \in [open : BOOLEAN, amount : Nat]
  /\ released.amount \in Nat /\ released.fee \in Nat

RevenueTypeOK ==
  /\ accPerShare \in U128
  /\ totalDepositedNet \in U64
  /\ totalClaimed \in U64
  /\ periods \in Seq(PeriodRecord)
  /\ revenueVault \in Nat

FeeTypeOK == totalFees \in U64 /\ treasury \in Nat

LedgerTypeOK ==
  /\ position \in [Owners -> PositionRecord]
  /\ shareAccount \in [Owners -> ShareAccountRecord]
  /\ supply \in Nat
  /\ sharesRetired \in U64

TypeOK ==
  /\ WorldTypeOK
  /\ state \in ProjectStates
  /\ roles \in RoleChanges \cup {CreationRoles}
  /\ request \in [Owners -> RequestRecord]
  /\ RaiseTypeOK
  /\ RevenueTypeOK
  /\ FeeTypeOK
  /\ LedgerTypeOK
-----------------------------------------------------------------------------
(* Safety invariants.                                                      *)

(* Revenue a position could claim right now.                               *)
Pending(o) ==
  IF position[o].open THEN position[o].accrued + Earned(position[o]) ELSE 0

(* I1 of docs/v2.md: whatever the rounding, the holders together are never *)
(* owed more than was deposited for them and not yet paid.                 *)
OwedIsCovered ==
  SumFunction([o \in Owners |-> Pending(o)]) <= totalDepositedNet - totalClaimed

SharesHeld == SumFunction([o \in Owners |-> position[o].shares])

(* I2 of docs/v2.md: the positions add up to the shares sold and neither   *)
(* refunded nor retired, and so does the mint's supply, up to the shares   *)
(* that holders burned without the program.                                *)
SharesAddUp ==
  /\ SharesHeld = OutstandingShares
  /\ supply + SumFunction(burned) = OutstandingShares

(* I3 of docs/v2.md as the program keeps it: a position is what its share  *)
(* account holds plus what the owner burned outside of the program.        *)
LedgerCoversBalances ==
  \A o \in Owners :
    position[o].shares = shareAccount[o].amount + burned[o]

(* I4 of docs/v2.md with outsiders' tokens told apart: while the escrow    *)
(* exists it holds the price of every share sold and not refunded, and it  *)
(* exists exactly until activation.                                        *)
EscrowIsExact ==
  /\ escrow.open <=> state \in {"Fundraising", "Funded", "Failed"}
  /\ escrow.open =>
       escrow.amount = (sharesSold - sharesRefunded) * Price + donated.escrow

(* The revenue vault holds what was deposited and not claimed.             *)
VaultIsExact ==
  revenueVault = totalDepositedNet - totalClaimed + donated.revenue

(* Activation pays out the whole escrow once: the raise fee to the         *)
(* treasury, the rest to the operator the project was created with, even   *)
(* if the roles change right afterwards.                                   *)
ReleaseIsExact ==
  ~escrow.open =>
    /\ released.to = CreationRoles.operator
    /\ released.fee = Fee(SharesValue(sharesSold, Price), RaiseFeeBps)
    /\ released.amount + released.fee
         = SharesValue(sharesSold, Price) + donated.escrow

(* I5 of docs/v2.md: no checkpoint is ahead of the accumulator.            *)
CheckpointsBehind ==
  \A o \in Owners : position[o].accCheckpoint <= accPerShare

(* share_account.rs: an account that can send or receive shares has a      *)
(* ledger entry, and a frozen one holds nothing.                           *)
ThawedAccountsHavePositions ==
  \A o \in Owners :
    /\ shareAccount[o].exists /\ ~shareAccount[o].frozen => position[o].open
    /\ shareAccount[o].frozen \/ ~shareAccount[o].exists
         => shareAccount[o].amount = 0

(* math.rs, overflow bound: settling a position never fails, whatever the  *)
(* deposits, so neither a claim nor a transfer can be blocked by           *)
(* arithmetic, and the vault can pay all the claims, in any order.         *)
ClaimsNeverFail ==
  /\ OwedIsCovered
  /\ \A o \in Owners : position[o].open =>
       /\ SettleIsOk(position[o])
       /\ Pending(o) <= revenueVault
       /\ position[o].totalClaimed + Pending(o) <= MaxU64
       /\ totalClaimed + Pending(o) <= MaxU64

(* A failed raise can refund every holder whose ledger entry is intact: no *)
(* order of refunds, recoveries and donations leaves the escrow short, and *)
(* no counter of the refund is ever at its limit.                          *)
RefundsNeverFail ==
  state = "Failed" =>
    /\ escrow.amount >= SharesHeld * Price
    /\ \A o \in Owners :
         LET n == position[o].shares
             amount == SharesValue(n, Price)
         IN n > 0 /\ burned[o] = 0 =>
              /\ LedgerMatches(shareAccount[o], position[o])
              /\ shareAccount[o].exists /\ ~shareAccount[o].frozen
              /\ amount <= MaxU64 /\ escrow.amount >= amount /\ supply >= n
              /\ sharesRefunded + n <= MaxU64
              /\ totalRefunded + amount <= MaxU64
-----------------------------------------------------------------------------
(* Action properties.                                                      *)

(* docs/v2.md, share mint: the supply never grows after the raise.         *)
SupplyNeverGrowsAfterRaise ==
  [][state # "Fundraising" => supply' <= supply]_vars

(* Revenue a holder has earned leaves its position only when it is paid to *)
(* it or moves with its recovered shares.  A transfer, a purchase, a       *)
(* refund or a closing can neither lose nor shift a unit of it.            *)
RevenueLeavesOnlyByPayment ==
  [][\A o \in Owners : Pending(o)' < Pending(o) =>
       \/ totalClaimed' = totalClaimed + Pending(o)
       \/ /\ request[o].pending /\ ~request'[o].pending
          /\ \E to \in Owners :
               /\ to = request[o].to
               /\ Pending(o) + Pending(to) = Pending(o)' + Pending(to)']_vars

(* The signatures a step needs that takes shares from a position.          *)
OwnerSigned(o) ==
  \/ Refund(o)
  \/ ClosePosition(o)
  \/ \E to \in Owners, n \in TransferAmounts : Transfer(o, to, n)

(* docs/v2.md, recovery: without its owner's signature a position loses    *)
(* shares only to the wallet a recovery named, as many as it named, and    *)
(* not before the owner had the shortest veto window the program allows.   *)
SharesLeaveOnlyByOwnerOrRecovery ==
  [][\A o \in Owners : position'[o].shares < position[o].shares =>
       \/ OwnerSigned(o)
       \/ /\ request[o].pending /\ ~request'[o].pending
          /\ now >= request[o].proposedAt + MinRecoveryDelay
          /\ position'[o].shares = position[o].shares - request[o].shares
          /\ position'[request[o].to].shares
               = position[request[o].to].shares + request[o].shares]_vars

(* investor.rs, sanctions freeze: it blocks transfers and claims and keeps *)
(* shares and accruals.  While a wallet is frozen nobody moves its shares, *)
(* pays it or takes revenue from it; it can still burn what it holds of a  *)
(* closed project once nothing is owed to it.                              *)
FreezeHoldsTheHolding ==
  [][\A o \in Owners : kyc[o].status = "Frozen" =>
       /\ \/ position'[o].shares = position[o].shares
          \/ state = "Closed" /\ ClosePosition(o)
       /\ Pending(o)' >= Pending(o)
       /\ position'[o].totalClaimed <= position[o].totalClaimed]_vars

(* investor.rs, sharing rule of every way to acquire shares: a purchase, a *)
(* transfer and a recovery alike give shares only to a wallet with a       *)
(* valid record, a demo one only where the project allows it, and never    *)
(* during the protocol's pause.                                            *)
SharesReachOnlyEligibleWallets ==
  [][\A o \in Owners : position'[o].shares > position[o].shares =>
       /\ kyc[o].status = "Active" /\ now < kyc[o].expiresAt
       /\ kyc[o].demo => AllowsDemo
       /\ ~paused]_vars
-----------------------------------------------------------------------------
(* Liveness, under FairSpec.                                               *)

(* docs/v2.md, state machine: no raise stays undecided.  Whatever the      *)
(* admin does or leaves undone, and though the protocol stays paused, the  *)
(* escrow is either handed over or opened for refunds, unless the model's  *)
(* clock ends first.                                                       *)
RaiseIsDecided ==
  state \in {"Fundraising", "Funded"} ~>
    \/ state \notin {"Fundraising", "Funded"}
    \/ activationDeadline >= MaxTime

(* docs/v2.md, protocol pause: it never stops what gives a holder its      *)
(* money back.  After a failed raise every holder is refunded, unless a    *)
(* sanctions freeze holds it or it has spoiled its own balance.            *)
RefundsArrive ==
  \A o \in Owners :
    state = "Failed" /\ position[o].shares > 0 ~>
      \/ position[o].shares = 0
      \/ kyc[o].status \in {"None", "Frozen"}
      \/ burned[o] > 0

(* The same of revenue: what a holder has earned is paid, while the        *)
(* project operates, is paused or is closed.                               *)
ClaimsArrive ==
  \A o \in Owners :
    Pending(o) > 0 ~>
      Pending(o) = 0 \/ kyc[o].status \in {"None", "Frozen"}
=============================================================================
