# A verification project for AXEL

AXEL sells shares of taxi cars on Solana. A car's shares are a Token-2022 mint;
investors pay into an escrow, the car is bought, and the fleet pays the car's
revenue into a vault from which every holder claims its part. This directory
holds TLA+ models of the parts of AXEL where money, shares and records can go
wrong in an order nobody tested, the TLC runs that check them on small
instances, and proofs of the main invariants for every instance.

## The system

| Part | State | Operations | What is hard about it |
| :--- | :--- | :--- | :--- |
| `programs/axel-v2`: raise (`buy_shares`, `finalize_raise`, `activate_project`, `refund`, `manage_project`) | `Project` account, escrow vault, share mint, treasury | buy, finalise, activate, cancel, refund, pause, resume, close, change roles | permissionless calls race the admin; deadlines; anybody can send tokens to the escrow |
| `programs/axel-v2`: positions and revenue (`open_position`, `close_position`, `deposit_revenue`, `claim`, `math.rs`) | `Position` and `RevenuePeriod` accounts, accumulator, revenue vault | open, close, deposit, claim | lazy settlement, flooring, integer widths |
| `programs/axel-v2`: transfer hook and recovery (`execute`, `propose_recovery`, `cancel_recovery`, `execute_recovery`) | positions against Token-2022 balances, `RecoveryRequest` | transfer, propose, veto, withdraw, execute | two ledgers of the same shares; a request waits while everything it names changes |
| `programs/axel-v2`: registry (`set_investor`, `update_config`, `admin_handover`, `initialize_config`, `create_project`) | `Config`, `Investor` | write a KYC record, change settings, hand the admin role over | records expire or freeze at any time; settings apply to some things and not to others |
| `backend/src/telemetry` | SQLite: published days, sent batches; on-chain hash chain | collect a day, sync, reconcile | a batch is recorded, signed, sent and confirmed in separate steps; crashes, lost answers, expiry |
| `backend/src/kyc` | SQLite: bindings, last event; on-chain record | webhook, session | late and repeated webhooks; read, then write by transaction |
| `backend/src/reports` | SQLite: attestations, drafts | draft, co-sign | two co-signed deposits of one period |
| `backend/src/indexer` | SQLite: transactions with their events, cursor, the chain they belong to | list pages, fetch, store, subscribe, retry, replay a wallet's payouts | nodes that lag or forget, lost notifications and wake-ups, crashes between two writes, a chain that was reset |
| `frontend/src/lib/demo/server` | Redis: markers, counters, a cooldown | grant access, hand out shares, simulate a month | requests of many function instances interleave between store operations; each gives back what it took |
| `scripts/seed-devnet` | checkpoint file | plan, execute, resume | a transaction can land after the script has stopped looking |
| `frontend` (app), `sdk`, other scripts, `programs/axel` + `programs/transfer-hook` (v1) | - | - | user interface, generated code, superseded programs |

What makes each part correct:

- *Raise.* The escrow holds exactly what unreturned shares cost; it is released
  once, to the terms the payers could read, or refunded in full, never both; every
  raise is decided and every refund arrives.
- *Revenue.* The vault covers what is owed, settlement never fails or loses a
  unit, nobody is paid for a time before it held the shares, claims arrive.
- *Hook and recovery.* Positions and balances agree, shares move only to
  eligible wallets, and leave a wallet only by its own signature or by a
  recovery it could veto; a freeze holds; supply never grows after the raise.
- *Registry.* Only the current keys write, a handover cannot be lost half way,
  and settings for new projects do not reach old ones.
- *Telemetry.* Nothing called confirmed that is not on chain, no report about
  days the chain holds differently, and every collected day gets there.
- *KYC.* Every decision is answered, the last one decides the record, and
  records written by others are respected.
- *Reports.* One deposit per day of income, nothing after the sale (the code
  promises both; for the first see finding 3, for the second "Met while modelling").
- *Indexer.* The rows are a prefix of one chain's history at all times; no
  request for a sync is lost; everything that lands is indexed; the payouts
  replayed from the events are the program's.
- *Demo server.* Nothing is granted past its limit, nothing a failed attempt took
  stays taken, one simulated month at a time.
- *Seeding.* No step twice, none before its predecessors, and the checkpoint
  names whatever can still land.

The backend reaches the program only by transactions and account reads; the
program calls Token-2022 and the token program, and Token-2022 calls back
through the transfer hook. Each Solana transaction is atomic, so an instruction
is one action here; everything between two transactions is open to
interleaving. The backend's own steps between two awaits are atomic in the same
way, because Node runs one callback at a time.

## Modules

| Module | Models |
| :--- | :--- |
| `AxelMath` | `math.rs`: fees, share values, the accumulator, with the widths as a parameter |
| `AxelProject` | one project of the program, its holders, keys, clock and what Token-2022 lets outsiders do |
| `EscrowPromise` | what a raise promises to its payers, without any of the program |
| `AxelEscrow` | the refinement mapping from `AxelProject` to `EscrowPromise` |
| `AxelRevenueAudit` | exact books beside the program's floored accumulator |
| `PayoutReplay` | the backend's replay of positions from events, beside the program and the books |
| `TelemetryChain` | the backend's telemetry collector and writer for one car, and `record_telemetry` |
| `KycWebhook` | the backend's handling of one wallet's verification events, and `set_investor` as far as it meets them |
| `Attestation` | the oracle's co-signing of one car's deposits, and where they land |
| `IndexPromise` | what the event index promises to its readers, without any of the indexer |
| `Indexer` | the service that follows the program's history, its tables, and the RPC it reads from |
| `SeedExecutor` | the resumable executor of a seed plan, its checkpoint file and the cluster |
| `DemoLimits` | the limits of the demo path: reservations in the shared store, sending, giving back |
| `AxelProjectProofs`, `AxelHoldersProofs`, `TelemetryProofs`, `AttestationProofs`, `KycWebhookProofs`, `IndexerProofs`, `SeedExecutorProofs`, `DemoLimitsProofs` | theorems |
| `MC_*` | values for TLC |

`AxelProject` is extended by `AxelEscrow` and `AxelRevenueAudit`, which look at
the same steps from outside, and `PayoutReplay` extends the audit. The
backend's other modules each carry the part of the program that they meet (the
telemetry chain, the KYC record, the revenue periods, the history of its
transactions) rather than all of `AxelProject`: no property relates, say, a share
transfer to a webhook's progress, and the product of the state spaces would keep
TLC from the interleavings that matter. `Indexer` and `PayoutReplay` divide the
indexer between them: the first shows that events arrive once, in order and
completely, the second what is answered from events that do.

### AxelProject and the code

The variables carry the names of the account fields. `position[o]`,
`kyc[o]` and `request[o]` are the PDAs of wallet `o`; "not open", status `None`
and "not pending" stand for an account that does not exist. `shareAccount[o]`
is the wallet's canonical Token-2022 account. A share mint's accounts start
frozen, so a wallet's other token accounts can never hold shares: the program
thaws canonical accounts only. `escrow`, `revenueVault` and `treasury`
are token balances. `donated`, `burned` and `released` are history: the program
does not store them, the properties need them.

Each action has the name of its instruction. Its conjuncts without a prime are
the `require!`s, account constraints and checked operations of the handler, in
order; a condition of Token-2022 or the token program that would fail the
transaction (insufficient balance, frozen account) is a conjunct as well. Where
one instruction has several callers or outcomes it is several actions:
`finalize_raise` is `FinalizeFunded`, `FinalizeFailed` or `FinalizeExpired`;
`cancel_recovery` is `VetoRecovery` (owner, until `eta`) or `WithdrawRecovery`
(admin); `set_investor` is `SetInvestor` or `SetInvestorDemo`. A Token-2022
transfer and its hook are one action, `Transfer`, because they are one
transaction. `BurnOwnShares`, `CreateShareAccount`, `CloseShareAccount`,
`DonateToEscrow` and `DonateToVault` are what others can do with token
instructions alone, and `Tick` is the clock.

Left out of the data: hashes, dates and metadata that an instruction only
checks for form; `max_total_cost`; rent; `i64` overflow of times; events. The
branch of `finalize_raise` for a sold-out raise that is still `Fundraising`
is in the model and never taken, because `buy_shares` funds a raise that it
sells out.

### The backend modules and the code

Node runs one callback at a time, so what the code does between two `await`s is
one action, and everything else may happen in between: transactions land or
expire, keys and records change, the process crashes. A crash loses memory and
keeps SQLite, whose writes are synchronous. The keyed serial queue is a
component's own lock: one task per car or per wallet at a time.

A transaction the backend signed is a record with a `fate` (not sent, in
flight, lost, landed, failed) and with whether its blockhash is still good. A
call that fails may or may not have had its effect. The client library raises its
expiry error when the last block has passed without a confirmation, which in
`TelemetryChain` includes a batch that landed just before. A webhook that is
told so of a landed write only fails and is delivered again; `KycWebhook` leaves it to
`CallFails`, which has the same effect.

*TelemetryChain.* A chain head is a hash of all entries before it, so the model
keeps the sequence itself and equal heads are equal sequences. `days` and
`outcome` are the two tables; `job`, `owner`, `step`, `seen` and `todo` are what
the running task remembers, with `seen` the project as it was last read, which may
be old by the time it is used. `owner` is who holds the car's queue: the cron
job's sync or a request that reconciles. `RotateOracle` and `TheyRecord` are the
admin naming another oracle and what that one writes. Left out: the figures of
a day, other cars, an unset oracle key.

*KycWebhook.* `events` are Sumsub's decisions in order of creation, `unanswered`
those it still delivers, `queue` the deliveries that wait for the wallet.
`step` goes through the applicant lookup, the read of the on-chain record,
sending and confirmation. `WriteByHand` is the compliance officer, who holds the
KYC key too. Jurisdiction, flags and expiry of a record are left out: whether
an approval of an already active record would change it is a free choice. Every event
has a creation time of its own. One without (`kyc-webhook.service.ts:121`,
`kyc.store.ts:113`) is never stale and leaves `last_event_at` as it is, so nothing
orders it against others; `AnsweredMeansDone` could not speak of it.

*Attestation.* `deposits` are the rows of `report_attestations` and
`deposit_drafts` with the fate of each transaction; `periods` is the list of
on-chain revenue periods. `count` is `Project.period_count` as the backend read
it at the start of the request, and `todo` are the conflicting deposits it still
has to look up. `Refuse` stands for every refusal, failed call or crash: none
changes anything, so it may happen at any step. The operator may build a
deposit for any index up to `MaxAhead` past the next one, keeps what was
co-signed and sends it when it likes. The money of a report and the
form of a submitted transaction are left out, and the backend stays the oracle.
A deposit lands and expires whatever is being checked. `Unseen` are those that did
both since the project was read, which a check can take for deposits that never
landed; a co-signed deposit keeps them as history (`unseen`).

*Indexer.* The n-th transaction of a chain stands for its signature, and `chain`
holds whether it succeeded. `step` is what the running sync waits for. `ListPage`
is one page of `getSignaturesForAddress`, newest first, answered by any node: each
node lists the chain's first transactions up to some point, `listed` is how far the
slowest one has come, and a node that does not know the cursor's signature lists
everything, as `testing/fake-ledger.ts` does. A node that does not know the
signature a page should start before answers with an error (`CallFails`).
`SkipIndexed`, `StoreKnown`, `StartFetch` and `StoreFetched` are the paths of
`store` and `load`. `retry` is the timer of a failed sync or of notified
transactions that are not listed yet. `owed` is history: the request for
a sync that no listing has answered. `CrashWhileBinding` is the crash between
`checkChain`'s two database transactions. `disabled` and the decoding of logs
are left out.

*IndexPromise* has three steps: a transaction lands, an empty index chooses its
chain, the index takes over the next transaction with its events, none if it
failed. `Indexer` implements it with its own `chain`, `genesis` and `rows`.

*PayoutReplay.* Each instruction of `AxelProject` is taken together with what
`replayPosition` makes of the events it emits. The replay never reads a variable
of the program except through what an event carries: `acc_per_share` of
`RevenueDeposited`, the amount of `RevenueClaimed`, the shares and the moved
revenue of a recovery, and whether an instruction opened a position
(`PositionOpened`). JavaScript's `bigint` makes its arithmetic exact.

*SeedExecutor.* `record` is the checkpoint file, one entry for each step. `pc` goes
through the loop of `execute`: look at the step, build and sign it (which writes
the pending signature first), send, look the signature up by `status` and then by
`height`, and either mark the step done or clear it. `mode` tells
`settlePending` and `submit` apart, which look up in the same way and treat errors
differently. A failure is read first and cleared after the logs were fetched, so a
call that throws there leaves it for the next run. Forks are left out: what has a
status is taken as final, as `outcome` takes an error at any commitment. `Skippable` steps find their work done; `Guarded` ones are
refused by the program if they come again. `unsure` is history: steps whose
submission threw.

*DemoLimits.* A request takes its route's store operations one by one;
`CooldownTaken`, `AfterIpLimit` and `FirstRelease` name the order in which the routes give
back. `Dies` is a function killed by its time limit or a store call that throws:
what it took stays taken until its key expires. `CooldownExpires` waits
for the one who set the cooldown, because its lifetime equals the longest run of a
function (60 seconds each). The counter per IP address keeps what failed attempts
took, as the code means it to; `NothingLeaks` is about the other counters and the
markers. The counters' days, sessions and the reads of the
chain that refuse a request before it reserves anything are left out.

## Runs

The runs of the program are of a small instance: two wallets, up to three
shares, a clock of up to three instants with the raise deadline at 1 and an
activation window of 1. Two wallets are enough for every two-sided step
(transfer, recovery) and for the sums to be able to hide an error of one wallet in
another; three shares make flooring inexact and let one wallet hold two and the
other one; the clock passes every deadline the configured times can produce.
`One` is 16 or 64 instead of 2^64, so that products reach the widths `MaxU64`
and `MaxU128`. `MaxPeriods`, `MaxDonated` and `MaxTime` bound what
would otherwise grow for ever. `project` has no deposits (`MaxPeriods = 0`): what
`FreezeHoldsTheHolding` says of accrued revenue is left to its theorem.

All the circumstances of `project` at once are too many for TLC, so its constraint
`Scope` (`MC_Escrow`) bounds how they combine, and TLC does not explore further what
follows a state outside of it. `RaiseScope` is every purchase, donation, refund and
recovery while the escrow exists, by wallets that were verified for long and may be
frozen and that leave their share accounts to the program. `CustodyScope` is every
record, recovery delay, share account and movement of shares, before and after
activation, once one wallet bought two of the three shares, with no
donation and at most one share burned. A donation, for instance, is not
combined with an account that its owner closed. The theorems have no such bound.

| Run | Checks | Shows |
| :--- | :--- | :--- |
| `project` | `TypeOK`, `EscrowIsExact`, `ReleaseIsExact`, `RefundsNeverFail`, `EscrowKeepsItsPromise`; `LedgerCoversBalances`, `SharesAddUp`, `SharesLeaveOnlyByOwnerOrRecovery`, `FreezeHoldsTheHolding`, `SupplyNeverGrowsAfterRaise`, `SharesReachOnlyEligibleWallets` | the escrow is exact and sufficient through every order of purchases, deadlines, cancellation, refunds, recoveries, freezes, donations and role changes, and the raise implements `EscrowPromise`; who comes to hold shares and how they leave: recoveries against vetoes, freezes and a delay that changes while a request is pending, records that expire, demo records, accounts made and closed outside, burned shares |
| `audit` | `VaultIsExact`, `ClaimsNeverFail`, `RevenueLeavesOnlyByPayment`, `NobodyIsOverpaid`, `DustIsBounded`, `ReplayEqualsPosition` | the program's lazy, floored revenue math against exact books, at the limits of the widths: two deposits of 1 or 5 for 3 shares bought by one wallet and then split by transfers and recoveries; and the backend's replay beside it |
| `live` | `RaiseIsDecided`, `RefundsArrive`, `ClaimsArrive` | liveness, below |
| `telemetry` | `TypeOK`, `ConfirmedIsOnChain`, `ReportsMatchTheChain`, `DaysReachTheChain` | database and chain agree through lost calls, crashes, expiry and another oracle, and days reach the chain |
| `kyc` | `TypeOK`, `AnsweredMeansDone`, `HandWrittenOutlastNewPlans`, `EventsAreAnswered` | repeated and reordered events end in the record the last decision asked for; a webhook overwrites only what it may, as far as a read before a write can tell |
| `attest` | `TypeOK`, `OnlyUnseenDaysArePaidTwice`, `SaleEndsCosigning` | of all that was co-signed no two deposits of one day land, and after the sale nothing is co-signed that could, unless the check missed the first deposit, or the sale |
| `indexer` | `RequestsAreServed`, `IndexKeepsItsPromise`, `EverythingIsIndexed` | through crashes, failed calls, lost notifications, lagging nodes and a restart against another chain the index stays a prefix of one history, and completes it |
| `seed` | `NoStepTwice`, `CheckpointIsTrue`, `SeedFinishes` | a plan with a step of every kind, interrupted and resumed anywhere, runs each step once and completes |
| `demo` | `GrantsWithinLimits`, `NothingLeaks`, `OneSimulationAtATime` | requests of all routes reserve, fail, die and give back between each other's store operations |
| `kyc_freeze` | `FreezeIsNeverLifted`, violated | finding 1 |
| `seed_twice` | `StepsRunOnce`, violated | finding 2 |
| `attest_twice` | `OneDepositPerDay`, violated | finding 3 |

Bounds of the backend runs. `telemetry`: two days in batches of one, one lost or
failed call, one crash, two changes of the oracle (away and back);
`MaxSubmissions` is never reached, so liveness is not an artefact of it. `kyc`:
two decisions in each order, one redelivery of an answered event, one record
written by hand, one failed call and one crash, which is enough for an old
transaction to meet a new decision. `attest`: three co-signed deposits of three
reports, of which the first two overlap and the last is the sale, which overlaps
one of the others; one step past the next index, one pause or resumption. Three
deposits are one that lands unseen, one that fails or expires and one that comes
after them. `indexer`: two transactions of the database's chain and one of another,
pages of one, room for one notification, one failed call, one restart; a page
of one makes every listing take several calls, and room for one evicts on the
second notification. `seed`: one step that may be skipped, one that can
be repeated and one that is refused the second time, two attempts, five
signatures and any two of crash, lost call, loss and failure on chain; two faults are
one that leaves a transaction open and one that hits its look-up. Five
signatures suffice: a step takes a second one only after a fault. `demo`: three
requests of any routes for two wallets at one address, a cap of one, two per
address and one simulation per wallet, so that the third request meets every
limit that the first two may give back.

`SlowChecks` is `FALSE` in `seed`, for the look-up of a signature: its status
and then the finalized height. A transaction that lands in its very last blocks
after the status was read and is finalized before the height is read would count as
expired. Finalization takes seconds, longer than one call, and the status is asked
for once more after the height has passed. (`Attestation` has no such assumption: a
blockhash can expire right after its deposit landed.)

Deadlock is not checked: the clock and the numbers of events are bounded, and a
project, a car, a wallet, a history or a plan may come to rest.

Fairness (`live`): time passes (`Tick`); `finalize_raise` and `claim` need
nobody's permission, so whoever has money at stake calls them; a holder signs
its own refund. Nothing is assumed of the admin, the KYC keys, the operator or
the oracle: no liveness property depends on their doing anything, and `RaiseIsDecided`
and `RefundsArrive` hold while the protocol stays paused. The properties
make the code's own exceptions: a sanctions freeze holds payouts, and a wallet
that burned shares outside of the program has spoiled its ledger entry.

Fairness (`telemetry`): the cron job recurs and goes on, every call of the
backend returns with some outcome, the queue is first in, first out (so the
waiting job gets its turn: strong fairness of `SyncStarts`), and the cluster lands
or expires every transaction. `DaysReachTheChain` makes exceptions only where the
backend cannot or must not write: the chain has gone past the day, the project
does not take entries, another oracle is named, or the chain diverged.

Fairness (`kyc`): Sumsub delivers an event again until it is answered, handling goes
on, and a transaction in flight lands unless it expires. Nothing is assumed of
the compliance officer.

Fairness (`indexer`): a sync goes on, the poll's interval and the retry timer
fire, slow nodes catch up, and a process that was shut down is started again.
Failed calls and restarts are bounded in number. Nothing is assumed of the
subscription: the poll alone is enough. `EverythingIsIndexed` excepts what the
code refuses to index: a database of another chain, and one without a program
(below).

Fairness (`seed`): the script runs on and is started again after it stopped, the
cluster includes or expires what it is given and its finalized height goes on. The
number of faults is bounded, which is what "the cluster works again" means here.
`SeedFinishes` excepts a plan in which the submission of a guarded step threw.

### Faults

For every property there is an operator `X_Fault` (or `X_<what>`), which is the operator `X`
with one plausible bug. Replacing `X` by it makes the run find the property
violated, so each property is known to depend on the code it is about. The
pairs are in `PROJECT.json` under `mutants`.

## Findings

Three statements of the repository are refuted by a run.

1. **A freeze can be overwritten by a webhook** (`kyc_freeze`).
   `docs/architecture.md:326` says that a webhook never lifts or overwrites a
   sanctions freeze. `InvestorRegistry.update` reads the record
   (`investor-registry.service.ts:109`) and sends `set_investor` afterwards (line
   124); the instruction overwrites whatever the record has become. What does
   hold is `HandWrittenOutlastNewPlans`: a record written by hand outlasts every
   plan made after it was written.
2. **A seed step can run twice** (`seed_twice`). `scripts/seed-devnet/README.md:110`
   says that "no step ever runs twice". When `submit` throws although the node took the
   transaction, `execute.ts:651` clears the pending record, and the next run signs
   the step again. What does hold, and is proved, is `NoStepTwice`: only such
   a step can. If it is a step the program refuses a second time, every further run
   then fails at it, and the record has to be repaired by hand.
3. **A day of income can be paid twice** (`attest_twice`).
   `attestation.service.ts:477` says "One deposit per day of income, and nothing after
   the car's sale", and `docs/v2.md:253` that the oracle "checks that no earlier
   deposit overlaps the period". `checkOverlaps` reads the revenue periods up to the
   count it read before, then the status of a conflicting attested deposit (line 510;
   of a draft, none), then whether its blockhash is valid (lines 522 and 536). A
   deposit that lands in its last blocks between the first of these reads and the last is
   in no period that was read and has an expired blockhash, so it is passed over as
   one that never landed. What does hold, and is proved, is
   `OnlyUnseenDaysArePaidTwice`: a second deposit of a day needs such a miss.
   `SaleEndsCosigning` makes the same exception for the sale.

Met while modelling, and stated where a property had to make an exception:

- `state/position.rs:12` says of `Position::shares` "Always equal to the owner's
  share token balance." and `docs/v2.md:226` lists it as I3. Token-2022 lets the
  owner of a thawed account burn from it and calls no hook. From then on
  `refund`, `close_position` and `execute_recovery` answer `LedgerMismatch` for that
  wallet, and the burned shares keep earning. What holds, and is proved, is
  `LedgerCoversBalances`: position = balance + shares burned outside.
- `docs/v2.md:273` bounds the time a payment can sit in escrow by the raise and
  the activation caps together. The activation deadline is set when somebody calls
  `finalize_raise` (`finalize_raise.rs:32`), so a raise that met its soft cap and is
  finalised late can be activated later than that. `RaiseIsDecided` says what
  holds: anyone can call it, and then the raise is decided.
- `telemetry-chain.service.ts:22` calls a head "diverged" that this backend did not
  write. `reconcileNow` reads the project (line 82) before the block height (line
  99); a batch that lands between the two in its last blocks is abandoned as
  expired, and the next reconciliation takes the backend's own entry for a foreign
  one and stops the car's telemetry. `DaysReachTheChain` excepts diverged cars.
- `kyc-webhook.service.ts:41` promises that older events never override newer ones.
  A transaction of unknown outcome is forgotten; a revocation that comes next
  finds nothing to revoke and is answered, and then the approval lands.
  `AnsweredMeansDone` speaks of events whose calls all came back.
- `attestation.service.ts:477` promises "nothing after the car's sale" as well. For a final
  report `checkOverlaps` looks up the deposits whose days overlap its own, or that are
  final themselves (`reports.store.ts:217`), and `deposit_revenue` does not look at earlier
  periods. A deposit attested before for the index after the next, for days that the
  sale's report does not cover, lands after the sale. `SaleEndsCosigning` speaks of
  what is co-signed once the sale is paid out.
- `checkChain` binds an empty database in two database transactions
  (`indexer.service.ts:294`). After a crash between them the genesis hash is
  stored and the program is not, the next start finds a database of "another" program
  and halts, and so does every later one. No history is mixed up
  (`IndexKeepsItsPromise`), and nothing is indexed again until the file is deleted.
- `docs/api.md:702` grants access once per wallet. A grant released because sending threw
  (`handlers.ts:278`) can still land, and the wallet can ask again.
  `GrantsWithinLimits` counts such grants on top.
- After an outage longer than the backfill limit the collector skips the older days
  for good (`telemetry-collector.service.ts:93`); nothing in the repository promises
  otherwise, and `MaxBackfill` carries the limit into `TelemetryChain`.

## Proofs

All theorems hold for every value of the constants that satisfies the named
assumptions of the modules: any set of wallets and any terms of a project
(`TermsAssumption`: what `create_project` and `Config::validate` check;
`OwnersAssumption`: the wallets are finitely many; `InputsAssumption`: types of the
offered inputs), any number of days and of calls, crashes and changes of the oracle
(`BoundsAssumption`), any chains, page size and
history (`IndexerAssumption`), any reports and any number of deposits
(`AttestationAssumption`), any initial and hand-written records
(`RecordsAssumption`), a plan of any length (`SeedAssumption`), any requests and
limits (`LimitsAssumption`).

- `AxelProjectProofs`, **`TypeCorrect`**: first the bounds of the arithmetic (a
  floored fee is at most the amount, a share value stays in `u64`, a pro-rata
  part is at most the whole); then `TypeOK`, inductive together with
  `RequestsAreSound` (a pending recovery moves at least one share to a different
  wallet), which is needed for the division in `pro_rata`.
- `AxelProjectProofs`: **`LedgerCoversTheBalances`**, **`OnlyPositionsMoveShares`**
  and **`CheckpointsStayBehind`** (I5 of `docs/v2.md`). The three are inductive
  together: a closed position must hold nothing and a thawed account must have a
  position, or a purchase could start from a ledger that already disagrees.
- `AxelProjectProofs`, **`SharesGoToEligibleWallets`**,
  **`SharesLeaveByOwnerOrRecovery`**, **`FreezeIsRespected`** and
  **`EarnedRevenueIsKept`**, the action properties of `project` and of `audit`.
  `OnlyTheseTouchPositions` names the nine kinds of step that touch a given
  position; for each of them the `...Effect` and `OwnStepsMoveShares` lemmas say
  what it leaves there. Two invariants carry the argument: `LedgerInv`, because
  opening a position must not overwrite a holding, and, for the revenue,
  `NoRevenueYet`: until activation the accumulator is zero, which is why a purchase
  and a refund, neither of which settles, cannot lose anything. A
  deposit moves the accumulator up, and floors are monotonic.
- `AxelProjectProofs`: **`TheEscrowIsExact`**, **`TheReleaseIsExact`** and
  **`TheVaultIsExact`**. The escrow formula alone is not inductive, because
  activation pays `outstanding_shares`, which equals the shares sold only if
  nothing was refunded or retired before; `NothingReturnedYet` adds that
  refunds happen in `Failed` only and retirements in `Closed` only.
  **`SupplyIsFinal`**: no step after the raise increases the supply.
- `AxelProjectProofs`, **`TheEscrowKeepsItsPromise`**: the refinement of
  `EscrowPromise`. Every purchase, activation, failure, refund and recovery is
  the promise's step of that meaning, everything else leaves the promise as it is.
  `ReleaseIsExact` makes activation hand over all that was collected,
  `EscrowIsExact` excludes donations to an escrow that is gone, and `SupplyWasSold`
  bounds what a recovery moves by the shares sold.
- `AxelHoldersProofs`, **`NobodyGainsByRounding`**: the invariant speaks of each
  owner and not of their sum, which keeps induction over wallets out of the proof.
  What an owner was paid, has accrued and has earned since its checkpoint is
  within its exact part (`Part`), multiplied out so that nothing is divided. A
  settlement moves the earned to the accrued and rounds down; a recovery moves accrued
  revenue between two parts by the same amount that the books move. The
  accumulator divides by the outstanding shares and the books by the shares sold;
  `RefundsMeanFailure` and `NothingEarnedYet` make the two equal whenever there
  is revenue.
- `AxelHoldersProofs`, **`TheSharesAddUp`**, **`TheRefundsNeverFail`** and
  **`TheClaimsNeverFail`**: the invariants that sum over all wallets. The library's
  induction theorems take an operator and are out of reach, so the first part of the
  module proves what sums need (changing one or two of the terms, adding a multiple of
  another sum, a term against the whole) from the well-foundedness of the natural
  numbers, by induction over the set of the sizes for which a claim holds. With these
  a step changes a sum by what it changes in at most two positions, and a deposit, which
  changes all of them at once, by the accumulator's increment times the shares held.
  `OwedInv` counts what is owed with its fractions, in units of `1/One`:
  the floored sum of the property is not inductive, because settling one position
  changes what is rounded. `RefundsArePriced` ties what was paid back to the
  shares refunded, which bounds the counters of the next refund.
- `AxelHoldersProofs`, **`TheDustIsBounded`**: `DustInv` bounds what the holders miss,
  in the same units, by less than `One` for each deposit and each settlement
  that drops a fraction. A settlement that closes its position counts as one:
  leaving it out makes the property false as soon as a deposit can be of a single
  unit, which is why `audit` has deposits of 1 besides those of 5.
- `AxelHoldersProofs`, **`TheReplayIsExact`**: `ReplayInv` says position by position
  that the replay holds the program's numbers, checkpoint included, for every
  open position, and zeros for an absent one, whose checkpoint is
  immaterial because opening one starts both anew.
- `TelemetryProofs`, **`ConfirmedIsRecorded`** and **`TheReportsMatchTheChain`**, from
  **`TelemetryIsSound`**: whether a day is confirmed is the database's word, and
  what makes it true was read calls earlier. `StoreInv` says what the rows mean: at
  most one batch is of unknown outcome, the heads it recorded extend some chain
  that holds everything confirmed (`Link`), and the confirmed heads are prefixes of
  one another. So a head found on the chain brings all confirmed days with it. `TaskInv`
  says what the running task may rely on at each step: the project it has seen is
  still a prefix of the chain when it asks for the block height (`HeightSound`), and
  the days it is about to sign are in no batch (`SignSound`). That a day is never
  in two batches needs `OldestFirst` to list each day once, which is proved for a
  finite set by the same kind of induction.
- `AttestationProofs`, **`OnlyTheUnseenIsPaidAgain`** and **`SaleEndsTheCosigning`**,
  without an assumption about time. `Separate` says that of what landed and what can
  still land any two are of disjoint days, or for the same index, of which only one
  lands, or the earlier one is recorded as unseen by the check of the later. A new
  co-signature keeps it because of `CheckInv`: when a request is about to be signed,
  whatever was co-signed in its way has landed before its index, is over, is
  `Unseen`, or is still in `todo`. Nobody looks a draft's own index up, and need not: a
  draft is never ahead of the count, so one in the way lands at the request's own
  index and excludes it.
- `KycWebhookProofs`, **`WebhooksRespectTheHand`**: `WritesInv` follows a planned
  record from the read to the transaction. What the backend signs is Sumsub's,
  approved or revoked; while nothing was written by hand since the read, the record on
  chain is not frozen and, under a revocation, is Sumsub's own. A webhook's
  transaction that lands in between keeps this, because it writes Sumsub's as well.
- `KycWebhookProofs`, **`AnsweredEventsAreDone`**, for initial records that are not
  frozen: `Orderly` holds while no call failed, nothing crashed and
  nobody wrote by hand. The event being handled is not older than the newest
  applied one; every transaction has landed but the one that is waited for; and the newest
  event is either unanswered or the applied one, because an approval that the API
  denies has a newer revocation behind it.
- `IndexerProofs`, **`NoRequestIsLost`**: with `RequestInv`, which says that timers run
  only while no sync does, that a halted indexer does nothing, and that a sync which has
  listed owes only what was asked before it began.
- `IndexerProofs`, **`IndexerKeepsItsPromise`** and **`CursorIsComplete`**: the
  refinement of `IndexPromise`. `SyncInv` keeps the rows a prefix, the cursor within
  them, the sync on the chain the database is bound to, and `at` no further than
  the first missing row; this last part is why it is safe that a lagging node or a
  forgotten cursor moves the listing, and the cursor, back.
- `SeedExecutorProofs`, **`NoStepRunsTwice`** and **`TheCheckpointIsTrue`**, both for
  `~SlowChecks`, and **`StepsRunInOrder`** without it. `Booked` ties the
  executor's program counter to the entry of its step; what can still land or has
  landed agrees with the entry or was lost to a throw; an entry is cleared only
  when its transaction is over, for which the second, deep look-up must be final.
- `DemoLimitsProofs`, **`NothingIsLeaked`**: `Exact` says that while no request died the
  counters of grants and months are what the requests in flight and the granted ones
  hold, and every marker is held by one; and, dead requests or not, that a marker a request
  relies on is there and is relied on by no other. Only this tells a request that
  gives back a marker from one that would take away another's.
- `DemoLimitsProofs`, **`GrantsAreLimited`** and **`OneMonthAtATime`**: a counter is at
  least the number of requests whose part has not been given back
  (`Counts`), and a marker belongs to one request at a time (`Owners`). That the
  requests are finitely many is an assumption; how many is not.

`AttestationProofs`, `KycWebhookProofs` and `TelemetryProofs` prove `TypeOK` of their
modules too (`TypeCorrect`), so that every invariant and every action property of the
passing runs is a theorem.

Only model-checked: liveness (`RaiseIsDecided`, `RefundsArrive`, `ClaimsArrive`,
`DaysReachTheChain`, `EventsAreAnswered`, `EverythingIsIndexed`, `SeedFinishes`),
which is out of the prover's reach, as is whether an action is enabled.
`TypeOK` of `Indexer` says nothing of `notified`, whose filtered sequences the
provers cannot type; no theorem needs it.

## Remaining work

The parts listed below are not modelled. Of those that are, what is left is to
state the steps of the liveness arguments (which action brings a raise, a day or
an event one stage further, and what cannot undo it) as invariants and action
properties, which could be proved where the liveness itself cannot.

## Not modelled

- *Admin handover, initialisation and the settings for new projects.*
  Assignments behind one signature check each, by the admin alone; a model would
  restate the guards.
- *Metadata, mint creation and the hook's extra accounts.* `create_project` leaves
  one state behind, which is `Init`, for all terms it admits.
- *Sign-in, sessions, fleet clients, published data and query endpoints.* They
  read, or keep a nonce for minutes; no property relates two of their steps.
- *The money of a report.* `buildReport` is checked arithmetic on inputs that
  nothing else depends on; `Attestation` takes its dates and kind.
- *The app, the SDK, v1, the demo video.* Most lines of the repository that are
  not tests are the interface descriptions of the program (two copies of 5800
  lines), generated client code (15000) and React components (15000): they keep no
  state across steps, and a model of them would say nothing. The modules
  stand for the services and instructions that do.
