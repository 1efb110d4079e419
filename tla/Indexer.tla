------------------------------- MODULE Indexer -------------------------------
(***************************************************************************)
(* The backend's event indexer (backend/src/indexer): the service that     *)
(* follows the program's transaction history, its tables, its log          *)
(* subscription, and the RPC it reads from.                                *)
(*                                                                         *)
(* Node runs one callback at a time: what the code does between two awaits *)
(* is one action.  The n-th transaction of a chain stands for its          *)
(* signature.  An RPC answers from any of its nodes: each lists the        *)
(* chain's first transactions up to some point, and one that does not know *)
(* the cursor's signature lists everything, as testing/fake-ledger.ts does *)
(* it.  `disabled` (INDEXER_ENABLED=false) and the decoding of events are  *)
(* left out.                                                               *)
(***************************************************************************)
EXTENDS Naturals, Sequences, SequencesExt

CONSTANTS
  Chains,       \* genesis hash and program a database can be filled from
  NoChain,
  PageSize,     \* PAGE_SIZE
  MaxNotified,  \* MAX_NOTIFIED
  MaxLanded,    \* bound: transactions of each chain
  MaxFailures,  \* bound: calls that fail or answer null
  MaxRestarts   \* bound: crashes and shutdowns

ASSUME IndexerAssumption ==
  /\ NoChain \notin Chains
  /\ PageSize \in Nat \ {0} /\ MaxNotified \in Nat \ {0}
  /\ MaxLanded \in [Chains -> Nat]
  /\ MaxFailures \in Nat /\ MaxRestarts \in Nat

VARIABLES
  chain,       \* each chain's transactions of the program
  serves,      \* the chain the configured RPC serves
  listed,      \* how far even its slowest node lists that chain
  genesis,     \* indexer_state: genesis_hash
  program,     \* indexer_state: whether program_id is stored too
  rows,        \* indexed_transactions with their program_events, in order
  cursor,      \* indexer_state: cursor, 0 for none
  phase,       \* IndexerState
  checked,     \* chainChecked
  step,        \* what the running sync waits for, "idle" when none runs
  high, low,   \* newSignatures: the transactions low + 1 .. high are listed
  at,          \* sync: the next one to store
  pending, retry, stopped,
  notified,    \* transactions with logs from the subscription, oldest first
  owed,        \* history: a request that no listing has answered yet
  failures, restarts

rpcVars == <<chain, serves, listed>>
bindVars == <<genesis, program>>
storeVars == <<rows, cursor>>
syncVars == <<high, low, at>>
bounds == <<failures, restarts>>
vars == <<rpcVars, bindVars, storeVars, phase, checked, step, syncVars,
          pending, retry, stopped, notified, owed, bounds>>

Promise == INSTANCE IndexPromise

Outcomes == {"ok", "failed"}
Steps == {"idle", "check", "list", "store", "fetch"}

Landed == Len(chain[serves])
Failed(n) == chain[serves][n] = "failed"

(* IndexerStore.isIndexed, of the served chain's n-th transaction.         *)
IsIndexed(n) ==
  \E i \in DOMAIN rows : rows[i].of = serves /\ rows[i].tx = n

Init ==
  /\ chain = [c \in Chains |-> <<>>]
  /\ serves \in Chains
  /\ listed = 0
  /\ genesis = NoChain /\ program = FALSE
  /\ rows = <<>> /\ cursor = 0
  /\ phase = "starting" /\ checked = FALSE
  /\ step = "check"
  /\ high = 0 /\ low = 0 /\ at = 0
  /\ pending = FALSE /\ retry = "none" /\ stopped = FALSE
  /\ notified = <<>>
  /\ owed = "asked"
  /\ failures = 0 /\ restarts = 0
-----------------------------------------------------------------------------
(* Starting a sync.                                                        *)

Accepting == ~stopped /\ phase # "halted"

(* runOnce starts with the chain's check, once per process.                *)
FirstStep == IF checked THEN "list" ELSE "check"

(* requestSync: a failed sync's delay holds for everybody, a running sync  *)
(* is followed by another one, and otherwise one starts.  `owed` records   *)
(* that somebody asked.                                                    *)
RequestSync_LosesWakeUps ==
  IF ~Accepting THEN UNCHANGED <<step, pending, retry, owed>>
  ELSE IF retry = "failure"
  THEN owed' = "asked" /\ UNCHANGED <<step, pending, retry>>
  ELSE IF step # "idle"
  THEN owed' = "again" /\ UNCHANGED <<step, pending, retry>>
  ELSE retry' = "none" /\ pending' = FALSE /\ step' = FirstStep
       /\ owed' = "asked"
RequestSync ==
  \/ /\ ~Accepting
     /\ UNCHANGED <<step, pending, retry, owed>>
  \/ /\ Accepting /\ retry = "failure"
     /\ owed' = "asked"
     /\ UNCHANGED <<step, pending, retry>>
  \/ /\ Accepting /\ retry # "failure" /\ step # "idle"
     /\ pending' = TRUE /\ owed' = "again"
     /\ UNCHANGED <<step, retry>>
  \/ /\ Accepting /\ retry # "failure" /\ step = "idle"
     /\ retry' = "none" /\ pending' = FALSE
     /\ step' = FirstStep /\ owed' = "asked"

(* The end of runOnce: what it schedules, and the queued request, which a  *)
(* failed sync's delay holds back as well.                                 *)
EndSync(outcome, delay) ==
  LET again == pending /\ ~stopped /\ outcome = "live" IN
  /\ phase' = outcome
  /\ retry' = IF again \/ stopped THEN "none" ELSE delay
  /\ step' = IF again THEN FirstStep ELSE "idle"
  /\ pending' = (pending /\ ~again)
  /\ owed' = IF owed = "again" THEN "asked" ELSE owed
  /\ high' = 0 /\ low' = 0 /\ at' = 0

(* The poll's interval, or the subscription is back after a lost socket.   *)
Wake ==
  /\ ~stopped
  /\ RequestSync
  /\ UNCHANGED <<rpcVars, bindVars, storeVars, phase, checked, syncVars,
                 stopped, notified, bounds>>

RetryFires_Fault == retry # "none" /\ UNCHANGED vars
RetryFires ==
  /\ retry # "none"
  /\ retry' = "none" /\ pending' = FALSE
  /\ step' = FirstStep /\ owed' = "asked"
  /\ UNCHANGED <<rpcVars, bindVars, storeVars, phase, checked, syncVars,
                 stopped, notified, bounds>>
-----------------------------------------------------------------------------
(* A sync, from one await to the next.                                     *)

(* A call fails: fetch failed, `getTransaction` answered null, or the node *)
(* does not know the signature a page should start before.                 *)
CallFails ==
  /\ step \in {"check", "list", "fetch"}
  /\ failures < MaxFailures
  /\ failures' = failures + 1
  /\ EndSync("retrying", "failure")
  /\ UNCHANGED <<rpcVars, bindVars, storeVars, checked, stopped, notified, restarts>>

(* checkChain: an empty database takes the chain it is shown, any other    *)
(* one has to match it.                                                    *)
BelongsToUs == genesis = serves /\ program

CheckChain ==
  /\ step = "check"
  /\ \/ /\ genesis = NoChain
        /\ genesis' = serves /\ program' = TRUE
        /\ checked' = TRUE
        /\ step' = "list"
        /\ UNCHANGED <<phase, retry, pending, owed, syncVars>>
     \/ /\ genesis # NoChain /\ BelongsToUs
        /\ checked' = TRUE
        /\ step' = "list"
        /\ UNCHANGED <<bindVars, phase, retry, pending, owed, syncVars>>
     \/ /\ genesis # NoChain /\ ~BelongsToUs
        /\ EndSync("halted", "none")
        /\ UNCHANGED <<bindVars, checked>>
  /\ UNCHANGED <<rpcVars, storeVars, stopped, notified, bounds>>

(* newSignatures: the next page, newest first, of what is older than the   *)
(* last one and newer than the cursor.  A short page is the last one.      *)
PageBottom(top, floor) ==
  IF top > floor + PageSize THEN top - PageSize ELSE floor
IsLastPage_Fault(top, bottom) == TRUE
IsLastPage(top, bottom) == top - bottom < PageSize

(* What a node that lists n transactions ends a page at: at the cursor, or *)
(* at the beginning if it does not know its signature.                     *)
Floors(n, top) ==
  {0} \cup (IF cursor <= n /\ cursor <= top THEN {cursor} ELSE {})

ListPage ==
  /\ step = "list"
  /\ \E n \in listed .. Landed :
       LET top == IF high = 0 THEN n ELSE low IN
       /\ high # 0 => n > low
       /\ \E floor \in Floors(n, top) :
            LET bottom == PageBottom(top, floor) IN
            /\ high' = IF high = 0 THEN n ELSE high
            /\ low' = bottom
            /\ IF IsLastPage(top, bottom)
               THEN step' = "store" /\ at' = bottom + 1
               ELSE UNCHANGED <<step, at>>
  /\ owed' = IF high = 0 /\ owed = "asked" THEN "none" ELSE owed
  /\ UNCHANGED <<rpcVars, bindVars, storeVars, phase, checked, pending, retry,
                 stopped, notified, bounds>>

Without(n) == SelectSeq(notified, LAMBDA m : m # n)

(* IndexerStore.record: one database transaction for the row, its events   *)
(* and the cursor.                                                         *)
Recorded_Fault(n) ==
  [of |-> serves, tx |-> n, events |-> TRUE]
Recorded(n) == [of |-> serves, tx |-> n, events |-> ~Failed(n)]

Record(n) ==
  /\ rows' = IF IsIndexed(n) THEN rows ELSE Append(rows, Recorded(n))
  /\ cursor' = n
  /\ at' = n + 1

(* A listed transaction that is stored already only moves the cursor.      *)
SkipIndexed ==
  /\ step = "store" /\ ~stopped /\ at <= high
  /\ IsIndexed(at)
  /\ notified' = Without(at)
  /\ cursor' = at
  /\ at' = at + 1
  /\ UNCHANGED <<rpcVars, bindVars, rows, phase, checked, step, high, low,
                 pending, retry, stopped, owed, bounds>>

(* load, without a call: a failed transaction, or one whose logs the       *)
(* subscription delivered.                                                 *)
NeedsNoFetch(n) == Failed(n) \/ n \in Range(notified)

StoreKnown ==
  /\ step = "store" /\ ~stopped /\ at <= high
  /\ ~IsIndexed(at) /\ NeedsNoFetch(at)
  /\ Record(at)
  /\ notified' = Without(at)
  /\ UNCHANGED <<rpcVars, bindVars, phase, checked, step, high, low, pending,
                 retry, stopped, owed, bounds>>

(* load, with getTransaction.                                              *)
StartFetch ==
  /\ step = "store" /\ ~stopped /\ at <= high
  /\ ~IsIndexed(at) /\ ~NeedsNoFetch(at)
  /\ step' = "fetch"
  /\ UNCHANGED <<rpcVars, bindVars, storeVars, phase, checked, syncVars,
                 pending, retry, stopped, notified, owed, bounds>>

StoreFetched ==
  /\ step = "fetch"
  /\ Record(at)
  /\ step' = "store"
  /\ UNCHANGED <<rpcVars, bindVars, phase, checked, high, low, pending, retry,
                 stopped, notified, owed, bounds>>

(* The delay a finished sync leaves behind.                                *)
DelayFor(left) == IF left # <<>> THEN "waiting" ELSE "none"

(* The end of sync.  awaitsNotified drops what is indexed and what has     *)
(* waited for NOTIFIED_TTL_MS, and the rest makes another sync due.        *)
FinishSync ==
  /\ step = "store"
  /\ stopped \/ at > high
  /\ \E old \in SUBSET Range(notified) :
       LET left == SelectSeq(notified, LAMBDA n : n \notin old /\ ~IsIndexed(n))
       IN  /\ notified' = IF stopped THEN notified ELSE left
           /\ EndSync("live", DelayFor(left))
  /\ UNCHANGED <<rpcVars, bindVars, storeVars, checked, stopped,
                 bounds>>
-----------------------------------------------------------------------------
(* The log subscription (log-stream.ts, onLogs).                           *)

(* A notification of a landed transaction: late, again or never.  The map  *)
(* of notified transactions evicts its oldest entry at its limit.          *)
RoomIn(entries) ==
  IF Len(entries) >= MaxNotified THEN Tail(entries) ELSE entries

Notify(n) ==
  /\ ~stopped
  /\ n <= Landed /\ ~Failed(n) /\ ~IsIndexed(n)
  /\ notified' = IF n \in Range(RoomIn(notified)) THEN RoomIn(notified)
                 ELSE Append(RoomIn(notified), n)
  /\ RequestSync
  /\ UNCHANGED <<rpcVars, bindVars, storeVars, phase, checked, syncVars,
                 stopped, bounds>>
-----------------------------------------------------------------------------
(* The process and its surroundings.                                       *)

(* beforeApplicationShutdown: timers and the subscription go, a running    *)
(* sync ends at its next transaction.                                      *)
Shutdown ==
  /\ ~stopped
  /\ restarts < MaxRestarts
  /\ stopped' = TRUE
  /\ retry' = "none"
  /\ UNCHANGED <<rpcVars, bindVars, storeVars, phase, checked, step, syncVars,
                 pending, notified, owed, bounds>>

(* onApplicationBootstrap of a new process, whose configuration may name   *)
(* the RPC of another chain.                                               *)
Boot ==
  /\ restarts < MaxRestarts
  /\ restarts' = restarts + 1
  /\ serves' \in Chains
  /\ listed' = 0
  /\ checked' = FALSE /\ pending' = FALSE /\ retry' = "none"
  /\ stopped' = FALSE /\ notified' = <<>>
  /\ high' = 0 /\ low' = 0 /\ at' = 0
  /\ phase' = "starting"
  /\ step' = "check"
  /\ owed' = "asked"
  /\ UNCHANGED <<chain, storeVars, failures>>

(* After a shutdown, or a crash.                                           *)
Restart ==
  /\ stopped => step = "idle"
  /\ Boot
  /\ UNCHANGED bindVars

(* checkChain's two writes are two database transactions, and the crash    *)
(* comes between them.                                                     *)
CrashWhileBinding ==
  /\ step = "check" /\ genesis = NoChain
  /\ genesis' = serves
  /\ Boot
  /\ UNCHANGED program

Land(c, outcome) ==
  /\ Len(chain[c]) < MaxLanded[c]
  /\ chain' = [chain EXCEPT ![c] = Append(@, outcome)]
  /\ UNCHANGED <<serves, listed, bindVars, storeVars, phase, checked, step,
                 syncVars, pending, retry, stopped, notified, owed,
                 bounds>>

(* The slowest node catches up.                                            *)
CatchUp ==
  /\ listed < Landed
  /\ listed' = Landed
  /\ UNCHANGED <<chain, serves, bindVars, storeVars, phase, checked, step,
                 syncVars, pending, retry, stopped, notified, owed,
                 bounds>>
-----------------------------------------------------------------------------
SyncStep ==
  CheckChain \/ ListPage \/ SkipIndexed \/ StoreKnown
    \/ StartFetch \/ StoreFetched \/ FinishSync

Next ==
  \/ SyncStep \/ CallFails
  \/ Wake \/ RetryFires
  \/ \E n \in 1 .. Landed : Notify(n)
  \/ Shutdown \/ Restart \/ CrashWhileBinding
  \/ \E c \in Chains, outcome \in Outcomes : Land(c, outcome)
  \/ CatchUp

Spec == Init /\ [][Next]_vars

(* A sync goes on, timers fire, nodes catch up, and a process that was     *)
(* shut down is started again.  Nothing is assumed of the subscription.    *)
FairSpec ==
  /\ Spec
  /\ WF_vars(SyncStep) /\ WF_vars(Wake) /\ WF_vars(RetryFires)
  /\ WF_vars(CatchUp) /\ WF_vars(stopped /\ Restart)
-----------------------------------------------------------------------------
(* Properties.                                                             *)

TypeOK ==
  /\ chain \in [Chains -> Seq(Outcomes)]
  /\ serves \in Chains /\ listed \in 0 .. Landed
  /\ genesis \in Chains \cup {NoChain} /\ program \in BOOLEAN
  /\ rows \in Seq([of : Chains, tx : Nat, events : BOOLEAN])
  /\ cursor \in Nat
  /\ phase \in {"starting", "live", "retrying", "halted"}
  /\ checked \in BOOLEAN /\ step \in Steps
  /\ high \in 0 .. Landed /\ low \in Nat /\ at \in Nat
  /\ pending \in BOOLEAN /\ stopped \in BOOLEAN
  /\ retry \in {"none", "failure", "waiting"}
  /\ owed \in {"none", "asked", "again"}
  /\ failures \in Nat /\ restarts \in Nat

(* IndexerStore.cursor: every transaction up to the cursor is indexed,     *)
(* however many pages the listing took, whichever nodes answered, and      *)
(* though the cursor itself can move back.                                 *)
CursorMeansComplete ==
  /\ cursor <= Len(rows)
  /\ \A n \in 1 .. cursor : \E i \in DOMAIN rows :
       rows[i].of = genesis /\ rows[i].tx = n

(* docs/api.md, Program Events: the stored rows are at all times a prefix  *)
(* of one chain's history, in its order, through crashes, lost calls and a *)
(* restart against another chain.                                          *)
IndexKeepsItsPromise == Promise!Spec

(* indexer.service.ts, requestSync, onLogs and onResubscribed: a request   *)
(* for a sync is never lost.  Until a listing that began after it has      *)
(* answered, a sync is under way that will ask, or is queued, or a timer   *)
(* is set; so is one while a notified transaction is not indexed.  Yet     *)
(* nothing calls the RPC while the delay of a failed sync runs.            *)
RequestsAreServed ==
  /\ Accepting /\ owed # "none" =>
       \/ retry # "none"
       \/ step # "idle" /\ (owed = "again" => pending)
  /\ Accepting /\ notified # <<>> => step # "idle" \/ retry # "none"
  /\ retry = "failure" => step = "idle"

(* Every transaction that lands on the served chain is indexed, unless the *)
(* database is another chain's, or a crash between checkChain's two writes *)
(* left it without a program, which halts the indexer for good: a call     *)
(* that fails, a lost notification or a lagging node only delays it.       *)
EverythingIsIndexed ==
  \A c \in Chains : \A n \in 1 .. MaxLanded[c] :
    serves = c /\ n <= Len(chain[c]) ~>
      \/ serves # c \/ genesis # c \/ ~program
      \/ \E i \in DOMAIN rows : rows[i].of = c /\ rows[i].tx = n
=============================================================================
