--------------------------- MODULE TelemetryChain ---------------------------
(***************************************************************************)
(* The telemetry of one car: backend/src/telemetry collects a published    *)
(* day at a time, signs batches of days as the project's oracle and keeps  *)
(* its own record of the chain that record_telemetry builds on Solana.     *)
(*                                                                         *)
(* An action is what the backend does between two awaits, or one step of   *)
(* the network, of the program or of the key the project was given.  The   *)
(* process may crash between any two of them and keeps only its database.  *)
(*                                                                         *)
(* A head is the hash of everything before it, so here it is the sequence  *)
(* of entries itself.  A day's text never changes, so an entry is its date *)
(* and who wrote it.  A blockhash is valid until it expires; the height at *)
(* which it does is left out.  One car, with the oracle key configured.    *)
(*                                                                         *)
(* A definition named X_Fault is X with one plausible bug.                 *)
(***************************************************************************)
EXTENDS Naturals, SequencesExt, FiniteSetsExt

CONSTANTS
  LastDay,         \* bound: the days of the model are 1 .. LastDay
  StartDate,       \* car.startDate, or 0 when it is not set
  MaxBackfill,     \* MAX_BACKFILL_DAYS
  MaxEntries,      \* MAX_ENTRIES_PER_BATCH, which is MAX_TELEMETRY_ENTRIES
  InitialOracles,  \* who may be the project's oracle at first
  TheirDays,       \* days another oracle may record
  MaxSubmissions,  \* bound: batches the backend signs
  MaxTroubles,     \* bound: lost or failed calls
  MaxCrashes,      \* bound: crashes of the backend
  MaxRotations     \* bound: changes of the project's oracle

Days == 1 .. LastDay

ASSUME BoundsAssumption ==
  /\ LastDay \in Nat \ {0} /\ StartDate \in 0 .. LastDay
  /\ MaxBackfill \in Nat \ {0} /\ MaxEntries \in Nat \ {0}
  /\ InitialOracles \subseteq {"ours", "theirs"} /\ InitialOracles # {}
  /\ TheirDays \subseteq Days
  /\ MaxSubmissions \in Nat /\ MaxTroubles \in Nat
  /\ MaxCrashes \in Nat /\ MaxRotations \in Nat

VARIABLES
  \* On Solana.
  lifecycle,    \* project: "absent", "raising", "recordable" or "ended"
  oracle,       \* project.oracle: "ours" or "theirs"
  chain,        \* the entries whose hash is project.telemetry_head
  tx,           \* every transaction the backend signed, and its fate
  \* The backend's database.
  days,         \* telemetry_days
  outcome,      \* telemetry_submissions, by transaction
  \* The backend's memory.
  job,          \* the daily job: its phase and the days it collects
  owner, step,  \* who holds the car's queue and what it waits for
  seen,         \* the project as the queue's owner last read it
  todo,         \* days the owner has planned to write
  answer,       \* what the last request was told of the chain
  \* The rest of the world.
  yesterday,
  troubles, crashes, rotations

solanaVars == <<lifecycle, oracle, chain>>
storeVars == <<days, outcome>>
taskVars == <<owner, step, seen, todo>>
boundVars == <<troubles, crashes, rotations>>
vars == <<solanaVars, tx, storeVars, job, taskVars, answer, yesterday, boundVars>>

Entry(d, who) == [date |-> d, by |-> who]
OurEntries(dates) == [i \in DOMAIN dates |-> Entry(dates[i], "ours")]
LastDate(entries) == IF entries = <<>> THEN 0 ELSE Last(entries).date

(* A row of telemetry_days: batch is the number of its transaction and     *)
(* head its head_after, both of which are null outside of any batch.       *)
NoDay == [collected |-> FALSE, batch |-> 0, head |-> <<>>, confirmed |-> FALSE]

JobOff == [phase |-> "off", next |-> 1, until |-> 0]
NothingSeen == [lifecycle |-> "absent", oracle |-> "ours", chain |-> <<>>]

Init ==
  /\ lifecycle \in {"absent", "recordable"}
  /\ oracle \in InitialOracles
  /\ chain = <<>> /\ tx = <<>>
  /\ days = [d \in Days |-> NoDay] /\ outcome = <<>>
  /\ job = JobOff
  /\ owner = "none" /\ step = "idle" /\ seen = NothingSeen /\ todo = <<>>
  /\ answer = "none"
  /\ yesterday = 0
  /\ troubles = 0 /\ crashes = 0 /\ rotations = 0
-----------------------------------------------------------------------------
(* telemetry.store.ts                                                      *)

Collected == {d \in Days : days[d].collected}
ConfirmedDays == {d \in Days : days[d].confirmed}
BatchDays(n) == {d \in Days : days[d].batch = n}

(* pendingSubmission: signed batches of unknown outcome.                   *)
Pending == {n \in DOMAIN outcome : outcome[n] = "pending"}
PendingBatch == CHOOSE n \in Pending : TRUE

(* submissionLinks: the head after a batch and the head before it.         *)
HeadAfter(n) == days[Max(BatchDays(n))].head
HeadBefore(n) == Front(days[Min(BatchDays(n))].head)

(* confirmedTip: the newest confirmed day, none at first.                  *)
ConfirmedTip ==
  {d \in ConfirmedDays :
     \A e \in ConfirmedDays : Len(days[e].head) <= Len(days[d].head)}

ConfirmSubmission(n) ==
  /\ outcome' = [outcome EXCEPT ![n] = "confirmed"]
  /\ days' = [d \in Days |->
       [days[d] EXCEPT !.confirmed = @ \/ days[d].batch = n]]

(* abandonSubmission: the days of the batch are unsubmitted again.         *)
Unlinked_Fault(day) == day
Unlinked(day) == [day EXCEPT !.batch = 0, !.head = <<>>]

AbandonSubmission(n, why) ==
  /\ outcome' = [outcome EXCEPT ![n] = why]
  /\ days' = [d \in Days |->
       IF days[d].batch = n THEN Unlinked(days[d]) ELSE days[d]]

(* unsubmittedAfter: oldest first.                                         *)
Increasing(dates) ==
  \A i, j \in DOMAIN dates : i < j => dates[i] < dates[j]

OldestFirst(S) == CHOOSE dates \in [1 .. Cardinality(S) -> S] : Increasing(dates)

UnsubmittedAfter(last) ==
  OldestFirst({d \in Collected' : days'[d].batch = 0 /\ d > last})
-----------------------------------------------------------------------------
(* The daily job: telemetry-cron.service.ts, telemetry-collector.service.ts *)

(* dueDays: from the day after the last collected one, or the start date,  *)
(* but never further back than the backfill limit.                         *)
FirstDue ==
  LET first == IF Collected # {} THEN Max(Collected) + 1
               ELSE IF StartDate = 0 THEN yesterday ELSE StartDate
  IN Max({1, first, yesterday + 1 - Min({yesterday, MaxBackfill})})

(* The last day that is over where the car is.                             *)
LastDue_Fault == yesterday + 1
LastDue == yesterday

JobStarts ==
  /\ job.phase = "off"
  /\ yesterday > 0
  /\ job' = [phase |-> "collecting", next |-> FirstDue, until |-> LastDue]
  /\ UNCHANGED <<solanaVars, tx, storeVars, taskVars, answer, yesterday,
                 boundVars>>

CollectDay ==
  /\ job.phase = "collecting" /\ job.next <= job.until
  /\ days' = [days EXCEPT ![job.next].collected = TRUE]
  /\ job' = [job EXCEPT !.next = @ + 1]
  /\ UNCHANGED <<solanaVars, tx, outcome, taskVars, answer, yesterday,
                 boundVars>>

(* A day that cannot be read stops the collection; later days wait.        *)
CollectFails ==
  /\ job.phase = "collecting" /\ job.next <= job.until
  /\ troubles < MaxTroubles
  /\ troubles' = troubles + 1
  /\ job' = [job EXCEPT !.until = job.next - 1]
  /\ UNCHANGED <<solanaVars, tx, storeVars, taskVars, answer, yesterday,
                 crashes, rotations>>
-----------------------------------------------------------------------------
(* The queue of the car: one task at a time, keyed-serial-queue.ts.        *)

Starts(who) ==
  /\ owner = "none"
  /\ owner' = who /\ step' = "tip"
  /\ answer' = "none"
  /\ UNCHANGED <<solanaVars, tx, storeVars, seen, todo, yesterday, boundVars>>

(* sync, once the job has collected what it could.                         *)
SyncStarts ==
  /\ job.phase = "collecting" /\ job.next > job.until
  /\ job' = [job EXCEPT !.phase = "syncing"]
  /\ Starts("job")

(* reconcile, for a revenue report.                                        *)
RequestStarts ==
  /\ Starts("request")
  /\ UNCHANGED job

(* The task returns: a request learns what the reconciliation found.       *)
Returns(found) ==
  /\ answer' = IF owner = "request" THEN found ELSE "none"
  /\ job' = IF owner = "job" THEN JobOff ELSE job
  /\ owner' = "none" /\ step' = "idle" /\ seen' = NothingSeen /\ todo' = <<>>

(* The call the task waits for throws.                                     *)
TaskFails ==
  /\ step \in {"tip", "height", "sign"}
  /\ troubles < MaxTroubles
  /\ troubles' = troubles + 1
  /\ Returns("none")
  /\ UNCHANGED <<solanaVars, tx, storeVars, yesterday, crashes, rotations>>
-----------------------------------------------------------------------------
(* reconcileNow: what the project account, as it is now, says.             *)

Here == [lifecycle |-> lifecycle, oracle |-> oracle, chain |-> chain]

MatchesPending_Fault == Len(chain) = Len(HeadAfter(PendingBatch))
MatchesPending == chain = HeadAfter(PendingBatch)

MatchesLocal_Fault == TRUE
MatchesLocal == \A d \in ConfirmedTip : days[d].head = chain

(* In sync with the project as s shows it: a report can be built; the job  *)
(* plans every later day, if the project is ours to write to.              *)
Proceeds(s) ==
  LET plan == UnsubmittedAfter(LastDate(s.chain))
  IN
  IF /\ owner = "job"
     /\ s.oracle = "ours" /\ s.lifecycle = "recordable"
     /\ plan # <<>>
  THEN /\ step' = "sign" /\ seen' = s /\ todo' = plan
       /\ UNCHANGED <<owner, job, answer>>
  ELSE Returns("in_sync")

ReconcileUnchanged == UNCHANGED <<solanaVars, tx, yesterday, boundVars>>

FindsNoProject ==
  /\ step = "tip" /\ lifecycle = "absent"
  /\ Returns("no_project")
  /\ UNCHANGED storeVars
  /\ ReconcileUnchanged

FindsBatchLanded ==
  /\ step = "tip" /\ lifecycle # "absent"
  /\ Pending # {} /\ MatchesPending
  /\ ConfirmSubmission(PendingBatch)
  /\ Proceeds(Here)
  /\ ReconcileUnchanged

(* Not landed yet: whether it still can is a second call.                  *)
FindsBatchOpen ==
  /\ step = "tip" /\ lifecycle # "absent"
  /\ Pending # {} /\ ~MatchesPending
  /\ chain = HeadBefore(PendingBatch)
  /\ step' = "height" /\ seen' = Here
  /\ UNCHANGED <<storeVars, job, owner, todo, answer>>
  /\ ReconcileUnchanged

FindsInSync ==
  /\ step = "tip" /\ lifecycle # "absent"
  /\ Pending = {} /\ MatchesLocal
  /\ UNCHANGED storeVars
  /\ Proceeds(Here)
  /\ ReconcileUnchanged

FindsDiverged ==
  /\ step = "tip" /\ lifecycle # "absent"
  /\ IF Pending = {} THEN ~MatchesLocal
     ELSE ~MatchesPending /\ chain # HeadBefore(PendingBatch)
  /\ Returns("diverged")
  /\ UNCHANGED storeVars
  /\ ReconcileUnchanged

(* The block height says that the batch may still land.                    *)
StillValid(n) == tx[n].valid

WaitsForBatch == Returns("pending")

FindsStillValid ==
  /\ step = "height" /\ StillValid(PendingBatch)
  /\ UNCHANGED storeVars
  /\ WaitsForBatch
  /\ ReconcileUnchanged

(* Or that it cannot: the task goes on with the project it read before.    *)
FindsExpired ==
  /\ step = "height" /\ ~StillValid(PendingBatch)
  /\ AbandonSubmission(PendingBatch, "expired")
  /\ Proceeds(seen)
  /\ ReconcileUnchanged
-----------------------------------------------------------------------------
(* syncNow and writeBatch.                                                 *)

Batch == SubSeq(todo, 1, Min({MaxEntries, Len(todo)}))
Current == Len(tx)

(* plan: the head after the first i days of the batch.                     *)
PlannedHead(i) == seen.chain \o OurEntries(SubSeq(Batch, 1, i))

(* The batch is signed and, before it is sent, recorded with its links.    *)
SignBatch ==
  /\ step = "sign"
  /\ Len(tx) < MaxSubmissions
  /\ tx' = Append(tx, [dates |-> Batch, valid |-> TRUE, fate |-> "unsent"])
  /\ outcome' = Append(outcome, "pending")
  /\ days' = [d \in Days |->
       IF d \in Range(Batch)
       THEN [days[d] EXCEPT !.batch = Len(tx) + 1,
               !.head = PlannedHead(CHOOSE i \in DOMAIN Batch : Batch[i] = d)]
       ELSE days[d]]
  /\ step' = "send"
  /\ UNCHANGED <<solanaVars, job, owner, seen, todo, answer, yesterday,
                 boundVars>>

SetFate(n, fate) == tx' = [tx EXCEPT ![n].fate = fate]

SendBatch ==
  /\ step = "send"
  /\ SetFate(Current, "inFlight")
  /\ step' = "confirm"
  /\ UNCHANGED <<solanaVars, storeVars, job, owner, seen, todo, answer,
                 yesterday, boundVars>>

(* record_telemetry of a batch: the oracle's signature, a project that     *)
(* operates or is paused, dates later than every recorded one.             *)
DatesIncrease(dates) == \A d \in Range(dates) : d > LastDate(chain)

WouldRecord(dates) ==
  /\ oracle = "ours"
  /\ lifecycle = "recordable"
  /\ DatesIncrease(dates)

(* The simulation before the sending rejects the batch, or the blockhash   *)
(* it was signed on: an error that leaves the outcome open.                *)
PreflightRejects ==
  /\ step = "send"
  /\ ~WouldRecord(tx[Current].dates) \/ ~tx[Current].valid
  /\ SetFate(Current, "lost")
  /\ Returns("none")
  /\ UNCHANGED <<solanaVars, storeVars, yesterday, boundVars>>

(* The sending fails, whether or not the cluster received the batch.       *)
SendFails ==
  /\ step = "send"
  /\ troubles < MaxTroubles
  /\ troubles' = troubles + 1
  /\ \E fate \in {"inFlight", "lost"} : SetFate(Current, fate)
  /\ Returns("none")
  /\ UNCHANGED <<solanaVars, storeVars, yesterday, crashes, rotations>>

(* Confirmed: the next batch follows where this one ended.                 *)
BatchConfirmed ==
  LET rest == SubSeq(todo, Len(Batch) + 1, Len(todo))
  IN
  /\ step = "confirm"
  /\ tx[Current].fate = "landed"
  /\ ConfirmSubmission(Current)
  /\ IF rest = <<>> THEN Returns("in_sync")
     ELSE /\ step' = "sign" /\ todo' = rest
          /\ seen' = [seen EXCEPT !.chain = PlannedHead(Len(Batch))]
          /\ UNCHANGED <<owner, job, answer>>
  /\ UNCHANGED <<solanaVars, tx, yesterday, boundVars>>

(* It landed and failed, or its last block has passed: the client library  *)
(* raises its expiry error also for a batch that landed just before, when  *)
(* no confirmation has reached it.                                         *)
BatchFailed ==
  /\ step = "confirm"
  /\ \/ /\ tx[Current].fate = "failed"
        /\ AbandonSubmission(Current, "failed")
     \/ /\ tx[Current].fate \in {"inFlight", "landed"} /\ ~tx[Current].valid
        /\ AbandonSubmission(Current, "expired")
  /\ Returns("none")
  /\ UNCHANGED <<solanaVars, tx, yesterday, boundVars>>

(* Any other error leaves the outcome to the next reconciliation.          *)
ConfirmationFails ==
  /\ step = "confirm"
  /\ troubles < MaxTroubles
  /\ troubles' = troubles + 1
  /\ Returns("none")
  /\ UNCHANGED <<solanaVars, tx, storeVars, yesterday, crashes, rotations>>
-----------------------------------------------------------------------------
(* The cluster, the calendar, the admin, another oracle, and a crash.      *)

BackendUnchanged == UNCHANGED <<storeVars, job, taskVars, answer>>

Lands(n) ==
  /\ tx[n].fate = "inFlight" /\ tx[n].valid
  /\ IF WouldRecord(tx[n].dates)
     THEN chain' = chain \o OurEntries(tx[n].dates) /\ SetFate(n, "landed")
     ELSE SetFate(n, "failed") /\ UNCHANGED chain
  /\ BackendUnchanged
  /\ UNCHANGED <<lifecycle, oracle, yesterday, boundVars>>

(* A batch the cluster does not take in time costs one of the troubles.    *)
Expires(n) ==
  LET missed == \/ tx[n].fate = "inFlight"
                \/ tx[n].fate = "unsent" /\ step = "send" /\ n = Current
  IN
  /\ tx[n].valid
  /\ missed => troubles < MaxTroubles
  /\ tx' = [tx EXCEPT ![n].valid = FALSE]
  /\ troubles' = IF missed THEN troubles + 1 ELSE troubles
  /\ BackendUnchanged
  /\ UNCHANGED <<solanaVars, yesterday, crashes, rotations>>

DayPasses ==
  /\ yesterday < LastDay
  /\ yesterday' = yesterday + 1
  /\ BackendUnchanged
  /\ UNCHANGED <<solanaVars, tx, boundVars>>

ProjectAdvances ==
  /\ \/ lifecycle = "absent" /\ lifecycle' = "raising"
     \/ lifecycle = "raising" /\ lifecycle' \in {"recordable", "ended"}
     \/ lifecycle = "recordable" /\ lifecycle' = "ended"
  /\ BackendUnchanged
  /\ UNCHANGED <<oracle, chain, tx, yesterday, boundVars>>

(* set_roles names another oracle, or this backend's key again.            *)
RotateOracle ==
  /\ lifecycle = "recordable" /\ rotations < MaxRotations
  /\ oracle' \in {"ours", "theirs"} \ {oracle}
  /\ rotations' = rotations + 1
  /\ BackendUnchanged
  /\ UNCHANGED <<lifecycle, chain, tx, yesterday, troubles, crashes>>

TheyRecord(d) ==
  /\ oracle = "theirs" /\ lifecycle = "recordable"
  /\ d > LastDate(chain)
  /\ chain' = Append(chain, Entry(d, "theirs"))
  /\ BackendUnchanged
  /\ UNCHANGED <<lifecycle, oracle, tx, yesterday, boundVars>>

Crash ==
  /\ crashes < MaxCrashes
  /\ crashes' = crashes + 1
  /\ job' = JobOff
  /\ owner' = "none" /\ step' = "idle" /\ seen' = NothingSeen /\ todo' = <<>>
  /\ answer' = "none"
  /\ UNCHANGED <<solanaVars, tx, storeVars, yesterday, troubles, rotations>>
-----------------------------------------------------------------------------
Reconcile ==
  \/ FindsNoProject \/ FindsBatchLanded \/ FindsBatchOpen
  \/ FindsInSync \/ FindsDiverged \/ FindsStillValid \/ FindsExpired

Write ==
  \/ SignBatch \/ SendBatch \/ PreflightRejects
  \/ BatchConfirmed \/ BatchFailed

Trouble == CollectFails \/ TaskFails \/ SendFails \/ ConfirmationFails

Cluster == \E n \in DOMAIN tx : Lands(n) \/ Expires(n)

Surroundings ==
  \/ DayPasses \/ ProjectAdvances \/ RotateOracle \/ Crash
  \/ \E d \in TheirDays : TheyRecord(d)

Next ==
  \/ JobStarts \/ CollectDay \/ SyncStarts \/ RequestStarts
  \/ Reconcile \/ Write
  \/ Trouble \/ Cluster \/ Surroundings

Spec == Init /\ [][Next]_vars

(* The cron job recurs and runs to its end; the queue is first in, first   *)
(* out, so requests cannot keep the job from its turn; every call returns; *)
(* and the cluster decides every transaction.                              *)
FairSpec ==
  /\ Spec
  /\ WF_vars(JobStarts) /\ WF_vars(CollectDay) /\ SF_vars(SyncStarts)
  /\ WF_vars(Reconcile) /\ WF_vars(Write)
  /\ \A n \in 1 .. MaxSubmissions :
       /\ WF_vars(n \in DOMAIN tx /\ Lands(n))
       /\ WF_vars(n \in DOMAIN tx /\ Expires(n))
-----------------------------------------------------------------------------
EntryRecord == [date : Days, by : {"ours", "theirs"}]
Lifecycles == {"absent", "raising", "recordable", "ended"}
Fates == {"unsent", "inFlight", "lost", "landed", "failed"}

(* Type invariant; reconcileNow looks at one pending batch, and there is   *)
(* never a second one.                                                     *)
TypeOK ==
  /\ Cardinality(Pending) <= 1
  /\ lifecycle \in Lifecycles /\ oracle \in {"ours", "theirs"}
  /\ chain \in Seq(EntryRecord)
  /\ tx \in Seq([dates : Seq(Days), valid : BOOLEAN, fate : Fates])
  /\ days \in [Days -> [collected : BOOLEAN, batch : 0 .. Len(tx),
                        head : Seq(EntryRecord), confirmed : BOOLEAN]]
  /\ outcome \in Seq({"pending", "confirmed", "failed", "expired"})
  /\ Len(outcome) = Len(tx)
  /\ job.phase \in {"off", "collecting", "syncing"}
  /\ job.next \in Nat /\ job.until \in 0 .. yesterday
  /\ owner \in {"none", "job", "request"}
  /\ step \in {"idle", "tip", "height", "sign", "send", "confirm"}
  /\ seen \in [lifecycle : Lifecycles, oracle : {"ours", "theirs"},
               chain : Seq(EntryRecord)]
  /\ todo \in Seq(Days)
  /\ answer \in {"none", "no_project", "in_sync", "pending", "diverged"}
  /\ yesterday \in 0 .. LastDay
  /\ troubles \in 0 .. MaxTroubles
  /\ crashes \in 0 .. MaxCrashes /\ rotations \in 0 .. MaxRotations

(* telemetry.store.ts, ConfirmedDay: a day whose batch landed.  What the   *)
(* database calls confirmed is in the chain, through crashes, lost answers *)
(* and another oracle's entries.                                           *)
ConfirmedIsOnChain ==
  \A d \in ConfirmedDays : Entry(d, "ours") \in Range(chain)

(* A revenue report is built only after a reconciliation that did not      *)
(* diverge, and cites the position and head of every day.  Each confirmed  *)
(* day is then where the database says it is.                              *)
ReportsMatchTheChain ==
  answer \in {"in_sync", "pending"} =>
    \A d \in ConfirmedDays : IsPrefix(days[d].head, chain)

Diverged ==
  IF Pending = {} THEN ~MatchesLocal
  ELSE ~MatchesPending /\ chain # HeadBefore(PendingBatch)

(* Every collected day reaches the chain, through crashes and lost calls,  *)
(* unless the chain has gone past it, the project cannot or may not be     *)
(* written by this backend, or the chain diverged.                         *)
DaysReachTheChain ==
  \A d \in Days :
    days[d].collected ~>
      \/ LastDate(chain) >= d
      \/ lifecycle # "recordable" \/ oracle = "theirs"
      \/ Diverged
=============================================================================
