---------------------------- MODULE SeedExecutor ----------------------------
(***************************************************************************)
(* The resumable executor of a seed plan (scripts/seed-devnet): execute.ts *)
(* with the checkpoint file of lib/state.ts and the transaction client of  *)
(* lib/chain.ts, against a cluster on which a signed transaction lands,    *)
(* fails or expires, and RPC calls that fail.                              *)
(*                                                                         *)
(* What the code does between two awaits is one action.  The gates of      *)
(* time-locked steps, which only wait, and the selection of phases are     *)
(* left out; a confirmed transaction is taken as final, as the code does.  *)
(***************************************************************************)
EXTENDS Naturals

CONSTANTS
  Last,         \* the number of steps of the plan
  Skippable,    \* steps whose builder finds the work done: config, mint, funds
  Guarded,      \* steps the program refuses a second time: create, deposit ...
  Signatures,
  MaxAttempts,  \* MAX_ATTEMPTS
  SlowChecks,   \* whether a block may be finalized between two RPC calls
  MaxFaults     \* bound: crashes, failed calls, expiries, failures on chain

Steps == 1 .. Last

ASSUME SeedAssumption ==
  /\ Last \in Nat \ {0}
  /\ Skippable \subseteq Steps /\ Guarded \subseteq Steps
  /\ "none" \notin Signatures /\ "done" \notin Signatures
  /\ MaxAttempts \in Nat \ {0}
  /\ SlowChecks \in BOOLEAN
  /\ MaxFaults \in Nat

VARIABLES
  record,   \* the checkpoint file: "none", a pending signature or "done"
  of,       \* the step each signature was signed for, 0 for none
  fate,     \* what has become of each signature
  past,     \* the signatures whose last valid height is finalized
  pc,       \* what the executor waits for; "off" when it does not run
  at,       \* its step
  mode,     \* who asks for the outcome: "settle" or "submit"
  deep,     \* searchHistory
  attempt,
  unsure,   \* history: steps whose `submit` threw something but a refusal
  faults

file == <<record, unsure>>
cluster == <<of, fate, past>>
lookup == <<mode, deep>>
vars == <<file, cluster, pc, at, lookup, attempt, faults>>

Fates == {"unused", "signed", "open", "landed", "failed", "expired"}
PCs == {"off", "next", "build", "send", "status", "height", "finished"}

Init ==
  /\ record = [s \in Steps |-> "none"] /\ unsure = {}
  /\ of = [t \in Signatures |-> 0]
  /\ fate = [t \in Signatures |-> "unused"]
  /\ past = {}
  /\ pc = "off" /\ at = 1
  /\ mode = "settle" /\ deep = TRUE
  /\ attempt = 1
  /\ faults = 0

Tx == record[at]
Executed(s) == \E t \in Signatures : of[t] = s /\ fate[t] = "landed"

Fault == faults < MaxFaults /\ faults' = faults + 1

MarkDone == record' = [record EXCEPT ![at] = "done"]
Clear_Fault == UNCHANGED record
Clear == record' = [record EXCEPT ![at] = "none"]
-----------------------------------------------------------------------------
(* The executor.                                                           *)

(* Somebody starts the script, again after a crash or an error.            *)
Start ==
  /\ pc = "off"
  /\ pc' = "next" /\ at' = 1
  /\ UNCHANGED <<file, cluster, lookup, attempt, faults>>

(* The loop of `execute`: done steps are passed over, a pending one is     *)
(* settled first.                                                          *)
Resumes_Fault == FALSE
Resumes == Tx \in Signatures

NextStep ==
  /\ pc = "next"
  /\ \/ /\ Tx = "done" /\ at < Last
        /\ at' = at + 1
        /\ UNCHANGED <<pc, lookup, attempt>>
     \/ /\ Tx = "done" /\ at = Last
        /\ pc' = "finished"
        /\ UNCHANGED <<at, lookup, attempt>>
     \/ /\ Tx # "done" /\ Resumes
        /\ pc' = "status" /\ mode' = "settle" /\ deep' = TRUE
        /\ UNCHANGED <<at, attempt>>
     \/ /\ Tx # "done" /\ ~Resumes
        /\ pc' = "build" /\ attempt' = 1
        /\ UNCHANGED <<at, lookup>>
  /\ UNCHANGED <<file, cluster, faults>>

(* buildStep finds nothing to do.                                          *)
NothingToDo == at \in Skippable /\ Executed(at)

Skip ==
  /\ pc = "build"
  /\ NothingToDo
  /\ MarkDone
  /\ pc' = "next"
  /\ UNCHANGED <<unsure, cluster, at, lookup, attempt, faults>>

(* sign, never with a signature that was used, and markPending.            *)
Unused == {t \in Signatures : fate[t] = "unused"}

Sign ==
  /\ pc = "build"
  /\ ~NothingToDo
  /\ Unused # {}
  /\ LET t == CHOOSE u \in Unused : TRUE IN
       /\ of' = [of EXCEPT ![t] = at]
       /\ fate' = [fate EXCEPT ![t] = "signed"]
       /\ record' = [record EXCEPT ![at] = t]
  /\ pc' = "send"
  /\ UNCHANGED <<unsure, past, at, lookup, attempt, faults>>

(* The preflight simulates the transaction.                                *)
Refused(t) == of[t] \in Guarded /\ Executed(of[t])

SendAccepted ==
  /\ pc = "send"
  /\ ~Refused(Tx)
  /\ fate' = [fate EXCEPT ![Tx] = "open"]
  /\ pc' = "status" /\ mode' = "submit" /\ deep' = FALSE
  /\ UNCHANGED <<file, of, past, at, attempt, faults>>

SendRefused ==
  /\ pc = "send"
  /\ Refused(Tx)
  /\ fate' = [fate EXCEPT ![Tx] = "expired"]
  /\ Clear
  /\ pc' = "off"
  /\ UNCHANGED <<unsure, of, past, at, lookup, attempt, faults>>

(* sendRawTransaction throws, whether or not the node took the transaction *)
(* on: `execute` clears the record and gives up.                           *)
SendThrows ==
  /\ pc = "send"
  /\ Fault
  /\ fate' = [fate EXCEPT ![Tx] = "open"] \/ fate' = [fate EXCEPT ![Tx] = "expired"]
  /\ Clear
  /\ unsure' = unsure \cup {at}
  /\ pc' = "off"
  /\ UNCHANGED <<of, past, at, lookup, attempt>>

(* outcome: the signature's status.  Without searchHistory an old one may  *)
(* be missing; one that is not confirmed yet counts as unknown.            *)
StatusMissing(t) ==
  \/ fate[t] \in {"signed", "open", "expired"}
  \/ ~deep /\ t \in past

Again == pc' = "status" /\ deep' = (mode = "settle")

Succeeded(t) == fate[t] = "landed"

ReadConfirmed ==
  /\ pc = "status"
  /\ Succeeded(Tx)
  /\ MarkDone
  /\ pc' = "next"
  /\ UNCHANGED <<unsure, cluster, at, lookup, attempt, faults>>

ReadUnconfirmed ==
  /\ pc = "status"
  /\ fate[Tx] = "landed" /\ Tx \notin past
  /\ Again
  /\ UNCHANGED <<file, cluster, at, mode, attempt, faults>>

(* The logs are read before the record is cleared; if that throws, the     *)
(* record stays for the next run.                                          *)
ReadFailed ==
  /\ pc = "status"
  /\ fate[Tx] = "failed" /\ ~Succeeded(Tx)
  /\ \/ Clear /\ UNCHANGED faults
     \/ Fault /\ UNCHANGED record
  /\ pc' = "off"
  /\ UNCHANGED <<unsure, cluster, at, lookup, attempt>>

ReadNoStatus ==
  /\ pc = "status"
  /\ StatusMissing(Tx)
  /\ pc' = "height"
  /\ UNCHANGED <<file, cluster, at, lookup, attempt, faults>>

(* outcome: the finalized height.                                          *)
StillValid ==
  /\ pc = "height"
  /\ Tx \notin past
  /\ Again
  /\ UNCHANGED <<file, cluster, at, mode, attempt, faults>>

LooksPast_Fault == FALSE
LooksPast == ~deep

SearchHistory ==
  /\ pc = "height"
  /\ Tx \in past /\ LooksPast
  /\ pc' = "status" /\ deep' = TRUE
  /\ UNCHANGED <<file, cluster, at, mode, attempt, faults>>

MayRetry == attempt < MaxAttempts

Expired ==
  /\ pc = "height"
  /\ Tx \in past /\ ~LooksPast
  /\ Clear
  /\ \/ /\ mode = "settle"
        /\ pc' = "build" /\ attempt' = 1
     \/ /\ mode = "submit" /\ MayRetry
        /\ pc' = "build" /\ attempt' = attempt + 1
     \/ /\ mode = "submit" /\ ~MayRetry
        /\ pc' = "off" /\ UNCHANGED attempt
  /\ UNCHANGED <<unsure, cluster, at, lookup, faults>>

(* A status or height call throws: settlePending keeps the record, the     *)
(* catch around submit clears it.                                          *)
LookupThrows ==
  /\ pc \in {"status", "height"}
  /\ Fault
  /\ pc' = "off"
  /\ \/ mode = "settle" /\ UNCHANGED file
     \/ mode = "submit" /\ Clear /\ unsure' = unsure \cup {at}
  /\ UNCHANGED <<cluster, at, lookup, attempt>>

Crash ==
  /\ pc \notin {"off", "finished"}
  /\ Fault
  /\ pc' = "off"
  /\ UNCHANGED <<file, cluster, at, lookup, attempt>>
-----------------------------------------------------------------------------
(* The cluster.                                                            *)

Land(t) ==
  /\ fate[t] = "open"
  /\ \/ /\ ~Refused(t)
        /\ fate' = [fate EXCEPT ![t] = "landed"]
        /\ UNCHANGED faults
     \/ /\ Refused(t)
        /\ fate' = [fate EXCEPT ![t] = "failed"]
        /\ UNCHANGED faults
     \/ /\ fate' = [fate EXCEPT ![t] = "failed"]
        /\ Fault
  /\ UNCHANGED <<file, of, past, pc, at, lookup, attempt>>

(* A transaction that is never included; one that was never sent for sure. *)
Expire(t) ==
  /\ \/ fate[t] = "open" /\ Fault
     \/ fate[t] = "signed" /\ ~(pc = "send" /\ Tx = t) /\ UNCHANGED faults
  /\ fate' = [fate EXCEPT ![t] = "expired"]
  /\ UNCHANGED <<file, of, past, pc, at, lookup, attempt>>

(* The finalized height passes the last block that could include it.  When *)
(* calls are quick, none of a transaction that landed after its status was *)
(* read is finalized before the height is.                                 *)
Finalize(t) ==
  /\ fate[t] \in {"landed", "failed", "expired"} /\ t \notin past
  /\ SlowChecks \/ ~(pc = "height" /\ t = Tx /\ fate[t] = "landed")
  /\ past' = past \cup {t}
  /\ UNCHANGED <<file, of, fate, pc, at, lookup, attempt, faults>>
-----------------------------------------------------------------------------
Lookup ==
  ReadConfirmed \/ ReadUnconfirmed \/ ReadFailed \/ ReadNoStatus
    \/ StillValid \/ SearchHistory \/ Expired

Executor ==
  Start \/ NextStep \/ Skip \/ Sign \/ SendAccepted \/ SendRefused \/ Lookup

Next ==
  \/ Executor
  \/ SendThrows \/ LookupThrows \/ Crash
  \/ \E t \in Signatures : Land(t) \/ Expire(t) \/ Finalize(t)

Spec == Init /\ [][Next]_vars

(* The script runs on and is started again; the cluster includes what it   *)
(* was sent, but for a bounded number of losses, and goes on.              *)
FairSpec ==
  /\ Spec
  /\ WF_vars(Executor)
  /\ \A t \in Signatures :
       WF_vars(Land(t)) /\ WF_vars(Expire(t)) /\ WF_vars(Finalize(t))
-----------------------------------------------------------------------------
(* Properties.                                                             *)

TypeOK ==
  /\ record \in [Steps -> Signatures \cup {"none", "done"}]
  /\ of \in [Signatures -> Steps \cup {0}]
  /\ fate \in [Signatures -> Fates]
  /\ past \subseteq Signatures
  /\ pc \in PCs /\ at \in Steps
  /\ mode \in {"settle", "submit"} /\ deep \in BOOLEAN
  /\ attempt \in 1 .. MaxAttempts
  /\ unsure \subseteq Steps /\ faults \in Nat

RunsTwice(s) ==
  \E t, u \in Signatures :
    /\ t # u /\ of[t] = s /\ of[u] = s
    /\ fate[t] = "landed" /\ fate[u] = "landed"

(* execute.ts, header: a crash at any point, a lost transaction or a late  *)
(* look-up never makes a step run twice.  The one exception is a step      *)
(* whose submission threw with its outcome unknown.                        *)
NoStepTwice == \A s \in Steps : RunsTwice(s) => s \in unsure

(* README.md of seed-devnet: no step ever runs twice.  Violated: an RPC    *)
(* error in `submit` drops the record of a transaction that can still      *)
(* land, and the next run sends the step again.                            *)
StepsRunOnce == \A s \in Steps : ~RunsTwice(s)

(* state.ts, header, every step is recorded twice.  At any point a crash   *)
(* may come, a step the file calls done has landed, and a transaction that *)
(* can still land is in the file, so the next run looks it up first.       *)
DoneMeansExecuted == \A s \in Steps : record[s] = "done" => Executed(s)

InFlightIsRecorded ==
  \A t \in Signatures :
    fate[t] \in {"signed", "open"} =>
      of[t] \in unsure \/ record[of[t]] = t

CheckpointIsTrue == DoneMeansExecuted /\ InFlightIsRecorded

(* plan.ts, steps: a step runs on a cluster on which all earlier ones ran. *)
StepsInOrder ==
  \A s, r \in Steps : r < s /\ Executed(s) => Executed(r)

(* The plan completes, however often it is interrupted, unless a step's    *)
(* submission threw: a step the program refuses a second time then fails   *)
(* in every further run.                                                   *)
SeedFinishes == <>(pc = "finished" \/ unsure \cap Guarded # {})
=============================================================================
