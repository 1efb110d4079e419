-------------------------- MODULE SeedExecutorProofs --------------------------
(***************************************************************************)
(* The seed executor, for a plan of any length, any number of attempts and *)
(* any number of crashes and lost calls.  The checkpoint file and the      *)
(* executor's place in the plan are tied together first (Booked); what the *)
(* file says about the cluster rests on that.                              *)
(***************************************************************************)
EXTENDS SeedExecutor, TLAPS

(* A pending signature is one that was signed for its step, and what the   *)
(* executor is about to do agrees with the entry of its step.              *)
Recorded ==
  /\ \A s \in Steps : record[s] \in Signatures =>
       of[record[s]] = s /\ fate[record[s]] # "unused"
  /\ \A t \in Signatures : fate[t] # "unused" => of[t] \in Steps

Held ==
  /\ pc = "build" => Tx = "none"
  /\ pc \in {"send", "status", "height"} => Tx \in Signatures
  /\ pc = "send" => fate[Tx] = "signed"

Booked == TypeOK /\ Recorded /\ Held

(* Steps that leave the file and the cluster as they are.                  *)
Moves ==
  \/ Start \/ NextStep \/ ReadUnconfirmed \/ ReadNoStatus
  \/ StillValid \/ SearchHistory \/ Crash

LEMMA StepsOfNext ==
  ASSUME Next
  PROVE  \/ Moves \/ Skip \/ Sign \/ SendAccepted \/ SendRefused
         \/ SendThrows \/ ReadConfirmed \/ ReadFailed \/ Expired
         \/ LookupThrows
         \/ \E t \in Signatures : Land(t) \/ Expire(t) \/ Finalize(t)
  BY DEF Next, Executor, Lookup, Moves

LEMMA MovesChangeNothing ==
  ASSUME Moves
  PROVE  UNCHANGED <<record, unsure, of, fate, past>>
  BY DEF Moves, Start, NextStep, ReadUnconfirmed, ReadNoStatus, StillValid,
         SearchHistory, Crash, file, cluster

LEMMA ChosenSignature ==
  ASSUME Unused # {}
  PROVE  /\ (CHOOSE u \in Unused : TRUE) \in Signatures
         /\ fate[CHOOSE u \in Unused : TRUE] = "unused"
  BY DEF Unused

LEMMA InitBooked == Init => Booked
<1> SUFFICES ASSUME Init PROVE Booked
  OBVIOUS
<1>1. TypeOK
  BY SeedAssumption DEF Init, TypeOK, Steps, Fates, PCs
<1>2. Recorded /\ Held
  BY SeedAssumption DEF Init, Recorded, Held, Steps
<1>3. QED
  BY <1>1, <1>2 DEF Booked

LEMMA TypeStep ==
  ASSUME TypeOK, [Next]_vars
  PROVE  TypeOK'
<1> USE SeedAssumption DEF TypeOK, file, cluster, lookup
<1>1. CASE Moves
  <2>1. CASE Start
    BY <2>1 DEF Start, PCs, Steps
  <2>2. CASE NextStep
    <3>1. pc' \in PCs /\ attempt' \in 1 .. MaxAttempts
      BY <2>2 DEF NextStep, PCs
    <3>2. at' \in Steps
      BY <2>2 DEF NextStep, Steps
    <3>3. mode' \in {"settle", "submit"} /\ deep' \in BOOLEAN
      BY <2>2 DEF NextStep
    <3>4. UNCHANGED <<record, unsure, of, fate, past, faults>>
      BY <2>2 DEF NextStep
    <3>5. QED
      BY <3>1, <3>2, <3>3, <3>4
  <2>3. CASE ReadUnconfirmed \/ ReadNoStatus \/ StillValid \/ SearchHistory
    BY <2>3 DEF ReadUnconfirmed, ReadNoStatus, StillValid, SearchHistory,
                Again, PCs
  <2>4. CASE Crash
    BY <2>4 DEF Crash, Fault, PCs
  <2>5. QED
    BY <1>1, <2>1, <2>2, <2>3, <2>4 DEF Moves
<1>2. CASE Skip
  BY <1>2 DEF Skip, MarkDone, PCs
<1>3. CASE Sign
  <2> DEFINE t == CHOOSE u \in Unused : TRUE
  <2>1. t \in Signatures
    BY <1>3, ChosenSignature DEF Sign
  <2>2. /\ of' = [of EXCEPT ![t] = at]
        /\ fate' = [fate EXCEPT ![t] = "signed"]
        /\ record' = [record EXCEPT ![at] = t]
        /\ pc' = "send"
        /\ UNCHANGED <<unsure, past, at, mode, deep, attempt, faults>>
    BY <1>3 DEF Sign
  <2> HIDE DEF t
  <2>3. QED
    BY <2>1, <2>2 DEF PCs, Fates
<1>4. CASE SendAccepted
  BY <1>4 DEF SendAccepted, PCs, Fates
<1>5. CASE SendRefused \/ SendThrows
  BY <1>5 DEF SendRefused, SendThrows, Clear, Fault, PCs, Fates
<1>6. CASE ReadConfirmed
  BY <1>6 DEF ReadConfirmed, MarkDone, PCs
<1>7. CASE ReadFailed \/ LookupThrows
  BY <1>7 DEF ReadFailed, LookupThrows, Clear, Fault, PCs
<1>8. CASE Expired
  BY <1>8 DEF Expired, MayRetry, Clear, PCs
<1>9. ASSUME NEW t \in Signatures, Land(t) \/ Expire(t) \/ Finalize(t)
      PROVE  TypeOK'
  BY <1>9 DEF Land, Expire, Finalize, Fault, Fates
<1>10. CASE UNCHANGED vars
  BY <1>10 DEF vars
<1>11. QED
  BY <1>1, <1>2, <1>3, <1>4, <1>5, <1>6, <1>7, <1>8, <1>9, <1>10, StepsOfNext

LEMMA BookedStep ==
  ASSUME Booked, [Next]_vars
  PROVE  Booked'
<1>1. TypeOK'
  BY TypeStep DEF Booked
<1> SUFFICES Recorded' /\ Held'
  BY <1>1 DEF Booked
<1> USE SeedAssumption DEF Booked, TypeOK, Recorded, Held, file, cluster, lookup, Tx
<1>2. CASE Moves
  BY <1>2 DEF Moves, Start, NextStep, ReadUnconfirmed, ReadNoStatus,
    StillValid, SearchHistory, Crash, Again, Resumes
<1>3. CASE Skip
  BY <1>3 DEF Skip, MarkDone
<1>4. CASE Sign
  <2> DEFINE t == CHOOSE u \in Unused : TRUE
  <2>1. t \in Signatures /\ fate[t] = "unused"
    BY <1>4, ChosenSignature DEF Sign
  <2>2. /\ of' = [of EXCEPT ![t] = at]
        /\ fate' = [fate EXCEPT ![t] = "signed"]
        /\ record' = [record EXCEPT ![at] = t]
        /\ pc' = "send" /\ UNCHANGED at
    BY <1>4 DEF Sign
  <2> HIDE DEF t
  <2>3. QED
    BY <2>1, <2>2
<1>5. CASE SendAccepted
  BY <1>5 DEF SendAccepted
<1>6. CASE SendRefused \/ SendThrows
  BY <1>6 DEF SendRefused, SendThrows, Clear
<1>7. CASE ReadConfirmed
  BY <1>7 DEF ReadConfirmed, MarkDone
<1>8. CASE ReadFailed \/ LookupThrows
  BY <1>8 DEF ReadFailed, LookupThrows, Clear
<1>9. CASE Expired
  BY <1>9 DEF Expired, Clear
<1>10. ASSUME NEW t \in Signatures, Land(t) \/ Expire(t) \/ Finalize(t)
       PROVE  Recorded' /\ Held'
  BY <1>10 DEF Land, Expire, Finalize
<1>11. CASE UNCHANGED vars
  BY <1>11 DEF vars
<1>12. QED
  BY <1>2, <1>3, <1>4, <1>5, <1>6, <1>7, <1>8, <1>9, <1>10, <1>11, StepsOfNext

THEOREM BookedIsInvariant == Spec => []Booked
  BY InitBooked, BookedStep, PTL DEF Spec
-----------------------------------------------------------------------------
(* What the file says was done was done, and in the order of the plan.     *)

(* Steps before the executor's own are done, and everything that was ever  *)
(* signed was signed when all earlier steps were on the cluster.           *)
Prefix == pc # "off" => \A r \in Steps : r < at => record[r] = "done"

Ordered ==
  \A t \in Signatures : fate[t] # "unused" =>
    \A r \in Steps : r < of[t] => Executed(r)

Truthful == DoneMeansExecuted /\ Prefix /\ Ordered

(* A transaction that landed stays, and stays its step's.                  *)
LEMMA LandedStays ==
  ASSUME Booked, [Next]_vars, NEW u \in Signatures, fate[u] = "landed"
  PROVE  fate'[u] = "landed" /\ of'[u] = of[u]
<1> USE DEF Booked, TypeOK, Held, Recorded, Tx, file, cluster, lookup
<1>1. CASE Moves
  BY <1>1, MovesChangeNothing
<1>2. CASE Sign
  <2> DEFINE t == CHOOSE v \in Unused : TRUE
  <2>1. t \in Signatures /\ fate[t] = "unused"
    BY <1>2, ChosenSignature DEF Sign
  <2>2. /\ of' = [of EXCEPT ![t] = at]
        /\ fate' = [fate EXCEPT ![t] = "signed"]
    BY <1>2 DEF Sign
  <2> HIDE DEF t
  <2>3. QED
    BY <2>1, <2>2
<1>3. CASE Skip \/ ReadConfirmed \/ ReadFailed \/ Expired \/ LookupThrows
  BY <1>3 DEF Skip, ReadConfirmed, ReadFailed, Expired, LookupThrows
<1>4. CASE SendAccepted \/ SendRefused \/ SendThrows
  BY <1>4 DEF SendAccepted, SendRefused, SendThrows
<1>5. ASSUME NEW t \in Signatures, Land(t) \/ Expire(t) \/ Finalize(t)
      PROVE  fate'[u] = "landed" /\ of'[u] = of[u]
  BY <1>5 DEF Land, Expire, Finalize
<1>6. CASE UNCHANGED vars
  BY <1>6 DEF vars
<1>7. QED
  BY <1>1, <1>2, <1>3, <1>4, <1>5, <1>6, StepsOfNext

LEMMA ExecutedStays ==
  ASSUME Booked, [Next]_vars, NEW s \in Steps, Executed(s)
  PROVE  Executed(s)'
  BY LandedStays DEF Executed

LEMMA InitTruthful == Init => Truthful
  BY SeedAssumption DEF Init, Truthful, DoneMeansExecuted, Prefix, Ordered

LEMMA TruthfulStep ==
  ASSUME Booked, Truthful, [Next]_vars
  PROVE  Truthful'
<1>1. DoneMeansExecuted'
  <2> SUFFICES ASSUME NEW s \in Steps, record'[s] = "done", record[s] # "done"
               PROVE  Executed(s)
    BY ExecutedStays DEF Truthful, DoneMeansExecuted
  <2> USE SeedAssumption DEF Booked, TypeOK, Held, Recorded, file, cluster, lookup, Tx
  <2>1. CASE Moves
    BY <2>1, MovesChangeNothing
  <2>2. CASE Skip
    BY <2>2 DEF Skip, NothingToDo, MarkDone
  <2>3. CASE ReadConfirmed
    BY <2>3 DEF ReadConfirmed, Succeeded, MarkDone, Executed
  <2>4. CASE Sign
    <3> DEFINE t == CHOOSE v \in Unused : TRUE
    <3>1. t \in Signatures /\ record' = [record EXCEPT ![at] = t]
      BY <2>4, ChosenSignature DEF Sign
    <3> HIDE DEF t
    <3>2. QED
      BY <3>1
  <2>5. CASE SendAccepted \/ SendRefused \/ SendThrows
    BY <2>5 DEF SendAccepted, SendRefused, SendThrows, Clear
  <2>6. CASE ReadFailed \/ Expired \/ LookupThrows
    BY <2>6 DEF ReadFailed, Expired, LookupThrows, Clear
  <2>7. ASSUME NEW t \in Signatures, Land(t) \/ Expire(t) \/ Finalize(t)
        PROVE  Executed(s)
    BY <2>7 DEF Land, Expire, Finalize
  <2>8. CASE UNCHANGED vars
    BY <2>8 DEF vars
  <2>9. QED
    BY <2>1, <2>2, <2>3, <2>4, <2>5, <2>6, <2>7, <2>8, StepsOfNext
<1>2. Prefix'
  <2> USE SeedAssumption DEF Booked, TypeOK, Truthful, Prefix, file, cluster, lookup
  <2>1. CASE Moves
    <3>1. UNCHANGED record
      BY <2>1, MovesChangeNothing
    <3>2. CASE Start
      BY <3>1, <3>2 DEF Start, Steps
    <3>3. CASE NextStep
      BY <3>1, <3>3 DEF NextStep, Tx, Steps
    <3>4. CASE ReadUnconfirmed \/ ReadNoStatus \/ StillValid \/ SearchHistory \/ Crash
      BY <3>1, <3>4 DEF ReadUnconfirmed, ReadNoStatus, StillValid,
                        SearchHistory, Crash, Again
    <3>5. QED
      BY <2>1, <3>2, <3>3, <3>4 DEF Moves
  <2>2. CASE Skip \/ ReadConfirmed
    BY <2>2 DEF Skip, ReadConfirmed, MarkDone, Steps
  <2>3. CASE Sign
    <3> DEFINE t == CHOOSE v \in Unused : TRUE
    <3>1. record' = [record EXCEPT ![at] = t] /\ pc = "build" /\ at' = at
      BY <2>3 DEF Sign
    <3> HIDE DEF t
    <3>2. QED
      BY <3>1 DEF Steps
  <2>4. CASE SendAccepted \/ SendRefused \/ SendThrows
    BY <2>4 DEF SendAccepted, SendRefused, SendThrows
  <2>5. CASE ReadFailed \/ LookupThrows
    BY <2>5 DEF ReadFailed, LookupThrows
  <2>6. CASE Expired
    BY <2>6 DEF Expired, Clear, Steps
  <2>7. ASSUME NEW t \in Signatures, Land(t) \/ Expire(t) \/ Finalize(t)
        PROVE  Prefix'
    BY <2>7 DEF Land, Expire, Finalize
  <2>8. CASE UNCHANGED vars
    BY <2>8 DEF vars
  <2>9. QED
    BY <2>1, <2>2, <2>3, <2>4, <2>5, <2>6, <2>7, <2>8, StepsOfNext
<1>3. Ordered'
  <2> SUFFICES ASSUME NEW u \in Signatures, fate'[u] # "unused",
                      NEW r \in Steps, r < of'[u]
               PROVE  Executed(r)
    BY ExecutedStays DEF Ordered
  <2>1. CASE Sign
    <3> DEFINE t == CHOOSE v \in Unused : TRUE
    <3>1. /\ t \in Signatures /\ of' = [of EXCEPT ![t] = at]
          /\ fate' = [fate EXCEPT ![t] = "signed"] /\ pc = "build"
      BY <2>1, ChosenSignature DEF Sign
    <3> HIDE DEF t
    <3>2. CASE u = t
      <4>1. r < at
        BY <3>1, <3>2 DEF Booked, TypeOK
      <4>2. record[r] = "done"
        BY <3>1, <4>1 DEF Truthful, Prefix
      <4>3. QED
        BY <4>2 DEF Truthful, DoneMeansExecuted
    <3>3. CASE u # t
      BY <3>1, <3>3 DEF Booked, TypeOK, Truthful, Ordered
    <3>4. QED
      BY <3>2, <3>3
  <2>2. CASE ~Sign
    <3>1. of'[u] = of[u] /\ fate[u] # "unused"
      <4> USE DEF Booked, TypeOK, Held, Recorded, Tx, file, cluster, lookup
      <4>1. CASE Moves
        BY <4>1, MovesChangeNothing
      <4>2. CASE Skip \/ ReadConfirmed \/ ReadFailed \/ Expired \/ LookupThrows
        BY <4>2 DEF Skip, ReadConfirmed, ReadFailed, Expired, LookupThrows
      <4>3. CASE SendAccepted \/ SendRefused \/ SendThrows
        BY <4>3 DEF SendAccepted, SendRefused, SendThrows
      <4>4. ASSUME NEW t \in Signatures, Land(t) \/ Expire(t) \/ Finalize(t)
            PROVE  of'[u] = of[u] /\ fate[u] # "unused"
        BY <4>4 DEF Land, Expire, Finalize
      <4>5. CASE UNCHANGED vars
        BY <4>5 DEF vars
      <4>6. QED
        BY <2>2, <4>1, <4>2, <4>3, <4>4, <4>5, StepsOfNext
    <3>2. QED
      BY <3>1 DEF Truthful, Ordered
  <2>3. QED
    BY <2>1, <2>2
<1>4. QED
  BY <1>1, <1>2, <1>3 DEF Truthful

LEMMA TruthfulIsInvariant == Spec => []Truthful
  BY InitTruthful, TruthfulStep, BookedIsInvariant, PTL DEF Spec

(* plan.ts, steps: no step is on the cluster before all earlier ones, for  *)
(* a plan of any length and whatever is interrupted, lost or sent twice.   *)
THEOREM StepsRunInOrder == Spec => []StepsInOrder
<1>1. Booked /\ Truthful => StepsInOrder
  BY DEF Booked, Recorded, Truthful, Ordered, StepsInOrder, Executed
<1>2. QED
  BY <1>1, BookedIsInvariant, TruthfulIsInvariant, PTL
-----------------------------------------------------------------------------
(* No step runs twice, provided no block is finalized between the two      *)
(* calls of a look-up.  The file has one entry for each step, so what can  *)
(* still land and what landed have to agree with it; and an entry may only *)
(* go when its transaction is over without having landed.                  *)

LandedIsKept ==
  \A t \in Signatures : fate[t] = "landed" =>
    of[t] \in unsure \/ record[of[t]] \in {t, "done"}

PastIsOver == \A t \in past : fate[t] \in {"landed", "failed", "expired"}

(* The second, deep look-up is final.                                      *)
DeepIsFinal == pc = "height" /\ deep /\ Tx \in past => fate[Tx] # "landed"

Unique ==
  InFlightIsRecorded /\ LandedIsKept /\ NoStepTwice /\ PastIsOver /\ DeepIsFinal

LEMMA InitUnique == Init => Unique
  BY SeedAssumption DEF Init, Unique, InFlightIsRecorded, LandedIsKept,
     NoStepTwice, RunsTwice, PastIsOver, DeepIsFinal

(* Steps that leave the file and the cluster alone only move the executor. *)
LEMMA MovesKeepUnique ==
  ASSUME Booked, Unique, Moves
  PROVE  Unique'
<1>1. UNCHANGED <<record, unsure, of, fate, past>>
  BY MovesChangeNothing
<1>2. (InFlightIsRecorded /\ LandedIsKept /\ NoStepTwice /\ PastIsOver)'
  BY <1>1 DEF Unique, InFlightIsRecorded, LandedIsKept, NoStepTwice,
              RunsTwice, PastIsOver
<1>3. DeepIsFinal'
  <2>1. CASE Start \/ NextStep \/ ReadUnconfirmed \/ StillValid \/ SearchHistory \/ Crash
    BY <2>1 DEF Start, NextStep, ReadUnconfirmed, StillValid, SearchHistory,
                Crash, Again, DeepIsFinal, Booked, Held
  <2>2. CASE ReadNoStatus
    BY <1>1, <2>2 DEF ReadNoStatus, StatusMissing, DeepIsFinal, lookup, Tx
  <2>3. QED
    BY <2>1, <2>2 DEF Moves
<1>4. QED
  BY <1>2, <1>3 DEF Unique

(* An entry is dropped when its transaction is over without having landed, *)
(* or when nothing is certain of its step any more.                        *)
LEMMA DroppingKeepsUnique ==
  ASSUME Booked, Unique, Tx \in Signatures, Clear,
         UNCHANGED <<of, past>>, pc' # "height",
         \/ /\ fate'[Tx] \notin {"signed", "open", "landed"}
            /\ UNCHANGED unsure
         \/ unsure' = unsure \cup {at},
         \/ UNCHANGED fate
         \/ /\ fate[Tx] = "signed"
            /\ fate' = [fate EXCEPT ![Tx] = "open"] \/ fate' = [fate EXCEPT ![Tx] = "expired"]
  PROVE  Unique'
<1> USE SeedAssumption DEF Booked, TypeOK, Recorded, Clear, Tx
<1>1. \A t \in Signatures : fate'[t] # fate[t] => t = Tx /\ of[t] = at
  OBVIOUS
<1>2. InFlightIsRecorded'
  BY <1>1 DEF Unique, InFlightIsRecorded
<1>3. LandedIsKept'
  BY <1>1 DEF Unique, LandedIsKept
<1>4. NoStepTwice'
  BY <1>1 DEF Unique, NoStepTwice, RunsTwice
<1>5. PastIsOver'
  BY <1>1 DEF Unique, PastIsOver
<1>6. DeepIsFinal'
  BY DEF DeepIsFinal
<1>7. QED
  BY <1>2, <1>3, <1>4, <1>5, <1>6 DEF Unique

LEMMA MarkingKeepsUnique ==
  ASSUME Booked, Unique, MarkDone, pc' = "next",
         \/ Tx = "none"
         \/ Tx \in Signatures /\ fate[Tx] = "landed",
         UNCHANGED <<unsure, of, fate, past>>
  PROVE  Unique'
<1> USE SeedAssumption DEF Booked, TypeOK, Recorded, MarkDone, Tx
<1>1. InFlightIsRecorded'
  BY DEF Unique, InFlightIsRecorded
<1>2. LandedIsKept'
  BY DEF Unique, LandedIsKept
<1>3. (NoStepTwice /\ PastIsOver /\ DeepIsFinal)'
  BY DEF Unique, NoStepTwice, RunsTwice, PastIsOver, DeepIsFinal
<1>4. QED
  BY <1>1, <1>2, <1>3 DEF Unique

LEMMA SigningKeepsUnique ==
  ASSUME Booked, Unique, Sign
  PROVE  Unique'
<1> DEFINE t == CHOOSE v \in Unused : TRUE
<1>1. /\ t \in Signatures /\ fate[t] = "unused" /\ pc = "build"
      /\ of' = [of EXCEPT ![t] = at]
      /\ fate' = [fate EXCEPT ![t] = "signed"]
      /\ record' = [record EXCEPT ![at] = t]
      /\ pc' = "send" /\ UNCHANGED <<unsure, past>>
  BY ChosenSignature DEF Sign
<1> HIDE DEF t
<1>2. record[at] = "none"
  BY <1>1 DEF Booked, Held, Tx
<1> USE SeedAssumption DEF Booked, TypeOK, Recorded
<1>3. InFlightIsRecorded'
  BY <1>1, <1>2 DEF Unique, InFlightIsRecorded
<1>4. LandedIsKept'
  BY <1>1, <1>2 DEF Unique, LandedIsKept
<1>5. NoStepTwice'
  BY <1>1 DEF Unique, NoStepTwice, RunsTwice
<1>6. PastIsOver' /\ DeepIsFinal'
  BY <1>1 DEF Unique, PastIsOver, DeepIsFinal
<1>7. QED
  BY <1>3, <1>4, <1>5, <1>6 DEF Unique

(* The cluster's steps.  A transaction that lands is the one the file      *)
(* names, so none of its step landed before.                               *)
LEMMA ClusterKeepsUnique ==
  ASSUME ~SlowChecks, Booked, Unique, NEW t \in Signatures,
         Land(t) \/ Expire(t) \/ Finalize(t)
  PROVE  Unique'
<1> USE SeedAssumption DEF Booked, TypeOK, Recorded, file, lookup
<1>1. InFlightIsRecorded'
  BY DEF Unique, InFlightIsRecorded, Land, Expire, Finalize
<1>2. LandedIsKept'
  BY DEF Unique, InFlightIsRecorded, LandedIsKept, Land, Expire, Finalize
<1>3. NoStepTwice'
  <2> SUFFICES ASSUME NEW s \in Steps, s \notin unsure,
                      NEW u \in Signatures, NEW v \in Signatures, u # v,
                      of[u] = s, of[v] = s,
                      fate'[u] = "landed", fate'[v] = "landed"
               PROVE  FALSE
    BY DEF NoStepTwice, RunsTwice, Land, Expire, Finalize
  <2>1. ~(fate[u] = "landed" /\ fate[v] = "landed")
    BY DEF Unique, NoStepTwice, RunsTwice
  <2>2. \A w \in Signatures : fate'[w] = "landed" =>
          fate[w] = "landed" \/ (w = t /\ fate[w] = "open")
    BY DEF Land, Expire, Finalize
  <2>3. \A w \in {u, v} : fate[w] = "open" => record[s] = w
    BY DEF Unique, InFlightIsRecorded
  <2>4. \A w \in {u, v} : fate[w] = "landed" => record[s] \in {w, "done"}
    BY DEF Unique, LandedIsKept
  <2>5. QED
    BY <2>1, <2>2, <2>3, <2>4
<1>4. PastIsOver'
  BY DEF Unique, PastIsOver, Land, Expire, Finalize
<1>5. DeepIsFinal'
  <2>1. UNCHANGED <<record, pc, at, deep>>
    BY DEF Land, Expire, Finalize
  <2>2. CASE Land(t)
    <3>1. t \notin past /\ past' = past
      BY <2>2 DEF Land, Unique, PastIsOver
    <3>2. \A w \in past : fate'[w] = fate[w]
      BY <2>2, <3>1 DEF Land
    <3>3. QED
      BY <2>1, <3>1, <3>2 DEF Unique, DeepIsFinal, Tx
  <2>3. CASE Expire(t)
    <3>1. past' = past /\ \A w \in Signatures :
             fate'[w] = "landed" => fate[w] = "landed"
      BY <2>3 DEF Expire
    <3>2. QED
      BY <2>1, <3>1 DEF Unique, DeepIsFinal, Tx
  <2>4. CASE Finalize(t)
    <3>1. fate' = fate /\ past' = past \cup {t}
          /\ ~(pc = "height" /\ t = Tx /\ fate[t] = "landed")
      BY <2>4 DEF Finalize
    <3>2. QED
      BY <2>1, <3>1 DEF Unique, DeepIsFinal, Tx
  <2>5. QED
    BY <2>2, <2>3, <2>4
<1>6. QED
  BY <1>1, <1>2, <1>3, <1>4, <1>5 DEF Unique

LEMMA UniqueStep ==
  ASSUME ~SlowChecks, Booked, Unique, [Next]_vars
  PROVE  Unique'
<1> USE SeedAssumption DEF file, cluster, lookup
<1>1. CASE Skip
  BY <1>1, MarkingKeepsUnique DEF Skip, Booked, Held
<1>2. CASE ReadConfirmed
  BY <1>2, MarkingKeepsUnique DEF ReadConfirmed, Succeeded, Booked, Held
<1>3. CASE SendAccepted
  <2>1. /\ fate' = [fate EXCEPT ![Tx] = "open"] /\ pc' = "status"
        /\ UNCHANGED <<record, unsure, of, past>>
        /\ Tx \in Signatures /\ fate[Tx] = "signed"
    BY <1>3 DEF SendAccepted, Booked, Held
  <2>2. \A t \in Signatures : fate'[t] # fate[t] =>
          fate[t] = "signed" /\ fate'[t] = "open"
    BY <2>1 DEF Booked, TypeOK
  <2>3. \A t \in Signatures : fate'[t] = "landed" => fate[t] = "landed"
    BY <2>2 DEF Booked, TypeOK
  <2>4. InFlightIsRecorded' /\ LandedIsKept'
    BY <2>1, <2>2, <2>3 DEF Unique, InFlightIsRecorded, LandedIsKept
  <2>5. NoStepTwice'
    BY <2>1, <2>3 DEF Unique, NoStepTwice, RunsTwice
  <2>6. PastIsOver' /\ DeepIsFinal'
    BY <2>1, <2>2 DEF Unique, PastIsOver, DeepIsFinal, Booked, TypeOK
  <2>7. QED
    BY <2>4, <2>5, <2>6 DEF Unique
<1>4. CASE SendRefused
  BY <1>4, DroppingKeepsUnique DEF SendRefused, Booked, Held, TypeOK
<1>5. CASE SendThrows
  BY <1>5, DroppingKeepsUnique DEF SendThrows, Booked, Held
<1>6. CASE ReadFailed
  <2>1. /\ pc' = "off" /\ UNCHANGED <<unsure, of, fate, past>>
        /\ Clear \/ UNCHANGED record
    BY <1>6 DEF ReadFailed
  <2>2. CASE UNCHANGED record
    BY <2>1, <2>2 DEF Unique, InFlightIsRecorded, LandedIsKept, NoStepTwice,
                      RunsTwice, PastIsOver, DeepIsFinal
  <2>3. CASE Clear
    BY <1>6, <2>1, <2>3, DroppingKeepsUnique DEF ReadFailed, Booked, Held
  <2>4. QED
    BY <2>1, <2>2, <2>3
<1>7. CASE Expired
  <2>1. /\ Tx \in Signatures /\ Tx \in past /\ deep /\ pc = "height" /\ Clear
        /\ UNCHANGED <<unsure, of, fate, past>> /\ pc' # "height"
    BY <1>7 DEF Expired, LooksPast, Booked, Held
  <2>2. fate[Tx] \notin {"signed", "open", "landed"}
    BY <2>1 DEF Unique, PastIsOver, DeepIsFinal
  <2>3. QED
    BY <2>1, <2>2, DroppingKeepsUnique
<1>8. CASE LookupThrows
  <2>1. /\ pc' = "off" /\ UNCHANGED <<of, fate, past>> /\ Tx \in Signatures
        /\ \/ UNCHANGED <<record, unsure>>
           \/ Clear /\ unsure' = unsure \cup {at}
    BY <1>8 DEF LookupThrows, Booked, Held
  <2>2. CASE UNCHANGED <<record, unsure>>
    BY <2>1, <2>2 DEF Unique, InFlightIsRecorded, LandedIsKept, NoStepTwice,
                      RunsTwice, PastIsOver, DeepIsFinal
  <2>3. CASE Clear /\ unsure' = unsure \cup {at}
    BY <2>1, <2>3, DroppingKeepsUnique
  <2>4. QED
    BY <2>1, <2>2, <2>3
<1>9. CASE UNCHANGED vars
  BY <1>9 DEF vars, Unique, InFlightIsRecorded, LandedIsKept, NoStepTwice,
              RunsTwice, PastIsOver, DeepIsFinal, Tx
<1>10. QED
  BY <1>1, <1>2, <1>3, <1>4, <1>5, <1>6, <1>7, <1>8, <1>9, StepsOfNext,
     MovesKeepUnique, SigningKeepsUnique, ClusterKeepsUnique

LEMMA UniqueIsInvariant == ~SlowChecks => (Spec => []Unique)
<1> SUFFICES ASSUME ~SlowChecks PROVE Spec => []Unique
  OBVIOUS
<1>1. Booked /\ Unique /\ [Next]_vars => Unique'
  BY UniqueStep
<1>2. QED
  BY <1>1, InitUnique, BookedIsInvariant, PTL DEF Spec

(* execute.ts, header: no step runs twice, for a plan of any length and    *)
(* any number of crashes, losses and failed calls, unless its submission   *)
(* threw; SlowChecks, a block finalized between the two calls of a look-up *)
(* at the very end of its validity, is excluded.                           *)
THEOREM NoStepRunsTwice == ~SlowChecks => (Spec => []NoStepTwice)
<1>1. Unique => NoStepTwice
  BY DEF Unique
<1>2. QED
  BY <1>1, UniqueIsInvariant, PTL

(* state.ts: after a crash at any point the file names everything that can *)
(* still land, and calls nothing done that did not.                        *)
THEOREM TheCheckpointIsTrue == ~SlowChecks => (Spec => []CheckpointIsTrue)
<1>1. Unique /\ Truthful => CheckpointIsTrue
  BY DEF Unique, Truthful, CheckpointIsTrue
<1>2. QED
  BY <1>1, UniqueIsInvariant, TruthfulIsInvariant, PTL
=============================================================================
