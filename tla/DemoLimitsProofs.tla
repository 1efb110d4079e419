--------------------------- MODULE DemoLimitsProofs ---------------------------
(***************************************************************************)
(* The limits of the demo path, for any number of requests, wallets and    *)
(* addresses and any limits: nothing is granted past them, and one         *)
(* simulated month runs at a time.                                         *)
(***************************************************************************)
EXTENDS DemoLimits, FiniteSetTheorems, TLAPS

Types ==
  /\ marks \subseteq {KeyOf(to, w) : to \in Routes, w \in Wallets}
  /\ granted \in Int
  /\ perIp \in [Addresses -> Nat] /\ simulations \in [Wallets -> Int]
  /\ route \in [Requests -> Routes] /\ wallet \in [Requests -> Wallets]
  /\ ip \in [Requests -> Addresses]
  /\ pc \in [Requests -> PCs] /\ result \in [Requests -> Results]
  /\ fate \in [Requests -> {"none", "open", "landed", "failed"}]
  /\ unsure \subseteq Requests

(* What one request may be: nothing is sent before its turn, and a request *)
(* that gives back knows that its transaction failed, or is unsure of it.  *)
Sound(r) ==
  /\ pc[r] \in {"idle", "check", "mark", "ip", "count", "send"} =>
       fate[r] = "none"
  /\ pc[r] \in {"uncount", "unmark"} /\ fate[r] \in {"open", "landed"} =>
       r \in unsure
  /\ result[r] = "refused" => fate[r] = "none"
  /\ pc[r] \notin {"uncount", "unmark", "ended"} => result[r] = "none"
  /\ pc[r] \in {"check", "ip"} => route[r] = "access"

(* Whose part of a counter has not been given back, and whose marker is    *)
(* set: until a request has given back, or for good if it paid.            *)
InGranted(r) ==
  /\ route[r] = "access"
  /\ pc[r] \in {"send", "poll", "uncount"} \/ (Paying(r) /\ r \notin unsure)

Given(r) == InGranted(r) /\ result[r] # "refused"

InIp(r) ==
  /\ route[r] = "access"
  /\ pc[r] \in {"count", "send", "poll"} \/ Paying(r)

InSimulations(r) ==
  /\ route[r] = "simulate"
  /\ pc[r] \in {"mark", "send", "poll", "unmark", "uncount"}

Owns(r) ==
  IF route[r] = "simulate" THEN pc[r] \in {"send", "poll", "unmark"}
  ELSE \/ pc[r] \in {"ip", "count", "send", "poll", "uncount", "unmark"}
       \/ fate[r] \in {"open", "landed"} /\ r \notin unsure

GrantedSet == {r \in Requests : InGranted(r)}
GivenSet == {r \in Requests : Given(r)}
IpSet(a) == {r \in Requests : InIp(r) /\ ip[r] = a}
SimulationSet(w) == {r \in Requests : InSimulations(r) /\ wallet[r] = w}

Counts ==
  /\ Cardinality(GrantedSet) <= granted
  /\ Cardinality(GivenSet) <= AccessCap
  /\ \A a \in Addresses :
       /\ Cardinality(IpSet(a)) <= perIp[a]
       /\ Cardinality(IpSet(a)) <= AccessPerIp
  /\ \A w \in Wallets : Cardinality(SimulationSet(w)) <= simulations[w]

Owners ==
  /\ \A r \in Requests : Owns(r) => Key(r) \in marks
  /\ \A r, q \in Requests : Owns(r) /\ Owns(q) /\ Key(r) = Key(q) => r = q

Inv == Types /\ (\A r \in Requests : Sound(r)) /\ Counts /\ Owners
-----------------------------------------------------------------------------
(* Sets of requests and their sizes.                                       *)

LEMMA FewRequests ==
  ASSUME NEW S, S \subseteq Requests
  PROVE  IsFiniteSet(S) /\ Cardinality(S) \in Nat
  BY LimitsAssumption, FS_Subset, FS_CardinalityType DEF LimitsAssumption

LEMMA NoMore ==
  ASSUME NEW S, NEW T, S \subseteq Requests, T \subseteq S
  PROVE  Cardinality(T) <= Cardinality(S)
  BY FewRequests, FS_Subset

LEMMA OneMore ==
  ASSUME NEW S, NEW T, NEW r \in Requests, S \subseteq Requests,
         T \subseteq S \cup {r}
  PROVE  Cardinality(T) <= Cardinality(S) + 1
<1>1. S \cup {r} \subseteq Requests
  OBVIOUS
<1>2. Cardinality(T) <= Cardinality(S \cup {r})
  BY <1>1, NoMore
<1>3. Cardinality(S \cup {r}) <= Cardinality(S) + 1
  BY FewRequests, FS_AddElement
<1>4. T \subseteq Requests
  BY <1>1
<1>5. QED
  BY <1>1, <1>2, <1>3, <1>4, FewRequests

LEMMA OneLess ==
  ASSUME NEW S, NEW T, NEW r \in S, S \subseteq Requests, T \subseteq S \ {r}
  PROVE  Cardinality(T) <= Cardinality(S) - 1
<1>1. Cardinality(S \ {r}) = Cardinality(S) - 1
  BY FewRequests, FS_RemoveElement
<1>2. Cardinality(T) <= Cardinality(S \ {r})
  BY NoMore
<1>3. QED
  BY <1>1, <1>2, FewRequests

(* The three markers of a wallet are different, and so are two wallets'.   *)
LEMMA KeysDiffer ==
  ASSUME NEW to \in Routes, NEW other \in Routes, NEW w, NEW v,
         KeyOf(to, w) = KeyOf(other, v)
  PROVE  to = other /\ (to # "simulate" => w = v)
<1>1. KeyOf(to, w)[1] = to /\ KeyOf(other, v)[1] = other
  BY DEF KeyOf
<1>2. CASE to # "simulate"
  BY <1>1, <1>2 DEF KeyOf
<1>3. QED
  BY <1>1, <1>2
-----------------------------------------------------------------------------
(* A step of one request leaves the others as they are.                    *)

Touches(r) ==
  \A q \in Requests : q # r =>
    /\ route'[q] = route[q] /\ wallet'[q] = wallet[q] /\ ip'[q] = ip[q]
    /\ pc'[q] = pc[q] /\ result'[q] = result[q] /\ fate'[q] = fate[q]
    /\ q \in unsure' <=> q \in unsure

LEMMA OthersStay ==
  ASSUME NEW r, Touches(r), NEW q \in Requests, q # r
  PROVE  /\ Sound(q) => Sound(q)'
         /\ InGranted(q)' = InGranted(q) /\ Given(q)' = Given(q)
         /\ InIp(q)' = InIp(q) /\ InSimulations(q)' = InSimulations(q)
         /\ Owns(q)' = Owns(q) /\ Key(q)' = Key(q)
  BY DEF Touches, Sound, InGranted, Given, InIp, InSimulations, Owns, Key,
         Paying

(* A request that takes nothing may only leave a counter or a marker.      *)
LEMMA SoundStays ==
  ASSUME Inv, NEW r \in Requests, Touches(r), Sound(r)'
  PROVE  \A q \in Requests : Sound(q)'
  BY OthersStay DEF Inv

LEMMA LeavesGranted ==
  ASSUME NEW r \in Requests, Touches(r), InGranted(r)' => InGranted(r)
  PROVE  Cardinality(GrantedSet') <= Cardinality(GrantedSet)
<1>1. GrantedSet' \subseteq GrantedSet /\ GrantedSet \subseteq Requests
  BY OthersStay DEF GrantedSet
<1>2. QED
  BY <1>1, NoMore

LEMMA LeavesGiven ==
  ASSUME NEW r \in Requests, Touches(r), Given(r)' => Given(r)
  PROVE  Cardinality(GivenSet') <= Cardinality(GivenSet)
<1>1. GivenSet' \subseteq GivenSet /\ GivenSet \subseteq Requests
  BY OthersStay DEF GivenSet
<1>2. QED
  BY <1>1, NoMore

LEMMA LeavesIp ==
  ASSUME NEW r \in Requests, Touches(r),
         InIp(r)' => InIp(r) /\ ip'[r] = ip[r], NEW a
  PROVE  Cardinality(IpSet(a)') <= Cardinality(IpSet(a))
<1>1. IpSet(a)' \subseteq IpSet(a) /\ IpSet(a) \subseteq Requests
  BY OthersStay DEF IpSet, Touches
<1>2. QED
  BY <1>1, NoMore

LEMMA LeavesSimulations ==
  ASSUME NEW r \in Requests, Touches(r),
         InSimulations(r)' => InSimulations(r) /\ wallet'[r] = wallet[r], NEW w
  PROVE  Cardinality(SimulationSet(w)') <= Cardinality(SimulationSet(w))
<1>1. /\ SimulationSet(w)' \subseteq SimulationSet(w)
      /\ SimulationSet(w) \subseteq Requests
  BY OthersStay DEF SimulationSet, Touches
<1>2. QED
  BY <1>1, NoMore

LEMMA OwnersStay ==
  ASSUME Owners, NEW r \in Requests, Touches(r), marks \subseteq marks',
         Owns(r)' => Owns(r) /\ Key(r)' = Key(r)
  PROVE  Owners'
<1>1. \A q \in Requests : Owns(q)' => Owns(q) /\ Key(q)' = Key(q)
  BY OthersStay
<1>2. QED
  BY <1>1 DEF Owners

(* The sizes of the four sets are numbers, before and after a step.        *)
LEMMA Sizes ==
  /\ Cardinality(GrantedSet) \in Nat /\ Cardinality(GrantedSet') \in Nat
  /\ Cardinality(GivenSet) \in Nat /\ Cardinality(GivenSet') \in Nat
  /\ \A a : Cardinality(IpSet(a)) \in Nat /\ Cardinality(IpSet(a)') \in Nat
  /\ \A w : /\ Cardinality(SimulationSet(w)) \in Nat
            /\ Cardinality(SimulationSet(w)') \in Nat
<1>1. /\ GrantedSet \subseteq Requests /\ GrantedSet' \subseteq Requests
      /\ GivenSet \subseteq Requests /\ GivenSet' \subseteq Requests
      /\ \A a : IpSet(a) \subseteq Requests /\ IpSet(a)' \subseteq Requests
      /\ \A w : /\ SimulationSet(w) \subseteq Requests
                /\ SimulationSet(w)' \subseteq Requests
  BY DEF GrantedSet, GivenSet, IpSet, SimulationSet
<1>2. QED
  BY <1>1, FewRequests

LEMMA LimitTypes ==
  AccessCap \in Nat /\ AccessPerIp \in Nat /\ SimulationsPerWallet \in Nat
  BY LimitsAssumption DEF LimitsAssumption

Takes(r) ==
  \/ InGranted(r)' /\ ~InGranted(r)
  \/ Given(r)' /\ ~Given(r)
  \/ InIp(r)' /\ ~(InIp(r) /\ ip'[r] = ip[r])
  \/ InSimulations(r)' /\ ~(InSimulations(r) /\ wallet'[r] = wallet[r])

LEMMA CountsStay ==
  ASSUME Types, Counts, NEW r \in Requests, Touches(r), ~Takes(r),
         UNCHANGED <<granted, perIp, simulations>>
  PROVE  Counts'
<1>1. /\ Cardinality(GrantedSet') <= Cardinality(GrantedSet)
      /\ Cardinality(GivenSet') <= Cardinality(GivenSet)
  BY LeavesGranted, LeavesGiven DEF Takes
<1>2. \A a : Cardinality(IpSet(a)') <= Cardinality(IpSet(a))
  BY LeavesIp DEF Takes
<1>3. \A w : Cardinality(SimulationSet(w)') <= Cardinality(SimulationSet(w))
  BY LeavesSimulations DEF Takes
<1>4. Counts /\ granted \in Int /\ perIp \in [Addresses -> Nat]
             /\ simulations \in [Wallets -> Int]
  BY DEF Types
<1> HIDE DEF GrantedSet, GivenSet, IpSet, SimulationSet
<1>5. QED
  BY <1>1, <1>2, <1>3, <1>4, Sizes, LimitTypes DEF Counts

LEMMA QuietStep ==
  ASSUME Inv, NEW r \in Requests, Touches(r), ~Takes(r), Sound(r)',
         Types', UNCHANGED storeVars, Owns(r)' => Owns(r) /\ Key(r)' = Key(r)
  PROVE  Inv'
<1>1. \A q \in Requests : Sound(q)'
  BY SoundStays
<1>2. Counts'
  BY CountsStay DEF Inv, storeVars
<1>3. Owners'
  BY OwnersStay DEF Inv, storeVars
<1>4. QED
  BY <1>1, <1>2, <1>3 DEF Inv
-----------------------------------------------------------------------------
(* The steps of a request.                                                 *)

(* Sending, polling, dying and the first calls take nothing.               *)
LEMMA ArriveKeeps ==
  ASSUME Inv, NEW r \in Requests, Arrive(r)
  PROVE  Inv'
<1>1. PICK to \in Routes, w \in Wallets, a \in Addresses :
        /\ route' = [route EXCEPT ![r] = to]
        /\ wallet' = [wallet EXCEPT ![r] = w]
        /\ ip' = [ip EXCEPT ![r] = a]
        /\ pc' = [pc EXCEPT ![r] = FirstCall[to]]
        /\ result' = result
  BY DEF Arrive, Go, Goto
<1>2. /\ pc[r] = "idle" /\ UNCHANGED <<storeVars, fate, unsure>>
  BY DEF Arrive
<1>3. /\ route'[r] = to /\ pc'[r] = FirstCall[to]
      /\ FirstCall[to] \in {"check", "mark", "count"}
      /\ to = "access" => FirstCall[to] = "check"
      /\ to # "access" => FirstCall[to] # "check"
      /\ to # "simulate" => FirstCall[to] # "count"
      /\ to = "simulate" => FirstCall[to] # "mark"
      /\ result[r] = "none" /\ fate[r] = "none"
  BY <1>1, <1>2 DEF Inv, Types, Sound, FirstCall, Routes
<1>4. Types'
  BY <1>1, <1>2, <1>3 DEF Inv, Types, storeVars, PCs
<1>5. Touches(r)
  BY <1>1, <1>2 DEF Inv, Types, Touches
<1>6. Sound(r)' /\ ~Takes(r) /\ ~Owns(r)'
  BY <1>1, <1>2, <1>3
     DEF Sound, Takes, InGranted, Given, InIp, InSimulations, Owns, Paying
<1>7. QED
  BY <1>2, <1>4, <1>5, <1>6, QuietStep

(* What the next call, the result and the fate become in a step that       *)
(* leaves the request itself alone.                                        *)
LEMMA StepOnRequest ==
  ASSUME Inv, NEW r \in Requests, NEW next \in PCs, NEW how \in Results,
         NEW was \in {"none", "open", "landed", "failed"},
         pc' = [pc EXCEPT ![r] = next],
         \/ result' = [result EXCEPT ![r] = how]
         \/ result' = result /\ how = result[r],
         \/ fate' = [fate EXCEPT ![r] = was]
         \/ fate' = fate /\ was = fate[r],
         unsure' = unsure \/ unsure' = unsure \cup {r},
         UNCHANGED requestVars
  PROVE  /\ Touches(r)
         /\ pc'[r] = next /\ result'[r] = how /\ fate'[r] = was
         /\ Key(r)' = Key(r) /\ route'[r] = route[r]
         /\ wallet'[r] = wallet[r] /\ ip'[r] = ip[r]
         /\ pc' \in [Requests -> PCs] /\ result' \in [Requests -> Results]
         /\ fate' \in [Requests -> {"none", "open", "landed", "failed"}]
         /\ unsure' \subseteq Requests
         /\ UNCHANGED storeVars => Types'
  BY DEF Inv, Types, Touches, requestVars, storeVars, Key

LEMMA RequestTypes ==
  ASSUME Inv, NEW r \in Requests
  PROVE  /\ Sound(r) /\ pc[r] \in PCs /\ result[r] \in Results
         /\ fate[r] \in {"none", "open", "landed", "failed"}
         /\ route[r] \in Routes /\ wallet[r] \in Wallets
         /\ ip[r] \in Addresses
  BY DEF Inv, Types

LEMMA CheckAccessKeeps ==
  ASSUME Inv, NEW r \in Requests, CheckAccess(r)
  PROVE  Inv'
<1> USE DEF Sound, Takes, InGranted, Given, InIp, InSimulations, Owns, Paying
<1>1. /\ pc[r] = "check" /\ UNCHANGED <<storeVars, requestVars, fate, unsure>>
      /\ \/ /\ pc' = [pc EXCEPT ![r] = "ended"]
            /\ result' = [result EXCEPT ![r] = "already_granted"]
         \/ pc' = [pc EXCEPT ![r] = "mark"] /\ result' = result
  BY DEF CheckAccess, End, Go, Goto
<1>2. PICK next \in {"ended", "mark"}, how \in Results :
        /\ pc' = [pc EXCEPT ![r] = next]
        /\ \/ result' = [result EXCEPT ![r] = how] /\ how = "already_granted"
           \/ result' = result /\ how = result[r]
        /\ next = "mark" => how = result[r]
  BY <1>1, RequestTypes DEF Results
<1> DEFINE was == fate[r]
<1> HIDE DEF was
<1>w. was \in {"none", "open", "landed", "failed"} /\ was = fate[r]
  BY RequestTypes DEF was
<1>n. next \in PCs
  BY <1>2 DEF PCs
<1>3. /\ Touches(r) /\ pc'[r] = next /\ result'[r] = how /\ fate'[r] = was
      /\ Key(r)' = Key(r) /\ route'[r] = route[r]
      /\ wallet'[r] = wallet[r] /\ ip'[r] = ip[r] /\ Types'
  BY ZenonT(120), <1>1, <1>2, <1>w, <1>n, StepOnRequest
<1>4. Sound(r)' /\ ~Takes(r) /\ (Owns(r)' => Owns(r) /\ Key(r)' = Key(r))
  BY <1>1, <1>2, <1>w, <1>3, RequestTypes
<1>5. QED
  BY <1>1, <1>3, <1>4, QuietStep

(* sendPlan, a killed function and the cluster.                            *)
LEMMA SendingKeeps ==
  ASSUME Inv, NEW r \in Requests, Send(r) \/ Dies(r) \/ Land(r)
  PROVE  Inv'
<1>1. PICK next \in PCs, how \in Results,
           was \in {"none", "open", "landed", "failed"} :
        /\ pc' = [pc EXCEPT ![r] = next]
        /\ \/ result' = [result EXCEPT ![r] = how]
           \/ result' = result /\ how = result[r]
        /\ \/ fate' = [fate EXCEPT ![r] = was]
           \/ fate' = fate /\ was = fate[r]
        /\ unsure' = unsure \/ unsure' = unsure \cup {r}
        /\ UNCHANGED <<storeVars, requestVars>>
        /\ \/ /\ pc[r] = "send" /\ next = "poll" /\ was = "open"
              /\ how = result[r] /\ unsure' = unsure
           \/ /\ pc[r] \in {"send", "poll"} /\ next = FirstRelease(r)
              /\ how = "failed"
              /\ was \in {"none", "failed"} \/ r \in unsure'
           \/ pc[r] = "poll" /\ next = "ended" /\ how = "sent" /\ was = fate[r]
           \/ /\ pc[r] \notin {"idle", "ended"} /\ next = "ended"
              /\ how = "died"
              /\ was = fate[r] \/ (pc[r] = "send" /\ was = "open")
           \/ /\ next = pc[r] /\ how = result[r]
              /\ fate[r] = "open" /\ was \in {"landed", "failed"}
  <2> USE DEF Goto, End, Go, Release, PCs, Results, FirstRelease
  <2>1. CASE SendAccepted(r)
    BY <2>1, RequestTypes DEF SendAccepted
  <2>2. CASE SendRefused(r)
    <3>1. fate[r] = "none"
      BY <2>2, RequestTypes DEF SendRefused, Sound
    <3>2. QED
      BY <2>2, <3>1 DEF SendRefused
  <2>3. CASE SendThrows(r)
    BY <2>3 DEF SendThrows
  <2>4. CASE PollConfirmed(r) \/ PollTimesOut(r)
    <3>1. /\ pc[r] = "poll"
          /\ pc' = [pc EXCEPT ![r] = "ended"]
          /\ result' = [result EXCEPT ![r] = "sent"]
          /\ UNCHANGED <<storeVars, requestVars, fate, unsure>>
      BY <2>4 DEF PollConfirmed, PollTimesOut
    <3>2. fate' = fate /\ unsure' = unsure /\ UNCHANGED <<storeVars, requestVars>>
      BY <3>1
    <3>3. fate[r] \in {"none", "open", "landed", "failed"}
      BY RequestTypes
    <3> HIDE DEF PCs, Results
    <3>4. "ended" \in PCs /\ "sent" \in Results
      BY DEF PCs, Results
    <3>5. QED
      BY <3>1, <3>2, <3>3, <3>4
  <2>5. CASE PollFailed(r)
    <3>1. /\ pc[r] = "poll" /\ fate[r] = "failed"
          /\ pc' = [pc EXCEPT ![r] = FirstRelease(r)]
          /\ result' = [result EXCEPT ![r] = "failed"]
          /\ fate' = fate /\ unsure' = unsure
          /\ UNCHANGED <<storeVars, requestVars>>
      BY <2>5 DEF PollFailed
    <3>2. FirstRelease(r) \in PCs /\ "failed" \in Results
      OBVIOUS
    <3> HIDE DEF PCs, Results, FirstRelease
    <3>3. QED
      BY <3>1, <3>2
  <2>6. CASE PollThrows(r)
    BY <2>6, RequestTypes DEF PollThrows
  <2>7. CASE Dies(r)
    <3>1. PICK was \in {"none", "open", "landed", "failed"} :
            /\ \/ fate' = [fate EXCEPT ![r] = was]
               \/ fate' = fate /\ was = fate[r]
            /\ was = fate[r] \/ (pc[r] = "send" /\ was = "open")
      BY <2>7, RequestTypes DEF Dies
    <3>2. /\ pc[r] \notin {"idle", "ended"} /\ unsure' = unsure
          /\ pc' = [pc EXCEPT ![r] = "ended"]
          /\ result' = [result EXCEPT ![r] = "died"]
          /\ UNCHANGED <<storeVars, requestVars>>
      BY <2>7 DEF Dies
    <3>3. "ended" \in PCs /\ "died" \in Results
      OBVIOUS
    <3> HIDE DEF PCs, Results, FirstRelease
    <3>4. QED
      BY <3>1, <3>2, <3>3
  <2>8. CASE Land(r)
    <3>1. pc' = [pc EXCEPT ![r] = pc[r]] /\ pc[r] \in PCs
      BY <2>8, RequestTypes DEF Land, Inv, Types
    <3>2. PICK was \in {"landed", "failed"} :
            /\ fate[r] = "open" /\ fate' = [fate EXCEPT ![r] = was]
            /\ result' = result /\ unsure' = unsure
            /\ UNCHANGED <<storeVars, requestVars>>
      BY <2>8 DEF Land
    <3>3. result[r] \in Results /\ was \in {"none", "open", "landed", "failed"}
      BY RequestTypes
    <3> HIDE DEF PCs, Results, FirstRelease
    <3>4. QED
      BY <3>1, <3>2, <3>3
  <2>9. QED
    BY <2>1, <2>2, <2>3, <2>4, <2>5, <2>6, <2>7, <2>8 DEF Send
<1>2. /\ Touches(r) /\ pc'[r] = next /\ result'[r] = how /\ fate'[r] = was
      /\ Key(r)' = Key(r) /\ route'[r] = route[r]
      /\ wallet'[r] = wallet[r] /\ ip'[r] = ip[r] /\ Types'
  BY ZenonT(120), <1>1, StepOnRequest
<1>3. Sound(r)'
  BY <1>1, <1>2, RequestTypes DEF Sound, FirstRelease
<1>4. ~Takes(r)
  BY <1>1, <1>2, RequestTypes
     DEF Sound, Takes, InGranted, Given, InIp, InSimulations, Paying, FirstRelease
<1>5. Owns(r)' => Owns(r)
  BY <1>1, <1>2, RequestTypes DEF Sound, Owns, FirstRelease
<1>6. QED
  BY <1>1, <1>2, <1>3, <1>4, <1>5, QuietStep

(* Only who sets a free marker becomes its owner.                          *)
LEMMA MarkKeeps ==
  ASSUME Inv, NEW r \in Requests, Mark(r)
  PROVE  Inv'
<1>0. /\ pc[r] = "mark" /\ fate[r] = "none" /\ result[r] = "none"
      /\ UNCHANGED <<granted, perIp, simulations, requestVars, fate, unsure>>
  BY RequestTypes DEF Mark, Sound
<1>1. CASE /\ ~Free(r) /\ UNCHANGED marks
           /\ pc' = [pc EXCEPT ![r] = IF route[r] = "simulate" THEN "uncount"
                                      ELSE "ended"]
           /\ result' = [result EXCEPT ![r] = "refused"]
  <2>1. /\ Touches(r) /\ result'[r] = "refused" /\ fate'[r] = "none"
        /\ pc'[r] = IF route[r] = "simulate" THEN "uncount" ELSE "ended"
        /\ Key(r)' = Key(r) /\ route'[r] = route[r]
        /\ wallet'[r] = wallet[r] /\ ip'[r] = ip[r] /\ Types'
    BY ZenonT(120), <1>0, <1>1, StepOnRequest DEF PCs, Results, storeVars
  <2>2. Sound(r)' /\ ~Takes(r) /\ ~Owns(r)'
    BY <1>0, <2>1
       DEF Sound, Takes, InGranted, Given, InIp, InSimulations, Paying, Owns
  <2>3. QED
    BY <1>0, <1>1, <2>1, <2>2, QuietStep DEF storeVars
<1>2. CASE /\ Free(r) /\ marks' = marks \cup {Key(r)}
           /\ pc' = [pc EXCEPT ![r] = IF route[r] = "access" THEN "ip"
                                      ELSE "send"]
           /\ result' = result
  <2>1. /\ Touches(r) /\ result'[r] = "none" /\ fate'[r] = "none"
        /\ pc'[r] = IF route[r] = "access" THEN "ip" ELSE "send"
        /\ Key(r)' = Key(r) /\ route'[r] = route[r]
        /\ wallet'[r] = wallet[r] /\ ip'[r] = ip[r]
        /\ pc' \in [Requests -> PCs] /\ result' \in [Requests -> Results]
        /\ fate' \in [Requests -> {"none", "open", "landed", "failed"}]
        /\ unsure' \subseteq Requests
    BY ZenonT(120), <1>0, <1>2, StepOnRequest DEF PCs, Results
  <2>2. Key(r) \in {KeyOf(to, w) : to \in Routes, w \in Wallets}
    BY RequestTypes DEF Key
  <2>3. Types'
    BY <1>0, <1>2, <2>1, <2>2 DEF Inv, Types, requestVars
  <2>4. Sound(r)' /\ ~Takes(r)
    BY <1>0, <2>1
       DEF Sound, Takes, InGranted, Given, InIp, InSimulations, Paying
  <2>5. \A q \in Requests : Owns(q)' =>
          \/ q = r
          \/ Owns(q) /\ Key(q)' = Key(q) /\ Key(q) # Key(r)
    <3>1. TAKE q \in Requests
    <3>2. CASE q # r
      BY <1>2, <2>1, <3>2, OthersStay DEF Inv, Owners, Free
    <3>3. QED
      BY <3>2
  <2>6. Owners'
    BY <1>2, <2>1, <2>5 DEF Inv, Owners
  <2>7. QED
    BY <1>0, <2>1, <2>3, <2>4, <2>6, SoundStays, CountsStay DEF Inv
<1>3. QED
  BY <1>1, <1>2
     DEF Mark, Go, End, Undo, Goto, CooldownTaken

LEMMA CountIpKeeps ==
  ASSUME Inv, NEW r \in Requests, CountIp(r)
  PROVE  Inv'
<1>0. /\ pc[r] = "ip" /\ fate[r] = "none" /\ result[r] = "none"
      /\ route[r] = "access" /\ ip[r] \in Addresses
      /\ perIp' = [perIp EXCEPT ![ip[r]] = @ + 1]
      /\ UNCHANGED <<marks, granted, simulations, requestVars, fate, unsure>>
  BY RequestTypes DEF CountIp, Sound
<1>1. PICK next \in {"unmark", "count"}, how \in {"refused", "none"} :
        /\ pc' = [pc EXCEPT ![r] = next]
        /\ \/ result' = [result EXCEPT ![r] = how]
           \/ result' = result /\ how = result[r]
        /\ next = "unmark" <=> how = "refused"
        /\ next = "count" => ~(perIp'[ip[r]] > AccessPerIp)
  BY <1>0 DEF CountIp, Undo, Go, Goto, AfterIpLimit, Over
<1>2. /\ Touches(r) /\ pc'[r] = next /\ result'[r] = how /\ fate'[r] = "none"
      /\ Key(r)' = Key(r) /\ route'[r] = route[r]
      /\ wallet'[r] = wallet[r] /\ ip'[r] = ip[r]
      /\ pc' \in [Requests -> PCs] /\ result' \in [Requests -> Results]
      /\ fate' \in [Requests -> {"none", "open", "landed", "failed"}]
      /\ unsure' \subseteq Requests
  BY ZenonT(120), <1>0, <1>1, StepOnRequest DEF PCs, Results
<1>3. Types'
  BY <1>0, <1>2 DEF Inv, Types, requestVars
<1>4. /\ Sound(r)' /\ (Owns(r)' => Owns(r))
      /\ ~InGranted(r)' /\ ~Given(r)' /\ ~InSimulations(r)'
      /\ InIp(r)' <=> next = "count"
  BY <1>0, <1>1, <1>2
     DEF Sound, Owns, InGranted, Given, InSimulations, InIp, Paying
<1>5. \A a \in Addresses :
        /\ Cardinality(IpSet(a)') <= perIp'[a]
        /\ Cardinality(IpSet(a)') <= AccessPerIp
  <2>1. TAKE a \in Addresses
  <2>2. /\ Cardinality(IpSet(a)) <= perIp[a] /\ perIp[a] \in Nat
        /\ Cardinality(IpSet(a)) <= AccessPerIp
    BY DEF Inv, Types, Counts
  <2>3. CASE next = "unmark" \/ a # ip[r]
    <3>1. IpSet(a)' \subseteq IpSet(a) /\ IpSet(a) \subseteq Requests
      BY SMTT(30), <1>2, <1>4, <2>3, OthersStay DEF IpSet, Touches
    <3>2. Cardinality(IpSet(a)') <= Cardinality(IpSet(a))
      BY <3>1, NoMore
    <3>3. perIp'[a] \in Nat /\ perIp'[a] >= perIp[a]
      BY <1>0, <2>2 DEF Inv, Types
    <3>4. QED
      BY <2>2, <3>2, <3>3, Sizes, LimitTypes
  <2>4. CASE next = "count" /\ a = ip[r]
    <3>1. IpSet(a)' \subseteq IpSet(a) \cup {r} /\ IpSet(a) \subseteq Requests
      BY SMTT(30), <1>2, OthersStay DEF IpSet, Touches
    <3>2. Cardinality(IpSet(a)') <= Cardinality(IpSet(a)) + 1
      BY <3>1, OneMore
    <3>3. perIp'[a] = perIp[a] + 1 /\ perIp'[a] <= AccessPerIp
      BY <1>0, <1>1, <2>2, <2>4, LimitTypes DEF Inv, Types
    <3>4. QED
      BY <2>2, <3>2, <3>3, Sizes, LimitTypes
  <2>5. QED
    BY <2>3, <2>4
<1>6. Counts'
  <2>1. /\ Cardinality(GrantedSet') <= Cardinality(GrantedSet)
        /\ Cardinality(GivenSet') <= Cardinality(GivenSet)
    BY <1>2, <1>4, LeavesGranted, LeavesGiven
  <2>2. \A w : Cardinality(SimulationSet(w)') <= Cardinality(SimulationSet(w))
    BY <1>2, <1>4, LeavesSimulations
  <2>3. /\ Counts /\ granted \in Int /\ granted' = granted
        /\ simulations \in [Wallets -> Int] /\ simulations' = simulations
    BY <1>0 DEF Inv, Types
  <2> HIDE DEF GrantedSet, GivenSet, SimulationSet, IpSet
  <2>4. QED
    BY <1>5, <2>1, <2>2, <2>3, Sizes, LimitTypes DEF Counts
<1>7. Owners'
  BY <1>0, <1>2, <1>4, OwnersStay DEF Inv
<1>8. QED
  BY <1>2, <1>3, <1>4, <1>6, <1>7, SoundStays DEF Inv

LEMMA CountAccessKeeps ==
  ASSUME Inv, NEW r \in Requests, CountAccess(r)
  PROVE  Inv'
<1>0. /\ pc[r] = "count" /\ fate[r] = "none" /\ result[r] = "none"
      /\ route[r] = "access" /\ granted' = granted + 1
      /\ UNCHANGED <<marks, perIp, simulations, requestVars, fate, unsure>>
  BY RequestTypes DEF CountAccess, Sound
<1>1. PICK next \in {"uncount", "send"}, how \in {"refused", "none"} :
        /\ pc' = [pc EXCEPT ![r] = next]
        /\ \/ result' = [result EXCEPT ![r] = how]
           \/ result' = result /\ how = result[r]
        /\ next = "uncount" <=> how = "refused"
        /\ next = "send" => ~(granted' > AccessCap)
  BY <1>0 DEF CountAccess, Undo, Go, Goto, Over
<1>2. /\ Touches(r) /\ pc'[r] = next /\ result'[r] = how /\ fate'[r] = "none"
      /\ Key(r)' = Key(r) /\ route'[r] = route[r]
      /\ wallet'[r] = wallet[r] /\ ip'[r] = ip[r]
      /\ pc' \in [Requests -> PCs] /\ result' \in [Requests -> Results]
      /\ fate' \in [Requests -> {"none", "open", "landed", "failed"}]
      /\ unsure' \subseteq Requests
  BY ZenonT(120), <1>0, <1>1, StepOnRequest DEF PCs, Results
<1>3. Types'
  BY <1>0, <1>2 DEF Inv, Types, requestVars
<1>4. /\ Sound(r)' /\ (Owns(r)' => Owns(r)) /\ ~InSimulations(r)'
      /\ InIp(r)' => InIp(r)
      /\ Given(r)' <=> next = "send"
  BY <1>0, <1>1, <1>2
     DEF Sound, Owns, InGranted, Given, InSimulations, InIp, Paying
<1>5. Cardinality(GrantedSet') <= granted'
  <2>1. GrantedSet' \subseteq GrantedSet \cup {r} /\ GrantedSet \subseteq Requests
    BY <1>2, OthersStay DEF GrantedSet
  <2>2. Cardinality(GrantedSet') <= Cardinality(GrantedSet) + 1
    BY <2>1, OneMore
  <2>3. Cardinality(GrantedSet) <= granted /\ granted \in Int
    BY DEF Inv, Counts, Types
  <2>4. QED
    BY <1>0, <2>2, <2>3, Sizes
<1>6. Cardinality(GivenSet') <= AccessCap
  <2>1. CASE next = "send"
    <3>1. GivenSet' \subseteq GrantedSet' /\ GrantedSet' \subseteq Requests
      BY DEF GivenSet, GrantedSet, Given
    <3>2. Cardinality(GivenSet') <= Cardinality(GrantedSet')
      BY <3>1, NoMore
    <3>3. granted' <= AccessCap /\ granted' \in Int
      BY <1>0, <1>1, <2>1, LimitTypes DEF Inv, Types
    <3>4. QED
      BY <1>5, <3>2, <3>3, Sizes, LimitTypes
  <2>2. CASE next = "uncount"
    <3>1. Cardinality(GivenSet') <= Cardinality(GivenSet)
      BY <1>2, <1>4, <2>2, LeavesGiven
    <3>2. Cardinality(GivenSet) <= AccessCap
      BY DEF Inv, Counts
    <3>3. QED
      BY <3>1, <3>2, Sizes, LimitTypes
  <2>3. QED
    BY <2>1, <2>2
<1>7. Counts'
  <2>1. \A a : Cardinality(IpSet(a)') <= Cardinality(IpSet(a))
    BY <1>2, <1>4, LeavesIp
  <2>2. \A w : Cardinality(SimulationSet(w)') <= Cardinality(SimulationSet(w))
    BY <1>2, <1>4, LeavesSimulations
  <2>3. /\ Counts /\ perIp \in [Addresses -> Nat] /\ perIp' = perIp
        /\ simulations \in [Wallets -> Int] /\ simulations' = simulations
    BY <1>0 DEF Inv, Types
  <2> HIDE DEF GrantedSet, GivenSet, SimulationSet, IpSet
  <2>4. QED
    BY <1>5, <1>6, <2>1, <2>2, <2>3, Sizes, LimitTypes DEF Counts
<1>8. Owners'
  BY <1>0, <1>2, <1>4, OwnersStay DEF Inv
<1>9. QED
  BY <1>2, <1>3, <1>4, <1>7, <1>8, SoundStays DEF Inv

LEMMA CountSimulationKeeps ==
  ASSUME Inv, NEW r \in Requests, CountSimulation(r)
  PROVE  Inv'
<1>0. /\ pc[r] = "count" /\ fate[r] = "none" /\ result[r] = "none"
      /\ route[r] = "simulate" /\ wallet[r] \in Wallets
      /\ simulations' = [simulations EXCEPT ![wallet[r]] = @ + 1]
      /\ UNCHANGED <<marks, granted, perIp, requestVars, fate, unsure>>
  BY RequestTypes DEF CountSimulation, Sound
<1>1. PICK next \in {"uncount", "mark"}, how \in {"refused", "none"} :
        /\ pc' = [pc EXCEPT ![r] = next]
        /\ \/ result' = [result EXCEPT ![r] = how]
           \/ result' = result /\ how = result[r]
        /\ next = "uncount" <=> how = "refused"
  BY <1>0 DEF CountSimulation, Undo, Go, Goto
<1>2. /\ Touches(r) /\ pc'[r] = next /\ result'[r] = how /\ fate'[r] = "none"
      /\ Key(r)' = Key(r) /\ route'[r] = route[r]
      /\ wallet'[r] = wallet[r] /\ ip'[r] = ip[r]
      /\ pc' \in [Requests -> PCs] /\ result' \in [Requests -> Results]
      /\ fate' \in [Requests -> {"none", "open", "landed", "failed"}]
      /\ unsure' \subseteq Requests
  BY ZenonT(120), <1>0, <1>1, StepOnRequest DEF PCs, Results
<1>3. Types'
  BY <1>0, <1>2 DEF Inv, Types, requestVars
<1>4. Sound(r)' /\ ~Owns(r)' /\ ~InGranted(r)' /\ ~Given(r)' /\ ~InIp(r)'
  BY <1>0, <1>1, <1>2 DEF Sound, Owns, InGranted, Given, InIp, Paying
<1>5. \A w \in Wallets : Cardinality(SimulationSet(w)') <= simulations'[w]
  <2>1. TAKE w \in Wallets
  <2>2. Cardinality(SimulationSet(w)) <= simulations[w] /\ simulations[w] \in Int
    BY DEF Inv, Types, Counts
  <2>3. CASE w # wallet[r]
    <3>1. /\ SimulationSet(w)' \subseteq SimulationSet(w)
          /\ SimulationSet(w) \subseteq Requests
      BY <1>2, <2>3, OthersStay DEF SimulationSet, Touches
    <3>2. Cardinality(SimulationSet(w)') <= Cardinality(SimulationSet(w))
      BY <3>1, NoMore
    <3>3. simulations'[w] = simulations[w]
      BY <1>0, <2>3 DEF Inv, Types
    <3>4. QED
      BY <2>2, <3>2, <3>3, Sizes
  <2>4. CASE w = wallet[r]
    <3>1. /\ SimulationSet(w)' \subseteq SimulationSet(w) \cup {r}
          /\ SimulationSet(w) \subseteq Requests
      BY <1>2, OthersStay DEF SimulationSet, Touches
    <3>2. Cardinality(SimulationSet(w)') <= Cardinality(SimulationSet(w)) + 1
      BY <3>1, OneMore
    <3>3. simulations'[w] = simulations[w] + 1
      BY <1>0, <2>4 DEF Inv, Types
    <3>4. QED
      BY <2>2, <3>2, <3>3, Sizes
  <2>5. QED
    BY <2>3, <2>4
<1>6. Counts'
  <2>1. /\ Cardinality(GrantedSet') <= Cardinality(GrantedSet)
        /\ Cardinality(GivenSet') <= Cardinality(GivenSet)
    BY <1>2, <1>4, LeavesGranted, LeavesGiven
  <2>2. \A a : Cardinality(IpSet(a)') <= Cardinality(IpSet(a))
    BY <1>2, <1>4, LeavesIp
  <2>3. /\ Counts /\ granted \in Int /\ granted' = granted
        /\ perIp \in [Addresses -> Nat] /\ perIp' = perIp
    BY <1>0 DEF Inv, Types
  <2> HIDE DEF GrantedSet, GivenSet, SimulationSet, IpSet
  <2>4. QED
    BY <1>5, <2>1, <2>2, <2>3, Sizes, LimitTypes DEF Counts
<1>7. Owners'
  BY <1>0, <1>2, <1>4, OwnersStay DEF Inv
<1>8. QED
  BY <1>2, <1>3, <1>4, <1>6, <1>7, SoundStays DEF Inv

LEMMA UncountKeeps ==
  ASSUME Inv, NEW r \in Requests, Uncount(r)
  PROVE  Inv'
<1>0. /\ pc[r] = "uncount" /\ route[r] \in {"access", "simulate"}
      /\ wallet[r] \in Wallets
      /\ UNCHANGED <<marks, perIp, requestVars, result, fate, unsure>>
  BY RequestTypes DEF Uncount
<1>1. PICK next \in {"unmark", "ended"} :
        /\ pc' = [pc EXCEPT ![r] = next]
        /\ next = "unmark" <=> route[r] = "access"
  BY <1>0 DEF Uncount, Goto
<1> DEFINE how == result[r]  was == fate[r]
<1> HIDE DEF how, was
<1>h. /\ how \in Results /\ how = result[r]
      /\ was \in {"none", "open", "landed", "failed"} /\ was = fate[r]
      /\ next \in PCs
  BY RequestTypes DEF how, was, PCs
<1>2. /\ Touches(r) /\ pc'[r] = next /\ result'[r] = how /\ fate'[r] = was
      /\ Key(r)' = Key(r) /\ route'[r] = route[r]
      /\ wallet'[r] = wallet[r] /\ ip'[r] = ip[r]
      /\ pc' \in [Requests -> PCs] /\ result' \in [Requests -> Results]
      /\ fate' \in [Requests -> {"none", "open", "landed", "failed"}]
      /\ unsure' \subseteq Requests
  BY <1>0, <1>1, <1>h, StepOnRequest
<1>3. Types'
  BY <1>0, <1>2 DEF Inv, Types, requestVars, Uncount
<1>4. /\ Sound(r)' /\ (Owns(r)' => Owns(r))
      /\ ~InGranted(r)' /\ ~Given(r)' /\ ~InSimulations(r)'
      /\ InIp(r)' => InIp(r)
  BY <1>0, <1>1, <1>h, <1>2, RequestTypes
     DEF Sound, Owns, InGranted, Given, InSimulations, InIp, Paying
<1>5. Cardinality(GrantedSet') <= granted'
  <2>1. CASE route[r] = "access"
    <3>1. /\ r \in GrantedSet /\ GrantedSet \subseteq Requests
          /\ GrantedSet' \subseteq GrantedSet \ {r}
      BY <1>0, <1>2, <1>4, <2>1, OthersStay DEF GrantedSet, InGranted
    <3>2. Cardinality(GrantedSet') <= Cardinality(GrantedSet) - 1
      BY <3>1, OneLess
    <3>3. granted' = granted - 1 /\ granted \in Int
          /\ Cardinality(GrantedSet) <= granted
      BY <2>1 DEF Uncount, Inv, Types, Counts
    <3>4. QED
      BY <3>2, <3>3, Sizes
  <2>2. CASE route[r] = "simulate"
    <3>1. granted' = granted /\ Cardinality(GrantedSet) <= granted
          /\ granted \in Int
      BY <2>2 DEF Uncount, Inv, Types, Counts
    <3>2. Cardinality(GrantedSet') <= Cardinality(GrantedSet)
      BY <1>2, <1>4, LeavesGranted
    <3>3. QED
      BY <3>1, <3>2, Sizes
  <2>3. QED
    BY <1>0, <2>1, <2>2
<1>6. \A w \in Wallets : Cardinality(SimulationSet(w)') <= simulations'[w]
  <2>1. TAKE w \in Wallets
  <2>2. Cardinality(SimulationSet(w)) <= simulations[w] /\ simulations[w] \in Int
    BY DEF Inv, Types, Counts
  <2>3. CASE simulations'[w] = simulations[w]
    <3>1. Cardinality(SimulationSet(w)') <= Cardinality(SimulationSet(w))
      BY <1>2, <1>4, LeavesSimulations
    <3>2. QED
      BY <2>2, <2>3, <3>1, Sizes
  <2>4. CASE route[r] = "simulate" /\ w = wallet[r]
    <3>1. /\ r \in SimulationSet(w) /\ SimulationSet(w) \subseteq Requests
          /\ SimulationSet(w)' \subseteq SimulationSet(w) \ {r}
      BY <1>0, <1>2, <1>4, <2>4, OthersStay
         DEF SimulationSet, InSimulations, Touches
    <3>2. Cardinality(SimulationSet(w)') <= Cardinality(SimulationSet(w)) - 1
      BY <3>1, OneLess
    <3>3. simulations'[w] = simulations[w] - 1
      BY <2>4 DEF Uncount, Inv, Types
    <3>4. QED
      BY <2>2, <3>2, <3>3, Sizes
  <2>5. simulations'[w] = simulations[w] \/ (route[r] = "simulate" /\ w = wallet[r])
    BY DEF Uncount, Inv, Types
  <2>6. QED
    BY <2>3, <2>4, <2>5
<1>7. Counts'
  <2>1. Cardinality(GivenSet') <= Cardinality(GivenSet)
    BY <1>2, <1>4, LeavesGiven
  <2>2. \A a : Cardinality(IpSet(a)') <= Cardinality(IpSet(a))
    BY <1>2, <1>4, LeavesIp
  <2>3. Counts /\ perIp \in [Addresses -> Nat] /\ perIp' = perIp
    BY <1>0 DEF Inv, Types
  <2> HIDE DEF GrantedSet, GivenSet, SimulationSet, IpSet
  <2>4. QED
    BY <1>5, <1>6, <2>1, <2>2, <2>3, Sizes, LimitTypes DEF Counts
<1>8. Owners'
  BY <1>0, <1>2, <1>4, OwnersStay DEF Inv
<1>9. QED
  BY <1>2, <1>3, <1>4, <1>7, <1>8, SoundStays DEF Inv

(* Only its owner deletes a marker, and nobody else owns that one.         *)
LEMMA UnmarkKeeps ==
  ASSUME Inv, NEW r \in Requests, Unmark(r)
  PROVE  Inv'
<1>0. /\ pc[r] = "unmark" /\ marks' = marks \ {Key(r)}
      /\ UNCHANGED <<granted, perIp, simulations, requestVars, result, fate,
                     unsure>>
  BY DEF Unmark
<1>1. PICK next \in {"uncount", "ended"} :
        /\ pc' = [pc EXCEPT ![r] = next]
        /\ next = "uncount" <=> route[r] = "simulate"
  BY DEF Unmark, Goto
<1> DEFINE how == result[r]  was == fate[r]
<1> HIDE DEF how, was
<1>h. /\ how \in Results /\ how = result[r]
      /\ was \in {"none", "open", "landed", "failed"} /\ was = fate[r]
      /\ next \in PCs
  BY RequestTypes DEF how, was, PCs
<1>2. /\ Touches(r) /\ pc'[r] = next /\ result'[r] = how /\ fate'[r] = was
      /\ Key(r)' = Key(r) /\ route'[r] = route[r]
      /\ wallet'[r] = wallet[r] /\ ip'[r] = ip[r]
      /\ pc' \in [Requests -> PCs] /\ result' \in [Requests -> Results]
      /\ fate' \in [Requests -> {"none", "open", "landed", "failed"}]
      /\ unsure' \subseteq Requests
  BY <1>0, <1>1, <1>h, StepOnRequest
<1>3. Types'
  BY <1>0, <1>2 DEF Inv, Types, requestVars
<1>4. /\ Sound(r)' /\ ~Owns(r)' /\ ~Takes(r) /\ Owns(r)
  BY <1>0, <1>1, <1>h, <1>2, RequestTypes
     DEF Sound, Owns, Takes, InGranted, Given, InSimulations, InIp, Paying
<1>5. \A q \in Requests : Owns(q)' =>
        Owns(q) /\ Key(q)' = Key(q) /\ Key(q) \in marks'
  <2>1. TAKE q \in Requests
  <2>2. HAVE Owns(q)'
  <2>3. q # r
    BY <1>4, <2>2
  <2>4. Owns(q) /\ Key(q)' = Key(q)
    BY <1>2, <2>2, <2>3, OthersStay
  <2>5. Key(q) \in marks /\ Key(q) # Key(r)
    BY <1>4, <2>3, <2>4 DEF Inv, Owners
  <2>6. QED
    BY <1>0, <2>4, <2>5
<1>6. Owners'
  BY <1>5 DEF Inv, Owners
<1>7. QED
  BY <1>0, <1>2, <1>3, <1>4, <1>6, SoundStays, CountsStay DEF Inv

(* The cooldown expires when nobody owns it.                               *)
LEMMA ExpiryKeeps ==
  ASSUME Inv, CooldownExpires
  PROVE  Inv'
<1>0. /\ Simulating = {} /\ marks' = marks \ {<<"simulate">>}
      /\ UNCHANGED <<granted, perIp, simulations, route, wallet, ip, pc,
                     result, fate, unsure>>
  BY DEF CooldownExpires, requestVars
<1>1. Types' /\ (\A r \in Requests : Sound(r)')
  BY <1>0 DEF Inv, Types, Sound
<1>2. Counts'
  BY <1>0 DEF Inv, Counts, GrantedSet, GivenSet, IpSet, SimulationSet,
              InGranted, Given, InIp, InSimulations, Paying
<1>3. \A r \in Requests : Owns(r) => Key(r) # <<"simulate">>
  <2>1. TAKE r \in Requests
  <2>2. HAVE Owns(r)
  <2>3. route[r] # "simulate"
    BY <1>0, <2>2 DEF Owns, Simulating
  <2>4. Key(r)[1] = route[r] /\ <<"simulate">>[1] = "simulate"
    BY DEF Key, KeyOf
  <2>5. QED
    BY <2>3, <2>4
<1>4. Owners'
  BY <1>0, <1>3 DEF Inv, Owners, Owns, Key
<1>5. QED
  BY <1>1, <1>2, <1>4 DEF Inv

LEMMA NextKeeps ==
  ASSUME Inv, [Next]_vars
  PROVE  Inv'
<1>1. CASE UNCHANGED vars
  BY <1>1 DEF vars, storeVars, requestVars, Inv, Types, Sound, Counts, Owners,
              GrantedSet, GivenSet, IpSet, SimulationSet, InGranted, Given,
              InIp, InSimulations, Paying, Owns, Key
<1>2. QED
  BY <1>1, ArriveKeeps, CheckAccessKeeps, SendingKeeps, MarkKeeps,
     CountIpKeeps, CountAccessKeeps, CountSimulationKeeps, UncountKeeps,
     UnmarkKeeps, ExpiryKeeps DEF Next, Reserve

LEMMA InitHolds == Init => Inv
<1> SUFFICES ASSUME Init PROVE Inv
  OBVIOUS
<1>1. (CHOOSE w \in Wallets : TRUE) \in Wallets
      /\ (CHOOSE a \in Addresses : TRUE) \in Addresses
  BY LimitsAssumption DEF LimitsAssumption
<1>2. Types
  BY <1>1 DEF Init, Types, PCs, Results, Routes
<1>3. \A r \in Requests :
        /\ Sound(r) /\ ~InGranted(r) /\ ~InIp(r) /\ ~InSimulations(r)
        /\ ~Owns(r)
  BY DEF Init, Sound, InGranted, InIp, InSimulations, Owns, Paying
<1>4. /\ GrantedSet = {} /\ GivenSet = {}
      /\ \A a : IpSet(a) = {}
      /\ \A w : SimulationSet(w) = {}
  BY <1>3 DEF GrantedSet, GivenSet, IpSet, SimulationSet, Given
<1>5. Counts
  BY <1>4, FS_EmptySet, LimitTypes DEF Counts, Init
<1>6. QED
  BY <1>2, <1>3, <1>5 DEF Inv, Owners

LEMMA InvHolds == Spec => []Inv
  BY InitHolds, NextKeeps, PTL DEF Spec
-----------------------------------------------------------------------------
(* Type correctness: no counter is ever given back below zero.             *)
THEOREM TypeCorrect == Spec => []TypeOK
<1>1. ASSUME Inv PROVE TypeOK
  <2>1. Types /\ granted >= 0 /\ \A w \in Wallets : simulations[w] >= 0
    BY <1>1, Sizes DEF Inv, Counts, Types
  <2>2. QED
    BY <2>1 DEF Types, TypeOK
<1>2. QED
  BY <1>1, InvHolds, PTL

(* reserveSimulation: one simulated month at a time, whichever requests    *)
(* wait, fail, die or give back.                                           *)
THEOREM OneMonthAtATime == Spec => []OneSimulationAtATime
<1>1. ASSUME Inv PROVE OneSimulationAtATime
  <2>1. \A r, q \in Simulating : r = q
    BY <1>1 DEF Inv, Owners, Simulating, Owns, Key, KeyOf
  <2>2. CASE Simulating = {}
    BY <2>2, FS_EmptySet DEF OneSimulationAtATime
  <2>3. CASE \E r \in Simulating : Simulating = {r}
    <3>1. PICK r \in Simulating : Simulating = {r}
      BY <2>3
    <3>2. Cardinality(Simulating) = 1
      BY <3>1, FS_Singleton
    <3>3. QED
      BY <3>2 DEF OneSimulationAtATime
  <2>4. ASSUME NEW r \in Simulating
        PROVE  Simulating = {r}
    BY <2>1
  <2>5. QED
    BY <2>2, <2>3, <2>4
<1>2. QED
  BY <1>1, InvHolds, PTL

(* reserveAccess: once per wallet, the limit per address and the cap, for  *)
(* any number of requests in any interleaving; only what was released      *)
(* while its outcome was unknown comes on top.                             *)
THEOREM GrantsAreLimited == Spec => []GrantsWithinLimits
<1>1. ASSUME Inv PROVE GrantsWithinLimits
  <2>1. OncePerWallet
    <3>1. SUFFICES ASSUME NEW r \in Requests, NEW q \in Requests,
                          r # q, Key(r) = Key(q), route[r] # "simulate",
                          fate[r] \in {"open", "landed"},
                          fate[q] \in {"open", "landed"},
                          r \notin unsure, q \notin unsure
                   PROVE  FALSE
      BY DEF OncePerWallet
    <3>2. route[q] = route[r]
      BY <1>1, <3>1, RequestTypes, KeysDiffer DEF Key
    <3>3. Owns(r) /\ Owns(q)
      BY <3>1, <3>2 DEF Owns
    <3>4. QED
      BY <1>1, <3>1, <3>3 DEF Inv, Owners
  <2> DEFINE Paid == {r \in Requests : Paying(r)}
             Late == {r \in unsure : route[r] = "access"}
  <2>2. Cardinality(Paid) <= AccessCap + Cardinality(Late)
    <3>1. \A r \in Requests : Paying(r) => r \in GivenSet \cup Late
      BY <1>1 DEF Inv, Sound, GivenSet, Given, InGranted, Paying
    <3>2. /\ GivenSet \subseteq Requests /\ Late \subseteq Requests
          /\ GivenSet \cup Late \subseteq Requests /\ Paid \subseteq Requests
          /\ Paid \subseteq GivenSet \cup Late
      BY <1>1, <3>1 DEF Inv, Types, GivenSet
    <3> HIDE DEF Paid, Late
    <3>3. Cardinality(Paid) <= Cardinality(GivenSet \cup Late)
      BY <3>2, NoMore
    <3>4. Cardinality(GivenSet \cup Late) <= Cardinality(GivenSet) + Cardinality(Late)
      <4>1. /\ IsFiniteSet(GivenSet) /\ IsFiniteSet(Late)
            /\ Cardinality(GivenSet \cap Late) \in Nat
        BY <3>2, FewRequests
      <4>2. Cardinality(GivenSet \cup Late) = Cardinality(GivenSet)
              + Cardinality(Late) - Cardinality(GivenSet \cap Late)
        BY <4>1, FS_Union
      <4>3. QED
        BY <3>2, <4>1, <4>2, FewRequests
    <3>5. Cardinality(GivenSet) <= AccessCap
      BY <1>1 DEF Inv, Counts
    <3>6. QED
      BY <3>2, <3>3, <3>4, <3>5, FewRequests, LimitTypes
  <2>3. \A a \in Addresses :
          Cardinality({r \in Requests : Paying(r) /\ ip[r] = a}) <= AccessPerIp
    <3>1. TAKE a \in Addresses
    <3>2. /\ {r \in Requests : Paying(r) /\ ip[r] = a} \subseteq IpSet(a)
          /\ IpSet(a) \subseteq Requests
      BY DEF IpSet, InIp, Paying
    <3>3. Cardinality({r \in Requests : Paying(r) /\ ip[r] = a})
            <= Cardinality(IpSet(a))
      BY <3>2, NoMore
    <3>4. Cardinality(IpSet(a)) <= AccessPerIp
      BY <1>1 DEF Inv, Counts
    <3>5. {r \in Requests : Paying(r) /\ ip[r] = a} \subseteq Requests
      OBVIOUS
    <3>6. QED
      BY <3>2, <3>3, <3>4, <3>5, FewRequests, LimitTypes
  <2>4. QED
    BY <2>1, <2>2, <2>3 DEF GrantsWithinLimits
<1>2. QED
  BY <1>1, InvHolds, PTL
-----------------------------------------------------------------------------
(* What the store holds exactly, as long as no request has died.           *)

HoldsGrant(r) ==
  /\ route[r] = "access"
  /\ pc[r] \in {"send", "poll", "uncount"} \/ result[r] = "sent"

HoldsMonth(r, w) ==
  /\ route[r] = "simulate" /\ wallet[r] = w
  /\ pc[r] \in {"mark", "send", "poll", "unmark", "uncount"} \/ result[r] = "sent"

(* Whose marker is set: a wallet's is set for one request only.            *)
Keeps(r) ==
  /\ route[r] # "simulate"
  /\ \/ pc[r] \in {"ip", "count", "send", "poll", "uncount", "unmark"}
     \/ result[r] = "sent"

HoldsMark(r) ==
  \/ Keeps(r)
  \/ /\ route[r] = "simulate"
     /\ pc[r] \in {"send", "poll", "unmark"} \/ result[r] = "sent"

GrantHolders == {r \in Requests : HoldsGrant(r)}
MonthHolders(w) == {r \in Requests : HoldsMonth(r, w)}

Tidy(r) ==
  /\ result[r] = "sent" => pc[r] = "ended"
  /\ pc[r] \in {"uncount", "unmark"} => result[r] \in {"refused", "failed"}

Keepers ==
  /\ \A r \in Requests : Keeps(r) => Key(r) \in marks
  /\ \A r, q \in Requests : Keeps(r) /\ Keeps(q) /\ Key(r) = Key(q) => r = q

NobodyDied == \A r \in Requests : result[r] # "died"

Accounts ==
  /\ granted = Cardinality(GrantHolders)
  /\ \A w \in Wallets : simulations[w] = Cardinality(MonthHolders(w))
  /\ \A key \in marks : \E r \in Requests : Key(r) = key /\ HoldsMark(r)

Exact ==
  /\ \A r \in Requests : Tidy(r)
  /\ Keepers
  /\ NobodyDied => Accounts

(* A step of one request, as far as the accounts can tell.                 *)
Moves(r) ==
  \A q \in Requests : q # r =>
    /\ route'[q] = route[q] /\ wallet'[q] = wallet[q]
    /\ pc'[q] = pc[q] /\ result'[q] = result[q]

GrantMove(r) ==
  \/ (HoldsGrant(r)' <=> HoldsGrant(r)) /\ granted' = granted
  \/ ~HoldsGrant(r) /\ HoldsGrant(r)' /\ granted' = granted + 1
  \/ HoldsGrant(r) /\ ~HoldsGrant(r)' /\ granted' = granted - 1

MonthMove(r, w) ==
  \/ (HoldsMonth(r, w)' <=> HoldsMonth(r, w)) /\ simulations'[w] = simulations[w]
  \/ /\ ~HoldsMonth(r, w) /\ HoldsMonth(r, w)'
     /\ simulations'[w] = simulations[w] + 1
  \/ /\ HoldsMonth(r, w) /\ ~HoldsMonth(r, w)'
     /\ simulations'[w] = simulations[w] - 1

MarkMove(r) ==
  \/ marks' = marks /\ (HoldsMark(r) => HoldsMark(r)' /\ Key(r)' = Key(r))
  \/ marks' = marks \cup {Key(r)} /\ HoldsMark(r)' /\ Key(r)' = Key(r)
  \/ marks' = marks \ {Key(r)}

KeeperMove(r) ==
  \/ /\ marks' = marks
     /\ Keeps(r)' => Keeps(r) /\ Key(r)' = Key(r)
  \/ /\ marks' = marks \cup {Key(r)} /\ Key(r) \notin marks
     /\ Keeps(r)' => Key(r)' = Key(r)
  \/ /\ marks' = marks \ {Key(r)} /\ ~Keeps(r)'
     /\ Keeps(r) \/ route[r] = "simulate"

Accounting(r) ==
  /\ Moves(r) /\ Tidy(r)' /\ KeeperMove(r)
  /\ result[r] = "died" => result'[r] = "died"
  /\ result'[r] # "died" =>
       GrantMove(r) /\ MarkMove(r) /\ \A w \in Wallets : MonthMove(r, w)

LEMMA OthersHold ==
  ASSUME NEW r, Moves(r), NEW q \in Requests, q # r
  PROVE  /\ Tidy(q)' <=> Tidy(q)
         /\ HoldsGrant(q)' <=> HoldsGrant(q)
         /\ \A w : HoldsMonth(q, w)' <=> HoldsMonth(q, w)
         /\ Keeps(q)' <=> Keeps(q)
         /\ HoldsMark(q)' <=> HoldsMark(q)
         /\ Key(q)' = Key(q)
  BY DEF Moves, Tidy, HoldsGrant, HoldsMonth, Keeps, HoldsMark, Key

LEMMA GrantsCounted ==
  ASSUME Types, granted = Cardinality(GrantHolders), NEW r \in Requests, Moves(r),
         GrantMove(r)
  PROVE  granted' = Cardinality(GrantHolders')
<1>1. /\ GrantHolders \subseteq Requests /\ GrantHolders' \subseteq Requests
      /\ \A q \in Requests : q # r => (q \in GrantHolders' <=> q \in GrantHolders)
      /\ r \in GrantHolders <=> HoldsGrant(r)
      /\ r \in GrantHolders' <=> HoldsGrant(r)'
  BY OthersHold DEF GrantHolders
<1>2. IsFiniteSet(GrantHolders) /\ Cardinality(GrantHolders) \in Nat
  BY <1>1, FewRequests
<1> HIDE DEF GrantHolders
<1>3. CASE (HoldsGrant(r)' <=> HoldsGrant(r)) /\ granted' = granted
  <2>1. GrantHolders' = GrantHolders
    BY <1>1, <1>3
  <2>2. QED
    BY <1>3, <2>1
<1>4. CASE ~HoldsGrant(r) /\ HoldsGrant(r)' /\ granted' = granted + 1
  <2>1. GrantHolders' = GrantHolders \cup {r} /\ r \notin GrantHolders
    BY <1>1, <1>4
  <2>2. Cardinality(GrantHolders \cup {r}) = Cardinality(GrantHolders) + 1
    BY <1>2, <2>1, FS_AddElement
  <2>3. QED
    BY <1>4, <2>1, <2>2
<1>5. CASE HoldsGrant(r) /\ ~HoldsGrant(r)' /\ granted' = granted - 1
  <2>1. GrantHolders' = GrantHolders \ {r} /\ r \in GrantHolders
    BY <1>1, <1>5
  <2>2. Cardinality(GrantHolders \ {r}) = Cardinality(GrantHolders) - 1
    BY <1>2, <2>1, FS_RemoveElement
  <2>3. QED
    BY <1>5, <2>1, <2>2
<1>6. QED
  BY <1>3, <1>4, <1>5 DEF GrantMove

LEMMA MonthsCounted ==
  ASSUME Types, NEW w \in Wallets, simulations[w] = Cardinality(MonthHolders(w)),
         NEW r \in Requests, Moves(r), MonthMove(r, w)
  PROVE  simulations'[w] = Cardinality(MonthHolders(w)')
<1> DEFINE S == MonthHolders(w)
           T == MonthHolders(w)'
<1>1. /\ S \subseteq Requests /\ T \subseteq Requests
      /\ \A q \in Requests : q # r => (q \in T <=> q \in S)
      /\ r \in S <=> HoldsMonth(r, w)
      /\ r \in T <=> HoldsMonth(r, w)'
  BY OthersHold DEF MonthHolders
<1> HIDE DEF S, T
<1>2. IsFiniteSet(S) /\ Cardinality(S) \in Nat /\ simulations[w] = Cardinality(S)
  BY <1>1, FewRequests DEF S
<1>3. simulations'[w] = Cardinality(T)
  <2>1. CASE (HoldsMonth(r, w)' <=> HoldsMonth(r, w))
             /\ simulations'[w] = simulations[w]
    <3>1. T = S
      BY <1>1, <2>1
    <3>2. QED
      BY <1>2, <2>1, <3>1
  <2>2. CASE ~HoldsMonth(r, w) /\ HoldsMonth(r, w)'
             /\ simulations'[w] = simulations[w] + 1
    <3>1. T = S \cup {r} /\ r \notin S
      BY <1>1, <2>2
    <3>2. Cardinality(S \cup {r}) = Cardinality(S) + 1
      BY <1>2, <3>1, FS_AddElement
    <3>3. QED
      BY <1>2, <2>2, <3>1, <3>2
  <2>3. CASE HoldsMonth(r, w) /\ ~HoldsMonth(r, w)'
             /\ simulations'[w] = simulations[w] - 1
    <3>1. T = S \ {r} /\ r \in S
      BY <1>1, <2>3
    <3>2. Cardinality(S \ {r}) = Cardinality(S) - 1
      BY <1>2, <3>1, FS_RemoveElement
    <3>3. QED
      BY <1>2, <2>3, <3>1, <3>2
  <2>4. QED
    BY <2>1, <2>2, <2>3 DEF MonthMove
<1>4. QED
  BY <1>3 DEF T

LEMMA MarksAccounted ==
  ASSUME \A key \in marks : \E q \in Requests : Key(q) = key /\ HoldsMark(q),
         NEW r \in Requests, Moves(r), MarkMove(r)
  PROVE  \A key \in marks' : \E q \in Requests : Key(q)' = key /\ HoldsMark(q)'
<1> SUFFICES ASSUME NEW key \in marks'
             PROVE  \E q \in Requests : Key(q)' = key /\ HoldsMark(q)'
  OBVIOUS
<1>1. CASE key = Key(r) /\ HoldsMark(r)' /\ Key(r)' = Key(r)
  BY <1>1
<1>2. CASE key \in marks /\ ~(key = Key(r) /\ HoldsMark(r)' /\ Key(r)' = Key(r))
  <2>1. PICK q \in Requests : Key(q) = key /\ HoldsMark(q)
    BY <1>2
  <2>2. q # r
    BY <1>2, <2>1 DEF MarkMove
  <2>3. QED
    BY <2>1, <2>2, OthersHold
<1>3. QED
  BY <1>1, <1>2 DEF MarkMove

LEMMA KeepersStay ==
  ASSUME Inv, Keepers, NEW r \in Requests, Moves(r), KeeperMove(r)
  PROVE  Keepers'
<1>1. \A q \in Requests : q # r => (Keeps(q)' <=> Keeps(q)) /\ Key(q)' = Key(q)
  BY OthersHold
<1>2. CASE /\ marks' = marks
           /\ Keeps(r)' => Keeps(r) /\ Key(r)' = Key(r)
  <2>1. \A q \in Requests : Keeps(q)' => Keeps(q) /\ Key(q)' = Key(q)
    BY <1>1, <1>2
  <2>2. QED
    BY <1>2, <2>1 DEF Keepers
<1>3. CASE /\ marks' = marks \cup {Key(r)} /\ Key(r) \notin marks
           /\ Keeps(r)' => Key(r)' = Key(r)
  <2>1. \A q \in Requests : Keeps(q)' =>
          Key(q)' = Key(q) /\ (q = r \/ (Keeps(q) /\ Key(q) \in marks))
    BY <1>1, <1>3 DEF Keepers
  <2>2. \A q, p \in Requests : Keeps(q) /\ Keeps(p) /\ Key(q) = Key(p) => q = p
    BY DEF Keepers
  <2>3. \A q, p \in Requests : Keeps(q)' /\ Keeps(p)' /\ Key(q)' = Key(p)' => q = p
    BY <1>3, <2>1, <2>2
  <2>4. \A q \in Requests : Keeps(q)' => Key(q)' \in marks'
    BY <1>3, <2>1
  <2>5. QED
    BY <2>3, <2>4 DEF Keepers
<1>4. CASE /\ marks' = marks \ {Key(r)} /\ ~Keeps(r)'
           /\ Keeps(r) \/ route[r] = "simulate"
  <2>1. ASSUME NEW q \in Requests, Keeps(q)'
        PROVE  Keeps(q) /\ Key(q)' = Key(q) /\ Key(q) \in marks'
    <3>1. q # r
      BY <1>4, <2>1
    <3>2. Keeps(q) /\ Key(q)' = Key(q) /\ Key(q) \in marks
      BY <1>1, <2>1, <3>1 DEF Keepers
    <3>3. Key(q) # Key(r)
      <4>1. CASE Keeps(r)
        BY <3>1, <3>2, <4>1 DEF Keepers
      <4>2. CASE route[r] = "simulate"
        <5>1. route[q] # "simulate" /\ route[q] \in Routes /\ route[r] \in Routes
          BY <3>2, RequestTypes DEF Keeps
        <5>2. QED
          BY <4>2, <5>1, KeysDiffer DEF Key
      <4>3. QED
        BY <1>4, <4>1, <4>2
    <3>4. QED
      BY <1>4, <3>2, <3>3
  <2>2. QED
    BY <2>1 DEF Keepers
<1>5. QED
  BY <1>2, <1>3, <1>4 DEF KeeperMove

LEMMA ExactStep ==
  ASSUME Inv, Exact, NEW r \in Requests, Accounting(r)
  PROVE  Exact'
<1>1. Moves(r) /\ Tidy(r)' /\ KeeperMove(r)
  BY DEF Accounting
<1>2. \A q \in Requests : Tidy(q)'
  BY <1>1, OthersHold DEF Exact
<1>3. Keepers'
  BY <1>1, KeepersStay DEF Exact
<1>4. ASSUME NobodyDied' PROVE Accounts'
  <2>1. result'[r] # "died" /\ result[r] # "died"
    BY <1>4 DEF NobodyDied, Accounting
  <2>2. NobodyDied
    BY <1>1, <1>4, <2>1 DEF NobodyDied, Moves
  <2>3. /\ Accounts /\ GrantMove(r) /\ MarkMove(r)
        /\ \A w \in Wallets : MonthMove(r, w)
    BY <2>1, <2>2 DEF Exact, Accounting
  <2>4. granted' = Cardinality(GrantHolders')
    BY <1>1, <2>3, GrantsCounted DEF Inv, Accounts
  <2>5. \A w \in Wallets : simulations'[w] = Cardinality(MonthHolders(w)')
    BY <1>1, <2>3, MonthsCounted DEF Inv, Accounts
  <2>6. \A key \in marks' : \E q \in Requests : Key(q)' = key /\ HoldsMark(q)'
    BY <1>1, <2>3, MarksAccounted DEF Accounts
  <2>7. QED
    BY <2>4, <2>5, <2>6 DEF Accounts
<1>5. QED
  BY <1>2, <1>3, <1>4 DEF Exact
-----------------------------------------------------------------------------
(* What each step takes from the store and gives back to it.               *)

LEMMA RequestMoves ==
  ASSUME Inv, NEW r \in Requests, NEW next, NEW how,
         pc' = [pc EXCEPT ![r] = next],
         \/ result' = [result EXCEPT ![r] = how]
         \/ result' = result /\ how = result[r],
         UNCHANGED requestVars
  PROVE  /\ Moves(r) /\ pc'[r] = next /\ result'[r] = how
         /\ route'[r] = route[r] /\ wallet'[r] = wallet[r] /\ Key(r)' = Key(r)
  BY DEF Inv, Types, Moves, requestVars, Key

(* A step with which a request takes and gives back nothing.               *)
LEMMA NothingMoves ==
  ASSUME NEW r \in Requests, Moves(r), Tidy(r)', Key(r)' = Key(r),
         UNCHANGED <<marks, granted, simulations>>,
         result[r] # "died", result'[r] # "died",
         HoldsGrant(r)' <=> HoldsGrant(r),
         \A w \in Wallets : HoldsMonth(r, w)' <=> HoldsMonth(r, w),
         Keeps(r)' <=> Keeps(r), HoldsMark(r)' <=> HoldsMark(r)
  PROVE  Accounting(r)
<1>1. GrantMove(r) /\ MarkMove(r) /\ KeeperMove(r)
  BY DEF GrantMove, MarkMove, KeeperMove
<1>2. \A w \in Wallets : MonthMove(r, w)
  BY DEF MonthMove
<1>3. QED
  BY <1>1, <1>2 DEF Accounting

LEMMA ArriveAccounts ==
  ASSUME Inv, NEW r \in Requests, Arrive(r)
  PROVE  Accounting(r)
<1>1. PICK to \in Routes, w \in Wallets :
        /\ route' = [route EXCEPT ![r] = to]
        /\ wallet' = [wallet EXCEPT ![r] = w]
        /\ pc' = [pc EXCEPT ![r] = FirstCall[to]]
        /\ result' = result /\ UNCHANGED <<marks, granted, simulations>>
  BY DEF Arrive, Go, Goto, storeVars
<1>2. /\ route'[r] = to /\ pc'[r] = FirstCall[to] /\ result'[r] = "none"
      /\ pc[r] = "idle" /\ result[r] = "none"
      /\ Moves(r)
  BY <1>1, RequestTypes DEF Arrive, Inv, Types, Moves, Sound
<1>3. /\ FirstCall[to] \in {"check", "mark", "count"}
      /\ to = "access" => FirstCall[to] = "check"
      /\ to = "shares" => FirstCall[to] = "mark"
      /\ to = "simulate" => FirstCall[to] = "count"
  BY DEF FirstCall, Routes
<1>4. /\ ~HoldsGrant(r) /\ ~HoldsGrant(r)' /\ ~Keeps(r) /\ ~Keeps(r)'
      /\ ~HoldsMark(r) /\ ~HoldsMark(r)' /\ Tidy(r)'
      /\ \A v : ~HoldsMonth(r, v) /\ ~HoldsMonth(r, v)'
  BY <1>2, <1>3 DEF HoldsGrant, HoldsMonth, Keeps, HoldsMark, Tidy, Routes
<1>5. GrantMove(r) /\ MarkMove(r) /\ KeeperMove(r)
  BY <1>1, <1>4 DEF GrantMove, MarkMove, KeeperMove
<1>6. \A v \in Wallets : MonthMove(r, v)
  BY <1>1, <1>4 DEF MonthMove
<1>7. QED
  BY <1>2, <1>4, <1>5, <1>6 DEF Accounting

(* The steps between the calls that reserve and those that give back.      *)
LEMMA QuietAccounts ==
  ASSUME Inv, NEW r \in Requests, CheckAccess(r) \/ CountIp(r) \/ Send(r)
  PROVE  Accounting(r)
<1>0. /\ Sound(r) /\ route[r] \in Routes
      /\ UNCHANGED <<marks, granted, simulations, requestVars>>
  BY RequestTypes DEF CheckAccess, CountIp, Send, SendAccepted, SendRefused,
     SendThrows, PollConfirmed, PollFailed, PollThrows, PollTimesOut, storeVars
<1>1. \E next, how :
        /\ pc' = [pc EXCEPT ![r] = next]
        /\ \/ result' = [result EXCEPT ![r] = how]
           \/ result' = result /\ how = result[r]
        /\ \/ /\ pc[r] = "check" /\ next \in {"ended", "mark"}
              /\ how \in {"already_granted", result[r]}
           \/ pc[r] = "ip" /\ next = "unmark" /\ how = "refused"
           \/ pc[r] = "ip" /\ next = "count" /\ how = result[r]
           \/ pc[r] = "send" /\ next = "poll" /\ how = result[r]
           \/ /\ pc[r] \in {"send", "poll"} /\ next = FirstRelease(r)
              /\ how = "failed"
           \/ pc[r] = "poll" /\ next = "ended" /\ how = "sent"
  <2> USE DEF Goto, End, Go, Undo, Release
  <2>1. CASE CheckAccess(r)
    BY <2>1 DEF CheckAccess
  <2>2. CASE CountIp(r)
    BY <2>2 DEF CountIp, AfterIpLimit
  <2>3. CASE SendAccepted(r)
    BY <2>3 DEF SendAccepted
  <2>4. CASE SendRefused(r) \/ SendThrows(r) \/ PollFailed(r) \/ PollThrows(r)
    BY <2>4 DEF SendRefused, SendThrows, PollFailed, PollThrows
  <2>5. CASE PollConfirmed(r) \/ PollTimesOut(r)
    BY <2>5 DEF PollConfirmed, PollTimesOut
  <2>6. QED
    BY <2>1, <2>2, <2>3, <2>4, <2>5 DEF Send
<1>2. PICK next, how :
        /\ pc' = [pc EXCEPT ![r] = next]
        /\ \/ result' = [result EXCEPT ![r] = how]
           \/ result' = result /\ how = result[r]
        /\ \/ /\ pc[r] = "check" /\ next \in {"ended", "mark"}
              /\ how \in {"already_granted", result[r]}
           \/ pc[r] = "ip" /\ next = "unmark" /\ how = "refused"
           \/ pc[r] = "ip" /\ next = "count" /\ how = result[r]
           \/ pc[r] = "send" /\ next = "poll" /\ how = result[r]
           \/ /\ pc[r] \in {"send", "poll"} /\ next = FirstRelease(r)
              /\ how = "failed"
           \/ pc[r] = "poll" /\ next = "ended" /\ how = "sent"
  BY <1>1
<1>3. /\ Moves(r) /\ pc'[r] = next /\ result'[r] = how
      /\ route'[r] = route[r] /\ wallet'[r] = wallet[r] /\ Key(r)' = Key(r)
  BY <1>0, <1>2, RequestMoves
<1>4. result[r] = "none" /\ (pc[r] \in {"check", "ip"} => route[r] = "access")
  BY <1>0, <1>2 DEF Sound
<1>5. /\ Tidy(r)' /\ result[r] # "died" /\ result'[r] # "died"
      /\ HoldsGrant(r)' <=> HoldsGrant(r)
      /\ Keeps(r)' <=> Keeps(r)
      /\ HoldsMark(r)' <=> HoldsMark(r)
  BY <1>0, <1>2, <1>3, <1>4
     DEF Tidy, HoldsGrant, Keeps, HoldsMark, FirstRelease, Routes
<1>6. \A w \in Wallets : HoldsMonth(r, w)' <=> HoldsMonth(r, w)
  BY <1>0, <1>2, <1>3, <1>4 DEF HoldsMonth, FirstRelease, Routes
<1>7. QED
  BY <1>0, <1>3, <1>5, <1>6, NothingMoves

LEMMA MarkAccounts ==
  ASSUME Inv, NEW r \in Requests, Mark(r)
  PROVE  Accounting(r)
<1>0. /\ pc[r] = "mark" /\ result[r] = "none" /\ route[r] \in Routes
      /\ UNCHANGED <<granted, simulations, requestVars>>
  BY RequestTypes DEF Mark, Sound
<1>1. CASE /\ marks' = marks \cup {Key(r)} /\ Key(r) \notin marks
           /\ pc' = [pc EXCEPT ![r] = IF route[r] = "access" THEN "ip" ELSE "send"]
           /\ result' = result
  <2>1. /\ Moves(r) /\ pc'[r] = (IF route[r] = "access" THEN "ip" ELSE "send")
        /\ result'[r] = "none"
        /\ route'[r] = route[r] /\ wallet'[r] = wallet[r] /\ Key(r)' = Key(r)
    BY <1>0, <1>1, RequestTypes DEF Inv, Types, Moves, requestVars, Key
  <2>2. /\ Tidy(r)' /\ HoldsMark(r)'
        /\ HoldsGrant(r)' <=> HoldsGrant(r)
        /\ \A w \in Wallets : HoldsMonth(r, w)' <=> HoldsMonth(r, w)
    BY <1>0, <2>1 DEF Tidy, HoldsGrant, Keeps, HoldsMark, HoldsMonth, Routes
  <2>3. GrantMove(r) /\ MarkMove(r) /\ KeeperMove(r)
    BY <1>0, <1>1, <2>1, <2>2 DEF GrantMove, MarkMove, KeeperMove
  <2>4. \A w \in Wallets : MonthMove(r, w)
    BY <1>0, <2>2 DEF MonthMove
  <2>5. QED
    BY <1>0, <2>1, <2>2, <2>3, <2>4 DEF Accounting
<1>2. CASE /\ marks' = marks
           /\ \/ /\ route[r] = "simulate" /\ pc' = [pc EXCEPT ![r] = "uncount"]
                 /\ result' = [result EXCEPT ![r] = "refused"]
              \/ /\ route[r] # "simulate" /\ pc' = [pc EXCEPT ![r] = "ended"]
                 /\ result' = [result EXCEPT ![r] = "refused"]
  <2>1. PICK next, how :
          /\ pc' = [pc EXCEPT ![r] = next]
          /\ result' = [result EXCEPT ![r] = how] /\ how = "refused"
          /\ next = IF route[r] = "simulate" THEN "uncount" ELSE "ended"
    BY <1>2
  <2>2. /\ Moves(r) /\ pc'[r] = next /\ result'[r] = how
        /\ route'[r] = route[r] /\ wallet'[r] = wallet[r] /\ Key(r)' = Key(r)
    <3>1. /\ pc' = [pc EXCEPT ![r] = next]
          /\ \/ result' = [result EXCEPT ![r] = how]
             \/ result' = result /\ how = result[r]
          /\ UNCHANGED requestVars
      BY <1>0, <2>1
    <3>2. QED
      BY <3>1, RequestMoves
  <2>3. /\ Tidy(r)'
        /\ HoldsGrant(r)' <=> HoldsGrant(r)
        /\ Keeps(r)' <=> Keeps(r)
        /\ HoldsMark(r)' <=> HoldsMark(r)
    BY <1>0, <2>1, <2>2 DEF Tidy, HoldsGrant, Keeps, HoldsMark
  <2>4. \A w \in Wallets : HoldsMonth(r, w)' <=> HoldsMonth(r, w)
    BY <1>0, <2>1, <2>2 DEF HoldsMonth
  <2>5. QED
    BY <1>0, <1>2, <2>1, <2>2, <2>3, <2>4, NothingMoves
<1>3. QED
  BY <1>1, <1>2 DEF Mark, Free, Go, Goto, Undo, End, CooldownTaken

LEMMA CountAccessAccounts ==
  ASSUME Inv, NEW r \in Requests, CountAccess(r)
  PROVE  Accounting(r)
<1>0. /\ pc[r] = "count" /\ route[r] = "access" /\ result[r] = "none"
      /\ granted' = granted + 1 /\ UNCHANGED <<marks, simulations, requestVars>>
  BY RequestTypes DEF CountAccess, Sound
<1>1. PICK next, how :
        /\ pc' = [pc EXCEPT ![r] = next]
        /\ \/ result' = [result EXCEPT ![r] = how]
           \/ result' = result /\ how = result[r]
        /\ \/ next = "uncount" /\ how = "refused"
           \/ next = "send" /\ how = "none"
  BY <1>0 DEF CountAccess, Undo, Go, Goto
<1>2. /\ Moves(r) /\ pc'[r] = next /\ result'[r] = how
      /\ route'[r] = route[r] /\ wallet'[r] = wallet[r] /\ Key(r)' = Key(r)
  BY <1>0, <1>1, RequestMoves
<1>3. /\ Tidy(r)' /\ ~HoldsGrant(r) /\ HoldsGrant(r)'
      /\ Keeps(r) /\ Keeps(r)' /\ HoldsMark(r) /\ HoldsMark(r)'
      /\ \A w \in Wallets : ~HoldsMonth(r, w)' /\ ~HoldsMonth(r, w)
  BY <1>0, <1>1, <1>2 DEF Tidy, HoldsGrant, Keeps, HoldsMark, HoldsMonth
<1>4. GrantMove(r) /\ MarkMove(r) /\ KeeperMove(r)
  BY <1>0, <1>2, <1>3 DEF GrantMove, MarkMove, KeeperMove
<1>5. \A w \in Wallets : MonthMove(r, w)
  BY <1>0, <1>3 DEF MonthMove
<1>6. QED
  BY <1>0, <1>2, <1>3, <1>4, <1>5 DEF Accounting

LEMMA CountSimulationAccounts ==
  ASSUME Inv, NEW r \in Requests, CountSimulation(r)
  PROVE  Accounting(r)
<1>0. /\ pc[r] = "count" /\ route[r] = "simulate" /\ result[r] = "none"
      /\ simulations' = [simulations EXCEPT ![wallet[r]] = @ + 1]
      /\ UNCHANGED <<marks, granted, requestVars>>
  BY RequestTypes DEF CountSimulation, Sound
<1>1. PICK next, how :
        /\ pc' = [pc EXCEPT ![r] = next]
        /\ \/ result' = [result EXCEPT ![r] = how]
           \/ result' = result /\ how = result[r]
        /\ \/ next = "uncount" /\ how = "refused"
           \/ next = "mark" /\ how = "none"
  BY <1>0 DEF CountSimulation, Undo, Go, Goto
<1>2. /\ Moves(r) /\ pc'[r] = next /\ result'[r] = how
      /\ route'[r] = route[r] /\ wallet'[r] = wallet[r] /\ Key(r)' = Key(r)
  BY <1>0, <1>1, RequestMoves
<1>3. /\ Tidy(r)'
      /\ HoldsGrant(r)' <=> HoldsGrant(r)
      /\ ~Keeps(r) /\ ~Keeps(r)' /\ ~HoldsMark(r) /\ ~HoldsMark(r)'
      /\ \A w \in Wallets : ~HoldsMonth(r, w)
      /\ \A w \in Wallets : HoldsMonth(r, w)' <=> wallet[r] = w
  BY <1>0, <1>1, <1>2 DEF Tidy, HoldsGrant, Keeps, HoldsMark, HoldsMonth
<1>4. GrantMove(r) /\ MarkMove(r) /\ KeeperMove(r)
  BY <1>0, <1>2, <1>3 DEF GrantMove, MarkMove, KeeperMove
<1>5. \A w \in Wallets :
        simulations'[w] = IF w = wallet[r] THEN simulations[w] + 1 ELSE simulations[w]
  BY <1>0 DEF Inv, Types
<1>6. \A w \in Wallets : MonthMove(r, w)
  BY <1>3, <1>5 DEF MonthMove
<1>7. QED
  BY <1>0, <1>2, <1>3, <1>4, <1>6 DEF Accounting

LEMMA UncountAccounts ==
  ASSUME Inv, NEW r \in Requests, Tidy(r), Uncount(r)
  PROVE  Accounting(r)
<1>0. /\ pc[r] = "uncount" /\ result[r] \in {"refused", "failed"}
      /\ UNCHANGED <<marks, requestVars, result>>
  BY DEF Uncount, Tidy
<1>1. PICK next : /\ pc' = [pc EXCEPT ![r] = next]
                  /\ next = IF route[r] = "access" THEN "unmark" ELSE "ended"
  BY DEF Uncount, Goto
<1>2. /\ Moves(r) /\ pc'[r] = next /\ result'[r] = result[r]
      /\ route'[r] = route[r] /\ wallet'[r] = wallet[r] /\ Key(r)' = Key(r)
  BY <1>0, <1>1, RequestTypes DEF Inv, Types, Moves, requestVars, Key
<1>3. CASE route[r] = "access" /\ granted' = granted - 1 /\ simulations' = simulations
  <2>1. /\ Tidy(r)' /\ HoldsGrant(r) /\ ~HoldsGrant(r)'
        /\ Keeps(r) /\ Keeps(r)' /\ HoldsMark(r) /\ HoldsMark(r)'
        /\ \A w \in Wallets : ~HoldsMonth(r, w)' /\ ~HoldsMonth(r, w)
    BY <1>0, <1>1, <1>2, <1>3 DEF Tidy, HoldsGrant, Keeps, HoldsMark, HoldsMonth
  <2>2. GrantMove(r) /\ MarkMove(r) /\ KeeperMove(r)
    BY <1>0, <1>2, <1>3, <2>1 DEF GrantMove, MarkMove, KeeperMove
  <2>3. \A w \in Wallets : MonthMove(r, w)
    BY <1>3, <2>1 DEF MonthMove
  <2>4. QED
    BY <1>0, <1>2, <2>1, <2>2, <2>3 DEF Accounting
<1>4. CASE /\ route[r] = "simulate" /\ granted' = granted
           /\ simulations' = [simulations EXCEPT ![wallet[r]] = @ - 1]
  <2>1. /\ Tidy(r)' /\ ~HoldsGrant(r) /\ ~HoldsGrant(r)'
        /\ ~Keeps(r) /\ ~Keeps(r)' /\ ~HoldsMark(r)
        /\ \A w \in Wallets : HoldsMonth(r, w) <=> wallet[r] = w
        /\ \A w \in Wallets : ~HoldsMonth(r, w)'
    BY <1>0, <1>1, <1>2, <1>4 DEF Tidy, HoldsGrant, Keeps, HoldsMark, HoldsMonth
  <2>2. GrantMove(r) /\ MarkMove(r) /\ KeeperMove(r)
    BY <1>0, <1>2, <1>4, <2>1 DEF GrantMove, MarkMove, KeeperMove
  <2>3. \A w \in Wallets :
          simulations'[w] = IF w = wallet[r] THEN simulations[w] - 1 ELSE simulations[w]
    BY <1>4 DEF Inv, Types
  <2>4. \A w \in Wallets : MonthMove(r, w)
    BY <2>1, <2>3 DEF MonthMove
  <2>5. QED
    BY <1>0, <1>2, <2>1, <2>2, <2>4 DEF Accounting
<1>5. QED
  BY <1>3, <1>4 DEF Uncount

LEMMA UnmarkAccounts ==
  ASSUME Inv, NEW r \in Requests, Tidy(r), Unmark(r)
  PROVE  Accounting(r)
<1>0. /\ pc[r] = "unmark" /\ result[r] \in {"refused", "failed"}
      /\ marks' = marks \ {Key(r)}
      /\ UNCHANGED <<granted, simulations, requestVars, result>>
  BY DEF Unmark, Tidy
<1>1. PICK next : /\ pc' = [pc EXCEPT ![r] = next]
                  /\ next = IF route[r] = "simulate" THEN "uncount" ELSE "ended"
  BY DEF Unmark, Goto
<1>2. /\ Moves(r) /\ pc'[r] = next /\ result'[r] = result[r]
      /\ route'[r] = route[r] /\ wallet'[r] = wallet[r] /\ Key(r)' = Key(r)
  BY <1>0, <1>1, RequestTypes DEF Inv, Types, Moves, requestVars, Key
<1>3. /\ Tidy(r)'
      /\ HoldsGrant(r)' <=> HoldsGrant(r)
      /\ ~Keeps(r)' /\ (Keeps(r) \/ route[r] = "simulate")
      /\ \A w \in Wallets : HoldsMonth(r, w)' <=> HoldsMonth(r, w)
  BY <1>0, <1>1, <1>2 DEF Tidy, HoldsGrant, Keeps, HoldsMonth
<1>4. GrantMove(r) /\ MarkMove(r) /\ KeeperMove(r)
  BY <1>0, <1>3 DEF GrantMove, MarkMove, KeeperMove
<1>5. \A w \in Wallets : MonthMove(r, w)
  BY <1>0, <1>3 DEF MonthMove
<1>6. QED
  BY <1>0, <1>2, <1>3, <1>4, <1>5 DEF Accounting

LEMMA DiesAccounts ==
  ASSUME Inv, NEW r \in Requests, Dies(r)
  PROVE  Accounting(r)
<1>0. /\ pc' = [pc EXCEPT ![r] = "ended"] /\ result' = [result EXCEPT ![r] = "died"]
      /\ UNCHANGED <<marks, requestVars>>
  BY DEF Dies, Goto, storeVars
<1>1. Moves(r) /\ pc'[r] = "ended" /\ result'[r] = "died"
  BY <1>0, RequestMoves
<1>2. Tidy(r)' /\ ~Keeps(r)'
  BY <1>1 DEF Tidy, Keeps
<1>3. QED
  BY <1>0, <1>1, <1>2 DEF Accounting, KeeperMove

(* The cluster, the clock and a step in which nothing happens.             *)
LEMMA ClockAccounts ==
  ASSUME Inv, Exact,
         \/ \E r \in Requests : Land(r)
         \/ CooldownExpires
         \/ UNCHANGED vars
  PROVE  Exact'
<1>1. /\ UNCHANGED <<granted, simulations, route, wallet, pc, result>>
      /\ marks' = marks \/ marks' = marks \ {<<"simulate">>}
  BY DEF Land, CooldownExpires, vars, storeVars, requestVars
<1>2. /\ GrantHolders' = GrantHolders /\ (NobodyDied' <=> NobodyDied)
      /\ \A w : MonthHolders(w)' = MonthHolders(w)
      /\ \A r \in Requests :
           /\ Tidy(r)' <=> Tidy(r)
           /\ Keeps(r)' <=> Keeps(r)
           /\ HoldsMark(r)' <=> HoldsMark(r)
           /\ Key(r)' = Key(r)
  BY <1>1 DEF GrantHolders, HoldsGrant, MonthHolders, HoldsMonth, NobodyDied,
     Tidy, Keeps, HoldsMark, Key
<1>3. \A r \in Requests : Keeps(r) => Key(r) # <<"simulate">>
  <2> SUFFICES ASSUME NEW r \in Requests, Keeps(r) PROVE Key(r) # <<"simulate">>
    OBVIOUS
  <2>1. Key(r)[1] = route[r] /\ <<"simulate">>[1] = "simulate"
    BY DEF Key, KeyOf
  <2>2. QED
    BY <2>1 DEF Keeps
<1>4. Keepers'
  BY <1>1, <1>2, <1>3 DEF Exact, Keepers
<1>5. Accounts => Accounts'
  BY <1>1, <1>2 DEF Accounts
<1>6. QED
  BY <1>2, <1>4, <1>5 DEF Exact

LEMMA NextAccounts == Inv /\ Exact /\ [Next]_vars => Exact'
<1> SUFFICES ASSUME Inv, Exact, [Next]_vars PROVE Exact'
  OBVIOUS
<1>1. \A r \in Requests : Tidy(r)
  BY DEF Exact
<1>2. CASE \E r \in Requests :
             Reserve(r) \/ Send(r) \/ Uncount(r) \/ Unmark(r) \/ Dies(r)
  <2>1. PICK r \in Requests :
          Reserve(r) \/ Send(r) \/ Uncount(r) \/ Unmark(r) \/ Dies(r)
    BY <1>2
  <2>2. Accounting(r)
    BY <1>1, <2>1, ArriveAccounts, QuietAccounts, MarkAccounts,
       CountAccessAccounts, CountSimulationAccounts, UncountAccounts,
       UnmarkAccounts, DiesAccounts DEF Reserve
  <2>3. QED
    BY <2>2, ExactStep
<1>3. CASE (\E r \in Requests : Land(r)) \/ CooldownExpires \/ UNCHANGED vars
  BY <1>3, ClockAccounts
<1>4. QED
  BY <1>2, <1>3 DEF Next

LEMMA InitAccounts == Init => Exact
<1> SUFFICES ASSUME Init PROVE Exact
  OBVIOUS
<1>1. \A r \in Requests : pc[r] = "idle" /\ result[r] = "none"
  BY DEF Init
<1>2. /\ \A r \in Requests : Tidy(r) /\ ~Keeps(r) /\ ~HoldsGrant(r)
      /\ \A r \in Requests : \A w : ~HoldsMonth(r, w)
  BY <1>1 DEF Tidy, Keeps, HoldsGrant, HoldsMonth
<1>3. GrantHolders = {} /\ \A w : MonthHolders(w) = {}
  BY <1>2 DEF GrantHolders, MonthHolders
<1>4. Cardinality(GrantHolders) = 0 /\ \A w : Cardinality(MonthHolders(w)) = 0
  BY <1>3, FS_EmptySet
<1>5. Accounts
  BY <1>4 DEF Init, Accounts
<1>6. QED
  BY <1>2, <1>5 DEF Exact, Keepers

LEMMA ExactHolds == Spec => []Exact
  BY InitHolds, NextKeeps, InitAccounts, NextAccounts, InvHolds, PTL DEF Spec

(* As many wallets are marked as requests were granted.                    *)
LEMMA MarkedAreGranted ==
  ASSUME Inv, Exact, NobodyDied,
         \A r \in Requests : pc[r] \in {"idle", "ended"}
  PROVE  Cardinality({w \in Wallets : <<"access", w>> \in marks})
           = Cardinality(GrantHolders)
<1> DEFINE W == {w \in Wallets : <<"access", w>> \in marks}
           f == [r \in GrantHolders |-> wallet[r]]
<1>1. \A r \in Requests : HoldsGrant(r) <=> route[r] = "access" /\ result[r] = "sent"
  BY DEF HoldsGrant
<1>2. \A r \in GrantHolders :
        /\ Keeps(r) /\ Key(r) = <<"access", wallet[r]>> /\ wallet[r] \in Wallets
  BY <1>1, RequestTypes DEF GrantHolders, Keeps, Key, KeyOf
<1>3. f \in [GrantHolders -> W]
  <2>1. \A r \in GrantHolders : r \in Requests /\ Key(r) \in marks
    BY <1>2 DEF GrantHolders, Exact, Keepers
  <2>2. QED
    BY <1>2, <2>1
<1>4. \A r, q \in GrantHolders : f[r] = f[q] => r = q
  BY <1>2 DEF GrantHolders, Exact, Keepers
<1>5. \A w \in W : \E r \in GrantHolders : f[r] = w
  <2> SUFFICES ASSUME NEW w \in W PROVE \E r \in GrantHolders : f[r] = w
    OBVIOUS
  <2>1. PICK r \in Requests : Key(r) = <<"access", w>> /\ HoldsMark(r)
    BY DEF Exact, Accounts
  <2>2. KeyOf(route[r], wallet[r]) = KeyOf("access", w) /\ route[r] \in Routes
        /\ "access" \in Routes
    BY <2>1, RequestTypes DEF Key, KeyOf, Routes
  <2>3. route[r] = "access" /\ wallet[r] = w
    BY <2>2, KeysDiffer
  <2>4. result[r] = "sent"
    BY <2>1, <2>3 DEF HoldsMark, Keeps
  <2>5. QED
    BY <1>1, <2>3, <2>4 DEF GrantHolders
<1> HIDE DEF f, W
<1>6. f \in Bijection(GrantHolders, W)
  BY <1>3, <1>4, <1>5 DEF Bijection, Injection, Surjection, IsInjective
<1>7. IsFiniteSet(GrantHolders)
  BY FewRequests DEF GrantHolders
<1>8. ExistsBijection(GrantHolders, W)
  BY <1>6 DEF ExistsBijection
<1>9. Cardinality(GrantHolders) = Cardinality(W)
  BY <1>7, <1>8, FS_Bijection
<1>10. QED
  BY <1>9 DEF W

(* limits.ts, header: a failed attempt costs the judge nothing.  Whatever  *)
(* requests reserved, failed and gave back, in any interleaving, the       *)
(* grants, markers and months end as those of the sent transactions.  (The *)
(* counter per IP address keeps failed attempts on purpose.)               *)
THEOREM NothingIsLeaked == Spec => []NothingLeaks
<1>1. ASSUME Inv, Exact PROVE NothingLeaks
  <2> SUFFICES ASSUME \A r \in Requests :
                        pc[r] \in {"idle", "ended"} /\ result[r] # "died"
               PROVE  /\ granted = Cardinality({w \in Wallets : <<"access", w>> \in marks})
                      /\ \A key \in marks : Sent(key)
                      /\ \A w \in Wallets :
                           /\ Sent(<<"access", w>>) => <<"access", w>> \in marks
                           /\ Sent(<<"shares", w>>) => <<"shares", w>> \in marks
                           /\ simulations[w] = Cardinality({r \in Requests :
                                result[r] = "sent" /\ route[r] = "simulate"
                                /\ wallet[r] = w})
    BY DEF NothingLeaks
  <2>1. NobodyDied /\ Accounts
    BY <1>1 DEF NobodyDied, Exact
  <2>2. granted = Cardinality({w \in Wallets : <<"access", w>> \in marks})
    BY <1>1, <2>1, MarkedAreGranted DEF Accounts
  <2>3. \A key \in marks : Sent(key)
    BY <2>1 DEF Accounts, Sent, HoldsMark, Keeps
  <2>4. ASSUME NEW w \in Wallets, NEW to \in {"access", "shares"}, Sent(<<to, w>>)
        PROVE  <<to, w>> \in marks
    <3>1. PICK r \in Requests : result[r] = "sent" /\ Key(r) = <<to, w>>
      BY <2>4 DEF Sent
    <3>2. Key(r)[1] = route[r] /\ <<to, w>>[1] = to
      BY DEF Key, KeyOf
    <3>3. Keeps(r)
      BY <3>1, <3>2 DEF Keeps
    <3>4. QED
      BY <1>1, <3>1, <3>3 DEF Exact, Keepers
  <2>5. ASSUME NEW w \in Wallets
        PROVE  simulations[w] = Cardinality({r \in Requests :
                 result[r] = "sent" /\ route[r] = "simulate" /\ wallet[r] = w})
    <3>1. MonthHolders(w) = {r \in Requests :
                 result[r] = "sent" /\ route[r] = "simulate" /\ wallet[r] = w}
      BY DEF MonthHolders, HoldsMonth
    <3>2. QED
      BY <2>1, <3>1 DEF Accounts
  <2>6. QED
    BY <2>2, <2>3, <2>4, <2>5
<1>2. QED
  BY <1>1, InvHolds, ExactHolds, PTL
=============================================================================
