----------------------------- MODULE DemoLimits -----------------------------
(***************************************************************************)
(* The limits of the judges' demo path (frontend/src/lib/demo/server):     *)
(* what limits.ts reserves in the shared store, handlers.ts sends and      *)
(* releases, and send.ts learns about the transaction.                     *)
(*                                                                         *)
(* Each store operation is one call to Redis and one action; requests      *)
(* interleave between them, on any number of serverless instances.         *)
(* Signatures, sessions and the reads of the chain before a reservation,   *)
(* which only refuse a request, are left out, and one day is modelled: a   *)
(* request keeps the keys of the day it was made on.                       *)
(***************************************************************************)
EXTENDS Integers, FiniteSets

CONSTANTS
  Requests, Wallets, Addresses,
  AccessCap,          \* accessCap
  AccessPerIp,        \* accessPerIpPerDay
  SimulationsPerWallet  \* simulationsPerWalletPerDay

Routes == {"access", "shares", "simulate"}

ASSUME LimitsAssumption ==
  /\ IsFiniteSet(Requests) /\ IsFiniteSet(Wallets)
  /\ Wallets # {} /\ Addresses # {}
  /\ AccessCap \in Nat /\ AccessPerIp \in Nat /\ SimulationsPerWallet \in Nat

VARIABLES
  marks,        \* keys of setIfAbsent
  granted,      \* accessGranted
  perIp,        \* accessIp
  simulations,  \* simulationWallet
  route, wallet, ip,
  pc,           \* the call each request makes next
  result,       \* how it ended
  fate,         \* its transaction: "none", "open", "landed", "failed"
  unsure        \* history: requests released without knowing that fate

storeVars == <<marks, granted, perIp, simulations>>
requestVars == <<route, wallet, ip>>
vars == <<storeVars, requestVars, pc, result, fate, unsure>>

PCs == {"idle", "check", "mark", "ip", "count", "send", "poll", "uncount",
        "unmark", "ended"}
Results == {"none", "refused", "failed", "sent", "already_granted", "died"}

(* demoKeys: the marker a request takes.  There is one cooldown for all.   *)
KeyOf(to, w) == IF to = "simulate" THEN <<to>> ELSE <<to, w>>
Key(r) == KeyOf(route[r], wallet[r])

Init ==
  /\ marks = {} /\ granted = 0
  /\ perIp = [a \in Addresses |-> 0]
  /\ simulations = [w \in Wallets |-> 0]
  /\ route \in [Requests -> {"access"}]
  /\ wallet \in {[r \in Requests |-> CHOOSE w \in Wallets : TRUE]}
  /\ ip \in {[r \in Requests |-> CHOOSE a \in Addresses : TRUE]}
  /\ pc = [r \in Requests |-> "idle"]
  /\ result = [r \in Requests |-> "none"]
  /\ fate = [r \in Requests |-> "none"]
  /\ unsure = {}

Goto(r, next) == pc' = [pc EXCEPT ![r] = next]
End(r, how) == Goto(r, "ended") /\ result' = [result EXCEPT ![r] = how]
Go(r, next) == Goto(r, next) /\ UNCHANGED result
Undo(r, next) == Goto(r, next) /\ result' = [result EXCEPT ![r] = "refused"]
-----------------------------------------------------------------------------
(* Reserving.                                                              *)

FirstCall == [access |-> "check", shares |-> "mark", simulate |-> "count"]

Arrive(r) ==
  /\ pc[r] = "idle"
  /\ \E to \in Routes, w \in Wallets, a \in Addresses :
       /\ route' = [route EXCEPT ![r] = to]
       /\ wallet' = [wallet EXCEPT ![r] = w]
       /\ ip' = [ip EXCEPT ![r] = a]
       /\ Go(r, FirstCall[to])
  /\ UNCHANGED <<storeVars, fate, unsure>>

(* hasAccess, some calls before the reservation.                           *)
CheckAccess(r) ==
  /\ pc[r] = "check"
  /\ \/ Key(r) \in marks /\ End(r, "already_granted")
     \/ Key(r) \notin marks /\ Go(r, "mark")
  /\ UNCHANGED <<storeVars, requestVars, fate, unsure>>

(* setIfAbsent.                                                            *)
Free(r) == Key(r) \notin marks

CooldownTaken_Fault == "unmark"
CooldownTaken == "uncount"

Mark(r) ==
  /\ pc[r] = "mark"
  /\ \/ /\ Free(r)
        /\ marks' = marks \cup {Key(r)}
        /\ Go(r, IF route[r] = "access" THEN "ip" ELSE "send")
     \/ /\ ~Free(r)
        /\ IF route[r] = "simulate" THEN Undo(r, CooldownTaken)
           ELSE End(r, "refused")
        /\ UNCHANGED marks
  /\ UNCHANGED <<granted, perIp, simulations, requestVars, fate, unsure>>

(* increment answers the new count.                                        *)
Over_Fault(count, limit) == count - 1 > limit
Over(count, limit) == count > limit

AfterIpLimit == "unmark"

CountIp(r) ==
  /\ pc[r] = "ip"
  /\ perIp' = [perIp EXCEPT ![ip[r]] = @ + 1]
  /\ IF Over(perIp'[ip[r]], AccessPerIp) THEN Undo(r, AfterIpLimit)
     ELSE Go(r, "count")
  /\ UNCHANGED <<marks, granted, simulations, requestVars, fate, unsure>>

CountAccess(r) ==
  /\ pc[r] = "count" /\ route[r] = "access"
  /\ granted' = granted + 1
  /\ IF Over(granted', AccessCap) THEN Undo(r, "uncount") ELSE Go(r, "send")
  /\ UNCHANGED <<marks, perIp, simulations, requestVars, fate, unsure>>

CountSimulation(r) ==
  /\ pc[r] = "count" /\ route[r] = "simulate"
  /\ simulations' = [simulations EXCEPT ![wallet[r]] = @ + 1]
  /\ IF Over(simulations'[wallet[r]], SimulationsPerWallet)
     THEN Undo(r, "uncount") ELSE Go(r, "mark")
  /\ UNCHANGED <<marks, granted, perIp, requestVars, fate, unsure>>
-----------------------------------------------------------------------------
(* Giving back: decrement and delete, in the order of the route.  A        *)
(* refused simulation never holds the cooldown it would delete.            *)

Uncount(r) ==
  /\ pc[r] = "uncount"
  /\ \/ /\ route[r] = "access"
        /\ granted' = granted - 1 /\ UNCHANGED simulations
        /\ Goto(r, "unmark")
     \/ /\ route[r] = "simulate"
        /\ simulations' = [simulations EXCEPT ![wallet[r]] = @ - 1]
        /\ UNCHANGED granted
        /\ Goto(r, "ended")
  /\ UNCHANGED <<marks, perIp, requestVars, result, fate, unsure>>

Unmark(r) ==
  /\ pc[r] = "unmark"
  /\ marks' = marks \ {Key(r)}
  /\ Goto(r, IF route[r] = "simulate" THEN "uncount" ELSE "ended")
  /\ UNCHANGED <<granted, perIp, simulations, requestVars, result, fate,
                 unsure>>

FirstRelease_Fault(r) == "unmark"
FirstRelease(r) == IF route[r] = "access" THEN "uncount" ELSE "unmark"

Release(r) ==
  Goto(r, FirstRelease(r)) /\ result' = [result EXCEPT ![r] = "failed"]
-----------------------------------------------------------------------------
(* sendPlan, whose every error releases the reservation.                   *)

SendAccepted(r) ==
  /\ pc[r] = "send"
  /\ fate' = [fate EXCEPT ![r] = "open"]
  /\ Go(r, "poll")
  /\ UNCHANGED <<storeVars, requestVars, unsure>>

(* Building it, the blockhash or the preflight throws.                     *)
SendRefused(r) ==
  /\ pc[r] = "send"
  /\ Release(r)
  /\ UNCHANGED <<storeVars, requestVars, fate, unsure>>

(* sendRawTransaction throws though the node took the transaction on.      *)
SendThrows(r) ==
  /\ pc[r] = "send"
  /\ fate' = [fate EXCEPT ![r] = "open"]
  /\ unsure' = unsure \cup {r}
  /\ Release(r)
  /\ UNCHANGED <<storeVars, requestVars>>

PollConfirmed(r) ==
  /\ pc[r] = "poll" /\ fate[r] = "landed"
  /\ End(r, "sent")
  /\ UNCHANGED <<storeVars, requestVars, fate, unsure>>

PollFailed(r) ==
  /\ pc[r] = "poll" /\ fate[r] = "failed"
  /\ Release(r)
  /\ UNCHANGED <<storeVars, requestVars, fate, unsure>>

PollThrows(r) ==
  /\ pc[r] = "poll"
  /\ unsure' = unsure \cup {r}
  /\ Release(r)
  /\ UNCHANGED <<storeVars, requestVars, fate>>

(* CONFIRM_WAIT_MS are over: answered as sent, not confirmed.              *)
PollTimesOut(r) ==
  /\ pc[r] = "poll"
  /\ End(r, "sent")
  /\ UNCHANGED <<storeVars, requestVars, fate, unsure>>

(* The function is killed (maxDuration), or a call to the store throws,    *)
(* before or after it had its effect: nothing more is done.                *)
Dies(r) ==
  /\ pc[r] \notin {"idle", "ended"}
  /\ \/ UNCHANGED fate
     \/ pc[r] = "send" /\ fate' = [fate EXCEPT ![r] = "open"]
  /\ Goto(r, "ended") /\ result' = [result EXCEPT ![r] = "died"]
  /\ UNCHANGED <<storeVars, requestVars, unsure>>
-----------------------------------------------------------------------------
Land(r) ==
  /\ fate[r] = "open"
  /\ \/ fate' = [fate EXCEPT ![r] = "landed"]
     \/ fate' = [fate EXCEPT ![r] = "failed"]
  /\ UNCHANGED <<storeVars, requestVars, pc, result, unsure>>

Simulating == {r \in Requests : route[r] = "simulate"
                                /\ pc[r] \in {"send", "poll", "unmark"}}

(* The cooldown's TTL and maxDuration are 60 seconds each, so who set it   *)
(* is gone when it expires.                                                *)
CooldownExpires ==
  /\ <<"simulate">> \in marks /\ Simulating = {}
  /\ marks' = marks \ {<<"simulate">>}
  /\ UNCHANGED <<granted, perIp, simulations, requestVars, pc, result, fate,
                 unsure>>

Reserve(r) ==
  Arrive(r) \/ CheckAccess(r) \/ Mark(r) \/ CountIp(r) \/ CountAccess(r)
    \/ CountSimulation(r)

Send(r) ==
  SendAccepted(r) \/ SendRefused(r) \/ SendThrows(r) \/ PollConfirmed(r)
    \/ PollFailed(r) \/ PollThrows(r) \/ PollTimesOut(r)

Next ==
  \/ \E r \in Requests :
       Reserve(r) \/ Send(r) \/ Uncount(r) \/ Unmark(r) \/ Dies(r) \/ Land(r)
  \/ CooldownExpires

Spec == Init /\ [][Next]_vars
-----------------------------------------------------------------------------
(* Properties.                                                             *)

TypeOK ==
  /\ marks \subseteq {KeyOf(to, w) : to \in Routes, w \in Wallets}
  /\ granted \in Nat
  /\ perIp \in [Addresses -> Nat] /\ simulations \in [Wallets -> Nat]
  /\ route \in [Requests -> Routes] /\ wallet \in [Requests -> Wallets]
  /\ ip \in [Requests -> Addresses]
  /\ pc \in [Requests -> PCs] /\ result \in [Requests -> Results]
  /\ fate \in [Requests -> {"none", "open", "landed", "failed"}]
  /\ unsure \subseteq Requests

Paying(r) == route[r] = "access" /\ fate[r] \in {"open", "landed"}

(* No wallet is given the drip or the shares twice, unless one of the two  *)
(* transactions was released while its outcome was unknown.                *)
OncePerWallet ==
  \A r, q \in Requests :
    /\ r # q /\ Key(r) = Key(q) /\ route[r] # "simulate"
    /\ fate[r] \in {"open", "landed"} /\ fate[q] \in {"open", "landed"}
    => r \in unsure \/ q \in unsure

(* reserveAccess: once per wallet, accessPerIpPerDay per IP address and    *)
(* accessCap in total, through every interleaving of requests that         *)
(* reserve, fail, die and give back.  Only a grant that was released while *)
(* its outcome was unknown comes on top of the cap.                        *)
GrantsWithinLimits ==
  /\ OncePerWallet
  /\ Cardinality({r \in Requests : Paying(r)}) <=
       AccessCap + Cardinality({r \in unsure : route[r] = "access"})
  /\ \A a \in Addresses :
       Cardinality({r \in Requests : Paying(r) /\ ip[r] = a}) <= AccessPerIp

(* limits.ts, header: a failed attempt costs the judge nothing.  When      *)
(* every request has ended and none died, the grants, the markers and the  *)
(* simulated months in the store are those of the sent transactions.  The  *)
(* counter per IP address is apart: reserveAccess keeps what a failed      *)
(* attempt took of it.                                                     *)
Sent(key) == \E r \in Requests : result[r] = "sent" /\ Key(r) = key

NothingLeaks ==
  (\A r \in Requests : pc[r] \in {"idle", "ended"} /\ result[r] # "died") =>
    /\ granted = Cardinality({w \in Wallets : <<"access", w>> \in marks})
    /\ \A key \in marks : Sent(key)
    /\ \A w \in Wallets :
         /\ Sent(<<"access", w>>) => <<"access", w>> \in marks
         /\ Sent(<<"shares", w>>) => <<"shares", w>> \in marks
         /\ simulations[w] = Cardinality({r \in Requests :
              result[r] = "sent" /\ route[r] = "simulate" /\ wallet[r] = w})

(* reserveSimulation: one simulated month at a time across all wallets,    *)
(* though every request gives its reservation back on its own.             *)
OneSimulationAtATime == Cardinality(Simulating) <= 1
=============================================================================
