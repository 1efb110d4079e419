---------------------------- MODULE IndexPromise ----------------------------
(***************************************************************************)
(* What the event index promises to its readers (docs/api.md, Program      *)
(* Events): it is the history of one chain, transaction by transaction and *)
(* in chain order, from the first one on.  Nothing is skipped, repeated,   *)
(* changed or taken back, and a failed transaction has no events.          *)
(***************************************************************************)
EXTENDS Naturals, Sequences

CONSTANTS
  Chains,   \* the chains a database could be filled from
  NoChain   \* stands for the chain of an empty database

VARIABLES
  chain,    \* each chain's transactions of the program, "ok" or "failed"
  genesis,  \* the chain the database remembers, or NoChain
  rows      \* the stored transactions, in the order of their rows

vars == <<chain, genesis, rows>>

Outcomes == {"ok", "failed"}

Init ==
  /\ chain = [c \in Chains |-> <<>>]
  /\ genesis = NoChain
  /\ rows = <<>>

Land(c, outcome) ==
  /\ chain' = [chain EXCEPT ![c] = Append(@, outcome)]
  /\ UNCHANGED <<genesis, rows>>

Choose(c) ==
  /\ genesis = NoChain
  /\ genesis' = c
  /\ UNCHANGED <<chain, rows>>

(* The row of a chain's n-th transaction; only a successful one has events. *)
Row(c, n) == [of |-> c, tx |-> n, events |-> chain[c][n] = "ok"]

Mirror ==
  /\ genesis \in Chains
  /\ Len(rows) < Len(chain[genesis])
  /\ rows' = Append(rows, Row(genesis, Len(rows) + 1))
  /\ UNCHANGED <<chain, genesis>>

Next ==
  \/ \E c \in Chains, outcome \in Outcomes : Land(c, outcome)
  \/ \E c \in Chains : Choose(c)
  \/ Mirror

Spec == Init /\ [][Next]_vars
=============================================================================
