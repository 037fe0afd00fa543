----------------------------- MODULE EvidenceLog -----------------------------
(***************************************************************************)
(* What the evidence ledger promises to its callers, and what its memory   *)
(* store does in one uninterrupted step: an append puts one event at the   *)
(* end of the mission's chain, and nothing else ever changes a chain.  A   *)
(* caller that gets its event back knows it is in the chain; one that gets *)
(* an error knows nothing.                                                 *)
(***************************************************************************)
EXTENDS Sequences

CONSTANTS Mission, Call

VARIABLES
  chain,    \* chain[m]: the calls whose events m's chain holds, oldest first
  outcome   \* outcome[c]: what the caller has been told

logVars == <<chain, outcome>>

Outcome == {"none", "returned", "failed"}

Init ==
  /\ chain = [m \in Mission |-> <<>>]
  /\ outcome = [c \in Call |-> "none"]

Extend(c, m) == chain' = [chain EXCEPT ![m] = Append(@, c)]
Tell(c, o) == outcome[c] = "none" /\ outcome' = [outcome EXCEPT ![c] = o]

Appended(c, m) == Extend(c, m) /\ Tell(c, "returned")
AppendedUnheard(c, m) == Extend(c, m) /\ Tell(c, "failed")
Failed(c) == Tell(c, "failed") /\ UNCHANGED chain

Next ==
  \E c \in Call :
    \/ \E m \in Mission : Appended(c, m) \/ AppendedUnheard(c, m)
    \/ Failed(c)

Spec == Init /\ [][Next]_logVars
=============================================================================
