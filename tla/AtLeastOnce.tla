---------------------------- MODULE AtLeastOnce ----------------------------
(***************************************************************************)
(* What the durable work queue promises to the code that enqueues work:    *)
(* every item is settled at most once, an item is reported completed only  *)
(* when some execution of it succeeded, and an item is given up (dead)     *)
(* only after some execution of it ended.  Nothing is promised about how   *)
(* often an item runs: executions may overlap and may follow a settlement. *)
(***************************************************************************)
CONSTANT Item

VARIABLES
  phase,  \* phase[i]: where the item is, seen from the outside
  tried   \* tried[i]: the outcomes of the executions of i that ended

abstractVars == <<phase, tried>>

Outcome == {"ok", "error"}

Init ==
  /\ phase = [i \in Item |-> "absent"]
  /\ tried = [i \in Item |-> {}]

\* Several items may change together: a lease or a commit covers a batch.
Submit(i) ==
  /\ phase[i] = "absent"
  /\ phase' = [phase EXCEPT ![i] = "open"]
  /\ UNCHANGED tried

RunEnds(i, outcome) ==
  /\ phase[i] # "absent"
  /\ tried' = [tried EXCEPT ![i] = @ \cup {outcome}]
  /\ UNCHANGED phase

SettleCompleted(i) ==
  /\ phase[i] = "open"
  /\ "ok" \in tried[i]
  /\ phase' = [phase EXCEPT ![i] = "completed"]
  /\ UNCHANGED tried

GiveUp(i) ==
  /\ phase[i] = "open"
  /\ tried[i] # {}
  /\ phase' = [phase EXCEPT ![i] = "dead"]
  /\ UNCHANGED tried

Next ==
  \E i \in Item :
    \/ Submit(i)
    \/ \E outcome \in Outcome : RunEnds(i, outcome)
    \/ SettleCompleted(i)
    \/ GiveUp(i)

Spec == Init /\ [][Next]_abstractVars
=============================================================================
