--------------------------- MODULE MCChangeImpact ---------------------------
(* Instances of ChangeImpact for TLC. *)
EXTENDS ChangeImpact

\* Calls differ in nothing but their name.
CallSymmetry == Permutations(Call)

\* One source says "open": a single lineage, so verification is required.
Reported ==
  [hash |-> "reported", contested |-> FALSE, temporal |-> FALSE, leader |-> "open",
   confidence |-> 50, lineages |-> 1, verify |-> TRUE]

\* A second source contradicts the first.
Disputed ==
  [hash |-> "disputed", contested |-> TRUE, temporal |-> FALSE, leader |-> "open",
   confidence |-> 25, lineages |-> 2, verify |-> TRUE]

TwoStates == {Reported, Disputed}

\* Nothing overlaps: a call begins when none is under way, with a record
\* retrieved later than all before it, and analysts decide between calls.
NoneUnderWay == \A c \in Call : call[c].pc \in {"new", "done", "failed"}

InTurn ==
  /\ \A c \in Call : call[c].pc = "new" /\ call'[c].pc # "new" =>
       NoneUnderWay /\ \A s \in snapshots : s.at < call'[c].at
  /\ call' = call => NoneUnderWay

SpecInTurn == Init /\ [][Next /\ InTurn]_vars
=============================================================================
