-------------------------- MODULE MCGovernedMission --------------------------
\* Two calls with one mission id and two extensions.
EXTENDS GovernedMission, TLC

CONSTANTS memoryGraph, vyuha

InRegistryOrder == <<vyuha, memoryGraph>>

Quiet ==
  [rawOffensive |-> FALSE, actionOffensive |-> FALSE, sensitivity |-> "public", role |-> "analyst",
   missionBound |-> TRUE, actionRisk |-> 45, dataRisk |-> 10, trust |-> 75, telemetry |-> 0]

QuietOrOffensive == {Quiet, [Quiet EXCEPT !.actionOffensive = TRUE]}

Result(risk, confidence, high) ==
  [risk |-> risk, confidence |-> confidence, high |-> high, unproven |-> FALSE, policyRequired |-> FALSE]

\* Unsure results hold a mission; one more sure result may release it.
SureOrUnsure == {<<Result(30, 80, 0)>>, <<Result(75, 45, 0)>>}

HarmlessOrDenied ==
  {[result |-> Result(30, 80, 0), claims |-> TRUE,
    actions |-> {[offensive |-> FALSE, risk |-> 26]}],
   [result |-> Result(30, 80, 0), claims |-> TRUE,
    actions |-> {[offensive |-> FALSE, risk |-> 26], [offensive |-> TRUE, risk |-> 26]}]}

Interchangeable == Permutations(Call)
=============================================================================
