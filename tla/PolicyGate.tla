----------------------------- MODULE PolicyGate -----------------------------
(***************************************************************************)
(* The policy gate (policy-gate.ts) and its adapter for extensions         *)
(* (policy-adapter.ts) as functions of a normalized signal and the results *)
(* of the lenses.                                                          *)
(*                                                                         *)
(* Risks, confidences and trust are percentages, the weighted risk score   *)
(* is in ten-thousandths: the code's fractions of one times its weights.   *)
(* What the gate looks at in a text, and the reasons, fallbacks and        *)
(* approver roles it reports, are left out.                                *)
(***************************************************************************)
EXTENDS Integers, Sequences, SequencesExt

Percent == 0..100

Decision == {"ALLOW", "ASK_CONFIRMATION", "READ_ONLY", "SANDBOX_ONLY", "ESCALATE", "DENY"}

controlledRoles == {"admin", "operator"}

SignalType ==
  [rawOffensive : BOOLEAN, actionOffensive : BOOLEAN,  \* offensiveActions in rawText, in requestedAction
   sensitivity : {"public", "internal", "controlled", "classified"},
   role : controlledRoles \cup {"analyst", "viewer"}, missionBound : BOOLEAN,
   actionRisk : Percent, dataRisk : Percent, trust : Percent, telemetry : Percent]

\* unproven: no evidence item, or a claim marked [VERIFY REQUIRED].
LensResultType ==
  [risk : Percent, confidence : Percent, high : Nat, unproven : BOOLEAN, policyRequired : BOOLEAN]

-----------------------------------------------------------------------------
(* evaluatePolicy *)

\* What the gate takes from the lens results.
ViewType ==
  [lensRisk : Percent, unsure : BOOLEAN, high : Nat, unproven : BOOLEAN, policyRequired : BOOLEAN]

ViewOf(results) ==
  [lensRisk |-> Max({0} \cup {r.risk : r \in ToSet(results)}),
   unsure |-> FoldLeft(LAMBDA sum, r : sum + r.confidence, 0, results) < 55 * Len(results),
   high |-> FoldLeft(LAMBDA sum, r : sum + r.high, 0, results),
   unproven |-> \E r \in ToSet(results) : r.unproven,
   policyRequired |-> \E r \in ToSet(results) : r.policyRequired]

AtMost(bound, n) == IF n > bound THEN bound ELSE n

RiskScore(signal, view) ==
  AtMost(10000,
    signal.actionRisk * 35 + signal.dataRisk * 25 + (100 - signal.trust) * 20
      + signal.telemetry * 10 + view.lensRisk * 10 + AtMost(1200, 400 * view.high))

Offensive(signal) == signal.rawOffensive \/ signal.actionOffensive

\* The rules that look at the signal alone, and the decision of the first
\* one that applies.
RuledBySignal(signal) ==
  \/ Offensive(signal)
  \/ signal.sensitivity = "classified"
  \/ signal.sensitivity = "controlled" /\ signal.role \notin controlledRoles
  \/ signal.trust < 35

DecideBySignal(signal) ==
  IF Offensive(signal) THEN "DENY"
  ELSE IF signal.sensitivity = "classified"
       THEN IF signal.role \in controlledRoles /\ signal.missionBound THEN "ESCALATE" ELSE "DENY"
  ELSE IF signal.sensitivity = "controlled" /\ signal.role \notin controlledRoles THEN "READ_ONLY"
  ELSE "SANDBOX_ONLY"

\* The rules that weigh risk, in their order.
DecideByRisk(risk, view) ==
  IF (view.lensRisk >= 70 \/ risk >= 6500) /\ view.unsure THEN "ESCALATE"
  ELSE IF view.unproven
       THEN IF risk >= 5500 \/ view.lensRisk >= 55 THEN "ESCALATE" ELSE "ASK_CONFIRMATION"
  ELSE IF risk >= 8000 \/ view.high >= 2 THEN "ESCALATE"
  ELSE IF risk >= 5500 \/ view.policyRequired THEN "ASK_CONFIRMATION"
  ELSE "ALLOW"

Decide(signal, view) ==
  IF RuledBySignal(signal) THEN DecideBySignal(signal)
  ELSE DecideByRisk(RiskScore(signal, view), view)

EvaluatePolicy(signal, results) == Decide(signal, ViewOf(results))

-----------------------------------------------------------------------------
(* evaluateExtensionPolicy *)

decisionPriority ==
  [ALLOW |-> 0, ASK_CONFIRMATION |-> 1, READ_ONLY |-> 2, SANDBOX_ONLY |-> 3, ESCALATE |-> 4, DENY |-> 5]

NoLessRestrictive(d, e) == decisionPriority[d] >= decisionPriority[e]

\* One step of the reduce: only a decision of higher priority replaces the
\* one selected so far.
Stricter(selected, current) ==
  IF decisionPriority[current] > decisionPriority[selected] THEN current ELSE selected

\* The reduce over the decisions, the first one selected to begin with. The
\* priorities are all different, so the order of the others does not matter:
\* each decision is taken up once, if any of the others is that decision.
MostRestrictive(first, others) ==
  LET Reduced(selected, current) == IF current \in others THEN Stricter(selected, current) ELSE selected
      Early == Reduced(Reduced(Reduced(first, "ALLOW"), "ASK_CONFIRMATION"), "READ_ONLY")
  IN  Reduced(Reduced(Reduced(Early, "SANDBOX_ONLY"), "ESCALATE"), "DENY")

ActionSignal(signal, action) ==
  [signal EXCEPT !.actionOffensive = action.offensive,
                 !.actionRisk = IF action.risk > @ THEN action.risk ELSE @]

ActionDecision(signal, action, results) == EvaluatePolicy(ActionSignal(signal, action), results)

\* Mutant of EvaluateExtensionPolicy: only the analysis is judged.
EvaluateAnalysisOnly(signal, analysis, results) == EvaluatePolicy(signal, Append(results, analysis.result))

EvaluateExtensionPolicy(signal, analysis, results) ==
  LET governed == Append(results, analysis.result)
  IN  MostRestrictive(EvaluatePolicy(signal, governed),
                      {ActionDecision(signal, a, governed) : a \in analysis.actions})

=============================================================================
