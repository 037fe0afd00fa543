------------------------ MODULE GovernedMissionProofs ------------------------
(***************************************************************************)
(* Proofs about GovernedMission and the policy gate it uses: actions are   *)
(* never judged more leniently than the analysis they come from, verdicts  *)
(* are the most restrictive ones, what is stored of a mission is backed by *)
(* one call, claims by their analysis and verdict, denials leave nothing   *)
(* behind, results say what was kept, and responses account for every      *)
(* extension and event, for every number of calls and extensions and every *)
(* signal, lens result and analysis.                                       *)
(***************************************************************************)
EXTENDS GovernedMission, TLAPS

-----------------------------------------------------------------------------
(* The policy gate *)

LEMMA PolicyType ==
  ASSUME NEW signal, NEW readings
  PROVE  EvaluatePolicy(signal, readings) \in Decision
  <1>1. DecideBySignal(signal) \in Decision
    BY DEF DecideBySignal, Decision
  <1>2. DecideByRisk(RiskScore(signal, ViewOf(readings)), ViewOf(readings)) \in Decision
    BY DEF DecideByRisk, Decision
  <1> QED BY <1>1, <1>2 DEF EvaluatePolicy, Decide

\* More risk never makes the rules that weigh risk more lenient.
LEMMA RiskMonotone ==
  ASSUME NEW view \in ViewType, NEW low \in Int, NEW high \in Int, low <= high
  PROVE  NoLessRestrictive(DecideByRisk(high, view), DecideByRisk(low, view))
  BY DEF ViewType, DecideByRisk, NoLessRestrictive, decisionPriority, Percent

LEMMA ScoreMonotone ==
  ASSUME NEW s \in SignalType, NEW t \in SignalType, NEW view \in ViewType,
         t = [s EXCEPT !.actionOffensive = t.actionOffensive, !.actionRisk = t.actionRisk],
         s.actionRisk <= t.actionRisk
  PROVE  /\ RiskScore(s, view) \in Int /\ RiskScore(t, view) \in Int
         /\ RiskScore(s, view) <= RiskScore(t, view)
  <1> DEFINE rest == s.dataRisk * 25 + (100 - s.trust) * 20 + s.telemetry * 10 + view.lensRisk * 10
                       + AtMost(1200, 400 * view.high)
  <1>1. /\ s.actionRisk \in Int /\ s.dataRisk \in Int /\ s.trust \in Int /\ s.telemetry \in Int
        /\ t.actionRisk \in Int /\ view.lensRisk \in Int /\ view.high \in Int
    BY DEF SignalType, ViewType, Percent
  <1>2. AtMost(1200, 400 * view.high) \in Int
    BY <1>1 DEF AtMost
  <1>3. rest \in Int
    BY <1>1, <1>2
  <1>4. t.dataRisk = s.dataRisk /\ t.trust = s.trust /\ t.telemetry = s.telemetry
    BY DEF SignalType
  <1>5. RiskScore(s, view) = AtMost(10000, s.actionRisk * 35 + rest)
    BY <1>1, <1>2 DEF RiskScore
  <1>6. RiskScore(t, view) = AtMost(10000, t.actionRisk * 35 + rest)
    BY <1>1, <1>2, <1>4 DEF RiskScore
  <1> HIDE DEF rest
  <1> QED BY <1>1, <1>3, <1>5, <1>6 DEF AtMost

\* An action proposed by an extension is judged at least as strictly as the
\* analysis it comes from: the adapter only ever raises the risk, and an
\* offensive action is denied (evaluateExtensionPolicy, evaluatePolicy).
THEOREM ActionsNoMoreLenient ==
  ASSUME NEW signal \in SignalType, ~signal.actionOffensive, NEW view \in ViewType,
         NEW action \in [offensive : BOOLEAN, risk : Percent]
  PROVE  NoLessRestrictive(Decide(ActionSignal(signal, action), view), Decide(signal, view))
  <1> DEFINE t == ActionSignal(signal, action)
  <1>1. /\ t \in SignalType
        /\ t = [signal EXCEPT !.actionOffensive = t.actionOffensive, !.actionRisk = t.actionRisk]
        /\ signal.actionRisk <= t.actionRisk
    <2> DEFINE risk == IF action.risk > signal.actionRisk THEN action.risk ELSE signal.actionRisk
    <2>1. action.offensive \in BOOLEAN /\ action.risk \in Percent /\ signal.actionRisk \in Percent
      BY DEF SignalType
    <2>2. risk \in Percent /\ signal.actionRisk <= risk
      BY <2>1 DEF Percent
    <2>3. t = [signal EXCEPT !.actionOffensive = action.offensive, !.actionRisk = risk]
      BY DEF ActionSignal, SignalType
    <2> HIDE DEF risk, t
    <2> QED BY <2>1, <2>2, <2>3 DEF SignalType
  <1>2. /\ t.sensitivity = signal.sensitivity /\ t.role = signal.role /\ t.trust = signal.trust
        /\ t.missionBound = signal.missionBound /\ t.rawOffensive = signal.rawOffensive
    BY DEF ActionSignal, SignalType
  <1> HIDE DEF t
  <1>3. CASE RuledBySignal(signal)
    <2>1. RuledBySignal(t)
      BY <1>2, <1>3 DEF RuledBySignal, Offensive
    <2> QED BY <1>2, <1>3, <2>1 DEF t, Decide, DecideBySignal, RuledBySignal, Offensive, NoLessRestrictive, decisionPriority
  <1>4. CASE ~RuledBySignal(signal) /\ RuledBySignal(t)
    <2>1. Offensive(t)
      BY <1>2, <1>4 DEF RuledBySignal, Offensive
    <2>2. Decide(t, view) = "DENY"
      BY <1>4, <2>1 DEF Decide, DecideBySignal
    <2>3. Decide(signal, view) \in Decision
      BY DEF Decide, DecideBySignal, DecideByRisk, Decision
    <2> QED BY <2>2, <2>3 DEF t, NoLessRestrictive, decisionPriority, Decision
  <1>5. CASE ~RuledBySignal(signal) /\ ~RuledBySignal(t)
    <2>1. NoLessRestrictive(DecideByRisk(RiskScore(t, view), view), DecideByRisk(RiskScore(signal, view), view))
      BY <1>1, RiskMonotone, ScoreMonotone
    <2> QED BY <1>5, <2>1 DEF t, Decide
  <1> QED BY <1>3, <1>4, <1>5

\* The gate allows only what is clear on every count: nothing offensive, no
\* classified data, no controlled data out of role, a trusted source, a score
\* below the confirmation threshold, no lens result without evidence or with
\* a policy requirement and at most one high finding (evaluatePolicy).
THEOREM AllowedOnlyWhenClear ==
  ASSUME NEW signal \in SignalType, NEW readings, EvaluatePolicy(signal, readings) = "ALLOW"
  PROVE  /\ ~Offensive(signal)
         /\ signal.sensitivity # "classified"
         /\ signal.sensitivity = "controlled" => signal.role \in controlledRoles
         /\ signal.trust >= 35
         /\ \A r \in ToSet(readings) : ~r.unproven /\ ~r.policyRequired
         /\ ~(RiskScore(signal, ViewOf(readings)) >= 5500)
         /\ ~(ViewOf(readings).high >= 2)
  <1> DEFINE view == ViewOf(readings)
             risk == RiskScore(signal, view)
  <1>1. ~RuledBySignal(signal)
    BY DEF EvaluatePolicy, Decide, DecideBySignal
  <1>2. DecideByRisk(risk, view) = "ALLOW"
    BY <1>1 DEF EvaluatePolicy, Decide
  <1>3. /\ view.unproven = (\E r \in ToSet(readings) : r.unproven)
        /\ view.policyRequired = (\E r \in ToSet(readings) : r.policyRequired)
    BY DEF ViewOf
  <1> HIDE DEF view, risk
  <1>4. ~view.unproven /\ ~view.policyRequired /\ ~(risk >= 5500) /\ ~(view.high >= 2)
    BY <1>2 DEF DecideByRisk
  <1>5. signal.trust \in Int
    BY DEF SignalType, Percent
  <1> QED BY <1>1, <1>3, <1>4, <1>5 DEF RuledBySignal, view, risk

\* Worse lens results never make the gate more lenient: more risk, more high
\* findings, less confidence or a policy requirement can only restrict more.
\* The exception it leaves is the gate's own: a result without evidence takes
\* the place of the escalation that two high findings call for.
THEOREM WorseResultsNoMoreLenient ==
  ASSUME NEW signal \in SignalType, NEW view \in ViewType, NEW worse \in ViewType,
         view.lensRisk <= worse.lensRisk, view.high <= worse.high,
         view.unsure => worse.unsure, view.policyRequired => worse.policyRequired,
         view.unproven => worse.unproven,
         worse.unproven => view.unproven \/ view.high < 2
  PROVE  NoLessRestrictive(Decide(signal, worse), Decide(signal, view))
  <1>1. CASE RuledBySignal(signal)
    BY <1>1 DEF Decide, DecideBySignal, NoLessRestrictive, decisionPriority
  <1>2. CASE ~RuledBySignal(signal)
    <2> DEFINE low == RiskScore(signal, view)
               high == RiskScore(signal, worse)
    <2>1. low \in Int /\ high \in Int /\ low <= high
      <3> DEFINE rest == signal.actionRisk * 35 + signal.dataRisk * 25 + (100 - signal.trust) * 20
                           + signal.telemetry * 10
                 findings(v) == AtMost(1200, 400 * v.high)
      <3>1. /\ signal.actionRisk \in Int /\ signal.dataRisk \in Int /\ signal.trust \in Int
            /\ signal.telemetry \in Int
        BY DEF SignalType, Percent
      <3>2. /\ view.lensRisk \in Int /\ worse.lensRisk \in Int
            /\ view.high \in Int /\ worse.high \in Int
        BY DEF ViewType, Percent
      <3>3. findings(view) \in Int /\ findings(worse) \in Int /\ findings(view) <= findings(worse)
        BY <3>2 DEF AtMost
      <3>4. rest \in Int
        BY <3>1
      <3>5. low = AtMost(10000, rest + view.lensRisk * 10 + findings(view))
        BY DEF RiskScore
      <3>6. high = AtMost(10000, rest + worse.lensRisk * 10 + findings(worse))
        BY DEF RiskScore
      <3> HIDE DEF rest, findings, low, high
      <3> QED BY <3>2, <3>3, <3>4, <3>5, <3>6 DEF AtMost
    <2>2. NoLessRestrictive(DecideByRisk(high, worse), DecideByRisk(low, worse))
      BY <2>1, RiskMonotone
    <2>3. NoLessRestrictive(DecideByRisk(low, worse), DecideByRisk(low, view))
      <3> HIDE DEF low, high
      <3> QED BY <2>1 DEF ViewType, DecideByRisk, NoLessRestrictive, decisionPriority, Percent
    <2>4. /\ DecideByRisk(high, worse) \in Decision /\ DecideByRisk(low, worse) \in Decision
          /\ DecideByRisk(low, view) \in Decision
      BY DEF DecideByRisk, Decision
    <2>5. /\ Decide(signal, worse) = DecideByRisk(high, worse)
          /\ Decide(signal, view) = DecideByRisk(low, view)
      BY <1>2 DEF Decide
    <2> HIDE DEF low, high
    <2>6. \A c, d, e \in Decision : NoLessRestrictive(c, d) /\ NoLessRestrictive(d, e) => NoLessRestrictive(c, e)
      <3>1. \A d \in Decision : decisionPriority[d] \in Int
        BY DEF Decision, decisionPriority
      <3> QED BY <3>1 DEF NoLessRestrictive
    <2> QED BY <2>2, <2>3, <2>4, <2>5, <2>6
  <1> QED BY <1>1, <1>2

\* The ranking orders the decisions: one step of the reduce selects one of the
\* two, no more lenient than either (combinePolicyDecisions).
LEMMA StricterSelects ==
  /\ \A d, e \in Decision :
       /\ Stricter(d, e) \in {d, e}
       /\ NoLessRestrictive(Stricter(d, e), d) /\ NoLessRestrictive(Stricter(d, e), e)
  /\ \A c, d, e \in Decision : NoLessRestrictive(c, d) /\ NoLessRestrictive(d, e) => NoLessRestrictive(c, e)
  /\ \A d \in Decision : NoLessRestrictive(d, d)
  <1>1. \A d \in Decision : decisionPriority[d] \in Int
    BY DEF Decision, decisionPriority
  <1> QED BY <1>1 DEF Stricter, NoLessRestrictive

\* The combined decision is one of those combined, and none of them is
\* stricter (combinePolicyDecisions).
LEMMA MostRestrictiveIsMaximal ==
  ASSUME NEW first \in Decision, NEW others \in SUBSET Decision
  PROVE  /\ MostRestrictive(first, others) \in {first} \cup others
         /\ MostRestrictive(first, others) \in Decision
         /\ \A d \in {first} \cup others : NoLessRestrictive(MostRestrictive(first, others), d)
  <1> DEFINE Reduced(selected, current) == IF current \in others THEN Stricter(selected, current) ELSE selected
             Known(selected, seen) ==
               /\ selected \in {first} \cup others
               /\ \A d \in {first} \cup (others \cap seen) : NoLessRestrictive(selected, d)
  <1>1. \A selected, current, seen : current \in Decision /\ Known(selected, seen)
                                        => Known(Reduced(selected, current), seen \cup {current})
    BY StricterSelects
  <1>2. Known(first, {})
    BY StricterSelects
  <1> HIDE DEF Known, Reduced
  <1> DEFINE s1 == Reduced(first, "ALLOW")
             s2 == Reduced(s1, "ASK_CONFIRMATION")
             s3 == Reduced(s2, "READ_ONLY")
             s4 == Reduced(s3, "SANDBOX_ONLY")
             s5 == Reduced(s4, "ESCALATE")
             s6 == Reduced(s5, "DENY")
  <1>3. Known(s1, {"ALLOW"})
    <2>1. Known(s1, {} \cup {"ALLOW"})
      BY <1>1, <1>2 DEF Decision
    <2>2. {} \cup {"ALLOW"} = {"ALLOW"}
      OBVIOUS
    <2> QED BY <2>1, <2>2
  <1>4. Known(s3, {"ALLOW"} \cup {"ASK_CONFIRMATION"} \cup {"READ_ONLY"})
    BY <1>1, <1>3 DEF Decision
  <1>5. Known(s5, {"ALLOW"} \cup {"ASK_CONFIRMATION"} \cup {"READ_ONLY"} \cup {"SANDBOX_ONLY"} \cup {"ESCALATE"})
    BY <1>1, <1>4 DEF Decision
  <1>6. Known(s6, {"ALLOW"} \cup {"ASK_CONFIRMATION"} \cup {"READ_ONLY"} \cup {"SANDBOX_ONLY"} \cup {"ESCALATE"}
                    \cup {"DENY"})
    BY <1>1, <1>5 DEF Decision
  <1>7. MostRestrictive(first, others) = s6
    BY DEF MostRestrictive, Reduced
  <1> HIDE DEF s6
  <1> QED BY <1>6, <1>7 DEF Known, Decision

\* The verdict on an extension is the decision on its analysis or on one of
\* its actions, and no more lenient than any of them: one denial denies the
\* extension, and it is allowed only if all of it is
\* (evaluateExtensionPolicy).
THEOREM VerdictIsStrictest ==
  ASSUME NEW signal, NEW analysis, NEW readings
  PROVE  LET verdict == EvaluateExtensionPolicy(signal, analysis, readings)
             governed == Append(readings, analysis.result)
             judged == {EvaluatePolicy(signal, governed)}
                         \cup {ActionDecision(signal, a, governed) : a \in analysis.actions}
         IN  /\ verdict \in judged /\ verdict \in Decision
             /\ \A d \in judged : NoLessRestrictive(verdict, d)
             /\ "DENY" \in judged => verdict = "DENY"
             /\ verdict = "ALLOW" => judged = {"ALLOW"}
  <1> DEFINE governed == Append(readings, analysis.result)
             onActions == {ActionDecision(signal, a, governed) : a \in analysis.actions}
             verdict == EvaluateExtensionPolicy(signal, analysis, readings)
  <1>1. EvaluatePolicy(signal, governed) \in Decision /\ onActions \in SUBSET Decision
    BY PolicyType DEF ActionDecision
  <1>2. verdict = MostRestrictive(EvaluatePolicy(signal, governed), onActions)
    BY DEF EvaluateExtensionPolicy
  <1> HIDE DEF governed, onActions, verdict
  <1> DEFINE judged == {EvaluatePolicy(signal, governed)} \cup onActions
  <1>3. verdict \in judged /\ verdict \in Decision /\ \A d \in judged : NoLessRestrictive(verdict, d)
    BY <1>1, <1>2, MostRestrictiveIsMaximal
  <1>4. judged \in SUBSET Decision
    BY <1>1
  <1> HIDE DEF judged
  <1>5. "DENY" \in judged => verdict = "DENY"
    BY <1>3 DEF Decision, NoLessRestrictive, decisionPriority
  <1>6. ASSUME verdict = "ALLOW" PROVE judged = {"ALLOW"}
    <2>1. \A d \in Decision : NoLessRestrictive("ALLOW", d) => d = "ALLOW"
      BY DEF Decision, NoLessRestrictive, decisionPriority
    <2> QED BY <1>3, <1>4, <1>6, <2>1
  <1> QED BY <1>3, <1>5, <1>6 DEF governed, onActions, verdict, judged

\* What the gate denies on the signal alone no lens result and no proposed
\* action can win back: every extension is denied (evaluateExtensionPolicy).
THEOREM SignalDenialStands ==
  ASSUME NEW signal, RuledBySignal(signal), DecideBySignal(signal) = "DENY",
         NEW analysis, NEW readings
  PROVE  EvaluateExtensionPolicy(signal, analysis, readings) = "DENY"
  <1>1. EvaluatePolicy(signal, Append(readings, analysis.result)) = "DENY"
    BY DEF EvaluatePolicy, Decide
  <1> QED BY <1>1, VerdictIsStrictest

\* An extension that proposes more actions is judged no more leniently for it
\* (evaluateExtensionPolicy).
THEOREM MoreActionsNoMoreLenient ==
  ASSUME NEW signal, NEW readings, NEW analysis, NEW bolder,
         bolder.result = analysis.result, analysis.actions \subseteq bolder.actions
  PROVE  NoLessRestrictive(EvaluateExtensionPolicy(signal, bolder, readings),
                           EvaluateExtensionPolicy(signal, analysis, readings))
  <1> DEFINE governed == Append(readings, analysis.result)
             Judged(actions) == {EvaluatePolicy(signal, governed)}
                                  \cup {ActionDecision(signal, a, governed) : a \in actions}
  <1>1. Judged(analysis.actions) \subseteq Judged(bolder.actions)
    OBVIOUS
  <1>2. EvaluateExtensionPolicy(signal, analysis, readings) \in Judged(analysis.actions)
    BY VerdictIsStrictest
  <1>3. \A d \in Judged(bolder.actions) : NoLessRestrictive(EvaluateExtensionPolicy(signal, bolder, readings), d)
    <2>1. governed = Append(readings, bolder.result)
      OBVIOUS
    <2> QED BY <2>1, VerdictIsStrictest
  <1> QED BY <1>1, <1>2, <1>3

-----------------------------------------------------------------------------
(* The inductive invariant *)

ExtensionPc ==
  {"extension", "requested", "analyzed", "persisting", "persistence_failed", "claiming", "claims_failed", "recording"}
AnalyzedPc == ExtensionPc \ {"extension", "requested"}
JudgedPc == AnalyzedPc \ {"analyzed"}
LaterPc == {"model", "auditing", "learned"}

HasDecided(local) ==
  \/ local.pc = "mission" /\ local.at = 6
  \/ local.pc \in {"saving"} \cup ExtensionPc \cup LaterPc

\* The locals agree with the control state.
Controlled(local) ==
  /\ local.pc = "mission" => local.at \in 1..6
  /\ local.pc \in ExtensionPc => local.at \in 1..Len(Registry)
  /\ HasDecided(local) => local.decision \in Decision
  /\ local.pc \in AnalyzedPc => local.analysis \in Analysis
  /\ local.pc \in JudgedPc => local.verdict \in Decision

FirstEvents(c, n, decision) == {MissionEvent(c, k, decision) : k \in 1..n}

\* What a call has done is among the events.
Evidenced(c, local, events) ==
  /\ local.pc = "idle" => local.eventIds = {}
  /\ local.pc = "mission" =>
       local.eventIds = FirstEvents(c, local.at - 1, local.decision) /\ local.eventIds \subseteq events
  /\ local.pc = "saving" =>
       local.eventIds = FirstEvents(c, 6, local.decision) /\ local.eventIds \subseteq events
  /\ local.pc \in AnalyzedPc => Event(c, "extension_analysis_completed", Registry[local.at], None) \in events
  /\ local.pc \in JudgedPc => Event(c, "extension_policy_evaluated", Registry[local.at], local.verdict) \in events
  /\ local.pc \in JudgedPc \ {"recording"} => local.verdict # "DENY"

\* The call has left nothing but events of its own.
Untouched(c) ==
  /\ \A e \in ledger : e.call = c => e.extension = None
  /\ \A r \in claims \cup memory \cup approvals : r.call # c
  /\ learning # None => learning.call # c

\* A call leaves no extension event, claim, approval or memory before it saves,
\* and none after a denial, which it remembers as long as it matters.
DenialInv(c) ==
  /\ call[c].pc \in {"idle", "mission", "saving"} => Untouched(c)
  /\ MissionEvent(c, 5, "DENY") \in ledger =>
       /\ Untouched(c)
       /\ call[c].pc \notin {"idle"} \cup ExtensionPc
       /\ call[c].pc = "mission" => call[c].at = 6
       /\ HasDecided(call[c]) => call[c].decision = "DENY"

CallInv(c) == Controlled(call[c]) /\ Evidenced(c, call[c], ledger) /\ DenialInv(c)

IInv ==
  /\ TypeOK
  /\ \A c \in Call : CallInv(c)
  /\ ClaimsBacked
  /\ StoredMissionBacked

-----------------------------------------------------------------------------
(* Events *)

LEMMA RegistryFacts ==
  /\ Len(Registry) \in Nat /\ Len(Registry) > 0
  /\ \A k \in 1..Len(Registry) : Registry[k] \in Extension
  /\ None \notin Extension /\ None \notin Decision
  BY GovernedMissionAssumption

LEMMA MissionEventFacts ==
  ASSUME NEW c \in Call, NEW k \in 1..6, NEW d \in Decision \cup {None}
  PROVE  /\ MissionEvent(c, k, d) \in EventType
         /\ MissionEvent(c, k, d).call = c /\ MissionEvent(c, k, d).extension = None
         /\ \A x : k # 5 => MissionEvent(c, k, x) = MissionEvent(c, k, d)
         /\ MissionEvent(c, k, d) = MissionEvent(c, 5, "DENY") <=> k = 5 /\ d = "DENY"
  <1>1. MissionEvents[k] \in Action
    <2>1. k \in DOMAIN MissionEvents
      BY DEF MissionEvents
    <2> QED BY <2>1 DEF Action, ToSet
  <1>2. MissionEvents[k] = MissionEvents[5] <=> k = 5
    <2>1. /\ MissionEvents[1] = "user_command_received" /\ MissionEvents[2] = "signal_normalized"
          /\ MissionEvents[3] = "lens_selected" /\ MissionEvents[4] = "lens_analysis_completed"
          /\ MissionEvents[5] = "policy_decision_made" /\ MissionEvents[6] = "report_generated"
      BY DEF MissionEvents
    <2>2. k = 1 \/ k = 2 \/ k = 3 \/ k = 4 \/ k = 5 \/ k = 6
      OBVIOUS
    <2> QED BY <2>1, <2>2
  <1> QED BY <1>1, <1>2 DEF MissionEvent, Event, EventType

LEMMA OtherEventFacts ==
  ASSUME NEW c \in Call, NEW action \in Action, NEW x \in Extension \cup {None}, NEW d \in Decision \cup {None}
  PROVE  /\ Event(c, action, x, d) \in EventType
         /\ Event(c, action, x, d).call = c /\ Event(c, action, x, d).extension = x
         /\ x # None \/ action # "policy_decision_made" => Event(c, action, x, d) # MissionEvent(c, 5, "DENY")
  BY DEF Event, EventType, MissionEvent, MissionEvents

-----------------------------------------------------------------------------
(* A step of one call leaves the others alone *)

\* What every step of c has in common.
StepOf(c, local) ==
  /\ call' = [call EXCEPT ![c] = local]
  /\ ledger \subseteq ledger'
  /\ \A e \in ledger' : e \in ledger \/ e.call = c
  /\ \A r \in claims' \cup memory' \cup approvals' :
       r \in claims \cup memory \cup approvals \/ r.call = c
  /\ learning' = learning \/ learning'.call = c

LEMMA OthersUndisturbed ==
  ASSUME TypeOK, NEW c \in Call, NEW local, StepOf(c, local), NEW d \in Call \ {c}, CallInv(d)
  PROVE  CallInv(d)'
  <1>1. call'[d] = call[d]
    BY DEF StepOf, TypeOK
  <1>2. Controlled(call'[d])
    BY <1>1 DEF CallInv
  <1>3. Evidenced(d, call'[d], ledger')
    BY <1>1 DEF CallInv, Evidenced, StepOf
  <1>4. Untouched(d) => Untouched(d)'
    BY DEF Untouched, StepOf
  <1>5. MissionEvent(d, 5, "DENY") \in ledger' => MissionEvent(d, 5, "DENY") \in ledger
    BY DEF StepOf, MissionEvent, Event
  <1>6. DenialInv(d)'
    BY <1>1, <1>4, <1>5 DEF CallInv, DenialInv
  <1> QED BY <1>2, <1>3, <1>6 DEF CallInv

-----------------------------------------------------------------------------
(* Steps by what they change *)

\* A step that appends e and changes nothing else but the locals.
LEMMA EmitStep ==
  ASSUME IInv, NEW c \in Call, NEW e \in EventType, e.call = c, NEW local \in LocalType,
         Emits(c, e, local),
         Controlled(local), Evidenced(c, local, ledger'), DenialInv(c)'
  PROVE  IInv'
  <1>1. StepOf(c, local)
    BY DEF Emits, StepOf, stored, extensionRecords
  <1>2. call'[c] = local
    BY DEF Emits, IInv, TypeOK
  <1>3. TypeOK'
    BY DEF Emits, IInv, TypeOK, stored, extensionRecords
  <1>4. \A d \in Call : CallInv(d)'
    <2>1. CallInv(c)'
      BY <1>2 DEF CallInv
    <2>2. \A d \in Call \ {c} : CallInv(d)'
      BY <1>1, OthersUndisturbed DEF IInv
    <2> QED BY <2>1, <2>2
  <1>5. ClaimsBacked'
    BY DEF Emits, IInv, ClaimsBacked, extensionRecords
  <1>6. StoredMissionBacked'
    BY DEF Emits, IInv, StoredMissionBacked, stored
  <1> QED BY <1>3, <1>4, <1>5, <1>6 DEF IInv

\* The event of an extension, or one after the extensions.
LEMMA LateEmitStep ==
  ASSUME IInv, NEW c \in Call, NEW e \in EventType, e.call = c, NEW local \in LocalType,
         Emits(c, e, local), Controlled(local), Evidenced(c, local, ledger'),
         e # MissionEvent(c, 5, "DENY"),
         \/ call[c].pc \in ExtensionPc /\ local.pc \in ExtensionPc \cup {"model"}
         \/ /\ call[c].pc \in LaterPc /\ local.pc \in {"auditing", "returned"}
            /\ e.extension = None /\ local.decision = call[c].decision
  PROVE  IInv'
  <1>1. call'[c] = local /\ ledger' = ledger \cup {e}
    BY DEF Emits, IInv, TypeOK
  <1>2. UNCHANGED <<claims, memory, approvals, learning>>
    BY DEF Emits, stored, extensionRecords
  <1>3. DenialInv(c) /\ Controlled(call[c])
    BY DEF IInv, CallInv
  <1>4. DenialInv(c)'
    <2>1. CASE call[c].pc \in ExtensionPc
      <3>1. MissionEvent(c, 5, "DENY") \notin ledger'
        BY <1>1, <1>3, <2>1 DEF DenialInv
      <3> QED BY <1>1, <2>1, <3>1 DEF DenialInv, ExtensionPc, LaterPc
    <2>2. CASE call[c].pc \in LaterPc /\ local.pc \in {"auditing", "returned"}
               /\ e.extension = None /\ local.decision = call[c].decision
      <3>1. Untouched(c) => Untouched(c)'
        BY <1>1, <1>2, <2>2 DEF Untouched
      <3>2. MissionEvent(c, 5, "DENY") \in ledger' => MissionEvent(c, 5, "DENY") \in ledger
        BY <1>1
      <3>3. HasDecided(call[c])
        BY <2>2 DEF HasDecided
      <3> QED BY <1>1, <1>3, <2>2, <3>1, <3>2, <3>3 DEF DenialInv, ExtensionPc
    <2> QED BY <2>1, <2>2
  <1> QED BY <1>4, EmitStep

\* A step that changes nothing but the locals.
LEMMA LocalStep ==
  ASSUME IInv, NEW c \in Call, NEW local \in LocalType, call' = [call EXCEPT ![c] = local],
         UNCHANGED <<ledger, stored, extensionRecords, audit, learning>>,
         Controlled(local), Evidenced(c, local, ledger), DenialInv(c)'
  PROVE  IInv'
  <1>1. StepOf(c, local)
    BY DEF StepOf, stored, extensionRecords
  <1>2. call'[c] = local
    BY DEF IInv, TypeOK
  <1>3. TypeOK'
    BY DEF IInv, TypeOK, stored, extensionRecords
  <1>4. \A d \in Call : CallInv(d)'
    <2>1. CallInv(c)'
      BY <1>2 DEF CallInv
    <2>2. \A d \in Call \ {c} : CallInv(d)'
      BY <1>1, OthersUndisturbed DEF IInv
    <2> QED BY <2>1, <2>2
  <1>5. ClaimsBacked' /\ StoredMissionBacked'
    BY DEF IInv, ClaimsBacked, StoredMissionBacked, stored, extensionRecords
  <1> QED BY <1>3, <1>4, <1>5 DEF IInv

\* The locals of a call after the extension it is at.
LEMMA NextExtensionFacts ==
  ASSUME NEW c \in Call, NEW local \in LocalType, local.at \in 1..Len(Registry), local.decision \in Decision,
         NEW events
  PROVE  /\ NextExtension(local) \in LocalType
         /\ Controlled(NextExtension(local)) /\ Evidenced(c, NextExtension(local), events)
         /\ NextExtension(local).pc \in {"extension", "model"}
  <1> DEFINE next == NextExtension(local)
  <1>1. CASE local.at = Len(Registry)
    <2>1. next = [local EXCEPT !.pc = "model", !.analysis = None, !.verdict = None,
                               !.eventIds = @ \cup local.extensionEventIds]
      BY <1>1 DEF NextExtension
    <2>2. next \in LocalType
      BY ZenonT(60), <2>1 DEF LocalType, Pc
    <2>3. next.pc = "model" /\ next.decision = local.decision
      BY <2>1 DEF LocalType
    <2> HIDE DEF next
    <2>4. Controlled(next) /\ Evidenced(c, next, events)
      BY <2>3 DEF Controlled, Evidenced, ExtensionPc, AnalyzedPc, JudgedPc
    <2> QED BY <2>2, <2>3, <2>4 DEF next
  <1>2. CASE local.at # Len(Registry)
    <2>1. next = [local EXCEPT !.pc = "extension", !.analysis = None, !.verdict = None, !.at = @ + 1]
      BY <1>2 DEF NextExtension
    <2>2. next \in LocalType
      <3>1. local.at + 1 \in Nat
        BY DEF LocalType
      <3> QED BY ZenonT(60), <2>1, <3>1 DEF LocalType, Pc
    <2>3. next.pc = "extension" /\ next.decision = local.decision /\ next.at = local.at + 1
      BY <2>1 DEF LocalType
    <2>4. next.at \in 1..Len(Registry)
      BY <1>2, <2>3, RegistryFacts
    <2> HIDE DEF next
    <2>5. Controlled(next) /\ Evidenced(c, next, events)
      BY <2>3, <2>4 DEF Controlled, Evidenced, ExtensionPc, AnalyzedPc, JudgedPc
    <2> QED BY <2>2, <2>3, <2>5 DEF next
  <1> QED BY <1>1, <1>2

\* A call within the extensions.
LEMMA AtExtension ==
  ASSUME IInv, NEW c \in Call, call[c].pc \in ExtensionPc
  PROVE  /\ call[c] \in LocalType /\ call[c].at \in 1..Len(Registry) /\ call[c].decision \in Decision
         /\ Running(c) \in Extension
         /\ MissionEvent(c, 5, "DENY") \notin ledger
  <1>1. call[c] \in LocalType /\ Controlled(call[c]) /\ DenialInv(c)
    BY DEF IInv, TypeOK, CallInv
  <1> QED BY <1>1, RegistryFacts DEF Controlled, HasDecided, DenialInv, Running

-----------------------------------------------------------------------------
(* runMission *)

LEMMA BeginsStep ==
  ASSUME IInv, NEW c \in Call, Begins(c)
  PROVE  IInv'
  <1>1. PICK signal \in Signal :
          call' = [call EXCEPT ![c].pc = "mission", ![c].at = 1, ![c].signal = signal]
    BY DEF Begins
  <1> DEFINE local == [call[c] EXCEPT !.pc = "mission", !.at = 1, !.signal = signal]
  <1>2. call[c] \in LocalType /\ call[c].pc = "idle" /\ CallInv(c)
    BY DEF IInv, TypeOK, Begins
  <1>3. call' = [call EXCEPT ![c] = local]
    BY <1>1 DEF IInv, TypeOK
  <1>4. local \in LocalType
    BY <1>2 DEF LocalType, Pc
  <1>5. local.pc = "mission" /\ local.at = 1 /\ local.eventIds = {}
    BY <1>2 DEF LocalType, CallInv, Evidenced
  <1> HIDE DEF local
  <1>6. UNCHANGED <<ledger, stored, extensionRecords, audit, learning>>
    BY DEF Begins
  <1>7. Controlled(local)
    BY <1>5 DEF Controlled, ExtensionPc, AnalyzedPc, JudgedPc, HasDecided, LaterPc
  <1>8. Evidenced(c, local, ledger)
    BY <1>5 DEF Evidenced, FirstEvents, ExtensionPc, AnalyzedPc, JudgedPc
  <1>9. DenialInv(c)'
    <2>1. Untouched(c)' /\ MissionEvent(c, 5, "DENY") \notin ledger'
      BY <1>2, <1>6 DEF CallInv, DenialInv, Untouched, stored, extensionRecords
    <2> QED BY <2>1 DEF DenialInv
  <1> QED BY <1>3, <1>4, <1>6, <1>7, <1>8, <1>9, LocalStep

LEMMA AppendsMissionEventStep ==
  ASSUME IInv, NEW c \in Call, AppendsMissionEvent(c)
  PROVE  IInv'
  <1> DEFINE k == call[c].at
  <1>1. /\ call[c] \in LocalType /\ call[c].pc = "mission" /\ k \in 1..6
        /\ call[c].eventIds = FirstEvents(c, k - 1, call[c].decision) /\ call[c].eventIds \subseteq ledger
        /\ (k = 6 => call[c].decision \in Decision)
        /\ Untouched(c) /\ (MissionEvent(c, 5, "DENY") \in ledger => k = 6 /\ call[c].decision = "DENY")
    BY DEF IInv, TypeOK, CallInv, Controlled, Evidenced, DenialInv, HasDecided, AppendsMissionEvent
  <1>2. PICK readings \in IF k = 4 THEN Readings ELSE {call[c].readings} :
          LET d == IF k = 5 THEN EvaluatePolicy(call[c].signal, readings) ELSE call[c].decision
              e == MissionEvent(c, k, d)
          IN  Emits(c, e,
                [call[c] EXCEPT !.pc = IF k = Len(MissionEvents) THEN "saving" ELSE "mission",
                                !.at = k + 1, !.readings = readings, !.decision = d,
                                !.eventIds = @ \cup {e}])
    BY DEF AppendsMissionEvent
  <1> DEFINE d == IF k = 5 THEN EvaluatePolicy(call[c].signal, readings) ELSE call[c].decision
             e == MissionEvent(c, k, d)
             pc == IF k = Len(MissionEvents) THEN "saving" ELSE "mission"
             local == [call[c] EXCEPT !.pc = pc, !.at = k + 1, !.readings = readings, !.decision = d,
                                      !.eventIds = call[c].eventIds \cup {e}]
  <1>3. Len(MissionEvents) = 6
    BY DEF MissionEvents
  <1>4. Emits(c, e, local)
    BY <1>2
  <1>5. d \in Decision \cup {None} /\ (k \in {5, 6} => d \in Decision)
    <2>1. EvaluatePolicy(call[c].signal, readings) \in Decision
      BY PolicyType
    <2>2. call[c].decision \in Decision \cup {None}
      BY <1>1 DEF LocalType
    <2> QED BY <1>1, <2>1, <2>2
  <1>6. readings \in Readings \cup {<<>>}
    BY <1>1, <1>2 DEF LocalType
  <1> HIDE DEF d
  <1>7. /\ e \in EventType /\ e.call = c /\ e.extension = None
        /\ (e = MissionEvent(c, 5, "DENY") <=> k = 5 /\ d = "DENY")
    BY <1>1, <1>5, MissionEventFacts
  <1>8. FirstEvents(c, k, d) = call[c].eventIds \cup {e}
    <2>1. \A j \in 1..(k - 1) : MissionEvent(c, j, d) = MissionEvent(c, j, call[c].decision)
      <3> SUFFICES ASSUME NEW j \in 1..(k - 1) PROVE MissionEvent(c, j, d) = MissionEvent(c, j, call[c].decision)
        OBVIOUS
      <3>1. CASE j # 5
        BY <1>1, <1>5, <3>1, MissionEventFacts
      <3>2. CASE j = 5
        BY <1>1, <3>2 DEF d
      <3> QED BY <3>1, <3>2
    <2>2. 1..k = 1..(k - 1) \cup {k}
      BY <1>1
    <2> QED BY <1>1, <2>1, <2>2 DEF FirstEvents
  <1> HIDE DEF e
  <1>9. /\ local \in LocalType /\ local.pc = pc /\ local.at = k + 1 /\ local.decision = d
        /\ local.eventIds = call[c].eventIds \cup {e}
    <2>1. k + 1 \in Nat /\ pc \in Pc
      BY <1>1 DEF Pc
    <2>2. call[c].eventIds \cup {e} \subseteq EventType
      BY <1>1, <1>7 DEF LocalType
    <2> HIDE DEF pc
    <2> QED BY <1>1, <1>5, <1>6, <2>1, <2>2 DEF LocalType
  <1> HIDE DEF local
  <1>10. ledger' = ledger \cup {e} /\ call'[c] = local /\ UNCHANGED <<claims, memory, approvals, learning>>
    BY <1>4 DEF Emits, IInv, TypeOK, stored, extensionRecords
  <1>11. Controlled(local)
    BY <1>1, <1>3, <1>5, <1>9 DEF Controlled, HasDecided, ExtensionPc, AnalyzedPc, JudgedPc, LaterPc
  <1>12. Evidenced(c, local, ledger')
    <2>1. local.eventIds = FirstEvents(c, k, d) /\ local.eventIds \subseteq ledger'
      BY <1>1, <1>8, <1>9, <1>10
    <2>2. local.pc = "mission" => local.at - 1 = k
      BY <1>1, <1>9
    <2>3. local.pc = "saving" => k = 6
      BY <1>3, <1>9
    <2> QED BY <1>9, <2>1, <2>2, <2>3 DEF Evidenced, ExtensionPc, AnalyzedPc, JudgedPc
  <1>13. DenialInv(c)'
    <2>1. Untouched(c)'
      BY <1>1, <1>7, <1>10 DEF Untouched
    <2>2. MissionEvent(c, 5, "DENY") \in ledger' => k \in {5, 6} /\ d = "DENY"
      BY <1>1, <1>7, <1>10 DEF d
    <2> QED BY <1>3, <1>9, <1>10, <2>1, <2>2 DEF DenialInv, ExtensionPc
  <1> QED BY <1>4, <1>7, <1>9, <1>11, <1>12, <1>13, EmitStep

\* What the transaction of saveMissionResult stores is of one call.
LEMMA SaveStep ==
  ASSUME IInv, NEW c \in Call, call[c].pc = "saving", SavesResult(c),
         NEW local \in LocalType, call' = [call EXCEPT ![c] = local],
         UNCHANGED <<ledger, extensionRecords, audit, learning>>,
         local.pc \in {"mission_returned", "extension", "model", "thrown"},
         local.pc = "extension" => call[c].decision # "DENY",
         HasDecided(local) => local.decision = call[c].decision,
         Controlled(local)
  PROVE  IInv'
  <1> DEFINE decision == call[c].decision
  <1>1. /\ call[c] \in LocalType /\ decision \in Decision /\ Untouched(c)
        /\ call[c].eventIds = FirstEvents(c, 6, decision) /\ call[c].eventIds \subseteq ledger
        /\ (MissionEvent(c, 5, "DENY") \in ledger => decision = "DENY")
    BY DEF IInv, TypeOK, CallInv, Controlled, Evidenced, DenialInv, HasDecided
  <1>2. call'[c] = local
    BY DEF IInv, TypeOK
  <1>3. /\ \A r \in ApprovalOf(c) : r = [call |-> c, decision |-> decision]
        /\ ApprovalOf(c) \subseteq [call : Call, decision : Decision]
    BY <1>1 DEF ApprovalOf
  <1>4. StepOf(c, local)
    BY <1>3 DEF StepOf, SavesResult, extensionRecords
  <1>5. TypeOK'
    <2>1. LifecycleStatus(decision) \in {"awaiting_approval", "completed", "denied", "escalated"}
      BY DEF LifecycleStatus
    <2>2. missions' \in [rawInputOf : Call, call : Call,
                         status : {"awaiting_approval", "completed", "denied", "escalated"}]
      BY <2>1 DEF SavesResult, UpsertedMission, IInv, TypeOK
    <2>3. results' \in [call : Call, decision : Decision, eventIds : SUBSET EventType]
      BY <1>1 DEF SavesResult, LocalType
    <2>4. approvals' \subseteq [call : Call, decision : Decision] /\ snapshots' \subseteq Call
      BY <1>3 DEF SavesResult, IInv, TypeOK
    <2>5. call' \in [Call -> LocalType]
      BY DEF IInv, TypeOK
    <2> QED BY <2>2, <2>3, <2>4, <2>5 DEF IInv, TypeOK, extensionRecords
  <1>6. \A d \in Call : CallInv(d)'
    <2>1. Evidenced(c, local, ledger')
      BY DEF Evidenced, ExtensionPc, AnalyzedPc, JudgedPc
    <2>2. DenialInv(c)'
      <3>1. ASSUME MissionEvent(c, 5, "DENY") \in ledger' PROVE Untouched(c)' /\ decision = "DENY"
        <4>1. decision = "DENY"
          BY <1>1, <3>1
        <4>2. ApprovalOf(c) = {}
          BY <4>1 DEF ApprovalOf, ApprovalRequired
        <4> QED BY <1>1, <4>1, <4>2 DEF Untouched, SavesResult, extensionRecords
      <3> QED BY <1>2, <3>1 DEF DenialInv, ExtensionPc
    <2>3. CallInv(c)'
      BY <1>2, <2>1, <2>2 DEF CallInv
    <2>4. \A d \in Call \ {c} : CallInv(d)'
      BY <1>4, OthersUndisturbed DEF IInv
    <2> QED BY <2>3, <2>4
  <1>7. ClaimsBacked'
    BY DEF IInv, ClaimsBacked, extensionRecords
  <1>8. StoredMissionBacked'
    <2>1. results' = [call |-> c, decision |-> decision, eventIds |-> call[c].eventIds]
      BY DEF SavesResult
    <2>2. missions'.call = c /\ missions'.status = LifecycleStatus(decision)
      BY DEF SavesResult, UpsertedMission
    <2>3. {a \in approvals' : a.call = c} = ApprovalOf(c)
      BY <1>1, <1>3 DEF SavesResult, Untouched
    <2>4. ApprovalOf(c) = IF LifecycleStatus(decision) \in {"awaiting_approval", "escalated"}
                          THEN {[call |-> c, decision |-> decision]} ELSE {}
      BY <1>1 DEF ApprovalOf, ApprovalRequired, LifecycleStatus, Decision
    <2>5. Len(MissionEvents) = 6
      BY DEF MissionEvents
    <2> HIDE DEF decision
    <2>6. call[c].eventIds = {MissionEvent(c, k, decision) : k \in 1..Len(MissionEvents)}
      BY <1>1, <2>5 DEF FirstEvents
    <2> QED BY <1>1, <2>1, <2>2, <2>3, <2>4, <2>6 DEF StoredMissionBacked
  <1> QED BY <1>5, <1>6, <1>7, <1>8 DEF IInv

LEMMA FreshFacts ==
  LET dead == [Fresh EXCEPT !.pc = "thrown"] IN
  /\ dead \in LocalType /\ dead.pc = "thrown" /\ Controlled(dead)
  /\ \A c, events : Evidenced(c, dead, events)
  /\ ~HasDecided(dead)
  BY DEF Fresh, LocalType, Pc, Controlled, Evidenced, HasDecided, ExtensionPc, AnalyzedPc, JudgedPc, LaterPc

LEMMA MissionReturnsStep ==
  ASSUME IInv, NEW c \in Call, MissionReturns(c)
  PROVE  IInv'
  <1> DEFINE local == [call[c] EXCEPT !.pc = "mission_returned"]
  <1>1. call[c] \in LocalType
    BY DEF IInv, TypeOK
  <1>2. local \in LocalType /\ local.pc = "mission_returned"
    BY <1>1 DEF LocalType, Pc
  <1>3. call' = [call EXCEPT ![c] = local]
    BY DEF MissionReturns
  <1> HIDE DEF local
  <1>4. Controlled(local) /\ ~HasDecided(local)
    BY <1>2 DEF Controlled, HasDecided, ExtensionPc, AnalyzedPc, JudgedPc, LaterPc
  <1> QED BY <1>2, <1>3, <1>4, SaveStep DEF MissionReturns

LEMMA SaveReplyLostStep ==
  ASSUME IInv, NEW c \in Call, SaveReplyLost(c)
  PROVE  IInv'
  BY FreshFacts, SaveStep DEF SaveReplyLost, Dies

LEMMA EntersExtensionsStep ==
  ASSUME IInv, NEW c \in Call, EntersExtensions(c)
  PROVE  IInv'
  <1> DEFINE local == IF call[c].decision = "DENY"
                      THEN [call[c] EXCEPT !.pc = "model", !.skipped = Extension]
                      ELSE [call[c] EXCEPT !.pc = "extension", !.at = 1]
  <1>1. call[c] \in LocalType /\ call[c].decision \in Decision
    BY DEF IInv, TypeOK, CallInv, Controlled, HasDecided, EntersExtensions
  <1>2. /\ local \in LocalType /\ local.decision = call[c].decision
        /\ local.pc = IF call[c].decision = "DENY" THEN "model" ELSE "extension"
        /\ local.pc = "extension" => local.at = 1
    BY ZenonT(60), <1>1 DEF LocalType, Pc
  <1>3. call' = [call EXCEPT ![c] = local]
    BY DEF EntersExtensions
  <1> HIDE DEF local
  <1>4. Controlled(local)
    BY <1>1, <1>2, RegistryFacts DEF Controlled, HasDecided, ExtensionPc, AnalyzedPc, JudgedPc, LaterPc
  <1> QED BY <1>1, <1>2, <1>3, <1>4, SaveStep DEF EntersExtensions

-----------------------------------------------------------------------------
(* runGovernedExtensions *)

LEMMA ExtensionEventFacts ==
  ASSUME IInv, NEW c \in Call, call[c].pc \in ExtensionPc,
         NEW action \in Action, NEW d \in Decision \cup {None}
  PROVE  LET e == ExtensionEvent(c, action, d) IN
         /\ e \in EventType /\ e.call = c /\ e # MissionEvent(c, 5, "DENY")
         /\ e = Event(c, action, Registry[call[c].at], d)
         /\ WithEvent(call[c], e) \in LocalType
         /\ \A f \in {"at", "decision", "analysis", "verdict"} : WithEvent(call[c], e)[f] = call[c][f]
  <1> DEFINE e == ExtensionEvent(c, action, d)
  <1>1. call[c] \in LocalType /\ Running(c) \in Extension /\ Running(c) # None
    BY AtExtension, RegistryFacts
  <1>2. /\ e \in EventType /\ e.call = c /\ e # MissionEvent(c, 5, "DENY")
        /\ e = Event(c, action, Registry[call[c].at], d)
    BY <1>1, OtherEventFacts DEF ExtensionEvent, Running
  <1> HIDE DEF e
  <1>3. call[c].extensionEventIds \cup {e} \subseteq EventType
    BY <1>1, <1>2 DEF LocalType
  <1>4. WithEvent(call[c], e) \in LocalType
    BY <1>1, <1>3 DEF WithEvent, LocalType
  <1>5. \A f \in {"at", "decision", "analysis", "verdict"} : WithEvent(call[c], e)[f] = call[c][f]
    BY <1>1 DEF WithEvent, LocalType
  <1> QED BY <1>2, <1>4, <1>5 DEF e

LEMMA ExtensionActions ==
  /\ FailureActions \subseteq Action
  /\ {"extension_requested", "extension_analysis_completed", "extension_policy_evaluated",
      "extension_result_recorded", "model_intelligence_completed", "learning_memory_recorded"} \subseteq Action
  BY DEF Action

LEMMA SkipsStep ==
  ASSUME IInv, NEW c \in Call, Skips(c)
  PROVE  IInv'
  <1> DEFINE before == [call[c] EXCEPT !.skipped = @ \cup {Running(c)}]
             local == NextExtension(before)
  <1>1. call[c].pc \in ExtensionPc
    BY DEF Skips, ExtensionPc
  <1>2. before \in LocalType /\ before.at \in 1..Len(Registry) /\ before.decision \in Decision
    BY <1>1, AtExtension DEF LocalType
  <1>3. call' = [call EXCEPT ![c] = local] /\ UNCHANGED <<ledger, stored, extensionRecords, audit, learning>>
    BY DEF Skips
  <1> HIDE DEF before
  <1>4. /\ local \in LocalType /\ Controlled(local) /\ Evidenced(c, local, ledger)
        /\ local.pc \in {"extension", "model"}
    BY <1>2, NextExtensionFacts
  <1>5. DenialInv(c)'
    <2>1. MissionEvent(c, 5, "DENY") \notin ledger'
      BY <1>1, <1>3, AtExtension
    <2>2. call'[c] = local
      BY <1>3 DEF IInv, TypeOK
    <2> QED BY <1>4, <2>1, <2>2 DEF DenialInv
  <1> QED BY <1>3, <1>4, <1>5, LocalStep

\* A step that ends in the next extension.
LEMMA NextExtensionEmit ==
  ASSUME IInv, NEW c \in Call, call[c].pc \in ExtensionPc,
         NEW action \in Action, NEW before \in LocalType,
         before.at = call[c].at, before.decision = call[c].decision,
         Emits(c, ExtensionEvent(c, action, None), NextExtension(before))
  PROVE  IInv'
  <1> DEFINE e == ExtensionEvent(c, action, None)
             local == NextExtension(before)
  <1>1. e \in EventType /\ e.call = c /\ e # MissionEvent(c, 5, "DENY")
    BY AtExtension, RegistryFacts, OtherEventFacts DEF ExtensionEvent
  <1>2. /\ local \in LocalType /\ Controlled(local) /\ Evidenced(c, local, ledger')
        /\ local.pc \in {"extension", "model"}
    BY AtExtension, NextExtensionFacts
  <1>3. local.pc \in ExtensionPc \cup {"model"}
    BY <1>2 DEF ExtensionPc
  <1> HIDE DEF e, local
  <1>4. Emits(c, e, local)
    BY DEF e, local
  <1> QED BY <1>1, <1>2, <1>3, <1>4, LateEmitStep

LEMMA RequestsStep ==
  ASSUME IInv, NEW c \in Call, Requests(c)
  PROVE  IInv'
  <1> DEFINE e == ExtensionEvent(c, "extension_requested", None)
             noted == WithEvent(call[c], e)
             local == [noted EXCEPT !.pc = "requested"]
  <1>1. call[c].pc \in ExtensionPc
    BY DEF Requests, ExtensionPc
  <1>2. /\ e \in EventType /\ e.call = c /\ e # MissionEvent(c, 5, "DENY")
        /\ noted \in LocalType /\ noted.at = call[c].at /\ noted.decision = call[c].decision
    BY <1>1, ExtensionEventFacts, ExtensionActions
  <1>3. Emits(c, e, local)
    BY DEF Requests
  <1> HIDE DEF e, noted
  <1>4. local \in LocalType /\ local.pc = "requested" /\ local.at = call[c].at /\ local.decision = call[c].decision
    BY <1>2 DEF LocalType, Pc
  <1> HIDE DEF local
  <1>5. Controlled(local) /\ Evidenced(c, local, ledger') /\ local.pc \in ExtensionPc
    BY <1>1, <1>4, AtExtension DEF Controlled, Evidenced, HasDecided, ExtensionPc, AnalyzedPc, JudgedPc
  <1> QED BY <1>1, <1>2, <1>3, <1>4, <1>5, LateEmitStep

LEMMA AnalysisFailsStep ==
  ASSUME IInv, NEW c \in Call, AnalysisFails(c)
  PROVE  IInv'
  <1> DEFINE e == ExtensionEvent(c, "extension_failed", None)
             noted == WithEvent(call[c], e)
             before == [noted EXCEPT !.failures = @ \cup {Running(c)}]
  <1>1. call[c].pc \in ExtensionPc /\ "extension_failed" \in Action
    BY ExtensionActions DEF AnalysisFails, ExtensionPc, FailureActions
  <1>2. /\ noted \in LocalType /\ noted.at = call[c].at /\ noted.decision = call[c].decision
        /\ Running(c) \in Extension
    BY <1>1, AtExtension, ExtensionEventFacts
  <1>3. Emits(c, e, NextExtension(before))
    BY DEF AnalysisFails
  <1> HIDE DEF noted
  <1>4. before \in LocalType /\ before.at = call[c].at /\ before.decision = call[c].decision
    BY <1>2 DEF LocalType
  <1> HIDE DEF before
  <1> QED BY <1>1, <1>3, <1>4, NextExtensionEmit

LEMMA AnalyzesStep ==
  ASSUME IInv, NEW c \in Call, Analyzes(c)
  PROVE  IInv'
  <1> DEFINE e == ExtensionEvent(c, "extension_analysis_completed", None)
             noted == WithEvent(call[c], e)
  <1>1. PICK analysis \in Analysis : Emits(c, e, [noted EXCEPT !.pc = "analyzed", !.analysis = analysis])
    BY DEF Analyzes
  <1> DEFINE local == [noted EXCEPT !.pc = "analyzed", !.analysis = analysis]
  <1>2. call[c].pc \in ExtensionPc
    BY DEF Analyzes, ExtensionPc
  <1>3. /\ e \in EventType /\ e.call = c /\ e # MissionEvent(c, 5, "DENY")
        /\ e = Event(c, "extension_analysis_completed", Registry[call[c].at], None)
        /\ noted \in LocalType /\ noted.at = call[c].at /\ noted.decision = call[c].decision
    BY <1>2, ExtensionEventFacts, ExtensionActions
  <1> HIDE DEF e, noted
  <1>4. /\ local \in LocalType /\ local.pc = "analyzed" /\ local.at = call[c].at
        /\ local.decision = call[c].decision /\ local.analysis = analysis
    BY <1>3 DEF LocalType, Pc
  <1> HIDE DEF local
  <1>5. Emits(c, e, local)
    BY <1>1 DEF local
  <1>6. Controlled(local) /\ local.pc \in ExtensionPc
    BY <1>2, <1>4, AtExtension DEF Controlled, HasDecided, ExtensionPc, AnalyzedPc, JudgedPc
  <1>7. Evidenced(c, local, ledger')
    BY <1>3, <1>4, <1>5 DEF Evidenced, JudgedPc, Emits
  <1> QED BY <1>2, <1>3, <1>4, <1>5, <1>6, <1>7, LateEmitStep

LEMMA JudgesStep ==
  ASSUME IInv, NEW c \in Call, Judges(c)
  PROVE  IInv'
  <1> DEFINE verdict == EvaluateExtensionPolicy(call[c].signal, call[c].analysis, call[c].readings)
             e == ExtensionEvent(c, "extension_policy_evaluated", verdict)
             noted == WithEvent(call[c], e)
             local == [noted EXCEPT !.pc = AfterVerdict(c, verdict), !.verdict = verdict]
  <1>1. verdict \in Decision
    BY VerdictIsStrictest
  <1>2. Emits(c, e, local)
    BY DEF Judges
  <1> HIDE DEF verdict
  <1>3. call[c].pc = "analyzed" /\ call[c].pc \in ExtensionPc /\ call[c].pc \in AnalyzedPc
    BY DEF Judges, ExtensionPc, AnalyzedPc
  <1>4. /\ e \in EventType /\ e.call = c /\ e # MissionEvent(c, 5, "DENY")
        /\ e = Event(c, "extension_policy_evaluated", Registry[call[c].at], verdict)
        /\ noted \in LocalType /\ noted.at = call[c].at /\ noted.decision = call[c].decision
        /\ noted.analysis = call[c].analysis
    BY <1>1, <1>3, ExtensionEventFacts, ExtensionActions
  <1> HIDE DEF e, noted
  <1>5. /\ AfterVerdict(c, verdict) \in {"recording", "persisting", "claiming"}
        /\ AfterVerdict(c, verdict) # "recording" => verdict # "DENY"
    BY DEF AfterVerdict
  <1>6. /\ local \in LocalType /\ local.pc = AfterVerdict(c, verdict) /\ local.at = call[c].at
        /\ local.decision = call[c].decision /\ local.analysis = call[c].analysis /\ local.verdict = verdict
    BY ZenonT(60), <1>1, <1>4, <1>5 DEF LocalType, Pc
  <1> HIDE DEF local
  <1>7. /\ call[c].analysis \in Analysis
        /\ Event(c, "extension_analysis_completed", Registry[call[c].at], None) \in ledger
    BY <1>3 DEF IInv, CallInv, Controlled, Evidenced, Running
  <1>8. Controlled(local) /\ local.pc \in ExtensionPc
    BY <1>1, <1>3, <1>5, <1>6, <1>7, AtExtension DEF Controlled, HasDecided, ExtensionPc, AnalyzedPc, JudgedPc
  <1>9. ledger' = ledger \cup {e}
    BY <1>2 DEF Emits
  <1>10. Evidenced(c, local, ledger')
    BY <1>4, <1>5, <1>6, <1>7, <1>9 DEF Evidenced, ExtensionPc, AnalyzedPc, JudgedPc
  <1> QED BY <1>2, <1>3, <1>4, <1>6, <1>8, <1>10, LateEmitStep

\* What a call keeps while it persists is backed by its events.
LEMMA KeepStep ==
  ASSUME IInv, NEW c \in Call, call[c].pc \in {"persisting", "claiming"},
         NEW pc \in {"claiming", "recording", "persistence_failed", "claims_failed"},
         call' = [call EXCEPT ![c].pc = pc],
         claims' \in {claims, claims \cup ClaimRecordsOf(c)},
         memory' \in {memory, memory \cup ClaimsOf(c)},
         UNCHANGED <<ledger, stored, audit, learning>>
  PROVE  IInv'
  <1> DEFINE local == [call[c] EXCEPT !.pc = pc]
  <1>1. /\ call[c].pc \in ExtensionPc /\ call[c].pc \in AnalyzedPc /\ call[c].pc \in JudgedPc
        /\ call[c].pc \in JudgedPc \ {"recording"}
    BY DEF ExtensionPc, AnalyzedPc, JudgedPc
  <1>2. /\ call[c] \in LocalType /\ call[c].at \in 1..Len(Registry) /\ call[c].decision \in Decision
        /\ Running(c) \in Extension /\ MissionEvent(c, 5, "DENY") \notin ledger
    BY <1>1, AtExtension
  <1>3. /\ call[c].analysis \in Analysis /\ call[c].verdict \in Decision /\ call[c].verdict # "DENY"
        /\ Event(c, "extension_analysis_completed", Running(c), None) \in ledger
        /\ Event(c, "extension_policy_evaluated", Running(c), call[c].verdict) \in ledger
    BY <1>1 DEF IInv, CallInv, Controlled, Evidenced, Running
  <1>4. call' = [call EXCEPT ![c] = local] /\ call'[c] = local
    BY DEF IInv, TypeOK
  <1>5. /\ local \in LocalType /\ local.pc = pc /\ local.at = call[c].at /\ local.decision = call[c].decision
        /\ local.analysis = call[c].analysis /\ local.verdict = call[c].verdict
    BY <1>2 DEF LocalType, Pc
  <1> HIDE DEF local
  <1>6. /\ ClaimRecordsOf(c) \subseteq {[call |-> c, extension |-> Running(c), decision |-> call[c].verdict]}
        /\ ClaimsOf(c) \subseteq {[call |-> c, extension |-> Running(c)]}
    BY DEF ClaimRecordsOf, ClaimsOf, ClaimRecordOf, RecordOf
  <1>7. StepOf(c, local)
    <2>1. \A r \in claims' : r \in claims \/ r.call = c
      BY <1>6
    <2>2. \A r \in memory' : r \in memory \/ r.call = c
      BY <1>6
    <2> QED BY <1>4, <2>1, <2>2 DEF StepOf, stored
  <1>8. TypeOK'
    <2>1. claims' \subseteq [call : Call, extension : Extension, decision : Decision]
      BY <1>2, <1>3, <1>6 DEF IInv, TypeOK
    <2>2. memory' \subseteq [call : Call, extension : Extension]
      BY <1>2, <1>6 DEF IInv, TypeOK
    <2>3. call' \in [Call -> LocalType]
      BY <1>4, <1>5 DEF IInv, TypeOK
    <2> QED BY <2>1, <2>2, <2>3 DEF IInv, TypeOK, stored
  <1>9. \A d \in Call : CallInv(d)'
    <2>1. Controlled(local)
      BY <1>2, <1>3, <1>5 DEF Controlled, HasDecided
    <2>2. Evidenced(c, local, ledger')
      BY <1>3, <1>5 DEF Evidenced, Running
    <2>3. DenialInv(c)'
      BY <1>2, <1>4, <1>5 DEF DenialInv
    <2>4. CallInv(c)'
      BY <1>4, <2>1, <2>2, <2>3 DEF CallInv
    <2>5. \A d \in Call \ {c} : CallInv(d)'
      BY <1>7, OthersUndisturbed DEF IInv
    <2> QED BY <2>4, <2>5
  <1>10. ClaimsBacked'
    <2>1. \A r \in claims' :
            /\ r.decision # "DENY"
            /\ Event(r.call, "extension_analysis_completed", r.extension, None) \in ledger
            /\ Event(r.call, "extension_policy_evaluated", r.extension, r.decision) \in ledger
      BY <1>3, <1>6 DEF IInv, ClaimsBacked
    <2>2. \A r \in memory' :
            /\ Event(r.call, "extension_analysis_completed", r.extension, None) \in ledger
            /\ \E d \in Decision \ {"DENY"} : Event(r.call, "extension_policy_evaluated", r.extension, d) \in ledger
      BY <1>3, <1>6 DEF IInv, ClaimsBacked
    <2> QED BY <2>1, <2>2 DEF ClaimsBacked
  <1>11. StoredMissionBacked'
    BY DEF IInv, StoredMissionBacked, stored
  <1> QED BY <1>8, <1>9, <1>10, <1>11 DEF IInv

LEMMA KeepingSteps ==
  ASSUME IInv, NEW c \in Call, Persists(c) \/ PersistFails(c) \/ PersistsClaims(c) \/ ClaimsFail(c)
  PROVE  IInv'
  <1>1. CASE Persists(c)
    BY <1>1, KeepStep DEF Persists
  <1>2. CASE PersistFails(c)
    BY <1>2, KeepStep DEF PersistFails
  <1>3. CASE PersistsClaims(c)
    BY <1>3, KeepStep DEF PersistsClaims
  <1>4. CASE ClaimsFail(c)
    BY <1>4, KeepStep DEF ClaimsFail
  <1> QED BY <1>1, <1>2, <1>3, <1>4

LEMMA RecordsFailureStep ==
  ASSUME IInv, NEW c \in Call, RecordsFailure(c)
  PROVE  IInv'
  <1> DEFINE e == ExtensionEvent(c, FailureAction(c), None)
             noted == WithEvent(call[c], e)
             before == [noted EXCEPT !.failures = @ \cup {Running(c)}]
  <1>1. call[c].pc \in ExtensionPc /\ FailureAction(c) \in Action
    BY ExtensionActions DEF RecordsFailure, ExtensionPc, FailureAction, FailureActions
  <1>2. /\ noted \in LocalType /\ noted.at = call[c].at /\ noted.decision = call[c].decision
        /\ Running(c) \in Extension
    BY <1>1, AtExtension, ExtensionEventFacts
  <1>3. Emits(c, e, NextExtension(before))
    BY DEF RecordsFailure
  <1> HIDE DEF noted
  <1>4. before \in LocalType /\ before.at = call[c].at /\ before.decision = call[c].decision
    BY <1>2 DEF LocalType
  <1> HIDE DEF before
  <1> QED BY <1>1, <1>3, <1>4, NextExtensionEmit

LEMMA RecordsResultStep ==
  ASSUME IInv, NEW c \in Call, RecordsResult(c)
  PROVE  IInv'
  <1> DEFINE e == ExtensionEvent(c, "extension_result_recorded", None)
             noted == WithEvent(call[c], e)
             result == [extension |-> Running(c), analysis |-> call[c].analysis, decision |-> call[c].verdict,
                        status |-> IF call[c].verdict = "DENY" THEN "policy_blocked" ELSE "completed"]
             before == [noted EXCEPT !.completed = @ \cup {result}]
  <1>1. call[c].pc \in ExtensionPc /\ call[c].pc \in AnalyzedPc /\ call[c].pc \in JudgedPc
        /\ "extension_result_recorded" \in Action
    BY ExtensionActions DEF RecordsResult, ExtensionPc, AnalyzedPc, JudgedPc
  <1>2. /\ noted \in LocalType /\ noted.at = call[c].at /\ noted.decision = call[c].decision
        /\ Running(c) \in Extension
    BY <1>1, AtExtension, ExtensionEventFacts
  <1>3. call[c].analysis \in Analysis /\ call[c].verdict \in Decision
    BY <1>1 DEF IInv, CallInv, Controlled
  <1>4. result \in [extension : Extension, analysis : Analysis, decision : Decision,
                    status : {"completed", "policy_blocked"}]
    BY <1>2, <1>3
  <1>5. Emits(c, e, NextExtension(before))
    BY DEF RecordsResult
  <1> HIDE DEF noted, result
  <1>6. before \in LocalType /\ before.at = call[c].at /\ before.decision = call[c].decision
    BY <1>2, <1>4 DEF LocalType
  <1> HIDE DEF before
  <1> QED BY <1>1, <1>5, <1>6, NextExtensionEmit

-----------------------------------------------------------------------------
(* runAgenticMission, after the extensions, and failures *)

\* A call after its extensions.
LEMMA LateFacts ==
  ASSUME IInv, NEW c \in Call, NEW action \in Action, action # "policy_decision_made"
  PROVE  LET e == Event(c, action, None, None) IN
         /\ call[c] \in LocalType
         /\ e \in EventType /\ e.call = c /\ e.extension = None /\ e # MissionEvent(c, 5, "DENY")
         /\ call[c].eventIds \cup {e} \subseteq EventType
  <1> DEFINE e == Event(c, action, None, None)
  <1>1. call[c] \in LocalType
    BY DEF IInv, TypeOK
  <1>2. e \in EventType /\ e.call = c /\ e.extension = None /\ e # MissionEvent(c, 5, "DENY")
    BY OtherEventFacts
  <1> HIDE DEF e
  <1>3. call[c].eventIds \cup {e} \subseteq EventType
    BY <1>1, <1>2 DEF LocalType
  <1> QED BY <1>1, <1>2, <1>3 DEF e

LEMMA CompletesModelStep ==
  ASSUME IInv, NEW c \in Call, CompletesModel(c)
  PROVE  IInv'
  <1> DEFINE e == Event(c, "model_intelligence_completed", None, None)
             ids == call[c].eventIds \cup {e}
             local == [call[c] EXCEPT !.pc = "auditing", !.eventIds = ids]
  <1>1. call[c].pc = "model" /\ Emits(c, e, local)
    BY DEF CompletesModel
  <1>2. /\ call[c] \in LocalType
        /\ e \in EventType /\ e.call = c /\ e.extension = None /\ e # MissionEvent(c, 5, "DENY")
        /\ ids \subseteq EventType
    BY LateFacts, ExtensionActions
  <1> HIDE DEF e, ids
  <1>3. local \in LocalType /\ local.pc = "auditing" /\ local.decision = call[c].decision
    BY ZenonT(60), <1>2 DEF LocalType, Pc
  <1> HIDE DEF local
  <1>4. call[c].decision \in Decision
    BY <1>1 DEF IInv, CallInv, Controlled, HasDecided, LaterPc
  <1>5. Controlled(local) /\ Evidenced(c, local, ledger')
    BY <1>3, <1>4 DEF Controlled, Evidenced, ExtensionPc, AnalyzedPc, JudgedPc
  <1>6. call[c].pc \in LaterPc
    BY <1>1 DEF LaterPc
  <1> QED BY <1>1, <1>2, <1>3, <1>5, <1>6, LateEmitStep

LEMMA AgenticReturnsStep ==
  ASSUME IInv, NEW c \in Call, AgenticReturns(c)
  PROVE  IInv'
  <1> DEFINE e == Event(c, "learning_memory_recorded", None, None)
             ids == call[c].eventIds \cup {e}
             local == [call[c] EXCEPT !.pc = "returned", !.eventIds = ids]
  <1>1. call[c].pc = "learned" /\ Emits(c, e, local)
    BY DEF AgenticReturns
  <1>2. /\ call[c] \in LocalType
        /\ e \in EventType /\ e.call = c /\ e.extension = None /\ e # MissionEvent(c, 5, "DENY")
        /\ ids \subseteq EventType
    BY LateFacts, ExtensionActions
  <1> HIDE DEF e, ids
  <1>3. local \in LocalType /\ local.pc = "returned" /\ local.decision = call[c].decision
    BY ZenonT(60), <1>2 DEF LocalType, Pc
  <1> HIDE DEF local
  <1>4. Controlled(local) /\ Evidenced(c, local, ledger')
    BY <1>3 DEF Controlled, Evidenced, HasDecided, ExtensionPc, AnalyzedPc, JudgedPc, LaterPc
  <1>5. call[c].pc \in LaterPc
    BY <1>1 DEF LaterPc
  <1> QED BY <1>1, <1>2, <1>3, <1>4, <1>5, LateEmitStep

LEMMA AuditsStep ==
  ASSUME IInv, NEW c \in Call, Audits(c)
  PROVE  IInv'
  <1> DEFINE local == [call[c] EXCEPT !.pc = "learned"]
  <1>1. /\ call[c].pc = "auditing" /\ call' = [call EXCEPT ![c] = local]
        /\ UNCHANGED <<ledger, missions, results, approvals, snapshots, claims, memory>>
        /\ audit' = audit \cup {c} /\ learning' = Learned(c)
    BY DEF Audits, stored, extensionRecords
  <1>2. call[c] \in LocalType /\ call[c].decision \in Decision /\ DenialInv(c) /\ HasDecided(call[c])
    BY <1>1 DEF IInv, TypeOK, CallInv, Controlled, HasDecided, LaterPc
  <1>3. local \in LocalType /\ local.pc = "learned" /\ local.decision = call[c].decision
    BY <1>2 DEF LocalType, Pc
  <1> HIDE DEF local
  <1>4. call'[c] = local
    BY <1>1 DEF IInv, TypeOK
  <1>5. /\ learning' \in {None} \cup [call : Call, eventIds : SUBSET EventType]
        /\ learning' = learning \/ (call[c].decision # "DENY" /\ learning'.call = c)
    BY <1>1, <1>2 DEF Learned, LocalType, IInv, TypeOK
  <1>6. StepOf(c, local)
    BY <1>1, <1>5 DEF StepOf
  <1>7. TypeOK'
    BY <1>1, <1>3, <1>5 DEF IInv, TypeOK
  <1>8. \A d \in Call : CallInv(d)'
    <2>1. Controlled(local) /\ Evidenced(c, local, ledger')
      BY <1>2, <1>3 DEF Controlled, Evidenced, ExtensionPc, AnalyzedPc, JudgedPc
    <2>2. DenialInv(c)'
      <3>1. ASSUME MissionEvent(c, 5, "DENY") \in ledger' PROVE Untouched(c)' /\ call[c].decision = "DENY"
        <4>1. Untouched(c) /\ call[c].decision = "DENY"
          BY <1>1, <1>2, <3>1 DEF DenialInv
        <4> QED BY <1>1, <1>5, <4>1 DEF Untouched
      <3> QED BY <1>3, <1>4, <3>1 DEF DenialInv, ExtensionPc
    <2>3. CallInv(c)'
      BY <1>4, <2>1, <2>2 DEF CallInv
    <2>4. \A d \in Call \ {c} : CallInv(d)'
      BY <1>6, OthersUndisturbed DEF IInv
    <2> QED BY <2>3, <2>4
  <1>9. ClaimsBacked' /\ StoredMissionBacked'
    BY <1>1 DEF IInv, ClaimsBacked, StoredMissionBacked
  <1> QED BY <1>7, <1>8, <1>9 DEF IInv

\* The event a failing call may have committed is one of its own, and its
\* last.
LEMMA PendingFacts ==
  ASSUME IInv, NEW c \in Call, NEW e \in Pending(c)
  PROVE  /\ e \in EventType /\ e.call = c
         /\ call[c].pc \notin ExtensionPc => e.extension = None
         /\ call[c].pc # "mission" => e # MissionEvent(c, 5, "DENY")
  <1> DEFINE pc == call[c].pc
  <1>1. call[c] \in LocalType /\ Controlled(call[c])
    BY DEF IInv, TypeOK, CallInv
  <1>2. CASE pc = "mission"
    <2>1. call[c].at \in 1..6
      BY <1>1, <1>2 DEF Controlled
    <2>2. PICK d \in Decision \cup {None} : e = MissionEvent(c, call[c].at, d)
      BY <1>2, PolicyType DEF Pending
    <2> QED BY <1>2, <2>1, <2>2, MissionEventFacts
  <1>3. CASE pc \in ExtensionPc
    <2>1. PICK action \in Action, d \in Decision \cup {None} : e = ExtensionEvent(c, action, d)
      <3>1. CASE pc = "analyzed"
        BY <3>1, VerdictIsStrictest, ExtensionActions DEF Pending
      <3>2. CASE pc # "analyzed"
        BY <1>3, <3>2, ExtensionActions DEF Pending, ExtensionPc, FailureAction, FailureActions
      <3> QED BY <3>1, <3>2
    <2> QED BY <1>3, <2>1, ExtensionEventFacts DEF ExtensionPc
  <1>4. CASE pc \notin {"mission"} \cup ExtensionPc
    <2>1. PICK action \in {"model_intelligence_completed", "learning_memory_recorded"} : e = Event(c, action, None, None)
      BY <1>4 DEF Pending, ExtensionPc
    <2> QED BY <1>4, <2>1, LateFacts, ExtensionActions
  <1> QED BY <1>2, <1>3, <1>4

LEMMA ThrowsStep ==
  ASSUME IInv, NEW c \in Call, Throws(c)
  PROVE  IInv'
  <1> DEFINE dead == [Fresh EXCEPT !.pc = "thrown"]
  <1>1. /\ dead \in LocalType /\ dead.pc = "thrown" /\ Controlled(dead) /\ Evidenced(c, dead, ledger')
        /\ ~HasDecided(dead)
    BY FreshFacts
  <1>2. call' = [call EXCEPT ![c] = dead] /\ UNCHANGED <<stored, extensionRecords, audit, learning>>
    BY DEF Throws, Dies
  <1> HIDE DEF dead
  <1>3. call'[c] = dead
    BY <1>2 DEF IInv, TypeOK
  <1>4. ledger' = ledger \/ \E e \in Pending(c) : ledger' = ledger \cup {e}
    BY DEF Throws
  <1>5. DenialInv(c) /\ call[c].pc # "idle"
    BY DEF IInv, CallInv, Throws
  <1>6. DenialInv(c)'
    <2>1. ASSUME MissionEvent(c, 5, "DENY") \in ledger' PROVE Untouched(c)'
      <3>1. call[c].pc \notin ExtensionPc /\ Untouched(c)
        BY <1>4, <1>5, <2>1, PendingFacts DEF DenialInv, ExtensionPc
      <3> QED BY <1>2, <1>4, <3>1, PendingFacts DEF Untouched, stored, extensionRecords
    <2> QED BY <1>1, <1>3, <2>1 DEF DenialInv, ExtensionPc
  <1>7. CASE ledger' = ledger
    BY <1>1, <1>2, <1>6, <1>7, LocalStep
  <1>8. CASE \E e \in Pending(c) : ledger' = ledger \cup {e}
    <2>1. PICK e \in Pending(c) : ledger' = ledger \cup {e}
      BY <1>8
    <2>2. e \in EventType /\ e.call = c
      BY PendingFacts
    <2>3. Emits(c, e, dead)
      BY <1>2, <2>1 DEF Emits
    <2> QED BY <1>1, <1>6, <2>2, <2>3, EmitStep
  <1> QED BY <1>4, <1>7, <1>8

-----------------------------------------------------------------------------
(* Theorems *)

LEMMA InitIInv == Init => IInv
  <1> SUFFICES ASSUME Init PROVE IInv
    OBVIOUS
  <1>1. Fresh \in LocalType /\ Fresh.pc = "idle" /\ Fresh.eventIds = {}
    BY DEF Fresh, LocalType, Pc
  <1>2. \A c \in Call : call[c] = Fresh
    BY DEF Init
  <1>3. ledger = {} /\ claims = {} /\ memory = {} /\ approvals = {} /\ learning = None /\ results = None
    BY DEF Init
  <1>4. TypeOK
    BY <1>1 DEF Init, TypeOK
  <1> HIDE DEF Fresh
  <1>5. \A c \in Call : CallInv(c)
    BY <1>1, <1>2, <1>3 DEF CallInv, Controlled, Evidenced, DenialInv, Untouched, HasDecided,
       ExtensionPc, AnalyzedPc, JudgedPc, LaterPc
  <1>6. ClaimsBacked /\ StoredMissionBacked
    BY <1>3 DEF ClaimsBacked, StoredMissionBacked
  <1> QED BY <1>4, <1>5, <1>6 DEF IInv

LEMMA CallNextStep ==
  ASSUME IInv, NEW c \in Call, CallNext(c)
  PROVE  IInv'
  <1>1. CASE Begins(c)
    BY <1>1, BeginsStep
  <1>2. CASE AppendsMissionEvent(c)
    BY <1>2, AppendsMissionEventStep
  <1>3. CASE MissionReturns(c)
    BY <1>3, MissionReturnsStep
  <1>4. CASE EntersExtensions(c)
    BY <1>4, EntersExtensionsStep
  <1>5. CASE Skips(c)
    BY <1>5, SkipsStep
  <1>6. CASE Requests(c)
    BY <1>6, RequestsStep
  <1>7. CASE AnalysisFails(c)
    BY <1>7, AnalysisFailsStep
  <1>8. CASE Analyzes(c)
    BY <1>8, AnalyzesStep
  <1>9. CASE Judges(c)
    BY <1>9, JudgesStep
  <1>10. CASE Persists(c) \/ PersistFails(c) \/ PersistsClaims(c) \/ ClaimsFail(c)
    BY <1>10, KeepingSteps
  <1>11. CASE RecordsFailure(c)
    BY <1>11, RecordsFailureStep
  <1>12. CASE RecordsResult(c)
    BY <1>12, RecordsResultStep
  <1>13. CASE CompletesModel(c)
    BY <1>13, CompletesModelStep
  <1>14. CASE Audits(c)
    BY <1>14, AuditsStep
  <1>15. CASE AgenticReturns(c)
    BY <1>15, AgenticReturnsStep
  <1>16. CASE Throws(c)
    BY <1>16, ThrowsStep
  <1>17. CASE SaveReplyLost(c)
    BY <1>17, SaveReplyLostStep
  <1> QED BY <1>1, <1>2, <1>3, <1>4, <1>5, <1>6, <1>7, <1>8, <1>9, <1>10, <1>11, <1>12, <1>13,
             <1>14, <1>15, <1>16, <1>17 DEF CallNext

LEMMA NextIInv == IInv /\ [Next]_vars => IInv'
  <1> SUFFICES ASSUME IInv, [Next]_vars PROVE IInv'
    OBVIOUS
  <1>1. CASE Next
    BY <1>1, CallNextStep DEF Next
  <1>2. CASE UNCHANGED vars
    <2>1. TypeOK'
      BY <1>2 DEF IInv, TypeOK, vars, stored, extensionRecords
    <2>2. \A c \in Call : CallInv(c)'
      BY <1>2 DEF IInv, CallInv, DenialInv, Untouched, vars, stored, extensionRecords
    <2>3. ClaimsBacked' /\ StoredMissionBacked'
      BY <1>2 DEF IInv, ClaimsBacked, StoredMissionBacked, vars, stored, extensionRecords
    <2> QED BY <2>1, <2>2, <2>3 DEF IInv
  <1> QED BY <1>1, <1>2

\* IInv holds in every reachable state.
THEOREM InductiveInvariant == Spec => []IInv
  BY InitIInv, NextIInv, PTL DEF Spec

\* Every variable keeps its type, whatever is called and fails.
THEOREM TypeCorrect == Spec => []TypeOK
  <1>1. IInv => TypeOK
    BY DEF IInv
  <1> QED BY <1>1, InductiveInvariant, PTL

\* Whichever calls with one mission id overlap or fail, the stored result,
\* status, evidence and pending approval are those of one call (saveMissionResult).
THEOREM StoredMissionsAreBacked == Spec => []StoredMissionBacked
  <1>1. IInv => StoredMissionBacked
    BY DEF IInv
  <1> QED BY <1>1, InductiveInvariant, PTL

\* No claim and no memory record is ever kept without its committed analysis,
\* nor against its committed verdict (runGovernedExtensions).
THEOREM ClaimsAreBacked == Spec => []ClaimsBacked
  <1>1. IInv => ClaimsBacked
    BY DEF IInv
  <1> QED BY <1>1, InductiveInvariant, PTL

\* A call whose denial is in the ledger leaves no extension event, no claim, no
\* approval and nothing learned, now or later (runGovernedExtensions,
\* learnFromMission).
THEOREM DenialsLeaveNothing == Spec => []DenialLeavesNothing
  <1>1. IInv => DenialLeavesNothing
    BY DEF IInv, CallInv, DenialInv, Untouched, DenialLeavesNothing
  <1> QED BY <1>1, InductiveInvariant, PTL

-----------------------------------------------------------------------------
(* What is kept, and what a response accounts for *)

EarlyPc == {"idle", "mission", "saving"}

\* The extensions before the n-th, and those after it.
Before(n) == {Registry[k] : k \in 1..(n - 1)}
After(n) == {Registry[k] : k \in (n + 1)..Len(Registry)}

\* A decision is as strict as the analysis and its actions ask for.
Strict(local, analysis, decision) ==
  LET governed == Append(local.readings, analysis.result) IN
  /\ NoLessRestrictive(decision, EvaluatePolicy(local.signal, governed))
  /\ \A a \in analysis.actions : NoLessRestrictive(decision, ActionDecision(local.signal, a, governed))

Kept(c, x, decision, claimed, remembered) ==
  /\ [call |-> c, extension |-> x, decision |-> decision] \in claimed
  /\ x \in Persisting => [call |-> c, extension |-> x] \in remembered

\* What ResultsGoverned says of one result.
ResultOK(c, local, r, claimed, remembered) ==
  /\ r.status = "completed" /\ r.analysis.claims => Kept(c, r.extension, r.decision, claimed, remembered)
  /\ r.status = "policy_blocked" => \A k \in claimed \cup remembered : ~(k.call = c /\ k.extension = r.extension)
  /\ Strict(local, r.analysis, r.decision)

\* A record is of an extension the call has dealt with, or of the one it is at
\* and whose verdict allows it.
InOrder(local, k) ==
  /\ local.pc \notin EarlyPc
  /\ local.pc \in ExtensionPc =>
       \/ k.extension \in Before(local.at)
       \/ k.extension = Registry[local.at] /\ local.pc \in JudgedPc /\ local.verdict # "DENY"

\* Which records the extension a call is at has left.
KeptSoFar(c, local, claimed, remembered) ==
  /\ local.pc = "claiming" /\ local.analysis.claims /\ Registry[local.at] \in Persisting =>
       [call |-> c, extension |-> Registry[local.at]] \in remembered
  /\ local.pc = "recording" /\ local.verdict # "DENY" /\ local.analysis.claims =>
       Kept(c, Registry[local.at], local.verdict, claimed, remembered)

KeptInv(c, local, claimed, remembered) ==
  /\ local.pc \in EarlyPc => local.completed = {}
  /\ local.pc \in ExtensionPc => \A r \in local.completed : r.extension \in Before(local.at)
  /\ local.pc \in JudgedPc => Strict(local, local.analysis, local.verdict)
  /\ KeptSoFar(c, local, claimed, remembered)
  /\ \A k \in claimed \cup remembered : k.call = c => InOrder(local, k)
  /\ \A r \in local.completed : ResultOK(c, local, r, claimed, remembered)

ActionsIn(c, x, events) == {e.action : e \in {e \in events : e.call = c /\ e.extension = x}}

Completes(local, x) == \E r \in local.completed : r.extension = x

\* What the locals of a call say of an extension, against its events: nothing
\* yet, nothing but requests and analyses yet, or all there is.
Unseen(local, x, actions) ==
  actions = {} /\ x \notin local.skipped \cup local.failures /\ ~Completes(local, x)

EndActions == FailureActions \cup {"extension_result_recorded"}

UnderWay(local, x, actions) ==
  /\ actions # {} /\ actions \cap EndActions = {}
  /\ x \notin local.skipped \cup local.failures /\ ~Completes(local, x)

Explained(local, x, actions) ==
  /\ x \in local.skipped <=> actions = {}
  /\ x \in local.failures <=> actions \cap FailureActions # {}
  /\ Completes(local, x) <=> "extension_result_recorded" \in actions
  /\ x \in local.failures => ~Completes(local, x) /\ x \notin local.skipped
  /\ x \in local.skipped \cup local.failures \/ Completes(local, x)

\* A call knows its events.
EventsKnown(c, local, events) ==
  /\ local.pc # "thrown" => {e \in events : e.call = c} = local.eventIds \cup local.extensionEventIds
  /\ local.pc \notin ExtensionPc => local.extensionEventIds \subseteq local.eventIds

\* It has explained the extensions it has dealt with.
OutcomeInv(c, local, events) ==
  /\ local.pc \in EarlyPc => \A x \in Extension : Unseen(local, x, ActionsIn(c, x, events))
  /\ local.pc \in ExtensionPc =>
       /\ \A x \in Before(local.at) : Explained(local, x, ActionsIn(c, x, events))
       /\ \A x \in After(local.at) : Unseen(local, x, ActionsIn(c, x, events))
       /\ LET x == Registry[local.at] IN
            IF local.pc = "extension" THEN Unseen(local, x, ActionsIn(c, x, events))
            ELSE UnderWay(local, x, ActionsIn(c, x, events))
  /\ local.pc \in LaterPc \cup {"returned"} => \A x \in Extension : Explained(local, x, ActionsIn(c, x, events))

ResponseInv(c, local, claimed, remembered, events) ==
  /\ KeptInv(c, local, claimed, remembered)
  /\ EventsKnown(c, local, events)
  /\ OutcomeInv(c, local, events)

Responses == \A c \in Call : ResponseInv(c, call[c], claims, memory, ledger)

-----------------------------------------------------------------------------
(* The order of the extensions *)

LEMMA RegistryOrder ==
  ASSUME NEW n \in 1..Len(Registry)
  PROVE  /\ Before(n) \subseteq Extension \ {Registry[n]} /\ After(n) \subseteq Extension \ {Registry[n]}
         /\ Before(n + 1) = Before(n) \cup {Registry[n]}
         /\ n # Len(Registry) => Registry[n + 1] \in After(n) /\ After(n + 1) \subseteq After(n)
         /\ n = Len(Registry) => Extension = Before(n) \cup {Registry[n]}
         /\ n = 1 => Before(n) = {}
  <1>1. /\ Len(Registry) \in Nat /\ DOMAIN Registry = 1..Len(Registry)
        /\ \A i, j \in 1..Len(Registry) : Registry[i] = Registry[j] => i = j
        /\ \A i \in 1..Len(Registry) : Registry[i] \in Extension
    BY GovernedMissionAssumption
  <1>2. Extension = {Registry[i] : i \in 1..Len(Registry)}
    BY <1>1 DEF Extension, ToSet
  <1>3. 1..(n - 1) \subseteq 1..Len(Registry) /\ n \notin 1..(n - 1) /\ n \notin (n + 1)..Len(Registry)
        /\ (n + 1)..Len(Registry) \subseteq 1..Len(Registry)
    BY <1>1
  <1>4. Before(n) \subseteq Extension \ {Registry[n]} /\ After(n) \subseteq Extension \ {Registry[n]}
    BY <1>1, <1>3 DEF Before, After
  <1>5. Before(n + 1) = Before(n) \cup {Registry[n]}
    <2>1. 1..(n + 1 - 1) = 1..(n - 1) \cup {n}
      BY <1>1
    <2> QED BY <2>1 DEF Before
  <1>6. ASSUME n # Len(Registry)
        PROVE  Registry[n + 1] \in After(n) /\ After(n + 1) \subseteq After(n)
    <2>1. PICK length \in Nat : length = Len(Registry)
      BY <1>1
    <2>2. n \in Nat /\ n + 1 <= length
      BY <1>6, <2>1
    <2>3. n + 1 \in (n + 1)..length /\ (n + 1 + 1)..length \subseteq (n + 1)..length
      BY <2>2
    <2> QED BY <2>1, <2>3 DEF After
  <1>7. n = Len(Registry) => Extension = Before(n) \cup {Registry[n]}
    <2>1. n = Len(Registry) => 1..Len(Registry) = 1..(n - 1) \cup {n}
      BY <1>1
    <2> QED BY <1>2, <2>1 DEF Before
  <1>8. n = 1 => Before(n) = {}
    BY DEF Before
  <1> QED BY <1>4, <1>5, <1>6, <1>7, <1>8

-----------------------------------------------------------------------------
(* What is kept, step by step *)

\* The records and events of other calls are no concern of a call.
LEMMA OthersRespond ==
  ASSUME NEW d, NEW local, NEW claimed, NEW remembered, NEW events,
         ResponseInv(d, local, claimed, remembered, events),
         NEW claimed2, NEW remembered2, NEW events2,
         claimed \subseteq claimed2, remembered \subseteq remembered2, events \subseteq events2,
         \A k \in claimed2 \cup remembered2 : k \in claimed \cup remembered \/ k.call # d,
         \A e \in events2 : e \in events \/ e.call # d
  PROVE  ResponseInv(d, local, claimed2, remembered2, events2)
  <1>1. KeptInv(d, local, claimed, remembered) /\ EventsKnown(d, local, events) /\ OutcomeInv(d, local, events)
    BY DEF ResponseInv
  <1>2. \A x, decision : Kept(d, x, decision, claimed, remembered) => Kept(d, x, decision, claimed2, remembered2)
    BY DEF Kept
  <1>3. KeptSoFar(d, local, claimed2, remembered2)
    BY <1>1, <1>2 DEF KeptInv, KeptSoFar
  <1>4. \A k \in claimed2 \cup remembered2 : k.call = d => InOrder(local, k)
    BY <1>1 DEF KeptInv
  <1>5. \A r \in local.completed : ResultOK(d, local, r, claimed2, remembered2)
    BY <1>1, <1>2 DEF KeptInv, ResultOK
  <1>6. KeptInv(d, local, claimed2, remembered2)
    BY <1>1, <1>3, <1>4, <1>5 DEF KeptInv
  <1>7. /\ {e \in events2 : e.call = d} = {e \in events : e.call = d}
        /\ \A x : ActionsIn(d, x, events2) = ActionsIn(d, x, events)
    BY DEF ActionsIn
  <1>8. EventsKnown(d, local, events2) /\ OutcomeInv(d, local, events2)
    BY <1>1, <1>7 DEF EventsKnown, OutcomeInv
  <1> QED BY <1>6, <1>8 DEF ResponseInv

\* Outside the extensions nothing is kept.
LEMMA KeptOutside ==
  ASSUME NEW c, NEW local, NEW next, NEW claimed, NEW remembered, KeptInv(c, local, claimed, remembered),
         next.pc \notin JudgedPc,
         \/ next.pc = "thrown" /\ next.completed = {}
         \/ local.pc \in EarlyPc /\ next.completed = {}
         \/ /\ local.pc \in LaterPc /\ next.pc \in LaterPc \cup {"returned"}
            /\ next.completed = local.completed /\ next.readings = local.readings /\ next.signal = local.signal
  PROVE  KeptInv(c, next, claimed, remembered)
  <1>1. KeptSoFar(c, next, claimed, remembered)
    BY DEF KeptSoFar, JudgedPc, AnalyzedPc, ExtensionPc
  <1>2. CASE next.pc = "thrown" /\ next.completed = {}
    BY <1>1, <1>2 DEF KeptInv, InOrder, EarlyPc, ExtensionPc
  <1>3. CASE local.pc \in EarlyPc /\ next.completed = {}
    BY <1>1, <1>3 DEF KeptInv, InOrder
  <1>4. CASE /\ local.pc \in LaterPc /\ next.pc \in LaterPc \cup {"returned"}
             /\ next.completed = local.completed /\ next.readings = local.readings /\ next.signal = local.signal
    <2>1. next.pc \notin EarlyPc \cup ExtensionPc
      BY <1>4 DEF LaterPc, EarlyPc, ExtensionPc
    <2>2. \A k : InOrder(next, k)
      BY <2>1 DEF InOrder
    <2>3. \A r \in next.completed : ResultOK(c, next, r, claimed, remembered)
      BY <1>4 DEF KeptInv, ResultOK, Strict
    <2> QED BY <1>1, <2>1, <2>2, <2>3 DEF KeptInv
  <1> QED BY <1>2, <1>3, <1>4

\* Within an extension, records are of that extension and only if its verdict
\* allows them.
LEMMA KeptWithin ==
  ASSUME NEW c, NEW local, NEW next, NEW claimed, NEW remembered, KeptInv(c, local, claimed, remembered),
         local.pc \in ExtensionPc, next.pc \in ExtensionPc, local.at \in 1..Len(Registry),
         next.at = local.at, next.completed = local.completed,
         next.readings = local.readings, next.signal = local.signal,
         local.pc \in JudgedPc => next.pc \in JudgedPc /\ next.verdict = local.verdict,
         next.pc \in JudgedPc => Strict(next, next.analysis, next.verdict),
         NEW claimed2, NEW remembered2, claimed \subseteq claimed2, remembered \subseteq remembered2,
         \A k \in claimed2 \cup remembered2 :
           \/ k \in claimed \cup remembered
           \/ k.extension = Registry[local.at] /\ next.pc \in JudgedPc /\ next.verdict # "DENY",
         KeptSoFar(c, next, claimed2, remembered2)
  PROVE  KeptInv(c, next, claimed2, remembered2)
  <1>1. next.pc \notin EarlyPc
    BY DEF EarlyPc, ExtensionPc
  <1>2. \A k \in claimed2 \cup remembered2 : k.call = c => InOrder(next, k)
    BY <1>1 DEF KeptInv, InOrder
  <1>3. \A r \in next.completed : ResultOK(c, next, r, claimed2, remembered2)
    <2> SUFFICES ASSUME NEW r \in local.completed PROVE ResultOK(c, next, r, claimed2, remembered2)
      OBVIOUS
    <2>1. ResultOK(c, local, r, claimed, remembered) /\ r.extension # Registry[local.at]
      BY RegistryOrder DEF KeptInv
    <2> QED BY <2>1 DEF ResultOK, Kept, Strict
  <1> QED BY <1>1, <1>2, <1>3 DEF KeptInv

\* The last extension is left: NextExtension of a local that differs in its
\* outcomes only.
LEMMA KeptForward ==
  ASSUME NEW c, NEW local, NEW next, NEW claimed, NEW remembered, KeptInv(c, local, claimed, remembered),
         local.pc \in ExtensionPc, local.at \in 1..Len(Registry),
         (next.pc = "extension" /\ next.at = local.at + 1) \/ next.pc = "model",
         next.readings = local.readings, next.signal = local.signal,
         \A r \in next.completed :
           \/ r \in local.completed
           \/ r.extension = Registry[local.at] /\ ResultOK(c, local, r, claimed, remembered)
  PROVE  KeptInv(c, next, claimed, remembered)
  <1>1. Before(local.at + 1) = Before(local.at) \cup {Registry[local.at]}
    BY RegistryOrder
  <1>2. next.pc \notin EarlyPc \cup JudgedPc /\ (next.pc \in ExtensionPc => next.at = local.at + 1)
    BY DEF EarlyPc, JudgedPc, AnalyzedPc, ExtensionPc
  <1>3. \A k \in claimed \cup remembered : k.call = c => InOrder(next, k)
    BY <1>1, <1>2 DEF KeptInv, InOrder
  <1>4. \A r \in next.completed : ResultOK(c, next, r, claimed, remembered)
    BY DEF KeptInv, ResultOK, Strict
  <1>5. KeptSoFar(c, next, claimed, remembered)
    BY <1>2 DEF KeptSoFar, JudgedPc, AnalyzedPc, ExtensionPc
  <1>6. next.pc \in ExtensionPc => \A r \in next.completed : r.extension \in Before(next.at)
    BY <1>1, <1>2 DEF KeptInv
  <1> QED BY <1>2, <1>3, <1>4, <1>5, <1>6 DEF KeptInv

-----------------------------------------------------------------------------
(* What has been explained, step by step *)

LEMMA ActionsElsewhere ==
  ASSUME NEW c, NEW x, NEW events, NEW events2, events \subseteq events2,
         \A e \in events2 : e \in events \/ e.extension # x
  PROVE  ActionsIn(c, x, events2) = ActionsIn(c, x, events)
  BY DEF ActionsIn

LEMMA ActionsHere ==
  ASSUME NEW c, NEW x, NEW events, NEW e, e.call = c, e.extension = x,
         NEW events2, events2 = events \cup {e}
  PROVE  ActionsIn(c, x, events2) = ActionsIn(c, x, events) \cup {e.action}
  BY DEF ActionsIn

\* Two locals that tell the same of x.
SameOutcome(local, next, x) ==
  /\ x \in next.skipped <=> x \in local.skipped
  /\ x \in next.failures <=> x \in local.failures
  /\ Completes(next, x) <=> Completes(local, x)

LEMMA OutcomeOfSame ==
  ASSUME NEW local, NEW next, NEW x, SameOutcome(local, next, x), NEW actions
  PROVE  /\ Unseen(local, x, actions) => Unseen(next, x, actions)
         /\ UnderWay(local, x, actions) => UnderWay(next, x, actions)
         /\ Explained(local, x, actions) => Explained(next, x, actions)
  BY DEF SameOutcome, Unseen, UnderWay, Explained

\* Outside the extensions, events are of no extension.
LEMMA OutcomesOutside ==
  ASSUME NEW c, NEW local, NEW next, NEW events, OutcomeInv(c, local, events),
         \/ local.pc \in EarlyPc /\ next.pc \in EarlyPc \cup {"mission_returned"}
         \/ local.pc \in LaterPc /\ next.pc \in LaterPc \cup {"returned"},
         \A x \in Extension : SameOutcome(local, next, x),
         NEW events2, events \subseteq events2, \A e \in events2 : e \in events \/ e.extension = None
  PROVE  OutcomeInv(c, next, events2)
  <1>1. \A x \in Extension : ActionsIn(c, x, events2) = ActionsIn(c, x, events)
    BY ActionsElsewhere, RegistryFacts
  <1>2. CASE local.pc \in EarlyPc /\ next.pc \in EarlyPc \cup {"mission_returned"}
    <2>1. next.pc \notin ExtensionPc \cup LaterPc \cup {"returned"}
      BY <1>2 DEF EarlyPc, ExtensionPc, LaterPc
    <2>2. \A x \in Extension : Unseen(next, x, ActionsIn(c, x, events2))
      BY <1>1, <1>2, OutcomeOfSame DEF OutcomeInv
    <2> QED BY <2>1, <2>2 DEF OutcomeInv
  <1>3. CASE local.pc \in LaterPc /\ next.pc \in LaterPc \cup {"returned"}
    <2>1. next.pc \notin EarlyPc \cup ExtensionPc
      BY <1>3 DEF EarlyPc, ExtensionPc, LaterPc
    <2>2. \A x \in Extension : Explained(next, x, ActionsIn(c, x, events2))
      BY <1>1, <1>3, OutcomeOfSame DEF OutcomeInv
    <2> QED BY <2>1, <2>2 DEF OutcomeInv
  <1> QED BY <1>2, <1>3

\* After a denial every extension is skipped; else the first is next.
LEMMA OutcomesEntered ==
  ASSUME NEW c, NEW local, NEW next, NEW events, OutcomeInv(c, local, events), local.pc = "saving",
         next.failures = local.failures, next.completed = local.completed,
         \/ next.pc = "model" /\ next.skipped = Extension
         \/ next.pc = "extension" /\ next.at = 1 /\ next.skipped = local.skipped
  PROVE  OutcomeInv(c, next, events)
  <1>1. \A x \in Extension : Unseen(local, x, ActionsIn(c, x, events))
    BY DEF OutcomeInv, EarlyPc
  <1>2. CASE next.pc = "model" /\ next.skipped = Extension
    <2>1. next.pc \notin EarlyPc \cup ExtensionPc
      BY <1>2 DEF EarlyPc, ExtensionPc
    <2>2. \A x \in Extension : Explained(next, x, ActionsIn(c, x, events))
      BY <1>1, <1>2 DEF Unseen, Explained, Completes
    <2> QED BY <2>1, <2>2 DEF OutcomeInv
  <1>3. CASE next.pc = "extension" /\ next.at = 1 /\ next.skipped = local.skipped
    <2>1. next.pc \notin EarlyPc \cup LaterPc \cup {"returned"}
      BY <1>3 DEF EarlyPc, LaterPc
    <2>2. Registry[1] \in Extension /\ Before(1) = {} /\ After(1) \subseteq Extension
      BY RegistryFacts, RegistryOrder
    <2>3. \A x \in Extension : Unseen(next, x, ActionsIn(c, x, events))
      BY <1>1, <1>3 DEF Unseen, Completes
    <2> QED BY <1>3, <2>1, <2>2, <2>3 DEF OutcomeInv
  <1> QED BY <1>2, <1>3

\* Requests, analyses and verdicts end nothing.
LEMMA OutcomesWithin ==
  ASSUME NEW c, NEW local, NEW next, NEW events, OutcomeInv(c, local, events),
         local.pc \in ExtensionPc, next.pc \in ExtensionPc \ {"extension"}, local.at \in 1..Len(Registry),
         next.at = local.at, \A x \in Extension : SameOutcome(local, next, x),
         NEW events2,
         \/ local.pc # "extension" /\ events2 = events
         \/ \E e : /\ events2 = events \cup {e} /\ e.call = c /\ e.extension = Registry[local.at]
                   /\ e.action \notin EndActions
  PROVE  OutcomeInv(c, next, events2)
  <1> DEFINE here == Registry[local.at]
  <1>1. /\ here \in Extension
        /\ Before(local.at) \subseteq Extension \ {here} /\ After(local.at) \subseteq Extension \ {here}
    BY RegistryFacts, RegistryOrder
  <1>2. \A x \in Extension \ {here} : ActionsIn(c, x, events2) = ActionsIn(c, x, events)
    BY ActionsElsewhere
  <1>3. UnderWay(next, here, ActionsIn(c, here, events2))
    <2>1. UnderWay(local, here, ActionsIn(c, here, events2))
      <3>1. CASE local.pc # "extension" /\ events2 = events
        BY <3>1 DEF OutcomeInv
      <3>2. CASE \E e : /\ events2 = events \cup {e} /\ e.call = c /\ e.extension = here
                        /\ e.action \notin EndActions
        <4>1. PICK e : /\ events2 = events \cup {e} /\ e.call = c /\ e.extension = here
                       /\ e.action \notin EndActions
          BY <3>2
        <4>2. ActionsIn(c, here, events2) = ActionsIn(c, here, events) \cup {e.action}
          BY <4>1 DEF ActionsIn
        <4>3. \/ Unseen(local, here, ActionsIn(c, here, events))
              \/ UnderWay(local, here, ActionsIn(c, here, events))
          BY DEF OutcomeInv
        <4> QED BY <4>1, <4>2, <4>3 DEF Unseen, UnderWay
      <3> QED BY <3>1, <3>2
    <2> QED BY <1>1, <2>1, OutcomeOfSame
  <1>4. /\ \A x \in Before(local.at) : Explained(next, x, ActionsIn(c, x, events2))
        /\ \A x \in After(local.at) : Unseen(next, x, ActionsIn(c, x, events2))
    BY <1>1, <1>2, OutcomeOfSame DEF OutcomeInv
  <1>5. next.pc \notin EarlyPc \cup LaterPc \cup {"returned"}
    BY DEF EarlyPc, LaterPc, ExtensionPc
  <1> HIDE DEF here
  <1> QED BY <1>3, <1>4, <1>5 DEF OutcomeInv, here

\* The extension a call leaves is explained.
LEMMA OutcomesForward ==
  ASSUME NEW c, NEW local, NEW next, NEW events, OutcomeInv(c, local, events),
         local.pc \in ExtensionPc, local.at \in 1..Len(Registry),
         \/ next.pc = "extension" /\ next.at = local.at + 1 /\ local.at # Len(Registry)
         \/ next.pc = "model" /\ local.at = Len(Registry),
         \A x \in Extension \ {Registry[local.at]} : SameOutcome(local, next, x),
         NEW events2, events \subseteq events2,
         \A e \in events2 : e \in events \/ e.extension = Registry[local.at],
         Explained(next, Registry[local.at], ActionsIn(c, Registry[local.at], events2))
  PROVE  OutcomeInv(c, next, events2)
  <1> DEFINE here == Registry[local.at]
  <1>1. /\ here \in Extension
        /\ Before(local.at) \subseteq Extension \ {here} /\ After(local.at) \subseteq Extension \ {here}
        /\ Before(local.at + 1) = Before(local.at) \cup {here}
    BY RegistryFacts, RegistryOrder
  <1>2. \A x \in Extension \ {here} : ActionsIn(c, x, events2) = ActionsIn(c, x, events)
    BY ActionsElsewhere
  <1>3. /\ \A x \in Before(local.at) : Explained(next, x, ActionsIn(c, x, events2))
        /\ \A x \in After(local.at) : Unseen(next, x, ActionsIn(c, x, events2))
    BY <1>1, <1>2, OutcomeOfSame DEF OutcomeInv
  <1>4. \A x \in Before(local.at + 1) : Explained(next, x, ActionsIn(c, x, events2))
    BY <1>1, <1>3
  <1>5. CASE next.pc = "extension" /\ next.at = local.at + 1 /\ local.at # Len(Registry)
    <2>1. Registry[next.at] \in After(local.at) /\ After(next.at) \subseteq After(local.at)
      BY <1>5, RegistryOrder
    <2>2. next.pc \notin EarlyPc \cup LaterPc \cup {"returned"}
      BY <1>5 DEF EarlyPc, LaterPc
    <2> QED BY <1>3, <1>4, <1>5, <2>1, <2>2 DEF OutcomeInv
  <1>6. CASE next.pc = "model" /\ local.at = Len(Registry)
    <2>1. Extension = Before(local.at + 1)
      BY <1>1, <1>6, RegistryOrder
    <2>2. next.pc \notin EarlyPc \cup ExtensionPc
      BY <1>6 DEF EarlyPc, ExtensionPc
    <2> QED BY <1>4, <2>1, <2>2 DEF OutcomeInv
  <1> QED BY <1>5, <1>6

LEMMA EventsKnownStep ==
  ASSUME NEW c, NEW local, NEW next, NEW events, EventsKnown(c, local, events), local.pc # "thrown",
         NEW new, \A e \in new : e.call = c,
         next.eventIds \cup next.extensionEventIds = local.eventIds \cup local.extensionEventIds \cup new,
         next.pc \notin ExtensionPc => next.extensionEventIds \subseteq next.eventIds
  PROVE  EventsKnown(c, next, events \cup new)
  BY DEF EventsKnown

-----------------------------------------------------------------------------
(* Steps of a call *)

LEMMA Responds ==
  ASSUME TypeOK, Responses, NEW c \in Call, NEW next, call' = [call EXCEPT ![c] = next],
         claims \subseteq claims', memory \subseteq memory', ledger \subseteq ledger',
         \A k \in claims' \cup memory' : k \in claims \cup memory \/ k.call = c,
         \A e \in ledger' : e \in ledger \/ e.call = c,
         ResponseInv(c, next, claims', memory', ledger')
  PROVE  Responses'
  <1>1. call'[c] = next /\ \A d \in Call \ {c} : call'[d] = call[d]
    BY DEF TypeOK
  <1>2. \A d \in Call \ {c} : ResponseInv(d, call[d], claims', memory', ledger')
    BY OthersRespond DEF Responses
  <1> QED BY <1>1, <1>2 DEF Responses

\* Steps that are not of the extensions.
LEMMA RespondsOutside ==
  ASSUME IInv, Responses, NEW c \in Call, NEW next, call' = [call EXCEPT ![c] = next],
         \/ call[c].pc \in EarlyPc /\ next.pc \in EarlyPc \cup {"mission_returned"}
         \/ call[c].pc \in LaterPc /\ next.pc \in LaterPc \cup {"returned"},
         next.skipped = call[c].skipped, next.failures = call[c].failures, next.completed = call[c].completed,
         (next.signal = call[c].signal /\ next.readings = call[c].readings) \/ call[c].pc \in EarlyPc,
         next.extensionEventIds = call[c].extensionEventIds,
         NEW new, \A e \in new : e.call = c /\ e.extension = None,
         ledger' = ledger \cup new, next.eventIds = call[c].eventIds \cup new,
         UNCHANGED <<claims, memory>>
  PROVE  Responses'
  <1>1. PICK local : local = call[c]
    OBVIOUS
  <1>2. ResponseInv(c, local, claims, memory, ledger)
    BY <1>1 DEF Responses
  <1>3. KeptInv(c, next, claims, memory)
    <2>1. next.pc \notin JudgedPc
      BY DEF EarlyPc, LaterPc, JudgedPc, AnalyzedPc, ExtensionPc
    <2>2. local.pc \in EarlyPc => next.completed = {}
      BY <1>1, <1>2 DEF ResponseInv, KeptInv
    <2>3. local.pc \in LaterPc => local.pc \notin EarlyPc
      BY DEF LaterPc, EarlyPc
    <2> QED BY <1>1, <1>2, <2>1, <2>2, <2>3, KeptOutside DEF ResponseInv
  <1>4. EventsKnown(c, next, ledger')
    <2>1. local.pc # "thrown" /\ local.pc \notin ExtensionPc
      BY <1>1 DEF EarlyPc, LaterPc, ExtensionPc
    <2>2. next.extensionEventIds \subseteq next.eventIds
      BY <1>1, <1>2, <2>1 DEF ResponseInv, EventsKnown
    <2>3. next.eventIds \cup next.extensionEventIds = local.eventIds \cup local.extensionEventIds \cup new
      BY <1>1
    <2> QED BY <1>2, <2>1, <2>2, <2>3, EventsKnownStep DEF ResponseInv
  <1>5. OutcomeInv(c, next, ledger')
    <2>1. \A x \in Extension : SameOutcome(local, next, x)
      BY <1>1 DEF SameOutcome, Completes
    <2> QED BY <1>1, <1>2, <2>1, OutcomesOutside DEF ResponseInv
  <1>6. ResponseInv(c, next, claims', memory', ledger')
    BY <1>3, <1>4, <1>5 DEF ResponseInv
  <1> QED BY <1>6, Responds DEF IInv

LEMMA BeginsResponds ==
  ASSUME IInv, Responses, NEW c \in Call, Begins(c)
  PROVE  Responses'
  <1>1. PICK signal \in Signal :
          call' = [call EXCEPT ![c].pc = "mission", ![c].at = 1, ![c].signal = signal]
    BY DEF Begins
  <1> DEFINE next == [call[c] EXCEPT !.pc = "mission", !.at = 1, !.signal = signal]
  <1>2. call[c] \in LocalType /\ call[c].pc = "idle" /\ call' = [call EXCEPT ![c] = next]
    BY <1>1 DEF IInv, TypeOK, Begins
  <1>3. /\ next.pc = "mission" /\ next.skipped = call[c].skipped /\ next.failures = call[c].failures
        /\ next.completed = call[c].completed /\ next.extensionEventIds = call[c].extensionEventIds
        /\ next.eventIds = call[c].eventIds
    BY <1>2 DEF LocalType
  <1> HIDE DEF next
  <1>4. UNCHANGED <<ledger, claims, memory>>
    BY DEF Begins, extensionRecords
  <1>5. call[c].pc \in EarlyPc /\ next.pc \in EarlyPc
    BY <1>2, <1>3 DEF EarlyPc
  <1>6. PICK new : new = {}
    OBVIOUS
  <1>7. ledger' = ledger \cup new /\ next.eventIds = call[c].eventIds \cup new
    BY <1>3, <1>4, <1>6
  <1> QED BY <1>2, <1>3, <1>4, <1>5, <1>6, <1>7, RespondsOutside

LEMMA AppendsMissionEventResponds ==
  ASSUME IInv, Responses, NEW c \in Call, AppendsMissionEvent(c)
  PROVE  Responses'
  <1> DEFINE k == call[c].at
             pc == IF k = Len(MissionEvents) THEN "saving" ELSE "mission"
  <1>1. PICK readings :
          LET d == IF k = 5 THEN EvaluatePolicy(call[c].signal, readings) ELSE call[c].decision
              e == MissionEvent(c, k, d)
          IN  Emits(c, e,
                [call[c] EXCEPT !.pc = pc, !.at = k + 1, !.readings = readings, !.decision = d,
                                !.eventIds = @ \cup {e}])
    BY DEF AppendsMissionEvent
  <1> DEFINE d == IF k = 5 THEN EvaluatePolicy(call[c].signal, readings) ELSE call[c].decision
             e == MissionEvent(c, k, d)
             next == [call[c] EXCEPT !.pc = pc, !.at = k + 1, !.readings = readings, !.decision = d,
                                     !.eventIds = @ \cup {e}]
  <1>2. call[c] \in LocalType /\ call[c].pc = "mission"
    BY DEF IInv, TypeOK, AppendsMissionEvent
  <1>3. e.call = c /\ e.extension = None
    BY DEF MissionEvent, Event
  <1>4. call' = [call EXCEPT ![c] = next] /\ ledger' = ledger \cup {e} /\ UNCHANGED <<claims, memory>>
    BY <1>1 DEF Emits, extensionRecords
  <1> HIDE DEF e
  <1>5. /\ next.pc = pc /\ next.skipped = call[c].skipped /\ next.failures = call[c].failures
        /\ next.completed = call[c].completed /\ next.extensionEventIds = call[c].extensionEventIds
        /\ next.eventIds = call[c].eventIds \cup {e}
    BY <1>2 DEF LocalType
  <1> HIDE DEF next
  <1>6. call[c].pc \in EarlyPc /\ next.pc \in EarlyPc
    BY <1>2, <1>5 DEF EarlyPc
  <1> QED BY <1>3, <1>4, <1>5, <1>6, RespondsOutside

LEMMA MissionReturnsResponds ==
  ASSUME IInv, Responses, NEW c \in Call, MissionReturns(c)
  PROVE  Responses'
  <1> DEFINE next == [call[c] EXCEPT !.pc = "mission_returned"]
  <1>1. call[c] \in LocalType /\ call[c].pc = "saving" /\ call' = [call EXCEPT ![c] = next]
    BY DEF IInv, TypeOK, MissionReturns
  <1>2. /\ next.pc = "mission_returned" /\ next.skipped = call[c].skipped /\ next.failures = call[c].failures
        /\ next.completed = call[c].completed /\ next.extensionEventIds = call[c].extensionEventIds
        /\ next.eventIds = call[c].eventIds
    BY <1>1 DEF LocalType
  <1> HIDE DEF next
  <1>3. UNCHANGED <<ledger, claims, memory>>
    BY DEF MissionReturns, extensionRecords
  <1>4. call[c].pc \in EarlyPc
    BY <1>1 DEF EarlyPc
  <1>5. PICK new : new = {}
    OBVIOUS
  <1>6. ledger' = ledger \cup new /\ next.eventIds = call[c].eventIds \cup new
    BY <1>2, <1>3, <1>5
  <1> QED BY <1>1, <1>2, <1>3, <1>4, <1>5, <1>6, RespondsOutside

LEMMA EntersExtensionsResponds ==
  ASSUME IInv, Responses, NEW c \in Call, EntersExtensions(c)
  PROVE  Responses'
  <1> DEFINE next == IF call[c].decision = "DENY"
                     THEN [call[c] EXCEPT !.pc = "model", !.skipped = Extension]
                     ELSE [call[c] EXCEPT !.pc = "extension", !.at = 1]
  <1>1. call[c] \in LocalType /\ call[c].pc = "saving" /\ call' = [call EXCEPT ![c] = next]
    BY DEF IInv, TypeOK, EntersExtensions
  <1>2. /\ next.failures = call[c].failures /\ next.completed = call[c].completed
        /\ next.extensionEventIds = call[c].extensionEventIds /\ next.eventIds = call[c].eventIds
        /\ \/ next.pc = "model" /\ next.skipped = Extension
           \/ next.pc = "extension" /\ next.at = 1 /\ next.skipped = call[c].skipped
    BY <1>1 DEF LocalType
  <1> HIDE DEF next
  <1>3. UNCHANGED <<ledger, claims, memory>>
    BY DEF EntersExtensions, extensionRecords
  <1>4. PICK local : local = call[c]
    OBVIOUS
  <1>5. ResponseInv(c, local, claims, memory, ledger)
    BY <1>4 DEF Responses
  <1>6. local.pc \in EarlyPc /\ next.pc \notin JudgedPc
    BY <1>1, <1>2, <1>4 DEF EarlyPc, JudgedPc, AnalyzedPc, ExtensionPc
  <1>7. KeptInv(c, next, claims, memory)
    <2>1. next.completed = {}
      BY <1>2, <1>4, <1>5, <1>6 DEF ResponseInv, KeptInv
    <2> QED BY <1>5, <1>6, <2>1, KeptOutside DEF ResponseInv
  <1>8. EventsKnown(c, next, ledger)
    <2>1. local.extensionEventIds \subseteq local.eventIds /\ local.pc # "thrown"
      BY <1>5, <1>6 DEF ResponseInv, EventsKnown, EarlyPc, ExtensionPc
    <2> QED BY <1>2, <1>4, <1>5, <2>1 DEF ResponseInv, EventsKnown
  <1>9. OutcomeInv(c, next, ledger)
    BY <1>1, <1>2, <1>4, <1>5, OutcomesEntered DEF ResponseInv
  <1>10. ResponseInv(c, next, claims', memory', ledger')
    BY <1>3, <1>7, <1>8, <1>9 DEF ResponseInv
  <1> QED BY <1>1, <1>3, <1>10, Responds DEF IInv

\* A call that dies has nothing to account for.
LEMMA DyingResponds ==
  ASSUME IInv, Responses, NEW c \in Call, Dies(c), UNCHANGED <<claims, memory>>,
         NEW new, \A e \in new : e.call = c, ledger' = ledger \cup new
  PROVE  Responses'
  <1> DEFINE next == [Fresh EXCEPT !.pc = "thrown"]
  <1>1. next.pc = "thrown" /\ next.completed = {} /\ next.extensionEventIds = {}
    BY DEF Fresh
  <1>2. call' = [call EXCEPT ![c] = next]
    BY DEF Dies
  <1> HIDE DEF next
  <1>3. next.pc \notin EarlyPc \cup ExtensionPc \cup JudgedPc \cup LaterPc \cup {"returned"}
    BY <1>1 DEF EarlyPc, ExtensionPc, JudgedPc, AnalyzedPc, LaterPc
  <1>4. PICK local : local = call[c]
    OBVIOUS
  <1>5. KeptInv(c, next, claims, memory)
    BY <1>1, <1>3, <1>4, KeptOutside DEF Responses, ResponseInv
  <1>6. EventsKnown(c, next, ledger') /\ OutcomeInv(c, next, ledger')
    BY <1>1, <1>3 DEF EventsKnown, OutcomeInv
  <1>7. ResponseInv(c, next, claims', memory', ledger')
    BY <1>5, <1>6 DEF ResponseInv
  <1> QED BY <1>2, <1>7, Responds DEF IInv

LEMMA ThrowsResponds ==
  ASSUME IInv, Responses, NEW c \in Call, Throws(c) \/ SaveReplyLost(c)
  PROVE  Responses'
  <1>1. Dies(c) /\ UNCHANGED <<claims, memory>>
    BY DEF Throws, SaveReplyLost, extensionRecords
  <1>2. \A e \in Pending(c) : e.call = c
    BY PendingFacts
  <1>3. CASE ledger' = ledger
    <2>1. PICK new : new = {}
      OBVIOUS
    <2>2. ledger' = ledger \cup new /\ \A e \in new : e.call = c
      BY <1>3, <2>1
    <2> QED BY <1>1, <2>2, DyingResponds
  <1>4. CASE ledger' # ledger
    <2>1. PICK e \in Pending(c) : ledger' = ledger \cup {e}
      BY <1>4 DEF Throws, SaveReplyLost
    <2>2. PICK new : new = {e}
      OBVIOUS
    <2>3. ledger' = ledger \cup new /\ \A f \in new : f.call = c
      BY <1>2, <2>1, <2>2
    <2> QED BY <1>1, <2>3, DyingResponds
  <1> QED BY <1>3, <1>4

\* A call within the extensions knows what it has explained.
LEMMA AtExtensionResponse ==
  ASSUME IInv, Responses, NEW c \in Call, call[c].pc \in ExtensionPc
  PROVE  /\ KeptInv(c, call[c], claims, memory) /\ EventsKnown(c, call[c], ledger) /\ OutcomeInv(c, call[c], ledger)
         /\ IF call[c].pc = "extension" THEN Unseen(call[c], Running(c), ActionsIn(c, Running(c), ledger))
            ELSE UnderWay(call[c], Running(c), ActionsIn(c, Running(c), ledger))
  BY DEF Responses, ResponseInv, OutcomeInv, Running

\* Requests, analyses and verdicts.
LEMMA RespondsWithin ==
  ASSUME IInv, Responses, NEW c \in Call, NEW next, call' = [call EXCEPT ![c] = next],
         call[c].pc \in ExtensionPc \ JudgedPc, next.pc \in ExtensionPc \ {"extension"},
         \A f \in {"at", "skipped", "failures", "completed", "signal", "readings", "eventIds"} : next[f] = call[c][f],
         next.pc \in JudgedPc => Strict(next, next.analysis, next.verdict),
         KeptSoFar(c, next, claims, memory),
         NEW e, e.call = c, e.extension = Running(c), e.action \notin EndActions,
         ledger' = ledger \cup {e}, next.extensionEventIds = call[c].extensionEventIds \cup {e},
         UNCHANGED <<claims, memory>>
  PROVE  Responses'
  <1>1. PICK local : local = call[c]
    OBVIOUS
  <1>2. /\ local.pc \in ExtensionPc \ JudgedPc /\ local.at \in 1..Len(Registry) /\ e.extension = Registry[local.at]
        /\ next.at = local.at /\ next.skipped = local.skipped /\ next.failures = local.failures
        /\ next.completed = local.completed /\ next.signal = local.signal /\ next.readings = local.readings
        /\ next.eventIds = local.eventIds /\ next.extensionEventIds = local.extensionEventIds \cup {e}
    BY <1>1, AtExtension DEF Running
  <1>3. KeptInv(c, local, claims, memory) /\ EventsKnown(c, local, ledger) /\ OutcomeInv(c, local, ledger)
    BY <1>1, AtExtensionResponse
  <1>4. KeptInv(c, next, claims, memory)
    BY <1>2, <1>3, KeptWithin
  <1>5. EventsKnown(c, next, ledger')
    BY <1>2, <1>3 DEF EventsKnown, ExtensionPc
  <1>6. OutcomeInv(c, next, ledger')
    <2>1. \A x \in Extension : SameOutcome(local, next, x)
      BY <1>2 DEF SameOutcome, Completes
    <2> QED BY <1>2, <1>3, <2>1, OutcomesWithin
  <1>7. ResponseInv(c, next, claims', memory', ledger')
    BY <1>4, <1>5, <1>6 DEF ResponseInv
  <1> QED BY <1>7, Responds DEF IInv

LEMMA WithEventFacts ==
  ASSUME IInv, NEW c \in Call, NEW e
  PROVE  LET noted == WithEvent(call[c], e) IN
         /\ DOMAIN noted = DOMAIN Fresh
         /\ \A f \in DOMAIN Fresh \ {"extensionEventIds"} : noted[f] = call[c][f]
         /\ noted.extensionEventIds = call[c].extensionEventIds \cup {e}
  <1>1. call[c] \in LocalType
    BY DEF IInv, TypeOK
  <1> QED BY <1>1 DEF WithEvent, LocalType, Fresh

LEMMA RequestsResponds ==
  ASSUME IInv, Responses, NEW c \in Call, Requests(c)
  PROVE  Responses'
  <1> DEFINE e == ExtensionEvent(c, "extension_requested", None)
             noted == WithEvent(call[c], e)
             next == [noted EXCEPT !.pc = "requested"]
  <1>1. e.call = c /\ e.extension = Running(c) /\ e.action \notin EndActions
    BY DEF ExtensionEvent, Event, EndActions, FailureActions
  <1>2. call[c].pc = "extension" /\ Emits(c, e, next)
    BY DEF Requests
  <1> HIDE DEF e
  <1>3. /\ next.pc = "requested" /\ next.extensionEventIds = call[c].extensionEventIds \cup {e}
        /\ \A f \in {"at", "skipped", "failures", "completed", "signal", "readings", "eventIds"} : next[f] = call[c][f]
    <2>1. /\ DOMAIN noted = DOMAIN Fresh /\ noted.extensionEventIds = call[c].extensionEventIds \cup {e}
          /\ \A f \in DOMAIN Fresh \ {"extensionEventIds"} : noted[f] = call[c][f]
      BY WithEventFacts
    <2> HIDE DEF noted
    <2> QED BY <2>1 DEF Fresh
  <1> HIDE DEF next
  <1>4. /\ call' = [call EXCEPT ![c] = next] /\ ledger' = ledger \cup {e} /\ UNCHANGED <<claims, memory>>
    BY <1>2 DEF Emits, extensionRecords
  <1>5. /\ call[c].pc \in ExtensionPc \ JudgedPc /\ next.pc \in ExtensionPc \ {"extension"}
        /\ next.pc \in JudgedPc => Strict(next, next.analysis, next.verdict)
        /\ KeptSoFar(c, next, claims, memory)
    BY <1>2, <1>3 DEF ExtensionPc, JudgedPc, AnalyzedPc, KeptSoFar
  <1> QED BY <1>1, <1>3, <1>4, <1>5, RespondsWithin

LEMMA AnalyzesResponds ==
  ASSUME IInv, Responses, NEW c \in Call, Analyzes(c)
  PROVE  Responses'
  <1> DEFINE e == ExtensionEvent(c, "extension_analysis_completed", None)
             noted == WithEvent(call[c], e)
  <1>1. e.call = c /\ e.extension = Running(c) /\ e.action \notin EndActions
    BY DEF ExtensionEvent, Event, EndActions, FailureActions
  <1>2. PICK analysis \in Analysis : Emits(c, e, [noted EXCEPT !.pc = "analyzed", !.analysis = analysis])
    BY DEF Analyzes
  <1> DEFINE next == [noted EXCEPT !.pc = "analyzed", !.analysis = analysis]
  <1> HIDE DEF e
  <1>3. /\ next.pc = "analyzed" /\ next.extensionEventIds = call[c].extensionEventIds \cup {e}
        /\ \A f \in {"at", "skipped", "failures", "completed", "signal", "readings", "eventIds"} : next[f] = call[c][f]
    <2>1. /\ DOMAIN noted = DOMAIN Fresh /\ noted.extensionEventIds = call[c].extensionEventIds \cup {e}
          /\ \A f \in DOMAIN Fresh \ {"extensionEventIds"} : noted[f] = call[c][f]
      BY WithEventFacts
    <2> HIDE DEF noted
    <2> QED BY <2>1 DEF Fresh
  <1>4. /\ call' = [call EXCEPT ![c] = next] /\ ledger' = ledger \cup {e} /\ UNCHANGED <<claims, memory>>
    BY <1>2 DEF Emits, extensionRecords
  <1> HIDE DEF next
  <1>5. /\ call[c].pc \in ExtensionPc \ JudgedPc /\ next.pc \in ExtensionPc \ {"extension"}
        /\ next.pc \in JudgedPc => Strict(next, next.analysis, next.verdict)
        /\ KeptSoFar(c, next, claims, memory)
    BY <1>3 DEF Analyzes, ExtensionPc, JudgedPc, AnalyzedPc, KeptSoFar
  <1> QED BY <1>1, <1>3, <1>4, <1>5, RespondsWithin

LEMMA JudgesResponds ==
  ASSUME IInv, Responses, NEW c \in Call, Judges(c)
  PROVE  Responses'
  <1> DEFINE verdict == EvaluateExtensionPolicy(call[c].signal, call[c].analysis, call[c].readings)
             e == ExtensionEvent(c, "extension_policy_evaluated", verdict)
             noted == WithEvent(call[c], e)
             next == [noted EXCEPT !.pc = AfterVerdict(c, verdict), !.verdict = verdict]
  <1>1. Strict(call[c], call[c].analysis, verdict)
    BY VerdictIsStrictest DEF Strict
  <1>2. call[c].pc = "analyzed" /\ Emits(c, e, next)
    BY DEF Judges
  <1> HIDE DEF verdict
  <1>3. e.call = c /\ e.extension = Running(c) /\ e.action \notin EndActions
    BY DEF ExtensionEvent, Event, EndActions, FailureActions
  <1> HIDE DEF e
  <1>4. /\ next.pc = AfterVerdict(c, verdict) /\ next.verdict = verdict /\ next.analysis = call[c].analysis
        /\ next.extensionEventIds = call[c].extensionEventIds \cup {e}
        /\ \A f \in {"at", "skipped", "failures", "completed", "signal", "readings", "eventIds"} : next[f] = call[c][f]
    <2>1. /\ DOMAIN noted = DOMAIN Fresh /\ noted.extensionEventIds = call[c].extensionEventIds \cup {e}
          /\ \A f \in DOMAIN Fresh \ {"extensionEventIds"} : noted[f] = call[c][f]
      BY WithEventFacts
    <2> HIDE DEF noted
    <2> QED BY <2>1 DEF Fresh
  <1>5. /\ call' = [call EXCEPT ![c] = next] /\ ledger' = ledger \cup {e} /\ UNCHANGED <<claims, memory>>
    BY <1>2 DEF Emits, extensionRecords
  <1> HIDE DEF next
  <1>6. /\ next.pc \in {"recording", "persisting", "claiming"}
        /\ next.pc = "recording" => next.verdict = "DENY"
        /\ next.pc = "claiming" => Registry[next.at] \notin Persisting
    BY <1>4 DEF AfterVerdict, Running
  <1>7. /\ call[c].pc \in ExtensionPc \ JudgedPc /\ next.pc \in ExtensionPc \ {"extension"}
        /\ KeptSoFar(c, next, claims, memory)
    BY <1>2, <1>6 DEF ExtensionPc, JudgedPc, AnalyzedPc, KeptSoFar
  <1>8. Strict(next, next.analysis, next.verdict)
    BY <1>1, <1>4 DEF Strict
  <1> QED BY <1>3, <1>4, <1>5, <1>7, <1>8, RespondsWithin

\* What the verdict allows is kept, or not.
LEMMA RespondsKeeping ==
  ASSUME IInv, Responses, NEW c \in Call, call[c].pc \in {"persisting", "claiming"},
         NEW pc \in {"claiming", "recording", "persistence_failed", "claims_failed"},
         call' = [call EXCEPT ![c].pc = pc],
         claims' \in {claims, claims \cup ClaimRecordsOf(c)},
         memory' \in {memory, memory \cup ClaimsOf(c)},
         pc = "claiming" => call[c].pc = "persisting" /\ memory' = memory \cup ClaimsOf(c),
         pc = "recording" => call[c].pc = "claiming" /\ claims' = claims \cup ClaimRecordsOf(c),
         UNCHANGED ledger
  PROVE  Responses'
  <1> DEFINE next == [call[c] EXCEPT !.pc = pc]
             here == Running(c)
  <1>1. /\ call[c] \in LocalType /\ call' = [call EXCEPT ![c] = next]
        /\ call[c].pc \in ExtensionPc \ {"extension"} /\ call[c].pc \in JudgedPc
        /\ pc \in ExtensionPc \ {"extension"} /\ pc \in JudgedPc
    BY DEF IInv, TypeOK, ExtensionPc, AnalyzedPc, JudgedPc
  <1>2. call[c].at \in 1..Len(Registry) /\ call[c].verdict # "DENY"
    BY <1>1, AtExtension DEF IInv, CallInv, Evidenced
  <1>3. next.pc = pc /\ \A f \in DOMAIN Fresh \ {"pc"} : next[f] = call[c][f]
    BY <1>1 DEF LocalType, Fresh
  <1> HIDE DEF next
  <1>4. PICK local : local = call[c]
    OBVIOUS
  <1>5. /\ next.at = local.at /\ next.skipped = local.skipped /\ next.failures = local.failures
        /\ next.completed = local.completed /\ next.signal = local.signal /\ next.readings = local.readings
        /\ next.eventIds = local.eventIds /\ next.extensionEventIds = local.extensionEventIds
        /\ next.verdict = local.verdict /\ next.analysis = local.analysis
    BY <1>3, <1>4 DEF Fresh
  <1>6. KeptInv(c, local, claims, memory) /\ EventsKnown(c, local, ledger) /\ OutcomeInv(c, local, ledger)
    BY <1>1, <1>4, AtExtensionResponse
  <1>7. /\ \A k \in claims' : k \in claims \/ (k.call = c /\ k.extension = here)
        /\ \A k \in memory' : k \in memory \/ (k.call = c /\ k.extension = here)
        /\ claims \subseteq claims' /\ memory \subseteq memory'
    BY DEF ClaimRecordsOf, ClaimsOf, ClaimRecordOf, RecordOf
  <1>8. KeptSoFar(c, next, claims', memory')
    <2>1. ASSUME next.pc = "claiming", next.analysis.claims PROVE [call |-> c, extension |-> here] \in memory'
      BY <1>3, <1>4, <1>5, <2>1 DEF ClaimsOf, RecordOf
    <2>2. ASSUME next.pc = "recording", next.analysis.claims
          PROVE  Kept(c, here, next.verdict, claims', memory')
      <3>1. [call |-> c, extension |-> here, decision |-> next.verdict] \in claims'
        BY <1>3, <1>4, <1>5, <2>2 DEF ClaimRecordsOf, ClaimRecordOf
      <3>2. here \in Persisting => [call |-> c, extension |-> here] \in memory
        BY <1>3, <1>4, <1>5, <1>6, <2>2 DEF KeptInv, KeptSoFar, Running
      <3> QED BY <1>7, <3>1, <3>2 DEF Kept
    <2>3. here = Registry[next.at]
      BY <1>4, <1>5 DEF Running
    <2> HIDE DEF here
    <2> QED BY <2>1, <2>2, <2>3 DEF KeptSoFar
  <1>9. KeptInv(c, next, claims', memory')
    <2>1. Strict(next, next.analysis, next.verdict)
      BY <1>1, <1>4, <1>5, <1>6 DEF KeptInv, Strict
    <2>2. here = Registry[local.at]
      BY <1>4 DEF Running
    <2> HIDE DEF here
    <2> QED BY <1>1, <1>2, <1>3, <1>4, <1>5, <1>6, <1>7, <1>8, <2>1, <2>2, KeptWithin
  <1>10. EventsKnown(c, next, ledger) /\ OutcomeInv(c, next, ledger)
    <2>1. \A x \in Extension : SameOutcome(local, next, x)
      BY <1>5 DEF SameOutcome, Completes
    <2>2. OutcomeInv(c, next, ledger)
      BY <1>1, <1>2, <1>3, <1>4, <1>5, <1>6, <2>1, OutcomesWithin
    <2>3. local.pc # "thrown"
      BY <1>1, <1>4 DEF ExtensionPc
    <2> QED BY <1>1, <1>3, <1>5, <1>6, <2>2, <2>3 DEF EventsKnown
  <1>11. ResponseInv(c, next, claims', memory', ledger')
    BY <1>9, <1>10 DEF ResponseInv
  <1> QED BY <1>1, <1>7, <1>11, Responds DEF IInv

LEMMA KeepingResponds ==
  ASSUME IInv, Responses, NEW c \in Call, Persists(c) \/ PersistFails(c) \/ PersistsClaims(c) \/ ClaimsFail(c)
  PROVE  Responses'
  <1>1. CASE Persists(c)
    BY <1>1, RespondsKeeping DEF Persists
  <1>2. CASE PersistFails(c)
    BY <1>2, RespondsKeeping DEF PersistFails
  <1>3. CASE PersistsClaims(c)
    BY <1>3, RespondsKeeping DEF PersistsClaims
  <1>4. CASE ClaimsFail(c)
    BY <1>4, RespondsKeeping DEF ClaimsFail
  <1> QED BY <1>1, <1>2, <1>3, <1>4

\* NextExtension keeps what a response is made of.
LEMMA NextExtensionKeeps ==
  ASSUME NEW before, DOMAIN before = DOMAIN Fresh
  PROVE  LET next == NextExtension(before) IN
         /\ \A f \in {"skipped", "failures", "completed", "signal", "readings"} : next[f] = before[f]
         /\ next.eventIds \cup next.extensionEventIds = before.eventIds \cup before.extensionEventIds
         /\ \/ next.pc = "extension" /\ next.at = before.at + 1 /\ before.at # Len(Registry)
            \/ next.pc = "model" /\ before.at = Len(Registry) /\ next.extensionEventIds \subseteq next.eventIds
  <1>1. CASE before.at = Len(Registry)
    BY <1>1 DEF NextExtension, Fresh
  <1>2. CASE before.at # Len(Registry)
    BY <1>2 DEF NextExtension, Fresh
  <1> QED BY <1>1, <1>2

\* An extension is left with an outcome its events explain.
LEMMA RespondsForward ==
  ASSUME IInv, Responses, NEW c \in Call, call[c].pc \in ExtensionPc,
         NEW before, DOMAIN before = DOMAIN Fresh, call' = [call EXCEPT ![c] = NextExtension(before)],
         \A f \in {"at", "signal", "readings", "eventIds"} : before[f] = call[c][f],
         \A x \in Extension \ {Running(c)} : SameOutcome(call[c], before, x),
         NEW new, \A e \in new : e.call = c /\ e.extension = Running(c),
         ledger' = ledger \cup new, before.extensionEventIds = call[c].extensionEventIds \cup new,
         Explained(before, Running(c), ActionsIn(c, Running(c), ledger')),
         \A r \in before.completed :
           \/ r \in call[c].completed
           \/ r.extension = Running(c) /\ ResultOK(c, call[c], r, claims, memory),
         UNCHANGED <<claims, memory>>
  PROVE  Responses'
  <1> DEFINE next == NextExtension(before)
  <1>1. PICK local : local = call[c]
    OBVIOUS
  <1>2. local.at \in 1..Len(Registry) /\ Running(c) = Registry[local.at]
    BY <1>1, AtExtension DEF Running
  <1>3. KeptInv(c, local, claims, memory) /\ EventsKnown(c, local, ledger) /\ OutcomeInv(c, local, ledger)
    BY <1>1, AtExtensionResponse
  <1>4. /\ next.skipped = before.skipped /\ next.failures = before.failures /\ next.completed = before.completed
        /\ next.signal = local.signal /\ next.readings = local.readings
        /\ next.eventIds \cup next.extensionEventIds = local.eventIds \cup local.extensionEventIds \cup new
        /\ \/ next.pc = "extension" /\ next.at = local.at + 1 /\ local.at # Len(Registry)
           \/ next.pc = "model" /\ local.at = Len(Registry) /\ next.extensionEventIds \subseteq next.eventIds
    BY <1>1, NextExtensionKeeps
  <1>5. call' = [call EXCEPT ![c] = next]
    OBVIOUS
  <1> HIDE DEF next
  <1>6. KeptInv(c, next, claims, memory)
    <2>1. \A r \in next.completed :
            \/ r \in local.completed
            \/ r.extension = Registry[local.at] /\ ResultOK(c, local, r, claims, memory)
      BY <1>1, <1>2, <1>4
    <2> QED BY <1>1, <1>2, <1>3, <1>4, <2>1, KeptForward
  <1>7. EventsKnown(c, next, ledger')
    <2>1. local.pc # "thrown" /\ (next.pc \notin ExtensionPc => next.extensionEventIds \subseteq next.eventIds)
      BY <1>1, <1>4 DEF ExtensionPc
    <2> QED BY <1>3, <1>4, <2>1, EventsKnownStep
  <1>8. OutcomeInv(c, next, ledger')
    <2>1. \A x \in Extension \ {Registry[local.at]} : SameOutcome(local, next, x)
      BY <1>1, <1>2, <1>4 DEF SameOutcome, Completes
    <2>2. Explained(next, Registry[local.at], ActionsIn(c, Registry[local.at], ledger'))
      BY <1>2, <1>4 DEF Explained, Completes
    <2> QED BY <1>1, <1>2, <1>3, <1>4, <2>1, <2>2, OutcomesForward
  <1>9. ResponseInv(c, next, claims', memory', ledger')
    BY <1>6, <1>7, <1>8 DEF ResponseInv
  <1> QED BY <1>5, <1>9, Responds DEF IInv

LEMMA SkipsResponds ==
  ASSUME IInv, Responses, NEW c \in Call, Skips(c)
  PROVE  Responses'
  <1> DEFINE before == [call[c] EXCEPT !.skipped = @ \cup {Running(c)}]
  <1>1. call[c] \in LocalType /\ call[c].pc = "extension" /\ call[c].pc \in ExtensionPc
    BY DEF IInv, TypeOK, Skips, ExtensionPc
  <1>2. /\ call' = [call EXCEPT ![c] = NextExtension(before)]
        /\ UNCHANGED <<ledger, claims, memory>>
    BY DEF Skips, extensionRecords
  <1>3. /\ DOMAIN before = DOMAIN Fresh /\ before.skipped = call[c].skipped \cup {Running(c)}
        /\ \A f \in DOMAIN Fresh \ {"skipped"} : before[f] = call[c][f]
    BY <1>1 DEF LocalType, Fresh
  <1> HIDE DEF before
  <1>4. /\ before.failures = call[c].failures /\ before.completed = call[c].completed
        /\ before.extensionEventIds = call[c].extensionEventIds
        /\ \A f \in {"at", "signal", "readings", "eventIds"} : before[f] = call[c][f]
    BY <1>3 DEF Fresh
  <1>5. \A x \in Extension \ {Running(c)} : SameOutcome(call[c], before, x)
    BY <1>3, <1>4 DEF SameOutcome, Completes
  <1>6. Explained(before, Running(c), ActionsIn(c, Running(c), ledger))
    <2>1. Unseen(call[c], Running(c), ActionsIn(c, Running(c), ledger))
      BY <1>1, AtExtensionResponse
    <2> QED BY <1>3, <1>4, <2>1 DEF Unseen, Explained, Completes
  <1>7. PICK new : new = {}
    OBVIOUS
  <1>8. ledger' = ledger \cup new /\ before.extensionEventIds = call[c].extensionEventIds \cup new
        /\ Explained(before, Running(c), ActionsIn(c, Running(c), ledger'))
    BY <1>2, <1>4, <1>6, <1>7
  <1>9. /\ \A e \in new : e.call = c /\ e.extension = Running(c)
        /\ \A r \in before.completed : r \in call[c].completed
    BY <1>4, <1>7
  <1>10. UNCHANGED <<claims, memory>> /\ DOMAIN before = DOMAIN Fresh
    BY <1>2, <1>3
  <1> QED BY <1>1, <1>2, <1>4, <1>5, <1>8, <1>9, <1>10, RespondsForward

\* The extension a call is at fails.
LEMMA FailureResponds ==
  ASSUME IInv, Responses, NEW c \in Call, call[c].pc \in ExtensionPc \ {"extension"},
         NEW action \in FailureActions, NEW e, e = ExtensionEvent(c, action, None),
         Emits(c, e, NextExtension([WithEvent(call[c], e) EXCEPT !.failures = @ \cup {Running(c)}]))
  PROVE  Responses'
  <1> DEFINE here == Running(c)
             noted == WithEvent(call[c], e)
             before == [noted EXCEPT !.failures = @ \cup {here}]
  <1>1. e.call = c /\ e.extension = here /\ e.action = action
    BY DEF ExtensionEvent, Event
  <1>2. /\ call' = [call EXCEPT ![c] = NextExtension(before)] /\ ledger' = ledger \cup {e}
        /\ UNCHANGED <<claims, memory>>
    BY DEF Emits, extensionRecords
  <1>3. /\ DOMAIN before = DOMAIN Fresh /\ before.failures = call[c].failures \cup {here}
        /\ before.extensionEventIds = call[c].extensionEventIds \cup {e}
        /\ before.skipped = call[c].skipped /\ before.completed = call[c].completed
        /\ \A f \in {"at", "signal", "readings", "eventIds"} : before[f] = call[c][f]
    <2>1. /\ DOMAIN noted = DOMAIN Fresh /\ noted.extensionEventIds = call[c].extensionEventIds \cup {e}
          /\ \A f \in DOMAIN Fresh \ {"extensionEventIds"} : noted[f] = call[c][f]
      BY WithEventFacts
    <2> HIDE DEF noted
    <2> QED BY <2>1 DEF Fresh
  <1> HIDE DEF before
  <1>4. \A x \in Extension \ {here} : SameOutcome(call[c], before, x)
    BY <1>3 DEF SameOutcome, Completes
  <1>5. Explained(before, here, ActionsIn(c, here, ledger'))
    <2>1. UnderWay(call[c], here, ActionsIn(c, here, ledger))
      BY AtExtensionResponse
    <2>2. ActionsIn(c, here, ledger') = ActionsIn(c, here, ledger) \cup {action}
      BY <1>1, <1>2 DEF ActionsIn
    <2>3. action \in FailureActions /\ action # "extension_result_recorded"
      BY DEF FailureActions
    <2> HIDE DEF here
    <2> QED BY <1>3, <2>1, <2>2, <2>3 DEF UnderWay, Explained, Completes, EndActions
  <1>6. PICK new : new = {e}
    OBVIOUS
  <1>7. /\ \A f \in new : f.call = c /\ f.extension = here
        /\ ledger' = ledger \cup new /\ before.extensionEventIds = call[c].extensionEventIds \cup new
    BY <1>1, <1>2, <1>3, <1>6
  <1>8. call[c].pc \in ExtensionPc /\ \A r \in before.completed : r \in call[c].completed
    BY <1>3
  <1> QED BY <1>2, <1>3, <1>4, <1>5, <1>7, <1>8, RespondsForward

LEMMA AnalysisFailsResponds ==
  ASSUME IInv, Responses, NEW c \in Call, AnalysisFails(c)
  PROVE  Responses'
  <1>1. call[c].pc \in ExtensionPc \ {"extension"} /\ "extension_failed" \in FailureActions
    BY DEF AnalysisFails, ExtensionPc, FailureActions
  <1> QED BY <1>1, FailureResponds DEF AnalysisFails

LEMMA RecordsFailureResponds ==
  ASSUME IInv, Responses, NEW c \in Call, RecordsFailure(c)
  PROVE  Responses'
  <1>1. call[c].pc \in ExtensionPc \ {"extension"} /\ FailureAction(c) \in FailureActions
    BY DEF RecordsFailure, ExtensionPc, FailureAction, FailureActions
  <1> QED BY <1>1, FailureResponds DEF RecordsFailure

LEMMA RecordsResultResponds ==
  ASSUME IInv, Responses, NEW c \in Call, RecordsResult(c)
  PROVE  Responses'
  <1> DEFINE here == Running(c)
             e == ExtensionEvent(c, "extension_result_recorded", None)
             noted == WithEvent(call[c], e)
             result == [extension |-> Running(c), analysis |-> call[c].analysis, decision |-> call[c].verdict,
                        status |-> IF call[c].verdict = "DENY" THEN "policy_blocked" ELSE "completed"]
             before == [noted EXCEPT !.completed = @ \cup {result}]
  <1>1. e.call = c /\ e.extension = here /\ e.action = "extension_result_recorded"
    BY DEF ExtensionEvent, Event
  <1>2. /\ call' = [call EXCEPT ![c] = NextExtension(before)] /\ ledger' = ledger \cup {e}
        /\ UNCHANGED <<claims, memory>>
    BY DEF RecordsResult, Emits, extensionRecords
  <1> HIDE DEF e
  <1>3. call[c].pc = "recording" /\ call[c].pc \in ExtensionPc \ {"extension"} /\ call[c].pc \in JudgedPc
    BY DEF RecordsResult, ExtensionPc, AnalyzedPc, JudgedPc
  <1>4. /\ result.extension = here /\ result.analysis = call[c].analysis /\ result.decision = call[c].verdict
        /\ result.status = IF call[c].verdict = "DENY" THEN "policy_blocked" ELSE "completed"
    OBVIOUS
  <1> HIDE DEF result
  <1>5. /\ DOMAIN before = DOMAIN Fresh /\ before.completed = call[c].completed \cup {result}
        /\ before.extensionEventIds = call[c].extensionEventIds \cup {e}
        /\ before.skipped = call[c].skipped /\ before.failures = call[c].failures
        /\ \A f \in {"at", "signal", "readings", "eventIds"} : before[f] = call[c][f]
    <2>1. /\ DOMAIN noted = DOMAIN Fresh /\ noted.extensionEventIds = call[c].extensionEventIds \cup {e}
          /\ \A f \in DOMAIN Fresh \ {"extensionEventIds"} : noted[f] = call[c][f]
      BY WithEventFacts
    <2> HIDE DEF noted
    <2> QED BY <2>1 DEF Fresh
  <1> HIDE DEF before
  <1>6. \A x \in Extension \ {here} : SameOutcome(call[c], before, x)
    BY <1>4, <1>5 DEF SameOutcome, Completes
  <1>7. Explained(before, here, ActionsIn(c, here, ledger'))
    <2>1. UnderWay(call[c], here, ActionsIn(c, here, ledger))
      BY <1>3, AtExtensionResponse
    <2>2. ActionsIn(c, here, ledger') = ActionsIn(c, here, ledger) \cup {"extension_result_recorded"}
      BY <1>1, <1>2 DEF ActionsIn
    <2>3. "extension_result_recorded" \notin FailureActions
      BY DEF FailureActions
    <2> HIDE DEF here
    <2> QED BY <1>4, <1>5, <2>1, <2>2, <2>3 DEF UnderWay, Explained, Completes, EndActions
  <1>8. ResultOK(c, call[c], result, claims, memory)
    <2>1. KeptInv(c, call[c], claims, memory) /\ call[c].at \in 1..Len(Registry) /\ here = Registry[call[c].at]
      BY <1>3, AtExtension, AtExtensionResponse DEF Running
    <2> HIDE DEF here
    <2>2. here \notin Before(call[c].at)
      BY <2>1, RegistryOrder
    <2>3. Strict(call[c], call[c].analysis, call[c].verdict)
      BY <1>3, <2>1 DEF KeptInv
    <2>4. result.status = "completed" /\ result.analysis.claims => Kept(c, here, call[c].verdict, claims, memory)
      BY <1>3, <1>4, <2>1 DEF KeptInv, KeptSoFar
    <2>5. result.status = "policy_blocked" => \A k \in claims \cup memory : ~(k.call = c /\ k.extension = here)
      BY <1>3, <1>4, <2>1, <2>2 DEF KeptInv, InOrder
    <2> QED BY <1>4, <2>3, <2>4, <2>5 DEF ResultOK
  <1>9. PICK new : new = {e}
    OBVIOUS
  <1>10. /\ \A f \in new : f.call = c /\ f.extension = here
         /\ ledger' = ledger \cup new /\ before.extensionEventIds = call[c].extensionEventIds \cup new
    BY <1>1, <1>2, <1>5, <1>9
  <1>11. \A r \in before.completed :
           \/ r \in call[c].completed
           \/ r.extension = here /\ ResultOK(c, call[c], r, claims, memory)
    BY <1>4, <1>5, <1>8
  <1> QED BY <1>2, <1>3, <1>5, <1>6, <1>7, <1>10, <1>11, RespondsForward

LEMMA LateResponds ==
  ASSUME IInv, Responses, NEW c \in Call, call[c].pc \in LaterPc,
         NEW action, NEW e, e = Event(c, action, None, None), NEW pc \in {"auditing", "returned"},
         Emits(c, e, [call[c] EXCEPT !.pc = pc, !.eventIds = @ \cup {e}])
  PROVE  Responses'
  <1> DEFINE next == [call[c] EXCEPT !.pc = pc, !.eventIds = @ \cup {e}]
  <1>1. e.call = c /\ e.extension = None
    BY DEF Event
  <1>2. call[c] \in LocalType
    BY DEF IInv, TypeOK
  <1>3. call' = [call EXCEPT ![c] = next] /\ ledger' = ledger \cup {e} /\ UNCHANGED <<claims, memory>>
    BY DEF Emits, extensionRecords
  <1>4. /\ next.pc = pc /\ next.skipped = call[c].skipped /\ next.failures = call[c].failures
        /\ next.completed = call[c].completed /\ next.extensionEventIds = call[c].extensionEventIds
        /\ next.signal = call[c].signal /\ next.readings = call[c].readings
        /\ next.eventIds = call[c].eventIds \cup {e}
    BY <1>2 DEF LocalType
  <1> HIDE DEF next
  <1>5. next.pc \in LaterPc \cup {"returned"}
    BY <1>4 DEF LaterPc
  <1>6. PICK new : new = {e}
    OBVIOUS
  <1>7. /\ \A f \in new : f.call = c /\ f.extension = None
        /\ ledger' = ledger \cup new /\ next.eventIds = call[c].eventIds \cup new
    BY <1>1, <1>3, <1>4, <1>6
  <1> QED BY <1>3, <1>4, <1>5, <1>7, RespondsOutside

LEMMA AuditsResponds ==
  ASSUME IInv, Responses, NEW c \in Call, Audits(c)
  PROVE  Responses'
  <1> DEFINE next == [call[c] EXCEPT !.pc = "learned"]
  <1>1. /\ call[c] \in LocalType /\ call[c].pc = "auditing" /\ call' = [call EXCEPT ![c] = next]
        /\ UNCHANGED <<ledger, claims, memory>>
    BY DEF IInv, TypeOK, Audits, extensionRecords
  <1>2. /\ next.pc = "learned" /\ next.skipped = call[c].skipped /\ next.failures = call[c].failures
        /\ next.completed = call[c].completed /\ next.extensionEventIds = call[c].extensionEventIds
        /\ next.signal = call[c].signal /\ next.readings = call[c].readings
        /\ next.eventIds = call[c].eventIds
    BY <1>1 DEF LocalType
  <1> HIDE DEF next
  <1>3. call[c].pc \in LaterPc /\ next.pc \in LaterPc
    BY <1>1, <1>2 DEF LaterPc
  <1>4. PICK new : new = {}
    OBVIOUS
  <1>5. ledger' = ledger \cup new /\ next.eventIds = call[c].eventIds \cup new
    BY <1>1, <1>2, <1>4
  <1> QED BY <1>1, <1>2, <1>3, <1>4, <1>5, RespondsOutside

LEMMA InitResponses == Init => Responses
  <1> SUFFICES ASSUME Init, NEW c \in Call PROVE ResponseInv(c, call[c], claims, memory, ledger)
    BY DEF Responses
  <1>1. call[c] = Fresh /\ ledger = {} /\ claims = {} /\ memory = {}
    BY DEF Init
  <1>2. /\ Fresh.pc = "idle" /\ Fresh.completed = {} /\ Fresh.failures = {} /\ Fresh.skipped = {}
        /\ Fresh.eventIds = {} /\ Fresh.extensionEventIds = {}
    BY DEF Fresh
  <1> HIDE DEF Fresh
  <1>3. Fresh.pc \notin ExtensionPc \cup JudgedPc \cup LaterPc \cup {"returned", "claiming", "recording"}
    BY <1>2 DEF ExtensionPc, AnalyzedPc, JudgedPc, LaterPc
  <1>4. KeptInv(c, Fresh, {}, {})
    BY <1>2, <1>3 DEF KeptInv, KeptSoFar
  <1>5. EventsKnown(c, Fresh, {}) /\ OutcomeInv(c, Fresh, {})
    BY <1>2, <1>3 DEF EventsKnown, OutcomeInv, Unseen, Completes, ActionsIn
  <1> QED BY <1>1, <1>4, <1>5 DEF ResponseInv

LEMMA NextResponses == IInv /\ Responses /\ [Next]_vars => Responses'
  <1> SUFFICES ASSUME IInv, Responses, [Next]_vars PROVE Responses'
    OBVIOUS
  <1>1. ASSUME NEW c \in Call, CallNext(c) PROVE Responses'
    <2>1. CASE Begins(c)
      BY <2>1, BeginsResponds
    <2>2. CASE AppendsMissionEvent(c)
      BY <2>2, AppendsMissionEventResponds
    <2>3. CASE MissionReturns(c)
      BY <2>3, MissionReturnsResponds
    <2>4. CASE EntersExtensions(c)
      BY <2>4, EntersExtensionsResponds
    <2>5. CASE Skips(c)
      BY <2>5, SkipsResponds
    <2>6. CASE Requests(c)
      BY <2>6, RequestsResponds
    <2>7. CASE AnalysisFails(c)
      BY <2>7, AnalysisFailsResponds
    <2>8. CASE Analyzes(c)
      BY <2>8, AnalyzesResponds
    <2>9. CASE Judges(c)
      BY <2>9, JudgesResponds
    <2>10. CASE Persists(c) \/ PersistFails(c) \/ PersistsClaims(c) \/ ClaimsFail(c)
      BY <2>10, KeepingResponds
    <2>11. CASE RecordsFailure(c)
      BY <2>11, RecordsFailureResponds
    <2>12. CASE RecordsResult(c)
      BY <2>12, RecordsResultResponds
    <2>13. CASE CompletesModel(c)
      BY <2>13, LateResponds DEF CompletesModel, LaterPc
    <2>14. CASE Audits(c)
      BY <2>14, AuditsResponds
    <2>15. CASE AgenticReturns(c)
      BY <2>15, LateResponds DEF AgenticReturns, LaterPc
    <2>16. CASE Throws(c) \/ SaveReplyLost(c)
      BY <2>16, ThrowsResponds
    <2> QED BY <1>1, <2>1, <2>2, <2>3, <2>4, <2>5, <2>6, <2>7, <2>8, <2>9, <2>10, <2>11, <2>12, <2>13,
               <2>14, <2>15, <2>16 DEF CallNext
  <1>2. CASE UNCHANGED vars
    BY <1>2 DEF Responses, vars, extensionRecords
  <1> QED BY <1>1, <1>2 DEF Next

\* Whatever overlaps or fails, what a call would respond is what its records
\* and events say.
THEOREM ResponsesAreBacked == Spec => []Responses
  <1>1. Init => IInv /\ Responses
    BY InitIInv, InitResponses
  <1>2. IInv /\ Responses /\ [Next]_vars => IInv' /\ Responses'
    BY NextIInv, NextResponses
  <1> QED BY <1>1, <1>2, PTL DEF Spec

\* A result says completed only if its claims were kept, one that was blocked
\* left none, and each is as strict as its analysis and every action
\* (runGovernedExtensions, evaluateExtensionPolicy).
THEOREM ResultsAreGoverned == Spec => []ResultsGoverned
  <1>1. Responses => ResultsGoverned
    BY DEF Responses, ResponseInv, KeptInv, ResultOK, Kept, Strict, ResultsGoverned
  <1> QED BY <1>1, ResponsesAreBacked, PTL

\* A response accounts for every extension exactly once, in accordance with its
\* events, and lists every event of its call (runGovernedExtensions,
\* runAgenticMission).
THEOREM OutcomesAreExplained == Spec => []OutcomesExplained
  <1>1. Responses => OutcomesExplained
    <2> SUFFICES ASSUME Responses, NEW c \in Call, call[c].pc = "returned"
                 PROVE  /\ \A x \in Extension : Explained(call[c], x, ActionsOf(c, x))
                        /\ call[c].eventIds = {e \in ledger : e.call = c}
      BY DEF OutcomesExplained, Explained, Completes
    <2>1. EventsKnown(c, call[c], ledger) /\ OutcomeInv(c, call[c], ledger)
      BY DEF Responses, ResponseInv
    <2>2. \A x \in Extension : Explained(call[c], x, ActionsIn(c, x, ledger))
      BY <2>1 DEF OutcomeInv
    <2>3. call[c].eventIds = {e \in ledger : e.call = c}
      BY <2>1 DEF EventsKnown, ExtensionPc
    <2> QED BY <2>2, <2>3 DEF ActionsOf, ActionsIn
  <1> QED BY <1>1, ResponsesAreBacked, PTL

=============================================================================
