--------------------------- MODULE GovernedMission ---------------------------
(***************************************************************************)
(* Calls of runMission and runAgenticMission that share a mission id: the  *)
(* orchestrator (orchestrator.ts), the mission store (mission-store.ts),   *)
(* the runner of governed extensions (extensions/runner.ts) with its claim *)
(* and memory stores, and the rest of the agentic executor                 *)
(* (agentic-executor.ts).                                                  *)
(*                                                                         *)
(* How appended events become one chain is the business of EvidenceLedger: *)
(* here the ledger is the set of events that were committed.  A save is    *)
(* one transaction whose first statement locks the mission's row, hence    *)
(* one step.                                                               *)
(***************************************************************************)
EXTENDS PolicyGate

CONSTANTS
  Call,        \* calls with the same mission id
  Signal,      \* what their inputs are normalized to
  Readings,    \* sequences of results the selected lenses may return
  Registry,    \* the registered extensions, in their order
  Persisting,  \* the extensions that have a persist function
  Analysis,    \* valid analyses: a lens result, proposed actions, whether there are claims
  None         \* no row, no value

Extension == ToSet(Registry)

ASSUME GovernedMissionAssumption ==
  /\ Signal \subseteq SignalType
  /\ Readings \subseteq Seq(LensResultType)
  /\ Registry \in Seq(Extension)
  /\ Registry # <<>>
  /\ \A i, j \in 1..Len(Registry) : Registry[i] = Registry[j] => i = j
  /\ Persisting \subseteq Extension
  /\ \A a \in Analysis :
       /\ a.result \in LensResultType
       /\ a.actions \subseteq [offensive : BOOLEAN, risk : Percent]
       /\ a.claims \in BOOLEAN
  /\ None \notin Extension \cup Decision

VARIABLES
  call,       \* call[c]: control state and locals of a call
  ledger,     \* events committed to the mission's chain
  missions,   \* the mission's row in missions
  results,    \* its row in mission_results
  approvals,  \* its rows in mission_approvals
  snapshots,  \* its rows in mission_analysis_snapshots
  claims,     \* extension_claim_records
  memory,     \* extension_memory_records
  audit,      \* model_call_audit
  learning    \* memoryByMission.get(missionId)

stored == <<missions, results, approvals, snapshots>>
extensionRecords == <<claims, memory>>
vars == <<call, ledger, stored, extensionRecords, audit, learning>>

MissionEvents ==
  <<"user_command_received", "signal_normalized", "lens_selected", "lens_analysis_completed",
    "policy_decision_made", "report_generated">>

Event(c, action, x, decision) == [call |-> c, action |-> action, extension |-> x, decision |-> decision]
MissionEvent(c, k, decision) ==
  Event(c, MissionEvents[k], None, IF k = 5 THEN decision ELSE None)

Fresh ==
  [pc |-> "idle", at |-> 0, signal |-> None, readings |-> <<>>, decision |-> None,
   analysis |-> None, verdict |-> None, eventIds |-> {}, extensionEventIds |-> {},
   completed |-> {}, failures |-> {}, skipped |-> {}]

Init ==
  /\ call = [c \in Call |-> Fresh]
  /\ ledger = {}
  /\ missions = None /\ results = None /\ approvals = {} /\ snapshots = {}
  /\ claims = {} /\ memory = {}
  /\ audit = {}
  /\ learning = None

\* The extension call c is at.
Running(c) == Registry[call[c].at]

\* An event is committed, and the call takes note of it.
Emits(c, e, local) ==
  /\ ledger' = ledger \cup {e}
  /\ call' = [call EXCEPT ![c] = local]
  /\ UNCHANGED <<stored, extensionRecords, audit, learning>>

\* What the runner appends for the extension it is at.
ExtensionEvent(c, action, decision) == Event(c, action, Running(c), decision)

-----------------------------------------------------------------------------
(* runMission *)

Begins(c) ==
  /\ call[c].pc = "idle"
  /\ \E signal \in Signal :
       call' = [call EXCEPT ![c].pc = "mission", ![c].at = 1, ![c].signal = signal]
  /\ UNCHANGED <<ledger, stored, extensionRecords, audit, learning>>

\* The next event of the mission; the lenses answer before the fourth, and
\* those that fail are left out; the gate decides before the fifth.
AppendsMissionEvent(c) ==
  /\ call[c].pc = "mission"
  /\ \E readings \in IF call[c].at = 4 THEN Readings ELSE {call[c].readings} :
       LET k == call[c].at
           d == IF k = 5 THEN EvaluatePolicy(call[c].signal, readings) ELSE call[c].decision
           e == MissionEvent(c, k, d)
       IN  Emits(c, e,
             [call[c] EXCEPT !.pc = IF k = Len(MissionEvents) THEN "saving" ELSE "mission",
                             !.at = k + 1, !.readings = readings, !.decision = d,
                             !.eventIds = @ \cup {e}])

LifecycleStatus(decision) ==
  CASE decision = "DENY" -> "denied"
    [] decision = "ESCALATE" -> "escalated"
    [] decision = "ASK_CONFIRMATION" -> "awaiting_approval"
    [] OTHER -> "completed"

ApprovalRequired(decision) == decision \in {"ASK_CONFIRMATION", "ESCALATE"}

\* Mutant of UpsertedMission: the row of the first call stays.
UpsertedMissionKept(c) ==
  IF missions = None
  THEN [rawInputOf |-> c, call |-> c, status |-> LifecycleStatus(call[c].decision)]
  ELSE missions

\* raw_input is not among the columns a conflict updates.
UpsertedMission(c) ==
  [rawInputOf |-> IF missions = None THEN c ELSE missions.rawInputOf,
   call |-> c, status |-> LifecycleStatus(call[c].decision)]

ApprovalOf(c) ==
  IF ApprovalRequired(call[c].decision) THEN {[call |-> c, decision |-> call[c].decision]} ELSE {}

SavesResult(c) ==
  /\ missions' = UpsertedMission(c)
  /\ snapshots' = snapshots \cup {c}
  /\ approvals' = approvals \cup ApprovalOf(c)
  /\ results' = [call |-> c, decision |-> call[c].decision, eventIds |-> call[c].eventIds]

\* The caller of runMission gets its result.
MissionReturns(c) ==
  /\ call[c].pc = "saving"
  /\ SavesResult(c)
  /\ call' = [call EXCEPT ![c].pc = "mission_returned"]
  /\ UNCHANGED <<ledger, extensionRecords, audit, learning>>

-----------------------------------------------------------------------------
(* runGovernedExtensions *)

\* After a denial every extension is skipped.
EntersExtensions(c) ==
  /\ call[c].pc = "saving"
  /\ SavesResult(c)
  /\ call' = [call EXCEPT ![c] =
       IF call[c].decision = "DENY"
       THEN [@ EXCEPT !.pc = "model", !.skipped = Extension]
       ELSE [@ EXCEPT !.pc = "extension", !.at = 1]]
  /\ UNCHANGED <<ledger, extensionRecords, audit, learning>>

\* The next extension, or the end of the loop.
NextExtension(local) ==
  IF local.at = Len(Registry)
  THEN [local EXCEPT !.pc = "model", !.analysis = None, !.verdict = None,
                     !.eventIds = @ \cup local.extensionEventIds]
  ELSE [local EXCEPT !.pc = "extension", !.analysis = None, !.verdict = None, !.at = @ + 1]

Skips(c) ==
  /\ call[c].pc = "extension"
  /\ call' = [call EXCEPT ![c] = NextExtension([call[c] EXCEPT !.skipped = @ \cup {Running(c)}])]
  /\ UNCHANGED <<ledger, stored, extensionRecords, audit, learning>>

WithEvent(local, e) == [local EXCEPT !.extensionEventIds = @ \cup {e}]

Requests(c) ==
  /\ call[c].pc = "extension"
  /\ LET e == ExtensionEvent(c, "extension_requested", None)
     IN  Emits(c, e, [WithEvent(call[c], e) EXCEPT !.pc = "requested"])

\* analyze throws, or its analysis is not valid.
AnalysisFails(c) ==
  /\ call[c].pc = "requested"
  /\ LET e == ExtensionEvent(c, "extension_failed", None)
     IN  Emits(c, e, NextExtension([WithEvent(call[c], e) EXCEPT !.failures = @ \cup {Running(c)}]))

Analyzes(c) ==
  /\ call[c].pc = "requested"
  /\ \E analysis \in Analysis :
       LET e == ExtensionEvent(c, "extension_analysis_completed", None)
       IN  Emits(c, e, [WithEvent(call[c], e) EXCEPT !.pc = "analyzed", !.analysis = analysis])

\* Mutant of AfterVerdict: what was denied is kept all the same.
AfterAnyVerdict(c, verdict) == IF Running(c) \in Persisting THEN "persisting" ELSE "claiming"

AfterVerdict(c, verdict) ==
  IF verdict = "DENY" THEN "recording"
  ELSE IF Running(c) \in Persisting THEN "persisting"
  ELSE "claiming"

Judges(c) ==
  /\ call[c].pc = "analyzed"
  /\ LET verdict == EvaluateExtensionPolicy(call[c].signal, call[c].analysis, call[c].readings)
         e == ExtensionEvent(c, "extension_policy_evaluated", verdict)
     IN  Emits(c, e, [WithEvent(call[c], e) EXCEPT !.pc = AfterVerdict(c, verdict), !.verdict = verdict])

\* A record refers to the analysis event, and to the policy event, of its
\* call and extension.
RecordOf(c) == [call |-> c, extension |-> Running(c)]
ClaimRecordOf(c) == [call |-> c, extension |-> Running(c), decision |-> call[c].verdict]

ClaimsOf(c) == IF call[c].analysis.claims THEN {RecordOf(c)} ELSE {}
ClaimRecordsOf(c) == IF call[c].analysis.claims THEN {ClaimRecordOf(c)} ELSE {}

Persists(c) ==
  /\ call[c].pc = "persisting"
  /\ memory' = memory \cup ClaimsOf(c)
  /\ call' = [call EXCEPT ![c].pc = "claiming"]
  /\ UNCHANGED <<ledger, stored, claims, audit, learning>>

\* persist throws, perhaps after its transaction was committed.
PersistFails(c) ==
  /\ call[c].pc = "persisting"
  /\ memory' \in {memory, memory \cup ClaimsOf(c)}
  /\ call' = [call EXCEPT ![c].pc = "persistence_failed"]
  /\ UNCHANGED <<ledger, stored, claims, audit, learning>>

PersistsClaims(c) ==
  /\ call[c].pc = "claiming"
  /\ claims' = claims \cup ClaimRecordsOf(c)
  /\ call' = [call EXCEPT ![c].pc = "recording"]
  /\ UNCHANGED <<ledger, stored, memory, audit, learning>>

\* Without claims persistExtensionClaims returns at once.
ClaimsFail(c) ==
  /\ call[c].pc = "claiming"
  /\ call[c].analysis.claims
  /\ claims' \in {claims, claims \cup ClaimRecordsOf(c)}
  /\ call' = [call EXCEPT ![c].pc = "claims_failed"]
  /\ UNCHANGED <<ledger, stored, memory, audit, learning>>

FailureAction(c) ==
  IF call[c].pc = "persistence_failed" THEN "extension_persistence_failed"
  ELSE "extension_claim_persistence_failed"

\* Mutant of RecordsFailure: the loop goes on to the claims and the result.
RecordsFailureOnly(c) ==
  /\ call[c].pc \in {"persistence_failed", "claims_failed"}
  /\ LET e == ExtensionEvent(c, FailureAction(c), None)
     IN  Emits(c, e, [WithEvent(call[c], e) EXCEPT !.failures = @ \cup {Running(c)}, !.pc = "recording"])

RecordsFailure(c) ==
  /\ call[c].pc \in {"persistence_failed", "claims_failed"}
  /\ LET e == ExtensionEvent(c, FailureAction(c), None)
     IN  Emits(c, e, NextExtension([WithEvent(call[c], e) EXCEPT !.failures = @ \cup {Running(c)}]))

RecordsResult(c) ==
  /\ call[c].pc = "recording"
  /\ LET e == ExtensionEvent(c, "extension_result_recorded", None)
         result == [extension |-> Running(c), analysis |-> call[c].analysis, decision |-> call[c].verdict,
                    status |-> IF call[c].verdict = "DENY" THEN "policy_blocked" ELSE "completed"]
     IN  Emits(c, e, NextExtension([WithEvent(call[c], e) EXCEPT !.completed = @ \cup {result}]))

-----------------------------------------------------------------------------
(* runAgenticMission, after the extensions *)

CompletesModel(c) ==
  /\ call[c].pc = "model"
  /\ LET e == Event(c, "model_intelligence_completed", None, None)
     IN  Emits(c, e, [call[c] EXCEPT !.pc = "auditing", !.eventIds = @ \cup {e}])

\* Mutant of Learned: a denied mission is learned from.
LearnedAnyway(c) == [call |-> c, eventIds |-> call[c].eventIds]

\* learnFromMission keeps one record per mission, in memory.
Learned(c) ==
  IF call[c].decision = "DENY" THEN learning
  ELSE [call |-> c, eventIds |-> call[c].eventIds]

\* The record is kept before its event is appended.
Audits(c) ==
  /\ call[c].pc = "auditing"
  /\ audit' = audit \cup {c}
  /\ learning' = Learned(c)
  /\ call' = [call EXCEPT ![c].pc = "learned"]
  /\ UNCHANGED <<ledger, stored, extensionRecords>>

AgenticReturns(c) ==
  /\ call[c].pc = "learned"
  /\ LET e == Event(c, "learning_memory_recorded", None, None)
     IN  Emits(c, e, [call[c] EXCEPT !.pc = "returned", !.eventIds = @ \cup {e}])

-----------------------------------------------------------------------------
(* Failures no one catches *)

\* The event a call is about to append.
Pending(c) ==
  CASE call[c].pc = "mission" /\ call[c].at # 5 -> {MissionEvent(c, call[c].at, None)}
    [] call[c].pc = "mission" /\ call[c].at = 5 ->
         {MissionEvent(c, 5, EvaluatePolicy(call[c].signal, call[c].readings))}
    [] call[c].pc = "extension" -> {ExtensionEvent(c, "extension_requested", None)}
    [] call[c].pc = "requested" ->
         {ExtensionEvent(c, action, None) : action \in {"extension_failed", "extension_analysis_completed"}}
    [] call[c].pc = "analyzed" ->
         {ExtensionEvent(c, "extension_policy_evaluated",
            EvaluateExtensionPolicy(call[c].signal, call[c].analysis, call[c].readings))}
    [] call[c].pc \in {"persistence_failed", "claims_failed"} -> {ExtensionEvent(c, FailureAction(c), None)}
    [] call[c].pc = "recording" -> {ExtensionEvent(c, "extension_result_recorded", None)}
    [] call[c].pc = "model" -> {Event(c, "model_intelligence_completed", None, None)}
    [] call[c].pc = "learned" -> {Event(c, "learning_memory_recorded", None, None)}
    [] OTHER -> {}

Dies(c) == call' = [call EXCEPT ![c] = [Fresh EXCEPT !.pc = "thrown"]]

\* A statement throws or the process dies; an event under way may have been
\* committed without the call learning of it.
Throws(c) ==
  /\ call[c].pc \notin {"idle", "mission_returned", "returned", "thrown"}
  /\ Dies(c)
  /\ \/ UNCHANGED ledger
     \/ \E e \in Pending(c) : ledger' = ledger \cup {e}
  /\ UNCHANGED <<stored, extensionRecords, audit, learning>>

\* The reply of a commit is lost.
SaveReplyLost(c) ==
  /\ call[c].pc = "saving"
  /\ SavesResult(c)
  /\ Dies(c)
  /\ UNCHANGED <<ledger, extensionRecords, audit, learning>>

-----------------------------------------------------------------------------

CallNext(c) ==
  \/ Begins(c)
  \/ AppendsMissionEvent(c)
  \/ MissionReturns(c)
  \/ EntersExtensions(c)
  \/ Skips(c)
  \/ Requests(c)
  \/ AnalysisFails(c)
  \/ Analyzes(c)
  \/ Judges(c)
  \/ Persists(c)
  \/ PersistFails(c)
  \/ PersistsClaims(c)
  \/ ClaimsFail(c)
  \/ RecordsFailure(c)
  \/ RecordsResult(c)
  \/ CompletesModel(c)
  \/ Audits(c)
  \/ AgenticReturns(c)
  \/ Throws(c)
  \/ SaveReplyLost(c)

Next == \E c \in Call : CallNext(c)

Spec == Init /\ [][Next]_vars

-----------------------------------------------------------------------------
(* Properties *)

Pc ==
  {"idle", "mission", "saving", "mission_returned", "extension", "requested", "analyzed", "persisting",
   "persistence_failed", "claiming", "claims_failed", "recording", "model", "auditing", "learned",
   "returned", "thrown"}

FailureActions == {"extension_failed", "extension_persistence_failed", "extension_claim_persistence_failed"}

Action ==
  ToSet(MissionEvents) \cup FailureActions
    \cup {"extension_requested", "extension_analysis_completed", "extension_policy_evaluated",
          "extension_result_recorded", "model_intelligence_completed", "learning_memory_recorded"}

EventType ==
  [call : Call, action : Action, extension : Extension \cup {None}, decision : Decision \cup {None}]

LocalType ==
  [pc : Pc, at : Nat, signal : Signal \cup {None},
   readings : Readings \cup {<<>>}, decision : Decision \cup {None},
   analysis : Analysis \cup {None}, verdict : Decision \cup {None},
   eventIds : SUBSET EventType, extensionEventIds : SUBSET EventType,
   completed : SUBSET [extension : Extension, analysis : Analysis, decision : Decision,
                       status : {"completed", "policy_blocked"}],
   failures : SUBSET Extension, skipped : SUBSET Extension]

\* Type invariant.
TypeOK ==
  /\ call \in [Call -> LocalType]
  /\ ledger \subseteq EventType
  /\ missions \in {None} \cup [rawInputOf : Call, call : Call,
                               status : {"awaiting_approval", "completed", "denied", "escalated"}]
  /\ results \in {None} \cup [call : Call, decision : Decision, eventIds : SUBSET EventType]
  /\ approvals \subseteq [call : Call, decision : Decision]
  /\ snapshots \subseteq Call
  /\ claims \subseteq [call : Call, extension : Extension, decision : Decision]
  /\ memory \subseteq [call : Call, extension : Extension]
  /\ audit \subseteq Call
  /\ learning \in {None} \cup [call : Call, eventIds : SUBSET EventType]

\* What is stored of a mission is of one call, whichever calls overlap or
\* fail: its result, its status and its evidence agree, the evidence is
\* committed, and a mission on hold has a pending approval for the very
\* decision that holds it (saveMissionResult).
StoredMissionBacked ==
  results # None =>
    LET c == results.call IN
    /\ missions.call = c
    /\ missions.status = LifecycleStatus(results.decision)
    /\ results.eventIds = {MissionEvent(c, k, results.decision) : k \in 1..Len(MissionEvents)}
    /\ results.eventIds \subseteq ledger
    /\ {a \in approvals : a.call = c} =
         IF missions.status \in {"awaiting_approval", "escalated"}
         THEN {[call |-> c, decision |-> results.decision]} ELSE {}

ActionsOf(c, x) == {e.action : e \in {e \in ledger : e.call = c /\ e.extension = x}}

\* A response accounts for every extension once, in accordance with its last
\* event in the ledger, and lists every event of its call: no extension
\* silently disappears, and none erases what another left (runGovernedExtensions,
\* runAgenticMission).
OutcomesExplained ==
  \A c \in Call : call[c].pc = "returned" =>
    /\ \A x \in Extension :
         LET completed == \E r \in call[c].completed : r.extension = x
             actions == ActionsOf(c, x)
         IN  /\ x \in call[c].skipped <=> actions = {}
             /\ x \in call[c].failures <=> actions \cap FailureActions # {}
             /\ completed <=> "extension_result_recorded" \in actions
             /\ x \in call[c].failures => ~completed /\ x \notin call[c].skipped
             /\ x \in call[c].skipped \cup call[c].failures \/ completed
    /\ call[c].eventIds = {e \in ledger : e.call = c}

\* A claim is only kept with the committed analysis and verdict it refers to,
\* and never against the verdict, also if the call later fails (runner,
\* extension-claim-store, memory-graph-store).
ClaimsBacked ==
  /\ \A r \in claims :
       /\ r.decision # "DENY"
       /\ Event(r.call, "extension_analysis_completed", r.extension, None) \in ledger
       /\ Event(r.call, "extension_policy_evaluated", r.extension, r.decision) \in ledger
  /\ \A r \in memory :
       /\ Event(r.call, "extension_analysis_completed", r.extension, None) \in ledger
       /\ \E d \in Decision \ {"DENY"} : Event(r.call, "extension_policy_evaluated", r.extension, d) \in ledger

\* A result says completed only if its claims were kept, and it is judged at
\* least as strictly as its analysis and each of its actions: no action is
\* lost among the others (runGovernedExtensions, evaluateExtensionPolicy).
ResultsGoverned ==
  \A c \in Call : \A r \in call[c].completed :
    LET governed == Append(call[c].readings, r.analysis.result) IN
    /\ r.status = "completed" /\ r.analysis.claims =>
         /\ [call |-> c, extension |-> r.extension, decision |-> r.decision] \in claims
         /\ r.extension \in Persisting => [call |-> c, extension |-> r.extension] \in memory
    /\ r.status = "policy_blocked" => \A k \in claims \cup memory : ~(k.call = c /\ k.extension = r.extension)
    /\ NoLessRestrictive(r.decision, EvaluatePolicy(call[c].signal, governed))
    /\ \A a \in r.analysis.actions :
         NoLessRestrictive(r.decision, ActionDecision(call[c].signal, a, governed))

\* A denied mission leaves no extension event, no claim, no approval and
\* nothing learned (runGovernedExtensions, learnFromMission).
DenialLeavesNothing ==
  \A c \in Call : MissionEvent(c, 5, "DENY") \in ledger =>
    /\ \A e \in ledger : e.call = c => e.extension = None
    /\ \A r \in claims \cup memory \cup approvals : r.call # c
    /\ learning # None => learning.call # c

\* What POLICY_GATE.md says of ESCALATE, "human review is required before
\* continuing": no extension is asked before someone has looked.  No approval is
\* ever resolved here, since recordMissionApproval has no caller.
EscalationWaits ==
  \A c \in Call : MissionEvent(c, 5, "ESCALATE") \in ledger =>
    \A e \in ledger : e.call = c => e.extension = None

=============================================================================
