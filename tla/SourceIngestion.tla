--------------------------- MODULE SourceIngestion ---------------------------
(***************************************************************************)
(* The ingestion of governed sources: the refresh policies and their       *)
(* scheduler (dynamic-source-scheduler.ts), and the executions that fetch  *)
(* sources, persist runs and records, and promote the records to lineage   *)
(* nodes, claims and assessments (scheduled-source-ingestion.ts).          *)
(*                                                                         *)
(* An execution belongs to a work item of the durable queue, taken at its  *)
(* word (AtLeastOnce), or to a call of the API, which may name several     *)
(* sources.  Up to the commit of the records a failure is thrown; after it *)
(* every failure is swallowed and the rest of the promotion goes on.       *)
(* Every report makes one claim, all about one subject and predicate.      *)
(***************************************************************************)
EXTENDS EvidenceLineage

CONSTANTS
  Scheduled,  \* the sources with a policy: their cadence is not manual
  Patch,      \* policies users may choose
  Plan,       \* Plan[s]: what the registry says of the parser and the endpoint of s
  Listing,    \* Listing[s]: what the parser may find at s, sequences of different reports
  Batch,      \* the sources a call may name, in order
  Execution,  \* retrievals, each with a time of its own
  NoItem,     \* the item of a call
  NoLineage,  \* lineages not yet analysed
  ClaimLimit, \* claims an assessment loads (2000)
  Workers,    \* bound: executions that overlap
  MaxSlot,    \* bound: due times of a source
  MaxEdits,   \* bound: changes of a policy
  MaxFaults   \* bound: failures and deaths

WorkItem == Scheduled \X (0..MaxSlot - 1)

ASSUME SourceIngestionAssumption ==
  /\ Scheduled \subseteq Source
  /\ Patch \subseteq [enabled: BOOLEAN, next: 0..MaxSlot]
  /\ Plan \in [Source -> {"ready", "no_parser", "no_endpoint", "auth_required", "blocked"}]
  /\ Listing \in [Source -> SUBSET (Seq(Report) \ {<<>>})]
  /\ Batch \subseteq Seq(Source)
  /\ NoItem \notin WorkItem
  /\ ClaimLimit \in Nat \ {0}
  /\ Workers \in Nat \ {0}
  /\ MaxSlot \in Nat
  /\ MaxEdits \in Nat
  /\ MaxFaults \in Nat

VARIABLES
  policy,     \* policy[s]: the row of source_refresh_policies
  sourceRuns, \* source_ingestion_runs
  records,    \* source_records: <<retrieval, node>>, the id hashes both
  nodes,      \* evidence_lineage_nodes
  edges,      \* evidence_lineage_edges: <<child, parent>>
  claims,     \* intelligence_claims
  impacts,    \* change impacts: the execution and the claims it was computed from
  exec,       \* exec[x]: control state and locals of an execution
  phase,      \* phase[i]: the work item i, seen from outside the queue
  tried,      \* tried[i]: the outcomes of its executions that ended
  edits,      \* changes of policies so far (bounded by MaxEdits)
  faults      \* faults so far (bounded by MaxFaults)

stores == <<sourceRuns, records, nodes, edges, claims, impacts>>
vars == <<policy, stores, exec, phase, tried, edits, faults>>

\* Items stand for the dedupe keys sourceId:scheduledFor.
Queue == INSTANCE AtLeastOnce WITH Item <- WorkItem

Idle == [pc |-> "idle", item |-> NoItem, status |-> <<>>, batch |-> <<>>, unlinked |-> {}, lineages |-> NoLineage,
         next |-> 1, affected |-> FALSE, seen |-> {}, clean |-> TRUE]

\* The policies have been seeded from the registry.
Init ==
  /\ policy = [s \in Scheduled |-> [enabled |-> TRUE, next |-> 0]]
  /\ sourceRuns = {}
  /\ records = {}
  /\ nodes = {}
  /\ edges = {}
  /\ claims = {}
  /\ impacts = {}
  /\ exec = [x \in Execution |-> Idle]
  /\ Queue!Init
  /\ edits = 0
  /\ faults = 0

-----------------------------------------------------------------------------
(* dynamic-source-scheduler.ts *)

UpsertDynamicSourcePolicy(s, patch) ==
  /\ edits < MaxEdits
  /\ edits' = edits + 1
  /\ policy' = [policy EXCEPT ![s] = patch]
  /\ UNCHANGED <<stores, exec, phase, tried, faults>>

\* The item, unless there is one for this due time, and the next due time are
\* committed together; a policy may be due at any moment.
RunDueSourceJobs(s) ==
  /\ policy[s].enabled
  /\ policy[s].next < MaxSlot
  /\ IF phase[<<s, policy[s].next>>] = "absent"
     THEN Queue!Submit(<<s, policy[s].next>>)
     ELSE UNCHANGED <<phase, tried>>
  /\ policy' = [policy EXCEPT ![s].next = @ + 1]
  /\ UNCHANGED <<stores, exec, edits, faults>>

-----------------------------------------------------------------------------
(* runScheduledSourceIngestion: fetch and persist *)

Active == {x \in Execution : exec[x].pc \notin {"idle", "done", "failed"}}

\* How a run of s ends if nothing fails.  Without credentials or on a blocked
\* source nothing is asked for, and such a run is no failure.
Unfailed(s) ==
  CASE Plan[s] = "auth_required" -> {"auth_required"}
    [] Plan[s] \in {"blocked", "no_endpoint"} -> {"blocked"}
    [] Plan[s] = "no_parser" -> {"parser_required"}
    [] Plan[s] = "ready" -> {"parser_required", "completed"}

Requested(s) == Plan[s] \notin {"auth_required", "blocked"}

\* What a request, or the parser, throws or refuses ends in a failed run; a run
\* is completed if and only if it has records.
Result(s) ==
  [status: Unfailed(s) \cap {"completed"}, list: Listing[s]]
    \cup [status: Unfailed(s) \ {"completed"}, list: {<<>>}]
    \cup [status: {t \in {"failed"} : Requested(s)}, list: {<<>>}]

Results(sources) ==
  {results \in [DOMAIN sources -> UNION {Result(s) : s \in ToSet(sources)}] :
     \A i \in DOMAIN sources : results[i] \in Result(sources[i])}

\* The records of the runs, in the order of the sources.
Records(sources, results) ==
  FlattenSeq([i \in DOMAIN sources |-> [j \in DOMAIN results[i].list |-> <<sources[i], results[i].list[j]>>]])

RunJobs(x, item, sources, results) ==
  /\ exec[x].pc = "idle"
  /\ Cardinality(Active) < Workers
  /\ exec' = [exec EXCEPT ![x] =
       [Idle EXCEPT !.pc = "fetched", !.item = item, !.batch = Records(sources, results),
                    !.status = [i \in DOMAIN sources |-> <<sources[i], results[i].status>>]]]
  /\ UNCHANGED <<policy, stores, phase, tried, edits, faults>>

\* A leased item is executed even if it was settled meanwhile.
ExecuteItem(x, item, result) ==
  /\ phase[item] # "absent"
  /\ RunJobs(x, item, <<item[1]>>, <<result>>)

CallIngestion(x, sources, results) == RunJobs(x, NoItem, sources, results)

Faults ==
  /\ faults < MaxFaults
  /\ faults' = faults + 1

SourceRunsOf(x) == {[by |-> x, source |-> s[1], status |-> s[2]] : s \in ToSet(exec[x].status)}
RecordsOf(x) == {<<x, n>> : n \in ToSet(exec[x].batch)}

Commits(x) ==
  /\ sourceRuns' = sourceRuns \cup SourceRunsOf(x)
  /\ records' = records \cup RecordsOf(x)

EndsWith(x, outcome) ==
  IF exec[x].item = NoItem THEN UNCHANGED <<phase, tried>> ELSE Queue!RunEnds(exec[x].item, outcome)

\* persistToPostgres: runs and records in one transaction.
PersistToPostgres(x) ==
  /\ exec[x].pc = "fetched"
  /\ Commits(x)
  /\ exec' = [exec EXCEPT ![x].pc = IF exec[x].batch = <<>> THEN "closing" ELSE "promoting"]
  /\ UNCHANGED <<policy, nodes, edges, claims, impacts, phase, tried, edits, faults>>

\* Mutant of PersistFails: the failure is swallowed like those that follow.
PersistFailureSwallowed(x) ==
  /\ exec[x].pc = "fetched"
  /\ Faults
  /\ Commits(x) \/ UNCHANGED <<sourceRuns, records>>
  /\ exec' = [exec EXCEPT ![x].pc = IF exec[x].batch = <<>> THEN "closing" ELSE "promoting"]
  /\ UNCHANGED <<policy, nodes, edges, claims, impacts, phase, tried, edits>>

\* It fails, or commits and its reply is lost, and throws.
PersistFails(x) ==
  /\ exec[x].pc = "fetched"
  /\ Faults
  /\ Commits(x) \/ UNCHANGED <<sourceRuns, records>>
  /\ exec' = [exec EXCEPT ![x].pc = "failed"]
  /\ EndsWith(x, "error")
  /\ UNCHANGED <<policy, nodes, edges, claims, impacts, edits>>

-----------------------------------------------------------------------------
(* promoteRunsToIntelligence: lineage *)

Without(seq, i) == SubSeq(seq, 1, i - 1) \o SubSeq(seq, i + 1, Len(seq))

Linkable(batch) == {i \in DOMAIN batch : Candidates(batch, i) # {}}

\* The nodes and, per record, its entities, whose failure changes nothing here.
RecordEvidenceLineageNodes(x) ==
  /\ exec[x].pc = "promoting"
  /\ nodes' = nodes \cup ToSet(exec[x].batch)
  /\ exec' = [exec EXCEPT ![x].pc = "linking", ![x].unlinked = Linkable(exec[x].batch)]
  /\ UNCHANGED <<policy, sourceRuns, records, edges, claims, impacts, phase, tried, edits, faults>>

\* The node of a record fails, before or after it is stored: this record is
\* not promoted, the others are unless they fail too.
NodeFails(x, i) ==
  /\ exec[x].pc = "promoting"
  /\ Faults
  /\ i \in DOMAIN exec[x].batch
  /\ nodes' = nodes \/ nodes' = nodes \cup {exec[x].batch[i]}
  /\ exec' = [exec EXCEPT ![x].batch = Without(@, i), ![x].clean = FALSE]
  /\ UNCHANGED <<policy, sourceRuns, records, edges, claims, impacts, phase, tried, edits>>

Linking(x, i) ==
  /\ exec[x].pc = "linking"
  /\ i \in exec[x].unlinked
  /\ \A j \in exec[x].unlinked \ {i} : Before(exec[x].batch, i, j)

\* inferAndLinkLineage: one statement per edge, in the order of publication.
LinkEvidenceLineage(x, i) ==
  /\ Linking(x, i)
  /\ edges' = edges \cup {InferredEdge(exec[x].batch, i)}
  /\ exec' = [exec EXCEPT ![x].unlinked = @ \ {i}]
  /\ UNCHANGED <<policy, sourceRuns, records, nodes, claims, impacts, phase, tried, edits, faults>>

\* Swallowed: no further edge of the batch is linked.
LinkFails(x, i) ==
  /\ Linking(x, i)
  /\ Faults
  /\ edges' = edges \/ edges' = edges \cup {InferredEdge(exec[x].batch, i)}
  /\ exec' = [exec EXCEPT ![x].unlinked = {}, ![x].clean = FALSE]
  /\ UNCHANGED <<policy, sourceRuns, records, nodes, claims, impacts, phase, tried, edits>>

Analysed(x, lineages) ==
  [exec[x] EXCEPT !.pc = IF exec[x].batch = <<>> THEN "closing" ELSE "claiming", !.lineages = lineages]

\* analyzeEvidenceIndependence: one statement reads the edges.
AnalyzeEvidenceIndependence(x) ==
  /\ exec[x].pc = "linking"
  /\ exec[x].unlinked = {}
  /\ exec' = [exec EXCEPT ![x] =
       Analysed(x, [i \in DOMAIN exec[x].batch |-> LineageOf(exec[x].batch, edges, i)])]
  /\ UNCHANGED <<policy, stores, phase, tried, edits, faults>>

\* Swallowed: the ids fall back to those of the nodes.
AnalysisFails(x) ==
  /\ exec[x].pc = "linking"
  /\ exec[x].unlinked = {}
  /\ Faults
  /\ exec' = [exec EXCEPT ![x] =
       [Analysed(x, [i \in DOMAIN exec[x].batch |-> [kind |-> "node", of |-> {exec[x].batch[i]}]]) EXCEPT !.clean = FALSE]]
  /\ UNCHANGED <<policy, stores, phase, tried, edits>>

-----------------------------------------------------------------------------
(* promoteRunsToIntelligence: claims and assessment *)

NextClaim(x) ==
  [by |-> x, node |-> exec[x].batch[exec[x].next], lineage |-> exec[x].lineages[exec[x].next]]

\* After the last claim the affected subject, if any, is assessed.
Claimed(x, affected) ==
  [exec[x] EXCEPT !.next = @ + 1, !.affected = affected,
                  !.pc = CASE exec[x].next < Len(exec[x].batch) -> "claiming"
                           [] exec[x].next >= Len(exec[x].batch) /\ affected -> "assessing"
                           [] OTHER -> "closing"]

PersistEvidenceClaim(x) ==
  /\ exec[x].pc = "claiming"
  /\ claims' = claims \cup {NextClaim(x)}
  /\ exec' = [exec EXCEPT ![x] = Claimed(x, TRUE)]
  /\ UNCHANGED <<policy, sourceRuns, records, nodes, edges, impacts, phase, tried, edits, faults>>

\* Swallowed: the claim is not counted as affecting its subject, stored or not.
ClaimFails(x) ==
  /\ exec[x].pc = "claiming"
  /\ Faults
  /\ claims' = claims \/ claims' = claims \cup {NextClaim(x)}
  /\ exec' = [exec EXCEPT ![x] = [Claimed(x, exec[x].affected) EXCEPT !.clean = FALSE]]
  /\ UNCHANGED <<policy, sourceRuns, records, nodes, edges, impacts, phase, tried, edits>>

\* Of more claims than the limit, the latest: which these are is left open.
Loaded(about) == IF Cardinality(about) <= ClaimLimit THEN {about} ELSE kSubset(ClaimLimit, about)

\* Mutant of RecomputeClaimHypotheses: the claims are read as they were before
\* the execution wrote its own.
RecomputeBeforeOwn(x) ==
  /\ exec[x].pc = "assessing"
  /\ \E seen \in Loaded({c \in claims : c.by # x}) :
       exec' = [exec EXCEPT ![x].pc = "assessed", ![x].seen = seen]
  /\ UNCHANGED <<policy, stores, phase, tried, edits, faults>>

\* recomputeClaimHypotheses loads the claims about the subject.
RecomputeClaimHypotheses(x) ==
  /\ exec[x].pc = "assessing"
  /\ \E seen \in Loaded(claims) : exec' = [exec EXCEPT ![x].pc = "assessed", ![x].seen = seen]
  /\ UNCHANGED <<policy, stores, phase, tried, edits, faults>>

ImpactOf(x) == [by |-> x, of |-> exec[x].seen]

RecordChangeImpact(x) ==
  /\ exec[x].pc = "assessed"
  /\ impacts' = impacts \cup {ImpactOf(x)}
  /\ exec' = [exec EXCEPT ![x].pc = "closing", ![x].seen = {}]
  /\ UNCHANGED <<policy, sourceRuns, records, nodes, edges, claims, phase, tried, edits, faults>>

\* Swallowed; ChangeImpact has what a failure in the midst of it leaves.
AssessmentFails(x) ==
  /\ exec[x].pc \in {"assessing", "assessed"}
  /\ Faults
  /\ \/ UNCHANGED impacts
     \/ exec[x].pc = "assessed" /\ impacts' = impacts \cup {ImpactOf(x)}
  /\ exec' = [exec EXCEPT ![x].pc = "closing", ![x].seen = {}, ![x].clean = FALSE]
  /\ UNCHANGED <<policy, sourceRuns, records, nodes, edges, claims, phase, tried, edits>>

\* Mutant of Outcome: only what is thrown fails an item.
OutcomeUnlessThrown(x) == "ok"

\* The executor throws if the run failed.
Outcome(x) == IF "failed" \in {s[2] : s \in ToSet(exec[x].status)} THEN "error" ELSE "ok"

Ends(x) ==
  /\ exec[x].pc = "closing"
  /\ exec' = [exec EXCEPT ![x] = [Idle EXCEPT !.pc = "done", !.item = exec[x].item, !.clean = exec[x].clean]]
  /\ EndsWith(x, Outcome(x))
  /\ UNCHANGED <<policy, stores, edits, faults>>

\* The process dies: the steps so far stay done, of the nodes those recorded
\* so far.
Dies(x) ==
  /\ x \in Active
  /\ Faults
  /\ IF exec[x].pc = "promoting"
     THEN \E k \in 0..Len(exec[x].batch) : nodes' = nodes \cup ToSet(SubSeq(exec[x].batch, 1, k))
     ELSE UNCHANGED nodes
  /\ exec' = [exec EXCEPT ![x] = [Idle EXCEPT !.pc = "failed", !.item = exec[x].item]]
  /\ UNCHANGED <<policy, sourceRuns, records, edges, claims, impacts, phase, tried, edits>>

Settle(item) ==
  /\ Queue!SettleCompleted(item) \/ Queue!GiveUp(item)
  /\ UNCHANGED <<policy, stores, exec, edits, faults>>

-----------------------------------------------------------------------------
Schedules(s) ==
  \/ \E patch \in Patch : UpsertDynamicSourcePolicy(s, patch)
  \/ RunDueSourceJobs(s)

Starts(x) ==
  \/ \E item \in WorkItem : \E result \in Result(item[1]) : ExecuteItem(x, item, result)
  \/ \E sources \in Batch : \E results \in Results(sources) : CallIngestion(x, sources, results)

Promotes(x) ==
  \/ RecordEvidenceLineageNodes(x)
  \/ \E i \in DOMAIN exec[x].batch : NodeFails(x, i) \/ LinkEvidenceLineage(x, i) \/ LinkFails(x, i)
  \/ AnalyzeEvidenceIndependence(x) \/ AnalysisFails(x)
  \/ PersistEvidenceClaim(x) \/ ClaimFails(x)
  \/ RecomputeClaimHypotheses(x) \/ RecordChangeImpact(x) \/ AssessmentFails(x)

Executes(x) ==
  \/ Starts(x)
  \/ PersistToPostgres(x) \/ PersistFails(x)
  \/ Promotes(x)
  \/ Ends(x) \/ Dies(x)

Next ==
  \/ \E s \in Scheduled : Schedules(s)
  \/ \E x \in Execution : Executes(x)
  \/ \E item \in WorkItem : Settle(item)

Spec == Init /\ [][Next]_vars
-----------------------------------------------------------------------------
(* Properties *)

Lineage == [kind: {"roots", "node"}, of: SUBSET Node]

RunStatus == {"completed", "parser_required", "auth_required", "blocked", "failed"}

Control ==
  {"idle", "fetched", "promoting", "linking", "claiming", "assessing", "assessed", "closing", "done", "failed"}

ExecutionOK(e) ==
  /\ e.pc \in Control
  /\ e.item \in WorkItem \cup {NoItem}
  /\ e.status \in Seq(Source \X RunStatus)
  /\ e.batch \in Seq(Node)
  /\ e.unlinked \subseteq DOMAIN e.batch
  /\ e.pc = "claiming" => e.next \in DOMAIN e.batch /\ e.lineages \in [DOMAIN e.batch -> Lineage]
  /\ e.affected \in BOOLEAN
  /\ e.seen \subseteq claims
  /\ e.clean \in BOOLEAN

\* Type invariant; the ends of an edge and the roots of a lineage are nodes on
\* record, and what an execution and an assessment have seen are claims on record.
TypeOK ==
  /\ policy \in [Scheduled -> [enabled: BOOLEAN, next: 0..MaxSlot]]
  /\ sourceRuns \subseteq [by: Execution, source: Source, status: RunStatus]
  /\ records \subseteq Execution \X Node
  /\ nodes \subseteq Node
  /\ edges \subseteq nodes \X nodes
  /\ claims \subseteq [by: Execution, node: Node, lineage: [kind: {"roots", "node"}, of: SUBSET nodes]]
  /\ impacts \subseteq [by: Execution, of: SUBSET claims]
  /\ \A x \in Execution : ExecutionOK(exec[x])
  /\ phase \in [WorkItem -> {"absent", "open", "completed", "dead"}]
  /\ tried \in [WorkItem -> SUBSET Queue!Outcome]
  /\ edits \in 0..MaxEdits
  /\ faults \in 0..MaxFaults

\* A claim is always traceable: its record and the completed run of its source
\* are committed and its evidence is a lineage node, whatever fails in between
\* (promoteRunsToIntelligence).
ClaimsTraceable ==
  \A c \in claims :
    /\ <<c.by, c.node>> \in records
    /\ [by |-> c.by, source |-> c.node[1], status |-> "completed"] \in sourceRuns
    /\ c.node \in nodes

\* Copies of a story served to one execution count as one lineage, in whatever
\* order they come and whatever links other executions add meanwhile: as long
\* as no failure was swallowed, no node goes back to itself, the execution has
\* no more records than an analysis looks at and the story is a clear one.
\* Copies that different executions were served are not compared.
CopiesShareLineage ==
  Acyclic(edges) =>
    \A x \in Execution :
      exec[x].clean /\ exec[x].pc # "failed" /\ Cardinality({r \in records : r[1] = x}) <= NodeLimit =>
        \A c, d \in {e \in claims : e.by = x} :
          StoryOf[c.node[2]] = StoryOf[d.node[2]] /\ Clear(StoryOf[c.node[2]]) => c.lineage = d.lineage

\* The claims of an execution that ended without a swallowed failure have been
\* assessed together, by an impact of its own, unless the assessment loaded as
\* many claims as it can.
ClaimsAssessed ==
  \A x \in Execution :
    exec[x].pc = "done" /\ exec[x].clean =>
      LET own == {c \in claims : c.by = x} IN
      own # {} => \E impact \in impacts :
                    impact.by = x /\ (own \subseteq impact.of \/ Cardinality(impact.of) = ClaimLimit)

\* Of a completed item some execution has a run of its source on record that
\* did not fail: the source has answered, unless its plan allows no request
\* (auth_required, blocked), when the item completes without one.
CompletedItemFetched ==
  \A item \in WorkItem : phase[item] = "completed" =>
    \E run \in sourceRuns :
      exec[run.by].item = item /\ run.source = item[1] /\ run.status \in Unfailed(item[1])
=============================================================================
