# Disha 6.6: TLA+ verification project

Disha (`src/web`, Next.js on Node with PostgreSQL and Redis) collects public
information, keeps it as hash-chained evidence, watches sources for changes and
puts what changed in front of analysts. This directory models the part of it
whose correctness depends on order, concurrency and failure: the durable work
queue, the evidence ledger, the ingestion of sources with the lineage of what it
finds, entity resolution, the change-impact pipeline with the analyst queue,
continuous OSINT watches, the adapter bus that polls sources, and missions with
the policy gate and the governed extensions. Paths below are relative to
`src/`; `U/` stands for `web/lib/unified/`, `X/` for `web/lib/extensions/`.

Run a check with `tlc -workers 2 -config MCWorkQueue_shared.cfg MCWorkQueue.tla`,
the proofs with `tlapm WorkQueueProofs.tla`.

## 1. Inventory

### The running system

| component | state | operations | talks to |
|---|---|---|---|
| durable work queue, `U/durable-workflow-store.ts` | `durable_work_items`: status, lease owner and expiry, `available_at`, attempts, unique `(workflow_type, dedupe_key)` | enqueue, lease, renew, complete, fail | schedulers and change impact enqueue; the executor leases |
| workflow executor, `U/workflow-executor.ts`, called over HTTP by `web/scripts/dynamic-worker.mjs` | the leased batch and the heartbeat of the current item, in memory | `processWorkflowTick` | work queue; runs watches, ingestion, activation |
| evidence ledger, `U/evidence-ledger.ts` | `evidence_events`, one hash chain per mission | append, list, verify | missions, watches, OSINT adapters append |
| scheduled ingestion, `U/scheduled-source-ingestion.ts` | `source_ingestion_runs`, `source_records` | run jobs, persist runs and records, promote the records to intelligence | safe fetch, lineage, entity resolution, contradiction engine, change impact |
| evidence lineage, `U/evidence-lineage.ts` | `evidence_lineage_nodes`, `evidence_lineage_edges` | record a node, infer and link, group nodes into lineages | called by ingestion and by an API route |
| dynamic source scheduler, `U/dynamic-source-scheduler.ts` | `dynamic_source_policies`, in memory or in a table | seed, tick, upsert | work queue |
| change impact, `U/change-impact.ts` | `intelligence_state_snapshots`, `intelligence_change_events` | `recordChangeImpact` | analyst review, work queue, graph |
| analyst review, `U/analyst-review.ts` | `analyst_review_queue`, `analyst_review_actions` | enqueue (upsert by dedupe key), update | opened by change impact, entity resolution, watches |
| intelligence activation, `U/intelligence-activation.ts` | `intelligence_activations` | run an activation, upsert it by id | work queue, mission memory |
| continuous watches, `U/continuous-osint.ts` | `continuous_osint_watches`, `continuous_osint_runs` | create, edit, delete, tick, execute | work queue, OSINT adapter bus, ledger, graph, analyst review |
| OSINT adapter bus, `U/osint-adapter-bus.ts` | one run: attempts, timeout, abort signal; per adapter and process: the time stamps of the last minute's requests | register, list, health, run an adapter | adapters (network); called by routes and watches |
| mission orchestrator, `U/orchestrator.ts`, and store, `U/mission-store.ts` | `missions`, `mission_results`, `mission_approvals`, `mission_analysis_snapshots` | `runMission`, which saves in one transaction | lenses, policy gate, ledger |
| agentic executor, `U/agentic-executor.ts` | the audit of model calls; the learning memory, in the process | `runAgenticMission`: a mission, its extensions, the model, what is learned | orchestrator, extensions, model, ledger |
| governed extensions, `X/runner.ts` and its stores | `extension_claim_records`, `extension_memory_records` | `runGovernedExtensions` | extensions, policy adapter, ledger |
| policy gate, `U/policy-gate.ts`, and its adapter, `X/policy-adapter.ts` | none: a cascade of rules; the strictest of several decisions | `evaluatePolicy`, `evaluateExtensionPolicy` | called by orchestrator and runner |
| entity resolution, `U/entity-resolution.ts` | `entity_resolution_decisions` | compare a candidate with the entities there are, decide, write it to the graph, ask for a review | called by ingestion and by an API route; graph, analyst review |
| intelligence graph, `U/intelligence-graph.ts` | `intelligence_entities`, `intelligence_entity_identifiers`, events and edges | upsert, enrich, find by identifier, list by type; upserts of events and edges by content hash | watches, ingestion, entity resolution, promotion of observations |
| contradiction engine, `U/contradiction-engine.ts` | `intelligence_claims` | upsert a claim, recompute the hypotheses about a subject | ingestion |
| sessions, OTP, rate limits, audit | Redis or memory | rotate, verify, count | HTTP routes |

`PROJECT.json` lists every component, the unmodelled ones (dashboards, model
routing, catalogs, the Python brain and services, legacy applications,
infrastructure) with the reason.

### How they interact

A scheduler tick inserts work items (`RunDueOsintWatches`); a worker polls
`/api/internal/workflows/tick`, whose handler leases a batch and runs it item by
item; an item runs a watch, an ingestion job or an activation. An ingestion
commits its runs and records, then, each step on its own, records lineage nodes and
resolves the entities of the records, links the nodes, groups them, stores a
claim per record, recomputes the intelligence state of each subject and calls
`recordChangeImpact`, which commits a snapshot and a change event and then
opens a review and enqueues an activation. A watch polls its adapter, records
the run, appends to the mission's ledger, and reports a change to graph and
analysts. A user's command becomes a mission: lenses answer, the gate decides, the
result is saved, and the agentic route goes on with extensions and model, leaving
an event in the ledger at each step. Analysts decide reviews while all this goes on. Nothing but the
database is shared between processes, and no transaction spans two components.

### Behaviours that are hard

* **Overlapping ticks.** The worker gives up on its HTTP call after 30 s and
  polls again; the first call still runs, under the same `DISHA_WORKER_ID`.
* **Leases of waiting items.** A batch is executed one item after another and
  only the current item's lease is renewed; the others may expire.
* **Read, then write.** Edits of a watch, executions of a watch and
  `recordChangeImpact` read a row in one statement and write from what they
  read in a later one.
* **Partial failure.** Commit first, then emit: an emission, a review or a work
  item may fail after the transaction it belongs to was committed, and the
  reply of a commit may be lost.
* **Swallowed failures.** Once the records are committed, the promotion catches every
  failure and goes on with what is left; the run counts as completed.
* **Compare, then write.** Entity resolution looks up identifiers one by one, lists
  entities, reads their identifiers one by one, decides, and writes an entity and
  its identifiers one by one, all without a transaction and beside other calls
  that do the same. Executions of the ingestion link the same lineage nodes.
* **Retries that compare with their own traces.** A watch retried after a throw
  compares with the output its failed execution already recorded.
* **Look, sleep, look again.** Runs of one adapter share a request budget; each
  computes how long to sleep and wakes up among others. Meanwhile timers,
  answers and the caller's abort signal race.
* **A long sequence without a transaction around it.** A mission with its
  extensions writes to eight tables and appends over a dozen events in as many
  transactions; any of them may fail, or commit and lose its reply, and two calls
  may carry the same mission id. A denial stops nothing by itself: each later
  stage has to notice it.
* **Conversions.** What is hashed and what is stored differ in `lensResults`.

Each is listed under `hazards` in `PROJECT.json` at the line where it bites,
with the properties that cover it or the reason why none does.

### What makes each component correct

* *Queue*: an item is settled once, completed only after a successful
  execution, given up only after a failed one; of concurrent executions one is
  the current one; a live lease is not disturbed; everything is settled in the
  end.
* *Ledger*: appends never make one another fail; the chain of a mission never forks, has no gap, is append-only;
  when it is read back, verification complains of nothing but undefined
  `lensResults`, and of every alteration anew.
* *Change impact and review*: queues never run ahead of the record and nothing
  material drops out of them; contention is always material; the audit trail
  explains every status.
* *Watches*: executions never undo what users configured; slots are neither
  skipped nor worked off twice; a completed slot has left what it promises;
  recorded changes are real and are reported with their evidence.
* *Ingestion and lineage*: a claim can be traced to its record, run and node
  whatever fails; copies of one story that an execution is served count once;
  reports that no chain of likeness connects do not collapse; what is claimed is
  assessed; a completed item has a run that did not fail.
* *Entity resolution*: a candidate is merged by name alone only where the comparison
  could not see it; an identifier on record is recognised and does not spread
  over entities unexplained; what is put aside is reviewed.
* *Adapter bus*: the budget of requests per minute holds whoever makes them; a
  run sleeps for a place only while there is none; a result counts the requests
  really made; a run whose caller is gone makes at most one more; every run ends.
* *Missions*: what is stored is of one call and backed by committed evidence; a
  response accounts for every extension; claims are only kept with a committed
  verdict that allows it; a committed denial leaves no extension event, claim,
  approval or learned memory, while the mission, its result and its audit remain.
* *Policy gate*: an extension is judged no more leniently than what it found and
  each action it proposes.

## 2. Modules

    AtLeastOnce   <----implements----  WorkQueue       <-- MCWorkQueue, WorkQueueProofs
         ^
         |  INSTANCE (the queue as watches and ingestion see it)
         +--- ContinuousWatch                          <-- MCContinuousWatch, ContinuousWatchProofs
         +--- SourceIngestion                          <-- MCSourceIngestion, SourceIngestionProofs
                   |
                extends EvidenceLineage

    EntityResolution                                   <-- MCEntityResolution, EntityResolutionProofs

    EvidenceLog   <----implements----  EvidenceLedger  <-- MCEvidenceLedger, EvidenceLedgerProofs

    ChangeImpact                                       <-- MCChangeImpact, ChangeImpactProofs

    OsintAdapterBus                                    <-- MCOsintAdapterBus, OsintAdapterBusProofs

    PolicyGate    <----extends-------  GovernedMission <-- MCGovernedMission, GovernedMissionProofs

Operators called "mutant" in the modules are the plausible slips the properties
were tried against; no specification uses them.

### WorkQueue: `U/durable-workflow-store.ts`, `U/workflow-executor.ts`, `web/scripts/dynamic-worker.mjs`

`work[i]` is the row of item `i` (one per `(workflow_type, dedupe_key)`),
`tick[t]` and `claim[t]` are the locals of one call of `processWorkflowTick`:
where it is, and which items it leased under which attempt number. `WorkerOf`
gives each call its worker id, so that calls may share one, as in the deployment. `tried` is a history
variable: the outcomes of executions that ended.

| action | code |
|---|---|
| `Enqueue` | `enqueueWorkflow`: insert, `on conflict do nothing` |
| `Lease`, `LeaseReplyLost` | `leaseWorkflows`: one transaction with `for update skip locked`, its limit and order; `attempts=attempts+1` |
| `StartItem`, `ExecuteEnds`, `Heartbeat` | the loop of `processWorkflowTick` and its renewal timer |
| `Complete`, `CompleteLeaseLost`, `CompleteError` | `completeWorkflow`, `workflow_lease_lost_before_completion`, a throwing statement or emission |
| `Fail` | `failWorkflow`: requeue with a backoff, or dead-letter |
| `Crash` | the process dies, or `failWorkflow` throws out of the tick |
| `ExpireOrphan`, `ExpireHeld`, `BackoffElapses` | the clock passes `lease_expires_at` or `available_at` |

Abstractions: a lease is expired or not and a row available or not, without a
clock. Not modelled: the in-process `Map` used without a database; a renewal
still in flight when its item ended (it finds a row it no longer owns, or one
that its own worker id leased again); items enqueued without a dedupe key, which
never meet a conflict.

`AtLeastOnce` is the promise of the queue to those who enqueue: `phase` (absent,
open, completed, dead) and `tried`. `KeepsPromise` states the refinement
(`PhaseOf` is the mapping).

### EvidenceLedger: `U/evidence-ledger.ts`

A call of `append` is a transaction in steps `Begin`, `Lock` (the advisory lock
of `hashtext(missionId)`; missions may collide), `ReadLast`, `Insert`, `Commit`;
`CommitReplyLost` and `Rollback` are its failures. `table[m]` is a mission's
rows in commit order. An event's payload is one value per call except
`lensResults`, whose trip through the database is not the identity
(`StoredLens`): most callers leave it undefined, and callers of every kind append to
one chain here. `ChainErrors` is the list of errors of `verifyEvidenceChain`, one for
each comparison (`Mismatch`) that fails, `VerifyEvidenceChain` its verdict,
`ListEvents` the listing. `HashValue` is any operator, of which only
`AlterationsAreDetected` assumes that no two values share a hash; TLC uses an
injective one.

`EvidenceLog` is the abstract log, and also what the memory store does in one
step.

### ChangeImpact: `U/change-impact.ts`, `U/analyst-review.ts`

One subject and predicate. A call goes through `Assess` (latest snapshot and
`assessMateriality`), `Persist` (snapshot and event in one transaction),
`EnqueueAnalystReview` and `EnqueueActivation`; `GiveUp` is the failure that
`promoteRunsToIntelligence` swallows. `UpdateAnalystReview` is the analysts'
update with its audit action. `Score` keeps every term and threshold of
`assessMateriality`, in integer hundredths. The code's floating-point sums of
these fall on the same side of its thresholds; a difference of two confidences need
not (0.9 - 0.8 is below 0.1), where the code may add up to 0.24 less. No property
depends on that. A state is the record `assessMateriality` looks at, the leader an
opaque value. The audit actions of a review are in the order of their commits; the
code takes their `createdAt` before it locks the row, so of two racing updates the
earlier commit may carry the later time. `SpecInTurn` (in MCChangeImpact) is the specification without
overlap: a call begins when no other is under way, and analysts decide between calls.

### ContinuousWatch: `U/continuous-osint.ts`, `U/workflow-executor.ts`

One watch. `watch` is its row, `runs` its runs in commit order, `exec[x]` an
execution's control state and the row it read (`seen`), `edit` an update between
its read and its write. The work items of the watch are its slots, the values
of `next_run_at`, that is the dedupe keys `watchId:scheduledFor`; `phase` and
`tried` are the variables of `AtLeastOnce`, whose actions the module conjoins to
its own (`Queue!Submit`, `Queue!RunEnds`, ...), so executions overlap exactly as
the queue allows.

| action | code |
|---|---|
| `CreateContinuousOsintWatch` | the upsert by watch id, with the settings asked for or their defaults (`Asked`): the earlier of both due times, results kept |
| `EditReads`, `EditWrites` | `updateContinuousOsintWatch`: what the patch omits is written back as it was read |
| `DeleteContinuousOsintWatch` | delete, with the runs by `on delete cascade` |
| `RunDueOsintWatches` | one watch of the scheduler tick: work item and next due time in one transaction |
| `ReadWatch`, `PollSource` | `runContinuousOsintWatch` up to the comparison of output hashes; an item leased earlier may start after it was settled |
| `PersistRunAndWatch`, `PersistRefused` | `persistRunAndWatch`; refused by the foreign key when the watch is gone |
| `AppendEvidenceEvent`, `RecordIntelligenceEvent`, `EnqueueAnalystReview`, `Ends` | the rest, in the code's order |
| `Fails` | a statement or an emission throws or the process dies |

`overlapped` is a history variable: whether two executions have been under way at
once. What is recorded is exact until then, and need not be afterwards.

Abstractions: time runs in whole intervals, jitter is part of the interval; one
edit is under way at a time; the promotion to the intelligence graph, whose
failure the code catches, changes no state of this module; the status of the
review it opens is the business of ChangeImpact.

### EvidenceLineage and SourceIngestion: `U/evidence-lineage.ts`, `U/scheduled-source-ingestion.ts`, `U/dynamic-source-scheduler.ts`

EvidenceLineage has the pure part: for each new node of a batch, sorted by
publication, the most similar earlier one, if its score reaches the threshold
(`InferredEdge`); the nodes without parents that a node goes back to (`Roots`, which
ends in cycles as `collectRoots` does); and the grouping of the first `NodeLimit`
nodes by shared roots, greedy and in order (`Lineages`, `Counted`); a node beyond the
limit has a lineage of its own (`LineageOf`). The score is that of equal contents or
of the titles, from any symmetric table: titles that nearly agree link too, and
likeness is not transitive. `StoryOf` is what a chain of likeness connects; a
story is `Clear` if all its reports are like each other. SourceIngestion is about the executions. `policy[s]` is the row of
`source_refresh_policies`; the other tables are sets of what they hold; `exec[x]` is
an execution's control state, the records it has left to promote, and `clean`, a
history variable: whether no failure of it was swallowed. `Plan[s]` is what the
registry says of a source: a run ends `auth_required` or `blocked` without any
request, and completes its item. Work items are the
values of the dedupe key `sourceId:scheduledFor`, as for watches.

| action | code |
|---|---|
| `UpsertDynamicSourcePolicy`, `RunDueSourceJobs` | a user's policy; the scheduler's transaction of work item and next due time |
| `ExecuteItem`, `CallIngestion` | `runScheduledSourceIngestion` up to the parsed records, for an item or for a call that names sources |
| `PersistToPostgres`, `PersistFails` | runs and records in one transaction; its failure is thrown, after a commit too |
| `RecordEvidenceLineageNodes`, `NodeFails` | the nodes; a record whose node fails is not promoted, and any number may fail |
| `LinkEvidenceLineage`, `LinkFails` | one statement per inferred edge; after a failure no more are linked |
| `AnalyzeEvidenceIndependence`, `AnalysisFails` | the lineages; a failure leaves each node its own |
| `PersistEvidenceClaim`, `ClaimFails` | one claim per record |
| `RecomputeClaimHypotheses`, `RecordChangeImpact`, `AssessmentFails` | the claims an assessment loads, up to `ClaimLimit` of them, and the assessment |
| `Ends`, `Dies`, `Settle` | the executor's view of the run, a death at any step, the queue's decision |

Abstractions: of the scores only their order and the threshold matter; the bonus for
equal source hashes is left out, since records of equal hash have equal contents.
Every record makes one claim and all claims are about one subject. Which claims the
limit cuts off is left open. The nodes of a
batch are recorded in one step, of which a death leaves any initial part. What
happens to entities and search documents on the way has no effect here.

### EntityResolution: `U/entity-resolution.ts`, `U/intelligence-graph.ts`

`entities` are the rows of the graph by canonical key, `identifiers` the rows of the
identifier table in the order of insertion, `decisions` and `reviews` go by
candidate, whose content is their id. `calls[x]` is a call's control state and
locals: the rows and identifiers it has read, and its decision, target and the
row it is going to write back. `seen`, the entities it was compared with, and
`begun`, how many identifiers there were when it began, are history variables.

| action | code |
|---|---|
| `Begin` | `resolveEntity`, `resolveAndUpsertEntity`, or an upsert that resolves nothing |
| `FindEntitiesByIdentifier`, `ListIntelligenceEntitiesByType`, `ListEntityIdentifiers` | one query each, in the code's order |
| `ResolveEntity` | `scoreEntityMatch` for each, the decision and its record |
| `GetIntelligenceEntity`, `PersistEntity` | the row is read, merged and written back in two statements |
| `AddEntityIdentifiers` | one statement per identifier |
| `Ends`, `EnqueueAnalystReview`, `ReviewFails` | the end of a call; an uncertain one asks for a review, whose failure is caught |
| `Fails` | a statement throws or the process dies |

`Score` keeps every term, cap and threshold of `scoreEntityMatch`, in
ten-thousandths; the share of agreeing attributes is rounded down to hundredths. Abstractions: names and identifiers are normalised, the token
similarity of names is a table, aliases do not reach their cap of 100. A list that
is cut at its limit may hold any entities of the type, since it is ordered by
times that callers provide. Promoted observations that bring an id of their own
make keys this module does not have; events, edges and the search projection are
left out.

### OsintAdapterBus: `U/osint-adapter-bus.ts`

The runs of one adapter. `run[r]` is where a call of `run` is, its attempt, the
time left of what it sleeps or waits for, and its outcome; `window` is
`adapterRequestWindows.get(id)`, shared by all bus objects of a process; `age`
says how long ago each request was made. `before` is a history variable: the
requests made when the caller aborted.

| action | code |
|---|---|
| `Begins` | a disabled adapter, a denied class, a signal aborted before the start |
| `Checked` | `health` and the policy check have answered or thrown; the first attempt |
| `AcquireRateLimit` | `acquireRateLimit` up to its return or its sleep, in one step: there is no await in between |
| `Wakes` | the end of that sleep, after which the window is looked at again |
| `Answers`, `Fails`, `TimesOut` | the adapter's promise against the timer of `withTimeout` |
| `Retries` | the end of the pause between attempts, and the next attempt |
| `Aborts`, `Hears` | the caller's signal, and the listener of `withTimeout` |
| `Passes` | one tick of time |

Abstractions: time is kept as ages and remaining delays, so that no clock needs
a bound; timers may fire late, never early. What a timed-out attempt answers
later is dropped by the code and changes nothing here. `health` and the policy
check are one await. The floor of 10 ms under a sleep is below a tick.

### PolicyGate: `U/policy-gate.ts`, `X/policy-adapter.ts`

Functions of a signal and the results of the lenses. `EvaluatePolicy` keeps every
rule, weight and threshold of `evaluatePolicy`, and the order in which the rules
apply; `EvaluateExtensionPolicy` is the strictest of the decisions on an analysis
and on each action it proposes: `MostRestrictive` is the code's reduce over
`decisionPriority`. What the gate looks for in a
text is a Boolean of the signal; fractions are percentages and the weighted score
is in ten-thousandths. Reasons, fallbacks and approver roles are left out.

### GovernedMission: `U/orchestrator.ts`, `U/mission-store.ts`, `X/runner.ts`, `U/agentic-executor.ts`

Calls with one mission id. `call[c]` is a call's control state and locals, `ledger`
the events committed to the mission's chain, and there is a variable for each
table a mission leaves rows in, and for the learning memory.

| action | code |
|---|---|
| `Begins`, `AppendsMissionEvent` | `runMission`: normalization, lenses, gate, and the six events in their order |
| `MissionReturns`, `EntersExtensions` | `saveMissionResult`; the caller is a mission route, or `runAgenticMission` |
| `Skips`, `Requests`, `AnalysisFails`, `Analyzes`, `Judges` | the loop of `runGovernedExtensions` up to the verdict |
| `Persists`, `PersistFails`, `PersistsClaims`, `ClaimsFail` | the extension's `persist`, and `persistExtensionClaims`; a failure may follow the commit |
| `RecordsFailure`, `RecordsResult` | the events that end an extension |
| `CompletesModel`, `Audits`, `AgenticReturns` | the model's event, its audit and `learnFromMission`, the last event |
| `Throws`, `SaveReplyLost` | a statement throws or the process dies, before or after its commit |

Abstractions: how appended events become one chain is EvidenceLedger's business,
so the ledger is a set. A save is one step, since its first statement locks the
mission's row. An extension answers any analysis of a set, or fails; why an
analysis is invalid is left out. A complete and a partial analysis of the lenses
are one event. Fusion and summaries are left out.

## 3. Runs

| run | result | what it shows |
|---|---|---|
| `queue_shared` | pass | ticks with one worker id, as deployed: attempt numbers still tell executions apart, attempts exceed `max_attempts` by no more than crashes and expiries, the queue implements `AtLeastOnce`, everything is settled in the end |
| `queue_stale` | violation | with one worker id a tick completes an item whose lease it lost (finding 1) |
| `ledger_chain` | pass | concurrent appends with faults, with and without `lensResults`: no fork, no gap, verification reports only the hashes of events without `lensResults`, and every alteration anew, append-only, no append stuck, and none that fails without a fault of its own |
| `ledger_persisted` | violation | an event appended without `lensResults` does not verify after persistence (finding 2) |
| `change_calls` | pass | overlapping calls and analysts: queues and record agree, contention is material, every status is audited |
| `change_pending` | violation | of calls one after the other, a material change back to a decided state puts nothing in the queue (finding 3) |
| `watch_overlap` | pass | two executions that may overlap, edits, a deletion, a failure: users' settings stay, slots are neither skipped nor worked off twice, a completed slot has its run, record and reports, changes are reported with their evidence; until executions overlap, recorded changes are exactly the changes and the row sums up its runs |
| `ingestion_runs` | pass | two overlapping executions, of an item or of a call over two sources, a failure or death at any step, an edit of the policy: claims are traceable, copies of a clear story share a lineage, claims are assessed, a completed item has a run that did not fail |
| `entity_calls` | pass | two overlapping calls of three on like names and shared identifiers, a failure or death at any statement: merges by name only of what was not compared, shared identifiers only in the listed ways, entities put aside and reviews agree |
| `mission_calls` | pass | two overlapping calls with one mission id and two extensions, either of which may fail at every statement: what is stored is of one call, responses account for every extension, verdicts are the strictest and are kept to, a denial leaves no extension event, claim, approval or learned memory |
| `mission_escalated` | violation | an escalated mission goes on to its extensions without a review (finding 4) |
| `adapter_runs` | pass | runs that compete for the budget, with timeouts, retries and aborts: the budget holds, results count their requests, an abort is obeyed, every run ends |

### Bounds, and why they are enough

* **Queue**: 2 items of different priority, 2 ticks, 2 attempts, batches of at
  most 2, 1 fault, 2 expiries of held leases. Two of each is what every race
  needs: one item waiting while the other is executed, a lease taken over by the
  other tick, a retry and a dead letter. The second expiry lets a take-over be
  followed by another. The safety properties are proved without these bounds.
* **Ledger**: 3 calls (one appends while two wait), 2 missions, 1 fault; every
  distribution of the calls over the missions and every choice of lenses, the
  undefined among them, is an initial state. `ledger_persisted` has colliding lock keys.
* **Change impact**: 3 overlapping calls, 2 retrieval times, 2 actions per
  review, 1 fault, and two states: an undisputed single-source one and a
  disputed one. They go from uncontested to contested and back, which separates
  the materialities; the proofs cover all states and scores. `change_pending` has 3
  calls at 3 times, one after the other, and no fault.
* **Watch**: 2 executions, 2 edits or creations, 1 deletion, 1 fault, a clock of 2
  instants with an interval of 1, 2 outputs. The patches switch the watch off,
  quieten it, or make it due at once, each omitting the other settings. 2.5 million
  states. `ChangesExact` and `RowSumsUpRuns` hold
  until executions overlap; two of them in turn are a failed or successful poll
  and a change after it, and the theorems cover any number. Executions are
  interchangeable, so symmetry under their permutation is sound; the only
  temporal formulas of this run are action properties that quantify over none
  of them.
* **Ingestion**: 2 executions that may overlap; 3 sources: one with a policy with
  one due time, one only calls may name, and one with a policy whose plan allows no
  request; 3 reports, two of one story, published one after the other,
  and another one whose title has words in common with theirs; a call over two
  sources, and several listings in either order; 1 fault, 1 edit (the policy is made
  due again at a used time). An analysis looks at 3 nodes, which a call with four records
  exceeds, and an assessment loads up to 6 claims, which two executions exceed.
  Two executions link the same nodes in opposite orders, and one may read between
  the other's statements; three reports make a lineage of two and one apart.
  Executions are interchangeable, and all properties are invariants. 2.3 million
  states, the longest of the runs (two minutes).
* **Entity resolution**: 3 calls of which 2 overlap, 1 fault, 2 names that share a
  token, 2 identifiers, the default thresholds, and lists of at most 1 or 2
  entities in place of 500, so that a list can be cut. The third call meets what two
  overlapping ones have left, in particular two entities that share an identifier. The
  requests include an upsert that resolves nothing and a resolution that writes
  nothing. Calls are interchangeable, and all properties are invariants.
* **Adapter bus**: 2 runs of 3 attempts each, a budget of 2 requests in a minute
  of 4 ticks, a timeout of 2, pauses of 1 and 2. Each run can exhaust the budget
  alone or share it, wake together with the other, and be aborted in every
  state; a timeout is shorter and both timeouts and pauses together are longer
  than the minute, so that places become free during a run. Without symmetry,
  since `EveryRunEnds` is a liveness property.

* **Missions**: 2 calls, 2 extensions in registry order, of which one persists; a
  quiet and an offensive signal, a sure and an unsure reading of the lenses, an
  analysis with a harmless action and one that hides an offensive action behind
  it. Two calls suffice for one to overwrite or outlive the other, two extensions
  for one to fail after the other. Faults have no bound: each call may throw at
  every step and lose every reply. The two calls are interchangeable, and no
  property is temporal, so symmetry is sound.

Deadlock is checked in `adapter_runs`, where time never stops, and not in the
others: with all counters used up, and all items settled, the
system is at rest, which is what it should be.

### Fairness

`queue_shared` assumes weak fairness of every tick's steps and of the clock.
The worker loop polls for ever; an execution returns since adapters, fetches
and statements carry timeouts; time passes. No strong fairness is needed:
a tick that is idle stays able to lease as long as something is eligible. Crashes
and expiries of held leases are finitely many: `leaseWorkflows` does not look
at `max_attempts`, so an item that kills its worker every time is leased for
ever; `AttemptsWithinBudget` says that each attempt beyond `max_attempts` takes
such a death or expiry. `ledger_chain` assumes that the database answers every statement that can
proceed. `adapter_runs` assumes that time passes, that timers which are due
fire, and that `health` answers, which carries no timeout of its own; the adapter
may stay silent for ever, since the timer of `withTimeout` ends the attempt.

## 4. Proofs

Definitions that only the proofs need (the parts of the inductive invariants, and
properties that no run lists) are in the `*Proofs` modules.

| module | theorems |
|---|---|
| `WorkQueueProofs` | `InductiveInvariant`, `TypeCorrect`, `AttemptsIdentifyLeases`, `NoSpentItemQueued`, `AttemptsStayWithinBudget`, `SettledStaysSettled`, `NoItemEverStuck`, `QueueKeepsPromise`; on who owns a lease `HolderOwnsItsLease`, `LeaseProtects`, `ReleaseNeedsSameWorker` |
| `EvidenceLedgerProofs` | `InductiveInvariant`, `TypeCorrect`, `ChainsLinked`, `NewestReadIsCurrent`, `AppendsFailOnlyByFaults`, `PersistedEventsVerify`, `AlterationsAreDetected`, `LedgerImplementsLog` |
| `ContinuousWatchProofs` | `InductiveInvariant`, `TypeCorrectness`, `ReviewsAreBacked`, `ChangesAreReported`, `CompletionsAreBacked`, `RecordedChangesAreExact`, `RowAgreesWithRuns`, `UsersConfigure`, `SlotsSettleOnce`, `SlotsAreNotSkipped`; of the queue `QueueTakesEveryEnd`, `WatchKeepsToPromise` |
| `SourceIngestionProofs` | `InductiveInvariant`, `TypeCorrect`, `ClaimsAreTraceable`, `CleanClaimsAssessed`, `CompletionMeansFetched`, `StoriesNeverCollapse`, `CopiesCountOnce`; of the queue `QueueTakesEveryEnd`, `IngestionKeepsToPromise` |
| `EntityResolutionProofs` | `InductiveInvariant`, `TypeCorrectness`, `KeyNamesAreKept`, `IdentifiersAreRecognised`, `NewMergesOnlyUnseen`, `SharedIdentifiersAreExplained`, `PutAsideIsReviewed` |
| `ChangeImpactProofs` | `InductiveInvariant`, `TypeCorrect`, `StatusIsAudited`, `FollowUpsAreRecorded`, `MaterialChangesFollowedUp`, `ContentionRecordedAsMaterial` |
| `OsintAdapterBusProofs` | `Invariance`, `TypeCorrect`, `BudgetIsKept`, `NoIdleSleep`, `ResultsCountRequests`, `AbortsTakeEffect` |
| `GovernedMissionProofs` | of the gate `AllowedOnlyWhenClear`, `WorseResultsNoMoreLenient`, `ActionsNoMoreLenient`, `VerdictIsStrictest`, `SignalDenialStands`, `MoreActionsNoMoreLenient`; of missions `InductiveInvariant`, `TypeCorrect`, `StoredMissionsAreBacked`, `ClaimsAreBacked`, `DenialsLeaveNothing`, `ResponsesAreBacked`, `ResultsAreGoverned`, `OutcomesAreExplained` |

**Queue.** `ClaimsDistinct` is not inductive: a tick could hold a claim above
the row's attempts, which the next lease would then hand out a second time.
`IInv` adds `ClaimsBounded` (no claim exceeds the row's attempts) and
`TickControl` (the program counter of a tick agrees with its claims and with
`tried`); the latter is also what makes a completion imply a successful
execution, hence the refinement. Most actions touch a row in one of few ways,
so the lemmas `RowStep`, `ControlStep` and `ReleaseStep` treat them by shape; for
the action properties `NextShape` says that each step leaves an item quiet,
leases it, or settles it. `AttemptsStayWithinBudget` needs two more parts: the
holder of the current attempt of a leased row is its owner, even among ticks
that share a worker id (`HolderOwns`), and a row that can be taken over has not used up
what deaths and expiries owe it (`Budget`). Three theorems say what ownership is worth
with worker ids shared by any of the ticks: the holder of the current attempt
owns its row (`HolderOwnsItsLease`), so its heartbeat and its completion are not
refused; a live lease is disturbed by nobody of another worker id (`LeaseProtects`);
and whoever completes, buries or requeues a leased item is executing it under the worker id of the
latest lease (`ReleaseNeedsSameWorker`). `queue_stale` shows that no more is true: a
tick of the same worker id does complete what it lost. No run checks these three,
`NoSpentItemQueued` and `SettledStaysSettled`, since the proofs cover them.

`NoItemEverStuck` is the part of `EventuallySettled` that is a safety property: an
unsettled item always has something that can still happen for it. Its backoff or
its orphaned lease runs out, or some tick can go on, or lease a batch. It holds for
any number of items, faults and expiries and assumes only that there is a tick.
Two facts carry it. A tick between two items has one to go on with
(`ProgressInv`), so no lease is held by a tick at rest. And where there is a candidate
there is a batch (`BatchExists`): the items with a row are finite in number, so the best
of them, up to the limit, exist; they are found one at a time, each the `Highest` of
those left. What the theorem leaves to TLC is that fair ticks do take these steps.

**The queue and its users.** `AtLeastOnce` is implemented by WorkQueue
(`QueueKeepsPromise`), and what watches and ingestion do with it is a behaviour of it
(`WatchKeepsToPromise`, `IngestionKeepsToPromise`), so the composition rests on the
promise alone. It blocks nothing either: `RunEnds` asks that the item be known, and it
is, wherever an execution ends (`QueueTakesEveryEnd`).

**Ledger.** That chains do not fork follows from `ReadStaysNewest`, which needs
`LockExclusive`: what a transaction read is still the newest row while it holds the
lock, because whoever else commits to that mission would hold it too. Hence the place an
append computes is free when it inserts (`IndexIsFree`), the unique index refuses
nobody, and every failed append had a fault of its own (`AppendsFailOnlyByFaults`,
by counting: `FailureStep` says that a step adds a failed append exactly if it adds a fault).
Both theorems on verification hold whatever callers pass for `lensResults`. They rest on
`RowsAuthentic`: a row carries the hashes of what its caller passed and differs
from it at most in undefined `lensResults`. `PersistedEventsVerify` then says that
verification reports of a stored chain at most the two hashes of events whose caller
left them undefined, and assumes nothing of the hash function. `AlterationsAreDetected`
assumes that no two values share a hash: then a stored hash stands for one event at
one place, and each of the `Alterations` breaks a hash or a link that was whole
(`MisplacedIsReported`, `RewrittenHash`). Of events that are reported already, a
rewrite that leaves the hashes alone is not told from the report, so it is not among the
alterations. That a listing is in the order of
the chain (`ListEvents` sorts by sequence) is proved with `Smallest`: a strictly
increasing map of an initial segment of the numbers onto itself is the identity. The
refinement to `EvidenceLog` maps a chain to the calls whose events it holds.

**Watches.** The inductive invariant ties an execution's control state to what it
has left behind (`Trail`: its evidence, its event, its review), says that runs are
of executions that got past recording them, and that an output is not forgotten
before the watch is deleted. The theorems on slots follow from the abstract queue's
actions. `CompletionsAreBacked` joins the two sides: the queue counts a slot as completed only if
an execution of it ended successfully, and an execution ends so only past all of its steps. `RecordedChangesAreExact` and `RowAgreesWithRuns` hold until executions overlap
or the watch is deleted (`InTurn`): until then there is one execution at a time and
what it read stays true of the row while it polls (`ReadStaysTrue`), which is
just what overlapping executions break.

**Ingestion.** `IInv` has four parts per execution: the form of its locals, that its
batch comes from completed runs (`BatchOK`), that what it works on is on record
(`StoredOK`), and how far its claims are assessed (`AssessedOK`). That the records of
several sources come from the completed ones is a fact about `FlattenSeq`, a
recursive function of the community modules; it is proved by taking the smallest
place where it fails (`Smallest`), since the library's induction theorems cannot be
used. The theorems hold for all listings, plans, scores and limits.

`StoriesNeverCollapse` and `CopiesCountOnce` rest on what the recursions of
EvidenceLineage compute. A story is the least set closed under likeness, so an
edge stays within one (`AlikeMeansStory`, `SimilarMeansStory`) whatever the scores are.
`Roots` is defined on every finite set of edges, since each
step of a path takes a node off those still ahead (`CollectDefined`); its values are
nodes that the node goes back to, hence of its story (`RootsOfStory`), and without
cycles they are exactly the nodes without parents (`RootsAreTops`). In a `Clear`
story each copy of a batch links to an earlier one and goes back to the earliest of
them (`CopiesMeet`), so copies share a root, and
the greedy grouping of `Lineages` has one group per clear story (`LineagesGrouped`,
`OneGroupPerStory`). That every node of a batch is in a group takes that the batch
has no more nodes than the limit (`Few`, `InSomeGroup`). `LineageInv` then says, per
execution, which edges are there
(`LinkedOK`) and that the claims follow the lineages (`CopiesOK`); links of other
executions only add edges within stories, which is all these lemmas assume of edges.
`StoriesNeverCollapse` needs none of these conditions, but says less than its name
may suggest: a chain of nearly equal titles does collapse what its ends do not share.
`TypeCorrect` adds `StateTypes`, the sets the rest of the state is from.

**Entity resolution.** `ScoreFacts` is the arithmetic: a shared identifier scores at
least 9400, an exact name at least 8600, and only two shared identifiers score above
9900. Per call, `IInv` says what stays true of what it has read (`ReadOK`: entities are
never deleted, and identifiers that were there when the call began are among
those read), that the holders of the identifiers looked up so far were read
(`LookedUpOK`), what its decision implies (`DecidedOK`) and what it has
written (`WrittenOK`). These parts only get weaker as the graph grows, so
`CallKept` deals with all other calls at once. `KeyNameKept`, that no lost update takes away
the name an entity was created under, is what makes an entity of the
candidate's name score 8600 whenever it is read. The conclusions about decisions
assume `Careful` thresholds (review at most 0.86, delta above 0.05), as the defaults are.
`TypeCorrectness`, `KeyNamesAreKept` and `IdentifiersAreRecognised` are about
properties that no run lists.

**Change impact.** `IInv` adds `EventsOfCalls` (an event is what its call assessed),
`FollowingUp` (a call past its commit has left its event and review) and
`NoActionWithoutReview`. `ContentionRecordedAsMaterial` is arithmetic over the
cascade of `Score`: first contention adds 38 to at least 18, whatever the rest
does.

**Adapter bus.** `IInv` has a part for the budget (`WindowInv`: every request of the
last minute is still in the window, which is what trimming by age must not
break), for the count (`CountInv`: the requests made are an initial segment that
ends with the current attempt), for aborts (`AbortInv`) and for sleeps (`SleepInv`:
when a sleeping run wakes, the requests that filled the window at its start have
not expired earlier). The theorems hold for every number of runs, limit and delay.

**Missions.** The theorems on the gate are about its functions, for every signal,
lens result and analysis. `AllowedOnlyWhenClear` reads the cascade backwards from its
last rule. `WorseResultsNoMoreLenient` says in which sense the cascade is monotonic in
what the lenses report; its one exception, a result without evidence, is the code's
(section 5), and without it the theorem is false. In `ActionsNoMoreLenient`, a proposed action,
judged with the signal it changes, never falls behind the analysis it comes from,
because the action's risk only raises the score and every rule that applied still
applies. `VerdictIsStrictest` is about the reduce as the code makes it: one step of it
selects one of two decisions by their priorities, no more lenient than either
(`StricterSelects`), and so does the whole (`MostRestrictiveIsMaximal`);
`SignalDenialStands` and `MoreActionsNoMoreLenient` follow. The inductive invariant has three parts per call: `Controlled` (locals
are set once the control state needs them), `Evidenced` (the events a call believes
to have appended are in the ledger, and its verdict allows what it is about to keep)
and `DenialInv`, the reason why a denial leaves no claim, approval or memory: before it saves, a call has
left nothing but events of its own, and once its denial is committed it remembers it
as long as it goes on. `StepOf` says what every step of a call has in common, and
`OthersUndisturbed` that such a step leaves the other calls' parts alone; steps are
then treated by shape (`EmitStep`, `LateEmitStep`, `LocalStep`, `SaveStep`,
`KeepStep`). The gate enters the state proofs only through `VerdictIsStrictest`:
whatever it decides, it is a decision. `ResponsesAreBacked` adds three parts, each
stated over the extensions the call has `Before` it and `After` it: what it kept
(`KeptInv`), that its events are those it lists (`EventsKnown`), and how each
outcome came about (`OutcomeInv`); `ResultsAreGoverned` and `OutcomesAreExplained`
follow.

The assumptions `WorkQueueAssumption`, `EvidenceLedgerAssumption`,
`ChangeImpactAssumption`, `ContinuousWatchAssumption`, `EvidenceLineageAssumption`,
`SourceIngestionAssumption`, `OsintAdapterBusAssumption`,
`GovernedMissionAssumption` and, of EntityResolution, `NamesAssumption`,
`CandidateAssumption`, `PolicyAssumption` and `CallsAssumption` only bound the constants
as the code does.

**Only model-checked**: the liveness properties `EventuallySettled`, `AppendEnds` and
`EveryRunEnds`, since liveness under fairness is outside the prover's fragment (of the
first, `NoItemEverStuck` proves the part that is a safety property). Every other property of a passing run is also proved.

## 5. Findings

1. **A lost lease goes unnoticed** (`queue_stale`).
   `U/workflow-executor.ts:16` means to report
   `workflow_lease_lost_before_completion`, but `completeWorkflow` recognises a
   lease by its owner alone, and the deployment has one worker id for
   overlapping calls. Comparing `attempts` would settle it: `ClaimsDistinct`
   holds in any case.
2. **Events without `lensResults` break their chain** (`ledger_persisted`).
   The hash is taken without the field, the row is stored with `[]` and read
   back with `[]`.
3. **A decided review swallows a new material change** (`change_pending`).
   `docs/production/CONTINUOUS_INTELLIGENCE.md:14` promises a review item for every
   material change; the upsert leaves a resolved or dismissed row alone. The run lets
   no calls overlap.
4. **An escalated mission does not wait** (`mission_escalated`).
   `docs/internal/security/POLICY_GATE.md:11` says "human review is required before
   continuing"; only `DENY` stops the extensions, and nothing stops model and
   learning.

Observations that no document contradicts, and that therefore are not runs:
overlapping `recordChangeImpact` calls compare with an older snapshot than the
last one; after a failed call a replay finds the state unchanged and queues
nothing; of two racing edits of a watch one is lost; an overlapping execution
can put an older output of a watch back, after which the next poll reports a
change; an execution begun before a watch was deleted and created again records
its run in the new one, and may set its `last_changed_at` although the new watch
never had an output; `String(next_run_at)` drops milliseconds, so two
due times within a second have one dedupe key. A run of the adapter bus that is
aborted while it sleeps for the budget does not notice: it makes the request and
may report it as completed. With runs arriving without end, a run that sleeps for the
budget may find each place taken when it wakes; `EveryRunEnds` is about finitely many
runs. A request that timed out is not cancelled and runs on
beside its retry. The budget is per process. `new Date(String(row.recorded_at))`
(`web/lib/extensions/extension-claim-store.ts:109`, `web/lib/extensions/memory-graph-store.ts:93`)
drops milliseconds before a hash over them is recomputed; so far only tests call
these functions. A ledger event whose `lensResults` were left undefined is reported in
any case, so the report does not tell whether it was rewritten as well. Of two racing
updates of a review, the audit action that comes later may carry the earlier time.

Of missions: a call that repeats a mission id keeps the first call's `raw_input`
and leaves the approvals of earlier calls pending. `SANDBOX_ONLY` for low trust
comes before the rules that escalate. An extension's sure result can raise the
average confidence over the threshold below which the gate asks, so a verdict can
be more lenient than the mission's own decision. The rule for results without
evidence comes before the rule that escalates two high findings
(`U/policy-gate.ts`): with a score below 0.55 and lens risks below 0.55, one result
without evidence turns that escalation into a request for confirmation. When all lenses fail, the gate
decides as if nothing spoke against the mission. The stored result lists the six
events of `runMission`; those of the extensions are only in the response. An
extension whose claims could not be kept leaves its memory records. What is
learned is kept before its event is appended.

Of ingestion, one observation that a document does speak of: a link is inferred within a
batch, so copies of one story that come in different executions count as independent,
whereas `docs/production/CONTINUOUS_INTELLIGENCE.md:9` says that "Evidence lineage
collapses derivative reporting so repeated publication does not become false
corroboration" and `docs/production/INTELLIGENCE_DEPTH_V2.md:12` that repeated copies of one
report do not masquerade as independent corroboration. Neither names a scope, and
within an execution it is so (`CopiesShareLineage`). It has no run of its own: nothing in
the code looks beyond a batch, and any two executions in a row show it.

No document contradicts the rest. A chain of nearly equal titles, each like the next,
collapses reports whose ends have nothing in common. Beyond 500 nodes each copy has a
lineage of its own, and beyond 2000 claims an assessment does not see those updated longest ago. An
item whose source needs credentials or is blocked completes without a request. Two executions that publish the same
nodes in different order can link each of two nodes to the other; both then count as
roots of their own. Comments call what a failed promotion leaves undone "replayable"
(`U/scheduled-source-ingestion.ts:376`), but nothing replays it. Since the hash of a
record includes the time of its retrieval, each fetch of unchanged content makes new
records and claims. The id of a leading hypothesis is a hash over its claims, so a
corroborating claim changes it. Seeding the policies of new sources may overwrite a
policy that a user has just made. The activation queued after a change is stored
under an id that hashes its retrieval's provenance (`U/intelligence-activation.ts`),
which includes the time it was generated: its upsert never meets an earlier row of
its own, so each execution of the item leaves a row of its own, and a search
document with it.

Of entity resolution: the test at `web/tests/intelligence-depth.test.ts:35` has one call
after the other, of which the second is not merged silently for its exact name alone, and
`docs/production/INTELLIGENCE_DEPTH_V2.md:8` says that
uncertain candidates remain separate. Both are true
of what is compared. Two calls with one new name that overlap do merge into one
entity, and so does a candidate whose namesake lies beyond the list of 500, or any under a
configuration with a review threshold above 0.86 (`NewMergesUnseen` is about the
others). Neither text speaks of these. Of two calls that enrich one entity, one
loses its aliases and attributes. The id of a decision includes the time of observation, so a
candidate known by name alone makes a new unresolved entity and a new
review each time it is fetched. An uncertain candidate's entity keeps its
identifiers, so later candidates with one of them are ambiguous too. Three identifiers
of one entity outweigh one of another. Identifiers are looked up across types.

## 6. Plan

In this order; each with a module of its own, an MC module, and mutants.

1. *Done*: WorkQueue, AtLeastOnce; EvidenceLedger, EvidenceLog; ChangeImpact;
   ContinuousWatch and SourceIngestion on top of AtLeastOnce; EvidenceLineage;
   EntityResolution; OsintAdapterBus; PolicyGate and GovernedMission; proofs
   about each.
2. **Sessions**: rotation and one-time codes with two clients of one session.
3. **Contradiction engine**: the hypotheses over a set of claims as a function,
   checked against a reference definition.
4. **Activation** is not planned: its rows never meet (section 5), so there is no
   interleaving to check.

## 7. Not modelled, and why

The in-memory stores, used when no database is configured, are not modelled,
except the ledger's, which is EvidenceLog. Dashboards, catalogs and routes
keep no state of their own. Model routing and adapters are calls whose answers
are opaque. Parsers, safe fetch and the Python services are input and output.
What the contradiction engine computes from the claims it loads, the events and
edges of the graph (upserts by a content hash), retrieval over search documents,
runtime events and the routes' rate limits are left out; where one of their statements
may fail in the midst of a modelled operation, that failure is modelled.
`disha/legacy-root-src`, `disha/apps`, `disha/mobile` and vendored integrations
are not part of the running system; they are most of the repository's lines,
which is why the modelled share of all lines is small. What remains is in
the plan.
