--------------------------- MODULE ContinuousWatch ---------------------------
(***************************************************************************)
(* One continuous OSINT watch (continuous-osint.ts): its configuration row *)
(* and schedule, the work items the scheduler puts in the durable queue,   *)
(* and the executions of these items, which poll a public source, record   *)
(* the run and report a change of its output.                              *)
(*                                                                         *)
(* Users create, edit and delete the watch while the scheduler ticks and   *)
(* executions are under way; an edit reads the row and writes it back, an  *)
(* execution reads it once and uses it to the end.  The queue is taken at  *)
(* its word: the actions on work items are those of AtLeastOnce, which     *)
(* WorkQueue implements, so that executions of one item may overlap.       *)
(***************************************************************************)
EXTENDS Integers, Sequences, FiniteSets, SequencesExt

CONSTANTS
  Output,      \* hashes of what the source may return
  NoOutput,    \* no hash: nothing was returned, or nothing yet
  Patch,       \* settings users may ask for
  Execution,   \* executions of work items
  NoWatch,     \* the row does not exist
  Never,       \* last_changed_at of a watch that has not changed
  Interval,    \* interval_seconds with its jitter
  MissionBound, \* whether the watch has a mission
  Workers,     \* bound: executions that overlap
  MaxTime,     \* bound: the clock
  MaxEdits,    \* bound: creations and edits
  MaxDeletes,  \* bound: deletions
  MaxFaults    \* bound: executions that throw or die

ASSUME ContinuousWatchAssumption ==
  /\ Patch \subseteq [enabled: BOOLEAN, review: BOOLEAN, next: 0..MaxTime + Interval,
                      omits: SUBSET {"enabled", "review", "next"}]
  /\ NoOutput \notin Output
  /\ Interval \in Nat \ {0}
  /\ MissionBound \in BOOLEAN
  /\ Workers \in Nat \ {0}
  /\ MaxTime \in Nat
  /\ Never \notin 0..MaxTime
  /\ NoWatch \notin [enabled: BOOLEAN, review: BOOLEAN, next: 0..MaxTime + Interval,
                     last: Output \cup {NoOutput}, changedAt: 0..MaxTime \cup {Never}]
  /\ MaxEdits \in Nat
  /\ MaxDeletes \in Nat
  /\ MaxFaults \in Nat

VARIABLES
  watch,     \* the row of continuous_osint_watches
  runs,      \* its continuous_osint_runs, in commit order
  events,    \* executions whose change is an intelligence event
  evidence,  \* executions recorded in the mission's evidence ledger
  reviews,   \* outputs with an analyst review (its status: ChangeImpact)
  exec,      \* exec[x]: control state and locals of an execution
  edit,      \* the edit under way
  phase,     \* phase[s]: the work item of slot s, seen from outside the queue
  tried,     \* tried[s]: the outcomes of its executions that ended
  now,       \* the clock
  edits,     \* creations and edits so far (bounded by MaxEdits)
  deletes,   \* deletions so far (bounded by MaxDeletes)
  faults,    \* faults so far (bounded by MaxFaults)
  overlapped \* whether an execution has begun while another was under way

vars == <<watch, runs, events, evidence, reviews, exec, edit, phase, tried, now, edits, deletes, faults, overlapped>>

Slot == 0..MaxTime + Interval
Time == 0..MaxTime

\* Slots stand for the dedupe keys watchId:scheduledFor.
Queue == INSTANCE AtLeastOnce WITH Item <- Slot

NoEdit == [pc |-> "idle"]

Init ==
  /\ watch = NoWatch
  /\ runs = <<>>
  /\ events = {}
  /\ evidence = {}
  /\ reviews = {}
  /\ exec = [x \in Execution |-> [pc |-> "idle"]]
  /\ edit = NoEdit
  /\ Queue!Init
  /\ now = 0
  /\ edits = 0
  /\ deletes = 0
  /\ faults = 0
  /\ overlapped = FALSE

Passes ==
  /\ now < MaxTime
  /\ now' = now + 1
  /\ UNCHANGED <<watch, runs, events, evidence, reviews, exec, edit, phase, tried, edits, deletes, faults, overlapped>>

-----------------------------------------------------------------------------
(* Configuration *)

Edits ==
  /\ edits < MaxEdits
  /\ edits' = edits + 1

Earlier(s, t) == IF s < t THEN s ELSE t

\* What a request asks for a setting, or what holds if it omits it.
Asked(patch, setting, otherwise) == IF setting \in patch.omits THEN otherwise ELSE patch[setting]

\* A new watch is enabled, reviewed and due at once unless asked otherwise.  One
\* that exists takes these settings too, but keeps its results and the earlier
\* of the two due times.
CreatedRow(patch) ==
  LET enabled == Asked(patch, "enabled", TRUE)
      review == Asked(patch, "review", TRUE)
      next == Asked(patch, "next", now)
  IN  IF watch = NoWatch
      THEN [enabled |-> enabled, review |-> review, next |-> next, last |-> NoOutput, changedAt |-> Never]
      ELSE [watch EXCEPT !.enabled = enabled, !.review = review, !.next = Earlier(@, next)]

CreateContinuousOsintWatch(patch) ==
  /\ Edits
  /\ watch' = CreatedRow(patch)
  /\ UNCHANGED <<runs, events, evidence, reviews, exec, edit, phase, tried, now, deletes, faults, overlapped>>

\* updateContinuousOsintWatch: read the row, then write back every setting,
\* those of the read row that the patch omits included.
EditReads(patch) ==
  /\ Edits
  /\ edit = NoEdit
  /\ watch # NoWatch
  /\ edit' = [pc |-> "writing", enabled |-> Asked(patch, "enabled", watch.enabled),
              review |-> Asked(patch, "review", watch.review),
              next |-> Asked(patch, "next", watch.next)]
  /\ UNCHANGED <<watch, runs, events, evidence, reviews, exec, phase, tried, now, deletes, faults, overlapped>>

EditWrites ==
  /\ edit.pc = "writing"
  /\ edit' = NoEdit
  /\ watch' = IF watch = NoWatch THEN NoWatch
              ELSE [watch EXCEPT !.enabled = edit.enabled, !.review = edit.review, !.next = edit.next]
  /\ UNCHANGED <<runs, events, evidence, reviews, exec, phase, tried, now, edits, deletes, faults, overlapped>>

\* The runs go with the row they reference.
DeleteContinuousOsintWatch ==
  /\ deletes < MaxDeletes
  /\ deletes' = deletes + 1
  /\ watch # NoWatch
  /\ watch' = NoWatch
  /\ runs' = <<>>
  /\ UNCHANGED <<events, evidence, reviews, exec, edit, phase, tried, now, edits, faults, overlapped>>

-----------------------------------------------------------------------------
(* runDueOsintWatches *)

Due == watch # NoWatch /\ watch.enabled /\ watch.next <= now

\* Mutants of EnqueueSlot: a settled item is queued again, or the dedupe key
\* of an item is taken for the clock instead of the slot.
EnqueueSlotRequeues(slot) == phase' = [phase EXCEPT ![slot] = "open"] /\ UNCHANGED tried
EnqueueSlotOfNow(slot) ==
  IF phase[now] = "absent" THEN Queue!Submit(now) ELSE UNCHANGED <<phase, tried>>

\* on conflict (workflow_type, dedupe_key) do nothing
EnqueueSlot(slot) ==
  IF phase[slot] = "absent" THEN Queue!Submit(slot) ELSE UNCHANGED <<phase, tried>>

\* The item and the next due time, at least an interval ahead, are committed
\* together.
RunDueOsintWatches ==
  /\ Due
  /\ EnqueueSlot(watch.next)
  /\ watch' = [watch EXCEPT !.next = now + Interval]
  /\ UNCHANGED <<runs, events, evidence, reviews, exec, edit, now, edits, deletes, faults, overlapped>>

-----------------------------------------------------------------------------
(* runContinuousOsintWatch *)

Active == {x \in Execution : exec[x].pc \notin {"idle", "done", "failed"}}

\* An execution reads the watch once, possibly when its item, leased before,
\* is settled by now.  It throws if there is none or it is disabled.
ReadWatch(x, slot) ==
  /\ exec[x].pc = "idle"
  /\ Cardinality(Active) < Workers
  /\ phase[slot] # "absent"
  /\ overlapped' = (overlapped \/ Active # {})
  /\ IF watch # NoWatch /\ watch.enabled
     THEN /\ exec' = [exec EXCEPT ![x] = [pc |-> "polling", slot |-> slot, seen |-> watch]]
          /\ UNCHANGED <<phase, tried>>
     ELSE /\ exec' = [exec EXCEPT ![x] = [pc |-> "failed", slot |-> slot]]
          /\ Queue!RunEnds(slot, "error")
  /\ UNCHANGED <<watch, runs, events, evidence, reviews, edit, now, edits, deletes, faults>>

\* Mutant of Changed: the first output of a source is reported as a change.
ChangedFromNothing(previous, output) == output # NoOutput /\ output # previous

Changed(previous, output) ==
  output # NoOutput /\ previous # NoOutput /\ output # previous

\* The adapter returns data, or fails, is cancelled or times out without any.
PollSource(x, output) ==
  /\ exec[x].pc = "polling"
  /\ exec' = [exec EXCEPT ![x] =
       [pc |-> "polled", slot |-> @.slot, seen |-> @.seen, output |-> output,
        changed |-> Changed(@.seen.last, output)]]
  /\ UNCHANGED <<watch, runs, events, evidence, reviews, edit, phase, tried, now, edits, deletes, faults, overlapped>>

Goto(x, from, to) ==
  /\ exec[x].pc = from
  /\ exec' = [exec EXCEPT ![x] = [@ EXCEPT !.pc = to]]

\* Mutants of UpdatedRow: a run without output forgets the last one; the whole
\* row read before the poll is written back, as the in-memory store does.
UpdatedRowForgets(x) ==
  [watch EXCEPT !.last = exec[x].output,
                !.changedAt = IF exec[x].changed THEN now ELSE exec[x].seen.changedAt]
UpdatedRowWhole(x) ==
  [exec[x].seen EXCEPT !.last = IF exec[x].output # NoOutput THEN exec[x].output ELSE @,
                       !.changedAt = IF exec[x].changed THEN now ELSE @]

\* The time of the last change is the one read before the poll.
UpdatedRow(x) ==
  [watch EXCEPT !.last = IF exec[x].output # NoOutput THEN exec[x].output ELSE @,
                !.changedAt = IF exec[x].changed THEN now ELSE exec[x].seen.changedAt]

\* persistRunAndWatch: run and row in one transaction; the run references the row.
PersistRunAndWatch(x) ==
  /\ watch # NoWatch
  /\ Goto(x, "polled", "persisted")
  /\ runs' = Append(runs, [by |-> x, previous |-> exec[x].seen.last, output |-> exec[x].output,
                           changed |-> exec[x].changed, at |-> now])
  /\ watch' = UpdatedRow(x)
  /\ UNCHANGED <<events, evidence, reviews, edit, phase, tried, now, edits, deletes, faults, overlapped>>

\* Mutant of PersistRefused: a watch that is gone is passed over in silence.
PersistPassedOver(x) ==
  /\ watch = NoWatch
  /\ Goto(x, "polled", "failed")
  /\ Queue!RunEnds(exec[x].slot, "ok")
  /\ UNCHANGED <<watch, runs, events, evidence, reviews, edit, now, edits, deletes, faults, overlapped>>

\* The watch was deleted meanwhile: the transaction is rolled back.
PersistRefused(x) ==
  /\ watch = NoWatch
  /\ Goto(x, "polled", "failed")
  /\ Queue!RunEnds(exec[x].slot, "error")
  /\ UNCHANGED <<watch, runs, events, evidence, reviews, edit, now, edits, deletes, faults, overlapped>>

\* Mutant of AppendEvidenceEvent: a change goes to the analysts at once.
AppendEvidenceThenReview(x) ==
  /\ Goto(x, "persisted", IF exec[x].changed THEN "reviewing" ELSE "closing")
  /\ evidence' = IF MissionBound THEN evidence \cup {x} ELSE evidence
  /\ UNCHANGED <<watch, runs, events, reviews, edit, phase, tried, now, edits, deletes, faults, overlapped>>

\* Before it the observation is promoted to the intelligence graph, whose
\* failure is caught.
AppendEvidenceEvent(x) ==
  /\ Goto(x, "persisted", IF exec[x].changed THEN "reporting" ELSE "closing")
  /\ evidence' = IF MissionBound THEN evidence \cup {x} ELSE evidence
  /\ UNCHANGED <<watch, runs, events, reviews, edit, phase, tried, now, edits, deletes, faults, overlapped>>

\* Mutant of RecordIntelligenceEvent: the event only if there is a review.
RecordEventIfReviewed(x) ==
  /\ Goto(x, "reporting", IF exec[x].seen.review THEN "reviewing" ELSE "closing")
  /\ events' = IF exec[x].seen.review THEN events \cup {x} ELSE events
  /\ UNCHANGED <<watch, runs, evidence, reviews, edit, phase, tried, now, edits, deletes, faults, overlapped>>

RecordIntelligenceEvent(x) ==
  /\ Goto(x, "reporting", IF exec[x].seen.review THEN "reviewing" ELSE "closing")
  /\ events' = events \cup {x}
  /\ UNCHANGED <<watch, runs, evidence, reviews, edit, phase, tried, now, edits, deletes, faults, overlapped>>

\* enqueueAnalystReview with the dedupe key watchId:outputHash.
EnqueueAnalystReview(x) ==
  /\ Goto(x, "reviewing", "closing")
  /\ reviews' = reviews \cup {exec[x].output}
  /\ UNCHANGED <<watch, runs, events, evidence, edit, phase, tried, now, edits, deletes, faults, overlapped>>

\* A failed or timed-out poll ends in an error and is retried; a cancelled one,
\* without output as well, is not.
Ends(x) ==
  /\ Goto(x, "closing", "done")
  /\ \E outcome \in IF exec[x].output = NoOutput THEN Queue!Outcome ELSE {"ok"} :
       Queue!RunEnds(exec[x].slot, outcome)
  /\ UNCHANGED <<watch, runs, events, evidence, reviews, edit, now, edits, deletes, faults, overlapped>>

\* A statement or an emission throws, or the process dies: the steps so far
\* stay done, the rest is not.
Fails(x) ==
  /\ x \in Active
  /\ faults < MaxFaults
  /\ faults' = faults + 1
  /\ exec' = [exec EXCEPT ![x] = [@ EXCEPT !.pc = "failed"]]
  /\ Queue!RunEnds(exec[x].slot, "error") \/ UNCHANGED <<phase, tried>>
  /\ UNCHANGED <<watch, runs, events, evidence, reviews, edit, now, edits, deletes, overlapped>>

\* The queue settles an item whose execution ended.
Settle(slot) ==
  /\ Queue!SettleCompleted(slot) \/ Queue!GiveUp(slot)
  /\ UNCHANGED <<watch, runs, events, evidence, reviews, exec, edit, now, edits, deletes, faults, overlapped>>

-----------------------------------------------------------------------------
Configures ==
  \/ \E patch \in Patch : CreateContinuousOsintWatch(patch)
  \/ \E patch \in Patch : EditReads(patch)
  \/ EditWrites
  \/ DeleteContinuousOsintWatch

Executes(x) ==
  \/ \E slot \in Slot : ReadWatch(x, slot)
  \/ \E output \in Output \cup {NoOutput} : PollSource(x, output)
  \/ PersistRunAndWatch(x)
  \/ PersistRefused(x)
  \/ AppendEvidenceEvent(x)
  \/ RecordIntelligenceEvent(x)
  \/ EnqueueAnalystReview(x)
  \/ Ends(x)
  \/ Fails(x)

Next ==
  \/ Passes
  \/ Configures
  \/ RunDueOsintWatches
  \/ \E x \in Execution : Executes(x)
  \/ \E slot \in Slot : Settle(slot)

Spec == Init /\ [][Next]_vars
-----------------------------------------------------------------------------
(* Properties *)

Row == [enabled: BOOLEAN, review: BOOLEAN, next: Slot, last: Output \cup {NoOutput},
        changedAt: Time \cup {Never}]

Run == [by: Execution, previous: Output \cup {NoOutput}, output: Output \cup {NoOutput},
        changed: BOOLEAN, at: Time]

Polled == {"polled", "persisted", "reporting", "reviewing", "closing", "done", "failed"}

\* An execution that has polled carries what it found and whether that is a
\* change, of one output to another; one that failed before carries less.
ExecutionOK(e) ==
  \/ e = [pc |-> "idle"]
  \/ e \in [pc: {"failed"}, slot: Slot]
  \/ e \in [pc: {"polling", "failed"}, slot: Slot, seen: Row]
  \/ /\ e \in [pc: Polled, slot: Slot, seen: Row, output: Output \cup {NoOutput}, changed: BOOLEAN]
     /\ e.changed => NoOutput \notin {e.seen.last, e.output}

\* Type invariant; a time of change comes with an output, unless an execution
\* recorded its run, with the time of the watch it read, for a watch deleted
\* and created again.
TypeOK ==
  /\ watch \in Row \cup {NoWatch}
  /\ watch # NoWatch /\ deletes = 0 /\ watch.changedAt # Never => watch.last # NoOutput
  /\ runs \in Seq(Run)
  /\ events \subseteq Execution
  /\ evidence \subseteq Execution
  /\ reviews \subseteq Output
  /\ DOMAIN exec = Execution /\ \A x \in Execution : ExecutionOK(exec[x])
  /\ \/ edit = NoEdit
     \/ edit \in [pc: {"writing"}, enabled: BOOLEAN, review: BOOLEAN, next: Slot]
  /\ phase \in [Slot -> {"absent", "open", "completed", "dead"}]
  /\ tried \in [Slot -> SUBSET Queue!Outcome]
  /\ now \in Time
  /\ edits \in 0..MaxEdits
  /\ deletes \in 0..MaxDeletes
  /\ faults \in 0..MaxFaults
  /\ overlapped \in BOOLEAN

Settings(row) == IF row = NoWatch THEN NoWatch ELSE [enabled |-> row.enabled, review |-> row.review]

\* Only users configure the watch: an execution that read the row before it
\* was disabled, edited or deleted neither switches it on again, nor undoes the
\* edit, nor brings it back when it records its run (persistRunAndWatch).
OnlyUsersConfigure ==
  [][Settings(watch') # Settings(watch) =>
       edits' # edits \/ deletes' # deletes \/ (edit # NoEdit /\ edit' = NoEdit)]_vars

\* A slot is worked off once: an edit that writes back the due time it read
\* before a scheduler tick makes the slot due again, and the watch created
\* anew starts at a used one, but the settled item stays settled.
SlotSettledOnce ==
  [][\A slot \in Slot : phase[slot] \in {"completed", "dead"} => phase'[slot] = phase[slot]]_vars

\* The schedule never moves on without work: when a due time passes and no
\* user moved it, its slot is in the queue.
NoSlotSkipped ==
  [][watch # NoWatch /\ watch' # NoWatch /\ watch'.next # watch.next
       /\ edits' = edits /\ edit' = edit
     => phase'[watch.next] # "absent"]_vars

\* A review is opened for an output only after an execution found a change to
\* it, the mission's ledger has the execution and the graph has the event.
ReviewsBacked ==
  \A output \in reviews : \E x \in events :
    /\ exec[x].pc \in Polled
    /\ exec[x].output = output
    /\ exec[x].changed
    /\ MissionBound => x \in evidence

\* A change on record is reported, as an event and as a review if the watch
\* asked for one, unless its execution is still under way or failed.
ChangesReported ==
  \A i \in DOMAIN runs :
    LET x == runs[i].by IN
    runs[i].changed /\ exec[x].pc = "done" =>
      x \in events /\ (exec[x].seen.review => exec[x].output \in reviews)

\* The queue takes no item for done whose work is not: a completed slot has an
\* execution that went through, with its run on record as long as the watch is
\* not deleted, its ledger event and, if it found a change, the event and the
\* review.  Throws, deletions and retries end in no such completion
\* (runContinuousOsintWatch, workflow-executor.ts:42).
CompletedSlotReported ==
  \A slot \in Slot : phase[slot] = "completed" => \E x \in Execution :
    /\ exec[x].pc = "done" /\ exec[x].slot = slot
    /\ deletes = 0 => \E i \in DOMAIN runs : runs[i].by = x
    /\ MissionBound => x \in evidence
    /\ exec[x].changed => x \in events /\ (exec[x].seen.review => exec[x].output \in reviews)

\* The latest output among the first n runs.
LatestOutput(n) ==
  LET found == {i \in 1..n : runs[i].output # NoOutput}
  IN  IF found = {} THEN NoOutput ELSE runs[Max(found)].output

\* As long as executions have not overlapped and the watch was not deleted, a
\* run is a change exactly if it found something else than the last run that
\* found anything, whatever failed polls, throws and retries lie between.
ChangesExact ==
  ~overlapped /\ deletes = 0 =>
    \A i \in DOMAIN runs :
      runs[i].changed <=> /\ LatestOutput(i - 1) # NoOutput
                          /\ runs[i].output \notin {NoOutput, LatestOutput(i - 1)}

\* Likewise the row's summary is that of the runs: the latest output, and the
\* time of the latest change.
RowSumsUpRuns ==
  LET changes == {i \in DOMAIN runs : runs[i].changed} IN
  watch # NoWatch /\ ~overlapped /\ deletes = 0 =>
    /\ watch.last = LatestOutput(Len(runs))
    /\ watch.changedAt = IF changes = {} THEN Never ELSE runs[Max(changes)].at
=============================================================================
