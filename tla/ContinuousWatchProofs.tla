------------------------ MODULE ContinuousWatchProofs ------------------------
(***************************************************************************)
(* Proofs about ContinuousWatch, for every number of executions, outputs,  *)
(* edits, deletions and faults: executions never undo what users           *)
(* configured, no slot is skipped or worked off twice, a review has its    *)
(* evidence and a recorded change is reported.  For executions that do not *)
(* overlap, the recorded changes are the changes of the output.            *)
(***************************************************************************)
EXTENDS ContinuousWatch, WellFoundedInduction, TLAPS

Found == Output \cup {NoOutput}

PolledRecord == [pc: Polled, slot: Slot, seen: Row, output: Found, changed: BOOLEAN]

\* What an execution that has polled carries.
HasPolled(e) == e \in PolledRecord /\ (e.changed => NoOutput \notin {e.seen.last, e.output})

\* Before it polls, what it carries decides where it is.
HasRead(e) == e \in [pc: {"polling", "failed"}, slot: Slot, seen: Row]

USE DEF Found, PolledRecord

LEMMA ExecutionForms ==
  ASSUME NEW e, ExecutionOK(e)
  PROVE  /\ e.pc \in {"idle", "polling"} \cup Polled
         /\ e.pc \in Polled \ {"failed"} => HasPolled(e)
         /\ e.pc = "polling" => HasRead(e)
         /\ e.pc \notin {"idle", "failed"} => e.slot \in Slot /\ e.seen \in Row
  <1>1. CASE e = [pc |-> "idle"]
    BY <1>1 DEF Polled
  <1>2. CASE e \in [pc: {"failed"}, slot: Slot]
    BY <1>2 DEF Polled
  <1>3. CASE HasRead(e)
    BY <1>3 DEF Polled, HasRead
  <1>4. CASE HasPolled(e)
    BY <1>4 DEF Polled, HasPolled
  <1> QED BY <1>1, <1>2, <1>3, <1>4 DEF ExecutionOK, HasRead, HasPolled

\* An execution that goes on keeps what it carries.
LEMMA GoesOn ==
  ASSUME NEW e, HasPolled(e), NEW pc \in Polled
  PROVE  LET f == [e EXCEPT !.pc = pc]
         IN  /\ HasPolled(f) /\ f.pc = pc
             /\ f.slot = e.slot /\ f.seen = e.seen /\ f.output = e.output /\ f.changed = e.changed
  BY DEF HasPolled

\* One that fails does too.
LEMMA FailureKeeps ==
  ASSUME NEW e, ExecutionOK(e), e.pc \notin {"idle", "done", "failed"}
  PROVE  LET f == [e EXCEPT !.pc = "failed"]
         IN  ExecutionOK(f) /\ f.pc = "failed"
  <1>1. CASE e.pc = "polling"
    <2>1. HasRead(e)
      BY <1>1, ExecutionForms
    <2>2. HasRead([e EXCEPT !.pc = "failed"])
      BY <2>1 DEF HasRead
    <2> QED BY <2>1, <2>2 DEF HasRead, ExecutionOK
  <1>2. CASE e.pc # "polling"
    <2>1. HasPolled(e)
      BY <1>2, ExecutionForms
    <2> QED BY <2>1, GoesOn DEF HasPolled, ExecutionOK, Polled
  <1> QED BY <1>1, <1>2

-----------------------------------------------------------------------------
(* The inductive invariant *)

\* What an execution has left behind by the time it is where it is.
Trail(x) ==
  LET e == exec[x] IN
  /\ e.pc \in {"reporting", "reviewing", "closing", "done"} /\ MissionBound => x \in evidence
  /\ e.pc \in {"reporting", "reviewing"} => e.changed
  /\ e.pc = "reviewing" => x \in events
  /\ e.pc \in {"closing", "done"} /\ e.changed =>
       x \in events /\ (e.seen.review => e.output \in reviews)
  /\ x \in events => HasPolled(e) /\ e.changed /\ (MissionBound => x \in evidence)

\* A run is that of an execution that got past recording it.
RunsOfExecutions ==
  \A i \in DOMAIN runs :
    LET e == exec[runs[i].by] IN
    HasPolled(e) /\ e.pc # "polled" /\ runs[i].changed = e.changed

\* An output is not forgotten as long as the watch is not deleted.
OutputsStay ==
  \A x \in Execution :
    exec[x].pc \in {"polling", "polled"} /\ deletes = 0 /\ exec[x].seen.changedAt # Never =>
      watch # NoWatch /\ watch.last # NoOutput

IInv == TypeOK /\ (\A x \in Execution : Trail(x)) /\ RunsOfExecutions /\ OutputsStay /\ ReviewsBacked

\* What an action does to its execution decides whether the trails stay true.
LEMMA TrailsKept ==
  ASSUME IInv, NEW x \in Execution, Trail(x)',
         \A y \in Execution \ {x} : exec'[y] = exec[y],
         events \subseteq events', events' \subseteq events \cup {x},
         evidence \subseteq evidence', evidence' \subseteq evidence \cup {x},
         reviews \subseteq reviews'
  PROVE  \A y \in Execution : Trail(y)'
  <1> SUFFICES ASSUME NEW y \in Execution \ {x}
               PROVE  Trail(y)'
    OBVIOUS
  <1>1. Trail(y) /\ exec'[y] = exec[y] /\ (y \in events' <=> y \in events) /\ (y \in evidence' <=> y \in evidence)
    BY DEF IInv
  <1> QED BY <1>1 DEF Trail, HasPolled, Polled

\* An execution that found and reported something still has it.
Steady(x) ==
  /\ \A y \in Execution \ {x} : exec'[y] = exec[y]
  /\ HasPolled(exec[x]) =>
       /\ HasPolled(exec'[x])
       /\ exec'[x].output = exec[x].output /\ exec'[x].changed = exec[x].changed
       /\ exec[x].pc # "polled" => exec'[x].pc # "polled"

LEMMA RunsKept ==
  ASSUME IInv, NEW x \in Execution, Steady(x), runs' = runs \/ runs' = <<>>
  PROVE  RunsOfExecutions'
  <1> SUFFICES ASSUME runs' = runs, NEW i \in DOMAIN runs
               PROVE  /\ HasPolled(exec'[runs[i].by]) /\ exec'[runs[i].by].pc # "polled"
                      /\ runs[i].changed = exec'[runs[i].by].changed
    BY DEF RunsOfExecutions, HasPolled, Polled
  <1>1. /\ HasPolled(exec[runs[i].by]) /\ exec[runs[i].by].pc # "polled"
        /\ runs[i].changed = exec[runs[i].by].changed
    BY DEF IInv, RunsOfExecutions
  <1>2. runs[i].by \in Execution
    <2>1. runs[i] \in Run
      BY DEF IInv, TypeOK
    <2> QED BY <2>1 DEF Run
  <1> QED BY <1>1, <1>2 DEF Steady

LEMMA ReviewsKept ==
  ASSUME IInv, NEW x \in Execution, Steady(x), events \subseteq events', evidence \subseteq evidence', reviews' = reviews
  PROVE  ReviewsBacked'
  <1> SUFFICES ASSUME NEW output \in reviews
               PROVE  \E y \in events' : /\ exec'[y].pc \in Polled /\ exec'[y].output = output
                                         /\ exec'[y].changed /\ (MissionBound => y \in evidence')
    BY DEF ReviewsBacked, Polled
  <1>1. PICK y \in events : exec[y].pc \in Polled /\ exec[y].output = output /\ exec[y].changed
                            /\ (MissionBound => y \in evidence)
    BY DEF IInv, ReviewsBacked
  <1>2. HasPolled(exec[y]) /\ y \in Execution
    BY DEF IInv, Trail, TypeOK
  <1>3. exec'[y].pc \in Polled /\ exec'[y].output = output /\ exec'[y].changed
    BY <1>1, <1>2 DEF Steady, HasPolled
  <1> QED BY <1>1, <1>3

\* Outputs stay in the row, or it goes.
RowKeeps ==
  deletes' = 0 => deletes = 0 /\ (watch # NoWatch /\ watch.last # NoOutput => watch' # NoWatch /\ watch'.last # NoOutput)

LEMMA OutsideKeeps ==
  ASSUME IInv, UNCHANGED <<exec, events, evidence, reviews>>, runs' = runs \/ runs' = <<>>, TypeOK', RowKeeps
  PROVE  IInv'
  <1>1. \A x \in Execution : Trail(x)'
    BY DEF IInv, Trail, HasPolled, Polled
  <1>2. RunsOfExecutions'
    <2>1. CASE runs' = runs
      BY <2>1 DEF IInv, RunsOfExecutions, HasPolled, Polled
    <2>2. CASE runs' = <<>>
      BY <2>2 DEF RunsOfExecutions
    <2> QED BY <2>1, <2>2
  <1>3. OutputsStay'
    BY DEF IInv, OutputsStay, RowKeeps
  <1>4. ReviewsBacked'
    BY DEF IInv, ReviewsBacked, Polled
  <1> QED BY <1>1, <1>2, <1>3, <1>4 DEF IInv

\* A step of an execution that records no run and opens no review.
LEMMA ExecutionKeeps ==
  ASSUME IInv, NEW x \in Execution, TypeOK', Trail(x)', Steady(x), UNCHANGED <<runs, reviews, watch, deletes>>,
         events \subseteq events', events' \subseteq events \cup {x},
         evidence \subseteq evidence', evidence' \subseteq evidence \cup {x},
         exec'[x].pc \in {"polling", "polled"} /\ deletes = 0 /\ exec'[x].seen.changedAt # Never =>
           watch # NoWatch /\ watch.last # NoOutput
  PROVE  IInv'
  <1>1. \A y \in Execution : Trail(y)'
    BY TrailsKept DEF Steady
  <1>2. OutputsStay'
    BY DEF IInv, OutputsStay, Steady
  <1> QED BY <1>1, <1>2, RunsKept, ReviewsKept DEF IInv

-----------------------------------------------------------------------------
(* Actions outside of the executions *)

LEMMA RowFacts ==
  /\ \A row \in Row : row # NoWatch
  /\ 0..MaxTime \subseteq Slot
  /\ \A t \in Time : t + Interval \in Slot
  /\ Never \notin Time
  BY ContinuousWatchAssumption DEF Row, Slot, Time

LEMMA PatchFacts ==
  ASSUME NEW patch \in Patch
  PROVE  /\ \A b \in BOOLEAN : Asked(patch, "enabled", b) \in BOOLEAN /\ Asked(patch, "review", b) \in BOOLEAN
         /\ \A slot \in Slot : Asked(patch, "next", slot) \in Slot
  BY ContinuousWatchAssumption DEF Asked, Slot

LEMMA PassesKeeps == IInv /\ Passes => IInv'
  <1> SUFFICES ASSUME IInv, Passes
               PROVE  IInv'
    OBVIOUS
  <1>1. now' \in Time
    BY ContinuousWatchAssumption DEF Passes, IInv, TypeOK, Time
  <1>2. TypeOK'
    BY <1>1 DEF Passes, IInv, TypeOK
  <1> QED BY <1>2, OutsideKeeps DEF Passes, RowKeeps

LEMMA CreateKeeps ==
  ASSUME IInv, NEW patch \in Patch, CreateContinuousOsintWatch(patch)
  PROVE  IInv'
  <1>1. edits' \in 0..MaxEdits
    BY ContinuousWatchAssumption DEF CreateContinuousOsintWatch, Edits, IInv, TypeOK
  <1>2. watch' \in Row /\ (watch = NoWatch => watch'.changedAt = Never)
        /\ (watch # NoWatch => watch'.last = watch.last /\ watch'.changedAt = watch.changedAt)
    <2>1. now \in Slot
      BY RowFacts DEF IInv, TypeOK, Time
    <2>2. CASE watch = NoWatch
      BY <2>1, <2>2, PatchFacts DEF CreateContinuousOsintWatch, CreatedRow, Row
    <2>3. CASE watch # NoWatch
      <3>1. watch \in Row
        BY <2>3 DEF IInv, TypeOK
      <3>2. Earlier(watch.next, Asked(patch, "next", now)) \in Slot
        BY <2>1, <3>1, PatchFacts DEF Earlier, Row
      <3> QED BY <2>3, <3>1, <3>2, PatchFacts DEF CreateContinuousOsintWatch, CreatedRow, Row
    <2> QED BY <2>2, <2>3
  <1>3. TypeOK'
    BY <1>1, <1>2 DEF CreateContinuousOsintWatch, IInv, TypeOK
  <1>4. RowKeeps
    BY <1>2, RowFacts DEF CreateContinuousOsintWatch, RowKeeps
  <1> QED BY <1>3, <1>4, OutsideKeeps DEF CreateContinuousOsintWatch

LEMMA EditReadsKeeps ==
  ASSUME IInv, NEW patch \in Patch, EditReads(patch)
  PROVE  IInv'
  <1>1. edits' \in 0..MaxEdits
    BY ContinuousWatchAssumption DEF EditReads, Edits, IInv, TypeOK
  <1>2. edit' \in [pc: {"writing"}, enabled: BOOLEAN, review: BOOLEAN, next: Slot]
    <2>1. now \in Slot /\ watch.next \in Slot
      BY RowFacts DEF EditReads, IInv, TypeOK, Time, Row
    <2>2. watch.enabled \in BOOLEAN /\ watch.review \in BOOLEAN
      BY DEF EditReads, IInv, TypeOK, Row
    <2> QED BY <2>1, <2>2, PatchFacts DEF EditReads
  <1>3. TypeOK'
    BY <1>1, <1>2 DEF EditReads, IInv, TypeOK
  <1> QED BY <1>3, OutsideKeeps DEF EditReads, RowKeeps

LEMMA EditWritesKeeps == IInv /\ EditWrites => IInv'
  <1> SUFFICES ASSUME IInv, EditWrites
               PROVE  IInv'
    OBVIOUS
  <1>1. edit \in [pc: {"writing"}, enabled: BOOLEAN, review: BOOLEAN, next: Slot]
    BY DEF EditWrites, IInv, TypeOK, NoEdit
  <1>2. /\ watch' \in Row \cup {NoWatch} /\ (watch' = NoWatch <=> watch = NoWatch)
        /\ watch # NoWatch => watch'.last = watch.last /\ watch'.changedAt = watch.changedAt
    BY <1>1, RowFacts DEF EditWrites, IInv, TypeOK, Row
  <1>3. TypeOK'
    BY <1>2 DEF EditWrites, IInv, TypeOK
  <1> QED BY <1>2, <1>3, OutsideKeeps DEF EditWrites, RowKeeps

LEMMA DeleteKeeps == IInv /\ DeleteContinuousOsintWatch => IInv'
  <1> SUFFICES ASSUME IInv, DeleteContinuousOsintWatch
               PROVE  IInv'
    OBVIOUS
  <1>1. deletes' \in 0..MaxDeletes /\ deletes' # 0
    BY ContinuousWatchAssumption DEF DeleteContinuousOsintWatch, IInv, TypeOK
  <1>2. TypeOK'
    BY <1>1 DEF DeleteContinuousOsintWatch, IInv, TypeOK
  <1> QED BY <1>1, <1>2, OutsideKeeps DEF DeleteContinuousOsintWatch, RowKeeps

LEMMA RunDueKeeps == IInv /\ RunDueOsintWatches => IInv'
  <1> SUFFICES ASSUME IInv, RunDueOsintWatches
               PROVE  IInv'
    OBVIOUS
  <1>1. watch \in Row /\ now + Interval \in Slot
    BY RowFacts DEF RunDueOsintWatches, Due, IInv, TypeOK
  <1>2. /\ watch' \in Row /\ watch'.last = watch.last /\ watch'.changedAt = watch.changedAt
    BY <1>1 DEF RunDueOsintWatches, Row
  <1>3. /\ phase' \in [Slot -> {"absent", "open", "completed", "dead"}]
        /\ tried' \in [Slot -> SUBSET Queue!Outcome]
    BY DEF RunDueOsintWatches, EnqueueSlot, Queue!Submit, IInv, TypeOK
  <1>4. TypeOK'
    BY <1>2, <1>3, RowFacts DEF RunDueOsintWatches, Due, IInv, TypeOK
  <1> QED BY <1>2, <1>4, RowFacts, OutsideKeeps DEF RunDueOsintWatches, RowKeeps

LEMMA SettleKeeps ==
  ASSUME IInv, NEW slot \in Slot, Settle(slot)
  PROVE  IInv'
  <1>1. /\ phase' \in [Slot -> {"absent", "open", "completed", "dead"}]
        /\ tried' \in [Slot -> SUBSET Queue!Outcome]
    BY DEF Settle, Queue!SettleCompleted, Queue!GiveUp, IInv, TypeOK
  <1>2. TypeOK'
    BY <1>1 DEF Settle, IInv, TypeOK
  <1> QED BY <1>2, OutsideKeeps DEF Settle, RowKeeps

-----------------------------------------------------------------------------
(* Steps of an execution *)

\* exec'[x] = e, and nothing else in exec changes.
Becomes(x, e) ==
  /\ exec' = [exec EXCEPT ![x] = e]
  /\ ExecutionOK(e)

LEMMA BecomesType ==
  ASSUME IInv, NEW x \in Execution, NEW e, Becomes(x, e)
  PROVE  /\ DOMAIN exec' = Execution /\ \A y \in Execution : ExecutionOK(exec'[y])
         /\ exec'[x] = e /\ \A y \in Execution \ {x} : exec'[y] = exec[y]
  BY DEF IInv, TypeOK, Becomes

LEMMA TriedType ==
  ASSUME TypeOK, NEW slot \in Slot, NEW outcome \in Queue!Outcome, Queue!RunEnds(slot, outcome)
  PROVE  phase' = phase /\ tried' \in [Slot -> SUBSET Queue!Outcome]
  BY DEF TypeOK, Queue!RunEnds

LEMMA GotoEffect ==
  ASSUME IInv, NEW x \in Execution, NEW from \in Polled \ {"failed"}, NEW to \in Polled, Goto(x, from, to)
  PROVE  /\ HasPolled(exec[x]) /\ HasPolled(exec'[x]) /\ exec'[x].pc = to
         /\ DOMAIN exec' = Execution /\ \A y \in Execution : ExecutionOK(exec'[y])
         /\ exec'[x].slot = exec[x].slot /\ exec'[x].seen = exec[x].seen
         /\ exec'[x].output = exec[x].output /\ exec'[x].changed = exec[x].changed
         /\ \A y \in Execution \ {x} : exec'[y] = exec[y]
         /\ to # "polled" => Steady(x)
  <1> DEFINE e == [exec[x] EXCEPT !.pc = to]
  <1>1. HasPolled(exec[x])
    BY ExecutionForms DEF Goto, IInv, TypeOK
  <1>2. /\ HasPolled(e) /\ e.pc = to
        /\ e.slot = exec[x].slot /\ e.seen = exec[x].seen
        /\ e.output = exec[x].output /\ e.changed = exec[x].changed
    BY <1>1, GoesOn
  <1>3. Becomes(x, e)
    BY <1>2 DEF Goto, Becomes, ExecutionOK, HasPolled
  <1> HIDE DEF e
  <1>4. /\ DOMAIN exec' = Execution /\ \A y \in Execution : ExecutionOK(exec'[y])
        /\ exec'[x] = e /\ \A y \in Execution \ {x} : exec'[y] = exec[y]
    BY <1>3, BecomesType
  <1> QED BY <1>1, <1>2, <1>4 DEF Steady

LEMMA ReadWatchKeeps ==
  ASSUME IInv, NEW x \in Execution, NEW slot \in Slot, ReadWatch(x, slot)
  PROVE  IInv'
  <1>1. exec[x].pc = "idle" /\ Trail(x) /\ ~ HasPolled(exec[x])
    BY DEF ReadWatch, IInv, HasPolled, Polled
  <1>2. CASE watch # NoWatch /\ watch.enabled
    <2> DEFINE e == [pc |-> "polling", slot |-> slot, seen |-> watch]
    <2>1. watch \in Row
      BY <1>2 DEF IInv, TypeOK
    <2>2. Becomes(x, e)
      BY <1>2, <2>1 DEF ReadWatch, Becomes, ExecutionOK
    <2>3. e.pc = "polling" /\ e.seen = watch
      OBVIOUS
    <2> HIDE DEF e
    <2>4. /\ DOMAIN exec' = Execution /\ \A y \in Execution : ExecutionOK(exec'[y])
          /\ exec'[x] = e /\ \A y \in Execution \ {x} : exec'[y] = exec[y]
      BY <2>2, BecomesType
    <2>5. TypeOK'
      BY <1>2, <2>4 DEF ReadWatch, IInv, TypeOK
    <2>6. Trail(x)'
      BY <1>1, <2>3, <2>4 DEF Trail, ReadWatch
    <2>7. deletes = 0 /\ watch.changedAt # Never => watch.last # NoOutput
      BY <1>2 DEF IInv, TypeOK
    <2>8. Steady(x)
      BY <1>1, <2>4 DEF Steady
    <2> QED BY <1>2, <2>3, <2>4, <2>5, <2>6, <2>7, <2>8, ExecutionKeeps DEF ReadWatch
  <1>3. CASE ~ (watch # NoWatch /\ watch.enabled)
    <2> DEFINE e == [pc |-> "failed", slot |-> slot]
    <2>1. Becomes(x, e)
      BY <1>3 DEF ReadWatch, Becomes, ExecutionOK
    <2>2. e.pc = "failed"
      OBVIOUS
    <2> HIDE DEF e
    <2>3. /\ DOMAIN exec' = Execution /\ \A y \in Execution : ExecutionOK(exec'[y])
          /\ exec'[x] = e /\ \A y \in Execution \ {x} : exec'[y] = exec[y]
      BY <2>1, BecomesType
    <2>4. phase' = phase /\ tried' \in [Slot -> SUBSET Queue!Outcome]
      BY <1>3, TriedType DEF ReadWatch, Queue!Outcome, IInv
    <2>5. TypeOK'
      BY <2>3, <2>4 DEF ReadWatch, IInv, TypeOK
    <2>6. Trail(x)'
      BY <1>1, <2>2, <2>3 DEF Trail, ReadWatch
    <2>7. Steady(x)
      BY <1>1, <2>3 DEF Steady
    <2> QED BY <2>2, <2>3, <2>5, <2>6, <2>7, ExecutionKeeps DEF ReadWatch
  <1> QED BY <1>2, <1>3

LEMMA PollKeeps ==
  ASSUME IInv, NEW x \in Execution, NEW output \in Found, PollSource(x, output)
  PROVE  IInv'
  <1> DEFINE e == [pc |-> "polled", slot |-> exec[x].slot, seen |-> exec[x].seen, output |-> output,
                   changed |-> Changed(exec[x].seen.last, output)]
  <1>1. HasRead(exec[x]) /\ exec[x].pc = "polling" /\ ~ HasPolled(exec[x]) /\ Trail(x)
    BY ExecutionForms DEF PollSource, IInv, TypeOK, HasPolled, Polled
  <1>2. exec[x].slot \in Slot /\ exec[x].seen \in Row
    BY <1>1 DEF HasRead
  <1>3. HasPolled(e) /\ e.pc = "polled" /\ e.seen = exec[x].seen
    BY <1>2 DEF HasPolled, Changed, Polled
  <1>4. Becomes(x, e)
    BY <1>3 DEF PollSource, Becomes, ExecutionOK, HasPolled
  <1> HIDE DEF e
  <1>5. /\ DOMAIN exec' = Execution /\ \A y \in Execution : ExecutionOK(exec'[y])
        /\ exec'[x] = e /\ \A y \in Execution \ {x} : exec'[y] = exec[y]
    BY <1>4, BecomesType
  <1>6. TypeOK'
    BY <1>5 DEF PollSource, IInv, TypeOK
  <1>7. Trail(x)'
    BY <1>1, <1>3, <1>5 DEF Trail, PollSource
  <1>8. Steady(x)
    BY <1>1, <1>5 DEF Steady
  <1>9. exec[x].pc \in {"polling", "polled"} /\ deletes = 0 /\ exec[x].seen.changedAt # Never =>
          watch # NoWatch /\ watch.last # NoOutput
    BY DEF IInv, OutputsStay
  <1> QED BY <1>1, <1>3, <1>5, <1>6, <1>7, <1>8, <1>9, ExecutionKeeps DEF PollSource

LEMMA PersistKeeps ==
  ASSUME IInv, NEW x \in Execution, PersistRunAndWatch(x)
  PROVE  IInv'
  <1> DEFINE run == [by |-> x, previous |-> exec[x].seen.last, output |-> exec[x].output,
                     changed |-> exec[x].changed, at |-> now]
  <1>1. /\ HasPolled(exec[x]) /\ HasPolled(exec'[x]) /\ exec'[x].pc = "persisted"
        /\ DOMAIN exec' = Execution /\ \A y \in Execution : ExecutionOK(exec'[y])
        /\ exec'[x].seen = exec[x].seen
        /\ exec'[x].output = exec[x].output /\ exec'[x].changed = exec[x].changed
        /\ \A y \in Execution \ {x} : exec'[y] = exec[y]
        /\ Steady(x) /\ exec[x].pc = "polled"
    BY GotoEffect DEF PersistRunAndWatch, Goto, Polled
  <1>2. /\ exec[x].seen \in Row /\ exec[x].output \in Found /\ exec[x].changed \in BOOLEAN
        /\ exec[x].changed => NoOutput \notin {exec[x].seen.last, exec[x].output}
    BY <1>1 DEF HasPolled
  <1>3. watch \in Row /\ now \in Time
    BY DEF PersistRunAndWatch, IInv, TypeOK
  <1>4. /\ exec[x].seen.changedAt \in Time \cup {Never} /\ exec[x].seen.last \in Found
        /\ watch.last \in Found
    BY <1>2, <1>3 DEF Row
  <1>5. /\ watch' \in Row
        /\ watch'.last = IF exec[x].output # NoOutput THEN exec[x].output ELSE watch.last
        /\ watch'.changedAt = IF exec[x].changed THEN now ELSE exec[x].seen.changedAt
    BY <1>2, <1>3, <1>4 DEF PersistRunAndWatch, UpdatedRow, Row
  <1>6. run \in Run
    BY <1>2, <1>3, <1>4 DEF Run
  <1>7. run.by = x /\ run.changed = exec[x].changed
    OBVIOUS
  <1> HIDE DEF run
  <1>8. runs' = Append(runs, run) /\ runs \in Seq(Run)
    BY DEF PersistRunAndWatch, run, IInv, TypeOK
  <1>9. deletes = 0 /\ watch'.changedAt # Never => watch'.last # NoOutput
    <2>1. deletes = 0 /\ exec[x].seen.changedAt # Never => watch.last # NoOutput
      BY <1>1 DEF IInv, OutputsStay
    <2> QED BY <1>2, <1>5, <2>1
  <1>10. TypeOK'
    <2>1. runs' \in Seq(Run)
      BY <1>6, <1>8
    <2> QED BY <1>1, <1>5, <1>9, <2>1 DEF PersistRunAndWatch, IInv, TypeOK
  <1>11. Trail(x)'
    BY <1>1 DEF IInv, Trail, PersistRunAndWatch
  <1>12. \A y \in Execution : Trail(y)'
    BY <1>1, <1>11, TrailsKept DEF PersistRunAndWatch
  <1>13. RunsOfExecutions'
    <2> SUFFICES ASSUME NEW i \in DOMAIN runs'
                 PROVE  /\ HasPolled(exec'[runs'[i].by]) /\ exec'[runs'[i].by].pc # "polled"
                        /\ runs'[i].changed = exec'[runs'[i].by].changed
      BY DEF RunsOfExecutions, HasPolled, Polled
    <2>1. CASE i \in DOMAIN runs
      <3>1. runs'[i] = runs[i] /\ runs[i] \in Run
        BY <1>8, <2>1
      <3>2. runs[i].by \in Execution
        BY <3>1 DEF Run
      <3>3. /\ HasPolled(exec[runs[i].by]) /\ exec[runs[i].by].pc # "polled"
            /\ runs[i].changed = exec[runs[i].by].changed
        BY <2>1 DEF IInv, RunsOfExecutions
      <3> QED BY <1>1, <3>1, <3>2, <3>3
    <2>2. CASE i \notin DOMAIN runs
      <3>1. runs'[i] = run
        BY <1>8, <2>2
      <3> QED BY <1>1, <1>7, <3>1
    <2> QED BY <2>1, <2>2
  <1>14. OutputsStay'
    <2> SUFFICES ASSUME NEW y \in Execution, exec'[y].pc \in {"polling", "polled"}, deletes = 0,
                        exec'[y].seen.changedAt # Never
                 PROVE  watch'.last # NoOutput
      BY <1>5, RowFacts DEF OutputsStay, PersistRunAndWatch
    <2>1. y # x /\ exec'[y] = exec[y]
      BY <1>1
    <2>2. watch.last # NoOutput
      BY <2>1 DEF IInv, OutputsStay
    <2> QED BY <1>5, <2>2
  <1>15. ReviewsBacked'
    BY <1>1, ReviewsKept DEF PersistRunAndWatch
  <1> QED BY <1>10, <1>12, <1>13, <1>14, <1>15 DEF IInv

LEMMA RefusedKeeps ==
  ASSUME IInv, NEW x \in Execution, PersistRefused(x)
  PROVE  IInv'
  <1>1. /\ HasPolled(exec[x]) /\ exec'[x].pc = "failed"
        /\ DOMAIN exec' = Execution /\ \A y \in Execution : ExecutionOK(exec'[y])
        /\ HasPolled(exec'[x]) /\ exec'[x].changed = exec[x].changed
        /\ Steady(x)
    BY GotoEffect DEF PersistRefused, Polled
  <1>2. phase' = phase /\ tried' \in [Slot -> SUBSET Queue!Outcome]
    BY <1>1, TriedType DEF PersistRefused, Queue!Outcome, IInv, HasPolled
  <1>3. TypeOK'
    BY <1>1, <1>2 DEF PersistRefused, IInv, TypeOK
  <1>4. Trail(x)'
    BY <1>1 DEF IInv, Trail, PersistRefused
  <1> QED BY <1>1, <1>3, <1>4, ExecutionKeeps DEF PersistRefused

LEMMA AppendKeeps ==
  ASSUME IInv, NEW x \in Execution, AppendEvidenceEvent(x)
  PROVE  IInv'
  <1> DEFINE to == IF exec[x].changed THEN "reporting" ELSE "closing"
  <1>1. /\ HasPolled(exec[x]) /\ exec'[x].pc = to
        /\ DOMAIN exec' = Execution /\ \A y \in Execution : ExecutionOK(exec'[y])
        /\ HasPolled(exec'[x]) /\ exec'[x].changed = exec[x].changed
        /\ Steady(x)
    BY GotoEffect DEF AppendEvidenceEvent, Polled
  <1>2. TypeOK'
    BY <1>1 DEF AppendEvidenceEvent, IInv, TypeOK
  <1>3. Trail(x)'
    BY <1>1 DEF IInv, Trail, AppendEvidenceEvent
  <1> QED BY <1>1, <1>2, <1>3, ExecutionKeeps DEF AppendEvidenceEvent

LEMMA RecordKeeps ==
  ASSUME IInv, NEW x \in Execution, RecordIntelligenceEvent(x)
  PROVE  IInv'
  <1> DEFINE to == IF exec[x].seen.review THEN "reviewing" ELSE "closing"
  <1>0. Goto(x, "reporting", to) /\ to \in Polled \ {"polling", "polled"} /\ exec[x].pc = "reporting"
    BY DEF RecordIntelligenceEvent, Polled, Goto
  <1> HIDE DEF to
  <1>1. /\ HasPolled(exec[x]) /\ exec'[x].pc = to
        /\ DOMAIN exec' = Execution /\ \A y \in Execution : ExecutionOK(exec'[y])
        /\ HasPolled(exec'[x]) /\ exec'[x].changed = exec[x].changed /\ exec'[x].seen = exec[x].seen
        /\ Steady(x)
    BY <1>0, GotoEffect DEF Polled
  <1>2. TypeOK'
    BY <1>1 DEF RecordIntelligenceEvent, IInv, TypeOK
  <1>3. Trail(x)'
    BY <1>0, <1>1 DEF IInv, Trail, RecordIntelligenceEvent, to
  <1> QED BY <1>0, <1>1, <1>2, <1>3, ExecutionKeeps DEF RecordIntelligenceEvent

LEMMA EnqueueReviewKeeps ==
  ASSUME IInv, NEW x \in Execution, EnqueueAnalystReview(x)
  PROVE  IInv'
  <1>1. /\ HasPolled(exec[x]) /\ exec'[x].pc = "closing" /\ exec[x].pc = "reviewing"
        /\ DOMAIN exec' = Execution /\ \A y \in Execution : ExecutionOK(exec'[y])
        /\ HasPolled(exec'[x]) /\ exec'[x].changed = exec[x].changed /\ exec'[x].seen = exec[x].seen
        /\ exec'[x].output = exec[x].output
        /\ \A y \in Execution \ {x} : exec'[y] = exec[y]
        /\ Steady(x)
    BY GotoEffect DEF EnqueueAnalystReview, Polled, Goto
  <1>2. exec[x].changed /\ x \in events /\ (MissionBound => x \in evidence)
    BY <1>1 DEF IInv, Trail
  <1>3. exec[x].output \in Output
    BY <1>1, <1>2 DEF HasPolled
  <1>4. TypeOK'
    BY <1>1, <1>3 DEF EnqueueAnalystReview, IInv, TypeOK
  <1>5. Trail(x)'
    BY <1>1, <1>2 DEF IInv, Trail, EnqueueAnalystReview
  <1>6. \A y \in Execution : Trail(y)'
    BY <1>1, <1>5, TrailsKept DEF EnqueueAnalystReview
  <1>7. RunsOfExecutions'
    BY <1>1, RunsKept DEF EnqueueAnalystReview
  <1>8. OutputsStay'
    BY <1>1 DEF IInv, OutputsStay, EnqueueAnalystReview
  <1>9. ReviewsBacked'
    <2> SUFFICES ASSUME NEW output \in reviews'
                 PROVE  \E y \in events' : /\ exec'[y].pc \in Polled /\ exec'[y].output = output
                                           /\ exec'[y].changed /\ (MissionBound => y \in evidence')
      BY DEF ReviewsBacked, Polled
    <2>1. CASE output = exec[x].output
      BY <1>1, <1>2, <2>1 DEF EnqueueAnalystReview, Polled
    <2>2. CASE output \in reviews
      <3>1. PICK y \in events : exec[y].pc \in Polled /\ exec[y].output = output /\ exec[y].changed
                                /\ (MissionBound => y \in evidence)
        BY <2>2 DEF IInv, ReviewsBacked
      <3>2. HasPolled(exec[y]) /\ y \in Execution
        BY DEF IInv, Trail, TypeOK
      <3>3. exec'[y].pc \in Polled /\ exec'[y].output = output /\ exec'[y].changed
        BY <1>1, <3>1, <3>2 DEF Steady, HasPolled
      <3> QED BY <3>1, <3>3 DEF EnqueueAnalystReview
    <2> QED BY <2>1, <2>2 DEF EnqueueAnalystReview
  <1> QED BY <1>4, <1>6, <1>7, <1>8, <1>9 DEF IInv

LEMMA EndsKeeps ==
  ASSUME IInv, NEW x \in Execution, Ends(x)
  PROVE  IInv'
  <1>1. /\ HasPolled(exec[x]) /\ exec'[x].pc = "done" /\ exec[x].pc = "closing"
        /\ DOMAIN exec' = Execution /\ \A y \in Execution : ExecutionOK(exec'[y])
        /\ HasPolled(exec'[x]) /\ exec'[x].changed = exec[x].changed /\ exec'[x].seen = exec[x].seen
        /\ exec'[x].output = exec[x].output
        /\ Steady(x)
    BY GotoEffect DEF Ends, Polled, Goto
  <1>2. PICK outcome \in Queue!Outcome : Queue!RunEnds(exec[x].slot, outcome)
    BY DEF Ends, Queue!Outcome
  <1>3. phase' = phase /\ tried' \in [Slot -> SUBSET Queue!Outcome]
    BY <1>1, <1>2, TriedType DEF IInv, HasPolled
  <1>4. TypeOK'
    BY <1>1, <1>3 DEF Ends, IInv, TypeOK
  <1>5. Trail(x)'
    BY <1>1 DEF IInv, Trail, Ends
  <1> QED BY <1>1, <1>4, <1>5, ExecutionKeeps DEF Ends

LEMMA FailsKeeps ==
  ASSUME IInv, NEW x \in Execution, Fails(x)
  PROVE  IInv'
  <1> DEFINE e == [exec[x] EXCEPT !.pc = "failed"]
  <1>1. ExecutionOK(exec[x]) /\ exec[x].pc \notin {"idle", "done", "failed"}
    BY DEF Fails, Active, IInv, TypeOK
  <1>2. ExecutionOK(e) /\ e.pc = "failed"
    BY <1>1, FailureKeeps
  <1>3. HasPolled(exec[x]) => HasPolled(e) /\ e.output = exec[x].output /\ e.changed = exec[x].changed
    BY GoesOn DEF Polled
  <1>4. Becomes(x, e)
    BY <1>2 DEF Fails, Becomes
  <1> HIDE DEF e
  <1>5. /\ DOMAIN exec' = Execution /\ \A y \in Execution : ExecutionOK(exec'[y])
        /\ exec'[x] = e /\ \A y \in Execution \ {x} : exec'[y] = exec[y]
    BY <1>4, BecomesType
  <1>6. exec[x].slot \in Slot
    BY <1>1, ExecutionForms
  <1>7. phase' = phase /\ tried' \in [Slot -> SUBSET Queue!Outcome]
    BY <1>6, TriedType DEF Fails, Queue!Outcome, IInv, TypeOK
  <1>8. faults' \in 0..MaxFaults
    BY ContinuousWatchAssumption DEF Fails, IInv, TypeOK
  <1>9. TypeOK'
    BY <1>5, <1>7, <1>8 DEF Fails, IInv, TypeOK
  <1>10. Trail(x)'
    BY <1>2, <1>3, <1>5 DEF IInv, Trail, Fails
  <1>11. Steady(x)
    BY <1>2, <1>3, <1>5 DEF Steady
  <1> QED BY <1>2, <1>5, <1>9, <1>10, <1>11, ExecutionKeeps DEF Fails

-----------------------------------------------------------------------------
LEMMA InitIInv == Init => IInv
  <1> SUFFICES ASSUME Init
               PROVE  IInv
    OBVIOUS
  <1>1. \A x \in Execution : exec[x] = [pc |-> "idle"]
    BY DEF Init
  <1>2. TypeOK
    <2>1. DOMAIN exec = Execution /\ \A x \in Execution : ExecutionOK(exec[x])
      BY <1>1 DEF Init, ExecutionOK
    <2>2. now \in Time /\ edits \in 0..MaxEdits /\ deletes \in 0..MaxDeletes /\ faults \in 0..MaxFaults
      BY ContinuousWatchAssumption DEF Init, Time
    <2>3. /\ phase \in [Slot -> {"absent", "open", "completed", "dead"}]
          /\ tried \in [Slot -> SUBSET Queue!Outcome]
      BY DEF Init, Queue!Init
    <2>4. watch = NoWatch /\ edit = NoEdit /\ overlapped \in BOOLEAN
      BY Zenon DEF Init
    <2>6. runs \in Seq(Run)
      <3>1. runs = <<>>
        BY DEF Init
      <3> QED BY <3>1
    <2>5. events = {} /\ evidence = {} /\ reviews = {}
      BY DEF Init
    <2> QED BY <2>1, <2>2, <2>3, <2>4, <2>5, <2>6 DEF TypeOK
  <1> QED BY <1>1, <1>2 DEF Init, IInv, Trail, RunsOfExecutions, OutputsStay, ReviewsBacked

LEMMA NextIInv == IInv /\ [Next]_vars => IInv'
  <1> SUFFICES ASSUME IInv, [Next]_vars
               PROVE  IInv'
    OBVIOUS
  <1>1. CASE UNCHANGED vars
    <2>1. TypeOK'
      BY <1>1 DEF vars, IInv, TypeOK
    <2> QED BY <1>1, <2>1, OutsideKeeps DEF vars, RowKeeps
  <1>2. CASE Passes
    BY <1>2, PassesKeeps
  <1>3. CASE Configures
    BY <1>3, CreateKeeps, EditReadsKeeps, EditWritesKeeps, DeleteKeeps DEF Configures
  <1>4. CASE RunDueOsintWatches
    BY <1>4, RunDueKeeps
  <1>5. ASSUME NEW x \in Execution, Executes(x)
        PROVE  IInv'
    BY <1>5, ReadWatchKeeps, PollKeeps, PersistKeeps, RefusedKeeps, AppendKeeps, RecordKeeps,
       EnqueueReviewKeeps, EndsKeeps, FailsKeeps DEF Executes
  <1>6. ASSUME NEW slot \in Slot, Settle(slot)
        PROVE  IInv'
    BY <1>6, SettleKeeps
  <1> QED BY <1>1, <1>2, <1>3, <1>4, <1>5, <1>6 DEF Next

\* The trails, the runs and the rows agree in every state.
THEOREM InductiveInvariant == Spec => []IInv
  BY InitIInv, NextIInv, PTL DEF Spec

\* The variables stay in their types, and a time of change comes with an
\* output (persistRunAndWatch, createContinuousOsintWatch).
THEOREM TypeCorrectness == Spec => []TypeOK
  <1>1. IInv => TypeOK
    BY DEF IInv
  <1> QED BY <1>1, InductiveInvariant, PTL

\* Every review has an execution that found the change, with its event and its
\* ledger record (runContinuousOsintWatch).
THEOREM ReviewsAreBacked == Spec => []ReviewsBacked
  <1>1. IInv => ReviewsBacked
    BY DEF IInv
  <1> QED BY <1>1, InductiveInvariant, PTL

\* A recorded change of an execution that ended is an event, and a review if
\* the watch asked for one (runContinuousOsintWatch).
THEOREM ChangesAreReported == Spec => []ChangesReported
  <1>1. ASSUME IInv
        PROVE  ChangesReported
    <2> SUFFICES ASSUME NEW i \in DOMAIN runs, runs[i].changed, exec[runs[i].by].pc = "done"
                 PROVE  /\ runs[i].by \in events
                        /\ exec[runs[i].by].seen.review => exec[runs[i].by].output \in reviews
      BY DEF ChangesReported
    <2>1. exec[runs[i].by].changed
      BY <1>1 DEF IInv, RunsOfExecutions
    <2>2. runs[i].by \in Execution
      <3>1. runs[i] \in Run
        BY <1>1 DEF IInv, TypeOK
      <3> QED BY <3>1 DEF Run
    <2> QED BY <1>1, <2>1, <2>2 DEF IInv, Trail
  <1> QED BY <1>1, InductiveInvariant, PTL

\* Executions, the scheduler and the queue leave the watch's settings alone
\* (persistRunAndWatch, runDueOsintWatches).
THEOREM UsersConfigure == Spec => OnlyUsersConfigure
  <1>1. ASSUME IInv, [Next]_vars, Settings(watch') # Settings(watch)
        PROVE  edits' # edits \/ deletes' # deletes \/ (edit # NoEdit /\ edit' = NoEdit)
    <2>1. edits \in Nat /\ deletes \in Nat
      BY <1>1, ContinuousWatchAssumption DEF IInv, TypeOK
    <2>2. CASE Configures
      BY <2>1, <2>2 DEF Configures, CreateContinuousOsintWatch, Edits, EditReads, EditWrites, NoEdit,
         DeleteContinuousOsintWatch
    <2>3. CASE RunDueOsintWatches
      <3>1. watch \in Row /\ watch' \in Row /\ watch'.enabled = watch.enabled /\ watch'.review = watch.review
        BY <1>1, <2>3, RowFacts DEF RunDueOsintWatches, Due, IInv, TypeOK, Row
      <3> QED BY <1>1, <3>1, RowFacts DEF Settings
    <2>4. ASSUME NEW x \in Execution, PersistRunAndWatch(x)
          PROVE  FALSE
      <3>1. /\ watch \in Row /\ watch'.enabled = watch.enabled /\ watch'.review = watch.review
            /\ watch' # NoWatch
        <4>1. IInv'
          BY <1>1, <2>4, PersistKeeps
        <4>2. watch \in Row
          BY <1>1, <2>4 DEF PersistRunAndWatch, IInv, TypeOK
        <4>3. HasPolled(exec[x]) /\ now \in Time
          BY <1>1, <2>4, ExecutionForms DEF PersistRunAndWatch, Goto, IInv, TypeOK, Polled
        <4>4. exec[x].output \in Found /\ exec[x].seen.changedAt \in Time \cup {Never}
          BY <4>3 DEF HasPolled, Row
        <4>5. watch' \in Row /\ watch'.enabled = watch.enabled /\ watch'.review = watch.review
          BY <2>4, <4>2, <4>3, <4>4 DEF PersistRunAndWatch, UpdatedRow, Row
        <4> QED BY <4>2, <4>5, RowFacts
      <3> QED BY <1>1, <2>4, <3>1 DEF Settings, PersistRunAndWatch
    <2>5. CASE watch' = watch
      BY <1>1, <2>5
    <2> QED BY <1>1, <2>2, <2>3, <2>4, <2>5 DEF Next, vars, Passes, Executes, Settle, ReadWatch, PollSource,
               PersistRefused, AppendEvidenceEvent, RecordIntelligenceEvent, EnqueueAnalystReview, Ends, Fails
  <1>2. IInv /\ [Next]_vars =>
          [Settings(watch') # Settings(watch) =>
             edits' # edits \/ deletes' # deletes \/ (edit # NoEdit /\ edit' = NoEdit)]_vars
    BY <1>1
  <1> QED BY <1>2, InductiveInvariant, PTL DEF Spec, OnlyUsersConfigure

\* What the scheduler, the executions and the queue do to the slots: an item
\* is queued once and settled once.
LEMMA PhaseSteps ==
  ASSUME [Next]_vars
  PROVE  \/ UNCHANGED phase
         \/ /\ RunDueOsintWatches
            /\ phase[watch.next] = "absent"
            /\ phase' = [phase EXCEPT ![watch.next] = "open"]
         \/ \E slot \in Slot : phase[slot] = "open"
              /\ \E end \in {"completed", "dead"} : phase' = [phase EXCEPT ![slot] = end]
  BY DEF Next, vars, Passes, Configures, CreateContinuousOsintWatch, EditReads, EditWrites,
     DeleteContinuousOsintWatch, RunDueOsintWatches, EnqueueSlot, Executes, ReadWatch, PollSource,
     PersistRunAndWatch, PersistRefused, AppendEvidenceEvent, RecordIntelligenceEvent, EnqueueAnalystReview,
     Ends, Fails, Settle, Queue!Submit, Queue!RunEnds, Queue!SettleCompleted, Queue!GiveUp

\* A settled item stays settled (runDueOsintWatches, on conflict do nothing).
THEOREM SlotsSettleOnce == Spec => SlotSettledOnce
  <1>1. ASSUME IInv, [Next]_vars
        PROVE  \A slot \in Slot : phase[slot] \in {"completed", "dead"} => phase'[slot] = phase[slot]
    BY <1>1, PhaseSteps DEF IInv, TypeOK
  <1>2. IInv /\ [Next]_vars =>
          [\A slot \in Slot : phase[slot] \in {"completed", "dead"} => phase'[slot] = phase[slot]]_vars
    BY <1>1
  <1> QED BY <1>2, InductiveInvariant, PTL DEF Spec, SlotSettledOnce

\* A due time passes only with its item in the queue (runDueOsintWatches).
THEOREM SlotsAreNotSkipped == Spec => NoSlotSkipped
  <1>1. ASSUME IInv, [Next]_vars, watch # NoWatch, watch' # NoWatch, watch'.next # watch.next,
               edits' = edits, edit' = edit
        PROVE  phase'[watch.next] # "absent"
    <2>1. edits \in Nat
      BY <1>1, ContinuousWatchAssumption DEF IInv, TypeOK
    <2>2. CASE RunDueOsintWatches
      <3>1. watch.next \in Slot
        BY <1>1 DEF IInv, TypeOK, Row
      <3> QED BY <1>1, <2>2, <3>1 DEF RunDueOsintWatches, EnqueueSlot, Queue!Submit, IInv, TypeOK
    <2>3. CASE Configures
      BY <1>1, <2>1, <2>3 DEF Configures, CreateContinuousOsintWatch, Edits, EditReads, EditWrites, NoEdit,
         DeleteContinuousOsintWatch
    <2>4. ASSUME NEW x \in Execution, PersistRunAndWatch(x)
          PROVE  FALSE
      <3>1. watch \in Row
        BY <1>1 DEF IInv, TypeOK
      <3> QED BY <1>1, <2>4, <3>1 DEF PersistRunAndWatch, UpdatedRow, Row
    <2> QED BY <1>1, <2>2, <2>3, <2>4 DEF Next, vars, Passes, Executes, Settle, ReadWatch, PollSource,
               PersistRefused, AppendEvidenceEvent, RecordIntelligenceEvent, EnqueueAnalystReview, Ends, Fails
  <1>2. IInv /\ [Next]_vars =>
          [watch # NoWatch /\ watch' # NoWatch /\ watch'.next # watch.next
             /\ edits' = edits /\ edit' = edit
           => phase'[watch.next] # "absent"]_vars
    BY <1>1
  <1> QED BY <1>2, InductiveInvariant, PTL DEF Spec, NoSlotSkipped

-----------------------------------------------------------------------------
(* What a completed slot stands for *)

Done(x, slot) == exec[x].pc = "done" /\ exec[x].slot = slot

\* The queue heard "ok" only from an execution that went through, and an
\* execution that is past recording its run finds it as long as nothing was deleted.
RunIsOnRecord(x) ==
  exec[x].pc \in {"persisted", "reporting", "reviewing", "closing", "done"} /\ deletes = 0 =>
    \E i \in DOMAIN runs : runs[i].by = x

SlotInv ==
  /\ \A x \in Execution : RunIsOnRecord(x)
  /\ \A slot \in Slot :
       /\ "ok" \in tried[slot] => \E x \in Execution : Done(x, slot)
       /\ phase[slot] = "completed" => "ok" \in tried[slot]

\* An execution that is done stays as it is.
LEMMA DoneStays ==
  ASSUME [Next]_vars, NEW x \in Execution, exec[x].pc = "done", DOMAIN exec = Execution
  PROVE  exec'[x] = exec[x]
  BY DEF Next, vars, Passes, Configures, CreateContinuousOsintWatch, EditReads, EditWrites,
     DeleteContinuousOsintWatch, RunDueOsintWatches, Settle, Executes, ReadWatch, PollSource,
     PersistRunAndWatch, PersistRefused, AppendEvidenceEvent, RecordIntelligenceEvent,
     EnqueueAnalystReview, Ends, Fails, Goto, Active

\* The queue hears an "ok" only from an execution that thereby is done.
LEMMA OkMeansDone ==
  ASSUME IInv, [Next]_vars, NEW slot \in Slot, "ok" \in tried'[slot]
  PROVE  "ok" \in tried[slot] \/ \E x \in Execution : Done(x, slot)'
  <1>1. tried \in [Slot -> SUBSET Queue!Outcome] /\ DOMAIN exec = Execution
    BY DEF IInv, TypeOK
  <1>2. ASSUME NEW x \in Execution, Ends(x), tried' # tried
        PROVE  "ok" \in tried[slot] \/ Done(x, slot)'
    <2>1. /\ HasPolled(exec[x]) /\ exec[x].pc = "closing"
          /\ exec' = [exec EXCEPT ![x] = [@ EXCEPT !.pc = "done"]]
      BY <1>2, ExecutionForms DEF Ends, Goto, IInv, TypeOK, Polled
    <2>2. exec'[x].pc = "done" /\ exec'[x].slot = exec[x].slot
      BY <1>1, <2>1 DEF HasPolled
    <2>3. \A other \in Slot : other # exec[x].slot => tried'[other] = tried[other]
      BY <1>1, <1>2 DEF Ends, Queue!RunEnds
    <2> QED BY <2>2, <2>3 DEF Done
  <1>3. ASSUME NEW ended, Queue!RunEnds(ended, "error")
        PROVE  "ok" \in tried[slot]
    BY <1>1, <1>3 DEF Queue!RunEnds
  <1>4. ASSUME NEW x \in Execution, Executes(x)
        PROVE  \/ tried' = tried \/ Ends(x)
               \/ \E ended : Queue!RunEnds(ended, "error")
    BY <1>4 DEF Executes, ReadWatch, PollSource, PersistRunAndWatch, PersistRefused, AppendEvidenceEvent,
       RecordIntelligenceEvent, EnqueueAnalystReview, Fails
  <1>5. CASE tried' = tried
    BY <1>5
  <1>6. CASE tried' # tried
    <2>1. \E x \in Execution : Executes(x)
      BY <1>6 DEF Next, vars, Passes, Configures, CreateContinuousOsintWatch, EditReads, EditWrites,
         DeleteContinuousOsintWatch, RunDueOsintWatches, EnqueueSlot, Queue!Submit, Settle,
         Queue!SettleCompleted, Queue!GiveUp
    <2> QED BY <1>2, <1>3, <1>4, <1>6, <2>1
  <1> QED BY <1>5, <1>6

\* No slot is completed that the queue has not heard an "ok" of.
LEMMA CompletedMeansOk ==
  ASSUME IInv, [Next]_vars, NEW slot \in Slot, phase'[slot] = "completed"
  PROVE  phase[slot] = "completed" \/ ("ok" \in tried[slot] /\ tried' = tried)
  <1>1. phase \in [Slot -> {"absent", "open", "completed", "dead"}]
    BY DEF IInv, TypeOK
  <1>2. CASE phase' = phase
    BY <1>2
  <1>3. CASE RunDueOsintWatches
    BY <1>1, <1>3 DEF RunDueOsintWatches, EnqueueSlot, Queue!Submit
  <1>4. ASSUME NEW s \in Slot, Settle(s)
        PROVE  phase[slot] = "completed" \/ ("ok" \in tried[slot] /\ tried' = tried)
    BY <1>1, <1>4 DEF Settle, Queue!SettleCompleted, Queue!GiveUp
  <1> QED
    BY <1>2, <1>3, <1>4 DEF Next, vars, Passes, Configures, CreateContinuousOsintWatch, EditReads, EditWrites,
       DeleteContinuousOsintWatch, Executes, ReadWatch, PollSource, PersistRunAndWatch, PersistRefused,
       AppendEvidenceEvent, RecordIntelligenceEvent, EnqueueAnalystReview, Ends, Fails, Queue!RunEnds

LEMMA TriedGrows ==
  ASSUME IInv, [Next]_vars, NEW slot \in Slot
  PROVE  tried[slot] \subseteq tried'[slot]
  <1>1. tried \in [Slot -> SUBSET Queue!Outcome]
    BY DEF IInv, TypeOK
  <1>2. ASSUME NEW ended, NEW outcome, Queue!RunEnds(ended, outcome)
        PROVE  tried[slot] \subseteq tried'[slot]
    BY <1>1, <1>2 DEF Queue!RunEnds
  <1>3. ASSUME NEW x \in Execution, Executes(x)
        PROVE  tried' = tried \/ \E ended, outcome : Queue!RunEnds(ended, outcome)
    BY <1>3 DEF Executes, ReadWatch, PollSource, PersistRunAndWatch, PersistRefused, AppendEvidenceEvent,
       RecordIntelligenceEvent, EnqueueAnalystReview, Ends, Fails
  <1>4. CASE tried' = tried
    BY <1>4
  <1> QED
    BY <1>2, <1>3, <1>4 DEF Next, vars, Passes, Configures, CreateContinuousOsintWatch, EditReads, EditWrites,
       DeleteContinuousOsintWatch, RunDueOsintWatches, EnqueueSlot, Queue!Submit, Settle,
       Queue!SettleCompleted, Queue!GiveUp

\* Only a deletion takes runs off the record, and an execution gets past
\* recording its run only by recording it.
LEMMA RunsStayOnRecord ==
  ASSUME IInv, [Next]_vars, \A x \in Execution : RunIsOnRecord(x)
  PROVE  \A x \in Execution : RunIsOnRecord(x)'
  <1>1. /\ runs \in Seq(Run) /\ deletes \in Nat /\ DOMAIN exec = Execution
        /\ \A x \in Execution : ExecutionOK(exec[x])
    BY ContinuousWatchAssumption DEF IInv, TypeOK
  <1>2. CASE DeleteContinuousOsintWatch
    BY <1>1, <1>2 DEF DeleteContinuousOsintWatch, RunIsOnRecord
  <1>3. ASSUME NEW x \in Execution, PersistRunAndWatch(x)
        PROVE  \A y \in Execution : RunIsOnRecord(y)'
    <2> DEFINE run == [by |-> x, previous |-> exec[x].seen.last, output |-> exec[x].output,
                       changed |-> exec[x].changed, at |-> now]
    <2>1. runs' = Append(runs, run) /\ deletes' = deletes
          /\ \A y \in Execution \ {x} : exec'[y] = exec[y]
      BY <1>1, <1>3 DEF PersistRunAndWatch, Goto
    <2>2. run.by = x
      OBVIOUS
    <2> HIDE DEF run
    <2>3. /\ \A i \in DOMAIN runs : i \in DOMAIN runs' /\ runs'[i] = runs[i]
          /\ Len(runs) + 1 \in DOMAIN runs' /\ runs'[Len(runs) + 1] = run
      BY <1>1, <2>1
    <2>4. RunIsOnRecord(x)'
      BY <2>2, <2>3 DEF RunIsOnRecord
    <2>5. ASSUME NEW y \in Execution \ {x} PROVE RunIsOnRecord(y)'
      BY <2>1, <2>3 DEF RunIsOnRecord
    <2> QED BY <2>4, <2>5
  <1>4. ASSUME UNCHANGED <<runs, deletes>>,
               \A x \in Execution :
                 exec'[x].pc \in {"persisted", "reporting", "reviewing", "closing", "done"} =>
                   exec[x].pc \in {"persisted", "reporting", "reviewing", "closing", "done"}
        PROVE  \A x \in Execution : RunIsOnRecord(x)'
    BY <1>4 DEF RunIsOnRecord
  <1>5. ASSUME NEW x \in Execution, Executes(x), ~PersistRunAndWatch(x)
        PROVE  \A y \in Execution : RunIsOnRecord(y)'
    <2>1. UNCHANGED <<runs, deletes>>
      BY <1>5 DEF Executes, ReadWatch, PollSource, PersistRefused, AppendEvidenceEvent,
         RecordIntelligenceEvent, EnqueueAnalystReview, Ends, Fails
    <2>2. \A y \in Execution \ {x} : exec'[y] = exec[y]
      BY <1>1, <1>5 DEF Executes, ReadWatch, PollSource, PersistRefused, AppendEvidenceEvent,
         RecordIntelligenceEvent, EnqueueAnalystReview, Ends, Fails, Goto
    <2>3. CASE exec'[x].pc \in {"persisted", "reporting", "reviewing", "closing", "done"}
      <3>1. exec[x].pc \in {"persisted", "reporting", "reviewing", "closing", "done"}
        <4>1. CASE AppendEvidenceEvent(x) \/ RecordIntelligenceEvent(x) \/ EnqueueAnalystReview(x) \/ Ends(x)
          BY <4>1 DEF AppendEvidenceEvent, RecordIntelligenceEvent, EnqueueAnalystReview, Ends, Goto
        <4>2. CASE (\E slot \in Slot : ReadWatch(x, slot)) \/ \E output \in Found : PollSource(x, output)
          BY <1>1, <2>3, <4>2 DEF ReadWatch, PollSource
        <4>3. CASE PersistRefused(x) \/ Fails(x)
          <5>1. exec' = [exec EXCEPT ![x] = [@ EXCEPT !.pc = "failed"]] /\ exec[x].pc \notin {"idle", "done", "failed"}
            BY <4>3 DEF PersistRefused, Fails, Goto, Active
          <5>2. exec'[x].pc = "failed"
            BY <1>1, <5>1, FailureKeeps
          <5> QED BY <2>3, <5>2
        <4> QED BY <1>5, <4>1, <4>2, <4>3 DEF Executes
      <3> QED BY <1>4, <2>1, <2>2, <3>1
    <2>4. CASE exec'[x].pc \notin {"persisted", "reporting", "reviewing", "closing", "done"}
      BY <1>4, <2>1, <2>2, <2>4
    <2> QED BY <2>3, <2>4
  <1>6. CASE UNCHANGED <<runs, deletes, exec>>
    BY <1>4, <1>6
  <1> QED
    BY <1>2, <1>3, <1>5, <1>6 DEF Next, vars, Passes, Configures, CreateContinuousOsintWatch, EditReads,
       EditWrites, RunDueOsintWatches, Settle

\* A completed slot has an execution that went through and left everything it
\* owes: run, ledger event, event and review (runContinuousOsintWatch).
THEOREM CompletionsAreBacked == Spec => []CompletedSlotReported
  <1>1. Init => SlotInv
    BY DEF Init, Queue!Init, SlotInv, RunIsOnRecord
  <1>2. IInv /\ SlotInv /\ [Next]_vars => SlotInv'
    <2> SUFFICES ASSUME IInv, SlotInv, [Next]_vars PROVE SlotInv'
      OBVIOUS
    <2>1. \A x \in Execution : RunIsOnRecord(x)'
      BY RunsStayOnRecord DEF SlotInv
    <2>2. ASSUME NEW slot \in Slot, "ok" \in tried'[slot]
          PROVE  \E x \in Execution : Done(x, slot)'
      <3>1. CASE "ok" \in tried[slot]
        <4>1. PICK x \in Execution : Done(x, slot)
          BY <3>1 DEF SlotInv
        <4>2. exec'[x] = exec[x]
          BY <4>1, DoneStays DEF Done, IInv, TypeOK
        <4> QED BY <4>1, <4>2 DEF Done
      <3> QED BY <2>2, <3>1, OkMeansDone
    <2>3. ASSUME NEW slot \in Slot, phase'[slot] = "completed"
          PROVE  "ok" \in tried'[slot]
      BY <2>3, CompletedMeansOk, TriedGrows DEF SlotInv
    <2> QED BY <2>1, <2>2, <2>3 DEF SlotInv
  <1>3. IInv /\ SlotInv => CompletedSlotReported
    <2> SUFFICES ASSUME IInv, SlotInv, NEW slot \in Slot, phase[slot] = "completed"
                 PROVE  \E x \in Execution :
                          /\ Done(x, slot)
                          /\ deletes = 0 => \E i \in DOMAIN runs : runs[i].by = x
                          /\ MissionBound => x \in evidence
                          /\ exec[x].changed => x \in events /\ (exec[x].seen.review => exec[x].output \in reviews)
      BY DEF CompletedSlotReported, Done
    <2>1. PICK x \in Execution : Done(x, slot)
      BY DEF SlotInv
    <2>2. Trail(x) /\ RunIsOnRecord(x)
      BY DEF IInv, SlotInv
    <2> QED BY <2>1, <2>2 DEF Done, Trail, RunIsOnRecord
  <1> QED BY <1>1, <1>2, <1>3, InductiveInvariant, PTL DEF Spec

-----------------------------------------------------------------------------
(* The watch and the queue *)

\* The queue has the item of every execution that has begun.
ItemsKnown == \A x \in Execution : exec[x].pc # "idle" => exec[x].slot \in Slot /\ phase[exec[x].slot] # "absent"

\* The queue never refuses the end of an execution: what guards RunEnds is true
\* wherever the watch calls it, so the abstraction blocks no step of the code.
THEOREM QueueTakesEveryEnd == Spec => []ItemsKnown
  <1>1. Init => ItemsKnown
    BY DEF Init, ItemsKnown
  <1>2. IInv /\ ItemsKnown /\ [Next]_vars => ItemsKnown'
    <2> SUFFICES ASSUME IInv, ItemsKnown, [Next]_vars PROVE ItemsKnown'
      OBVIOUS
    <2>1. DOMAIN exec = Execution /\ \A x \in Execution : ExecutionOK(exec[x])
      BY DEF IInv, TypeOK
    <2>2. \A slot \in Slot : phase[slot] # "absent" => phase'[slot] # "absent"
      BY PhaseSteps DEF IInv, TypeOK
    <2>3. ASSUME NEW x \in Execution, exec'[x].pc # "idle"
          PROVE  exec'[x].slot \in Slot /\ phase[exec'[x].slot] # "absent"
      <3>1. CASE exec'[x] = exec[x]
        BY <2>3, <3>1 DEF ItemsKnown
      <3>2. ASSUME NEW slot \in Slot, ReadWatch(x, slot)
            PROVE  exec'[x].slot = slot /\ phase[slot] # "absent"
        BY <2>1, <3>2 DEF ReadWatch
      <3>3. ASSUME NEW output \in Found, PollSource(x, output)
            PROVE  exec'[x].slot = exec[x].slot /\ exec[x].pc # "idle"
        BY <2>1, <3>3 DEF PollSource
      <3>4. ASSUME NEW to, exec[x].pc \notin {"idle", "done", "failed"},
                   exec' = [exec EXCEPT ![x] = [@ EXCEPT !.pc = to]]
            PROVE  exec'[x].slot = exec[x].slot /\ exec[x].pc # "idle"
        <4>1. HasPolled(exec[x]) \/ HasRead(exec[x])
          BY <2>1, <3>4, ExecutionForms DEF Polled
        <4> QED BY <2>1, <3>4, <4>1 DEF HasPolled, HasRead
      <3>5. ASSUME PersistRunAndWatch(x) \/ PersistRefused(x) \/ AppendEvidenceEvent(x) \/ RecordIntelligenceEvent(x)
                   \/ EnqueueAnalystReview(x) \/ Ends(x) \/ Fails(x)
            PROVE  exec'[x].slot = exec[x].slot /\ exec[x].pc # "idle"
        BY <3>4, <3>5 DEF PersistRunAndWatch, PersistRefused, AppendEvidenceEvent, RecordIntelligenceEvent,
           EnqueueAnalystReview, Ends, Fails, Goto, Active
      <3>6. exec'[x] = exec[x] \/ Executes(x)
        <4>1. ASSUME NEW y \in Execution, Executes(y), y # x
              PROVE  exec'[x] = exec[x]
          BY <2>1, <4>1 DEF Executes, ReadWatch, PollSource, PersistRunAndWatch, PersistRefused,
             AppendEvidenceEvent, RecordIntelligenceEvent, EnqueueAnalystReview, Ends, Fails, Goto
        <4> QED
          BY <4>1 DEF Next, vars, Passes, Configures, CreateContinuousOsintWatch, EditReads, EditWrites,
             DeleteContinuousOsintWatch, RunDueOsintWatches, Settle
      <3> QED BY <3>1, <3>2, <3>3, <3>5, <3>6 DEF Executes, ItemsKnown
    <2> QED BY <2>2, <2>3 DEF ItemsKnown
  <1> QED BY <1>1, <1>2, InductiveInvariant, PTL DEF Spec

\* Scheduler and executions use the queue within its promise: what they see of
\* it is a behaviour of AtLeastOnce, which WorkQueue implements.
THEOREM WatchKeepsToPromise == Spec => Queue!Spec
  <1>1. Init => Queue!Init
    BY DEF Init
  <1>2. IInv /\ [Next]_vars => [Queue!Next]_(Queue!abstractVars)
    <2> SUFFICES ASSUME IInv, [Next]_vars, ~UNCHANGED <<phase, tried>>
                 PROVE  Queue!Next
      BY DEF Queue!abstractVars
    <2>1. ASSUME NEW slot \in Slot, NEW outcome \in Queue!Outcome, Queue!RunEnds(slot, outcome)
          PROVE  Queue!Next
      BY <2>1 DEF Queue!Next
    <2>2. ASSUME NEW x \in Execution, Executes(x)
          PROVE  \E slot \in Slot, outcome \in Queue!Outcome : Queue!RunEnds(slot, outcome)
      <3>1. exec[x].pc \notin {"idle", "failed"} => exec[x].slot \in Slot
        BY ExecutionForms DEF IInv, TypeOK
      <3> QED
        BY <2>2, <3>1 DEF Executes, ReadWatch, PollSource, PersistRunAndWatch, PersistRefused, AppendEvidenceEvent,
           RecordIntelligenceEvent, EnqueueAnalystReview, Ends, Fails, Goto, Active, Queue!Outcome
    <2>3. CASE RunDueOsintWatches
      <3>1. watch.next \in Slot
        BY <2>3, RowFacts DEF RunDueOsintWatches, Due, IInv, TypeOK, Row
      <3> QED BY <2>3, <3>1 DEF RunDueOsintWatches, EnqueueSlot, Queue!Next
    <2>4. ASSUME NEW slot \in Slot, Settle(slot)
          PROVE  Queue!Next
      BY <2>4 DEF Settle, Queue!Next
    <2> QED BY <2>1, <2>2, <2>3, <2>4 DEF Next, vars, Passes, Configures, CreateContinuousOsintWatch, EditReads,
               EditWrites, DeleteContinuousOsintWatch
  <1> QED BY <1>1, <1>2, InductiveInvariant, PTL DEF Spec, Queue!Spec

-----------------------------------------------------------------------------
(* As long as executions have not overlapped and nothing was deleted *)

\* While an execution polls, the row keeps what it read.
ReadStaysTrue ==
  \A x \in Execution :
    exec[x].pc \in {"polling", "polled"} =>
      /\ watch # NoWatch
      /\ exec[x].seen.last = watch.last
      /\ exec[x].seen.changedAt = watch.changedAt
      /\ exec[x].pc = "polled" => exec[x].changed = Changed(exec[x].seen.last, exec[x].output)

OneAtATime == \A x, y \in Active : x = y

InTurn == ~overlapped /\ deletes = 0

SequentialInv ==
  /\ OneAtATime
  /\ ReadStaysTrue
  /\ watch = NoWatch => runs = <<>>
  /\ ChangesExact
  /\ RowSumsUpRuns

\* The largest of some numbers: n minus the smallest of their distances to n.
LEMMA HasLargest ==
  ASSUME NEW n \in Nat, NEW S \in SUBSET (1..n), S # {}
  PROVE  \E m \in S : \A y \in S : m >= y
  <1> DEFINE R == {ss \in Nat \X Nat : ss[1] < ss[2]}
             T == {k \in Nat : n - k \in S}
  <1>1. IsWellFoundedOn(R, Nat)
    BY NatLessThanWellFounded DEF OpToRel
  <1>2. T # {}
    <2>1. PICK y \in S : TRUE
      OBVIOUS
    <2>2. n - y \in Nat /\ n - (n - y) = y
      OBVIOUS
    <2> QED BY <2>1, <2>2
  <1>3. PICK k \in T : \A j \in T : ~(<<j, k>> \in R)
    BY <1>1, <1>2, WFMin
  <1>4. ASSUME NEW y \in S
        PROVE  n - k >= y
    <2>1. n - y \in Nat /\ n - (n - y) = y
      OBVIOUS
    <2>2. n - y \in T
      BY <2>1
    <2>3. ~(n - y < k)
      BY <1>3, <2>1, <2>2
    <2> QED BY <2>1, <2>3
  <1> QED BY <1>4

LEMMA MaxIs ==
  ASSUME NEW S \in SUBSET Int, NEW m \in S, \A y \in S : m >= y
  PROVE  Max(S) = m
  <1>1. Max(S) \in S /\ \A y \in S : Max(S) >= y
    BY Zenon DEF Max
  <1>2. Max(S) \in Int /\ m \in Int /\ Max(S) >= m /\ m >= Max(S)
    BY <1>1
  <1> QED BY <1>2

\* What one more run does to the latest output.
LEMMA LatestOutputGrows ==
  ASSUME runs \in Seq(Run), NEW run \in Run, runs' = Append(runs, run)
  PROVE  /\ \A n \in 0..Len(runs) : LatestOutput(n)' = LatestOutput(n)
         /\ LatestOutput(Len(runs))' = IF run.output # NoOutput THEN run.output ELSE LatestOutput(Len(runs))
  <1> DEFINE F(n) == {i \in 1..n : runs[i].output # NoOutput}
             G(n) == {i \in 1..n : runs'[i].output # NoOutput}
  <1>1. /\ Len(runs) \in Nat /\ Len(runs') = Len(runs) + 1
        /\ runs'[Len(runs')] = run
        /\ \A i \in 1..Len(runs) : runs'[i] = runs[i]
    OBVIOUS
  <1>2. ASSUME NEW n \in 0..Len(runs)
        PROVE  /\ G(n) = F(n)
               /\ (IF G(n) = {} THEN NoOutput ELSE runs'[Max(G(n))].output)
                    = (IF F(n) = {} THEN NoOutput ELSE runs[Max(F(n))].output)
    <2>1. G(n) = F(n)
      BY <1>1
    <2>2. CASE F(n) # {}
      <3>1. PICK m \in F(n) : \A y \in F(n) : m >= y
        <4>1. F(n) \subseteq 1..n /\ n \in Nat
          BY <1>1
        <4> HIDE DEF F
        <4> QED BY <2>2, <4>1, HasLargest
      <3>2. Max(F(n)) = m
        <4>1. F(n) \in SUBSET Int
          BY <1>1
        <4> HIDE DEF F
        <4> QED BY <3>1, <4>1, MaxIs
      <3>3. m \in 1..Len(runs)
        BY <1>1
      <3> QED BY <1>1, <2>1, <3>2, <3>3
    <2> QED BY <2>1, <2>2
  <1>3. \A n \in 0..Len(runs) : LatestOutput(n)' = LatestOutput(n)
    BY <1>2 DEF LatestOutput
  <1>4. CASE run.output # NoOutput
    <2> DEFINE N == Len(runs')
    <2>1. /\ N \in G(N) /\ \A y \in G(N) : N >= y
          /\ G(N) \in SUBSET Int
      BY <1>1, <1>4
    <2>2. Max(G(N)) = N
      <3> HIDE DEF G, N
      <3> QED BY <2>1, MaxIs
    <2>3. LatestOutput(Len(runs))' = IF G(N) = {} THEN NoOutput ELSE runs'[Max(G(N))].output
      BY DEF LatestOutput
    <2> QED BY <1>1, <1>3, <1>4, <2>1, <2>2, <2>3
  <1>5. CASE run.output = NoOutput
    <2> DEFINE N == Len(runs')
    <2>1. G(N) = G(Len(runs))
      BY <1>1, <1>5
    <2>2. LatestOutput(Len(runs))' = IF G(N) = {} THEN NoOutput ELSE runs'[Max(G(N))].output
      BY DEF LatestOutput
    <2>3. LatestOutput(Len(runs)) = IF F(Len(runs)) = {} THEN NoOutput ELSE runs[Max(F(Len(runs)))].output
      BY DEF LatestOutput
    <2>4. Len(runs) \in 0..Len(runs)
      BY <1>1
    <2> HIDE DEF F, G, N
    <2> QED BY <1>2, <1>3, <1>5, <2>1, <2>2, <2>3, <2>4
  <1> QED BY <1>3, <1>4, <1>5

\* The runs stay; a row that appears is empty.
LEMMA RowActionsKeepSequence ==
  ASSUME InTurn, SequentialInv, UNCHANGED <<runs, exec>>,
         watch # NoWatch => watch' # NoWatch /\ watch'.last = watch.last /\ watch'.changedAt = watch.changedAt,
         watch = NoWatch /\ watch' # NoWatch => watch'.last = NoOutput /\ watch'.changedAt = Never
  PROVE  SequentialInv'
  <1>1. Active' = Active
    BY DEF Active
  <1>2. \A n : LatestOutput(n)' = LatestOutput(n)
    BY DEF LatestOutput
  <1>3. OneAtATime'
    BY <1>1 DEF SequentialInv, OneAtATime
  <1>4. ReadStaysTrue'
    BY DEF SequentialInv, ReadStaysTrue
  <1>5. ChangesExact'
    BY <1>2 DEF InTurn, SequentialInv, ChangesExact
  <1>6. RowSumsUpRuns'
    <2>1. CASE watch # NoWatch
      BY <1>2, <2>1 DEF InTurn, SequentialInv, RowSumsUpRuns
    <2>2. CASE watch = NoWatch
      <3>1. runs = <<>> /\ 1..Len(runs) = {} /\ DOMAIN runs = {}
        BY <2>2 DEF SequentialInv
      <3>2. LatestOutput(Len(runs))' = NoOutput
        BY <3>1, <1>2 DEF LatestOutput
      <3> QED BY <2>2, <3>1, <3>2 DEF RowSumsUpRuns
    <2> QED BY <2>1, <2>2
  <1> QED BY <1>3, <1>4, <1>5, <1>6 DEF SequentialInv

\* A step of an execution that leaves row and runs alone.
LEMMA StepsKeepSequence ==
  ASSUME InTurn, SequentialInv, NEW x \in Execution, UNCHANGED <<runs, watch>>,
         \A y \in Execution \ {x} : exec'[y] = exec[y],
         x \in Active' => x \in Active,
         exec'[x].pc \in {"polling", "polled"} =>
           /\ exec[x].pc \in {"polling", "polled"}
           /\ exec'[x].seen = exec[x].seen
           /\ exec'[x].pc = "polled" => exec'[x].changed = Changed(exec'[x].seen.last, exec'[x].output)
  PROVE  SequentialInv'
  <1>1. Active' \subseteq Active
    BY DEF Active
  <1>2. OneAtATime'
    BY <1>1 DEF SequentialInv, OneAtATime
  <1>3. ReadStaysTrue'
    BY DEF SequentialInv, ReadStaysTrue, Changed
  <1>4. \A n : LatestOutput(n)' = LatestOutput(n)
    BY DEF LatestOutput
  <1> QED BY <1>2, <1>3, <1>4 DEF InTurn, SequentialInv, ChangesExact, RowSumsUpRuns

LEMMA ReadKeepsSequence ==
  ASSUME IInv, InTurn, InTurn', SequentialInv, NEW x \in Execution, NEW slot \in Slot, ReadWatch(x, slot)
  PROVE  SequentialInv'
  <1>1. Active = {}
    BY DEF ReadWatch, InTurn
  <1>2. DOMAIN exec = Execution
    BY DEF IInv, TypeOK
  <1>3. \A y \in Execution \ {x} : exec'[y] = exec[y]
    BY <1>2 DEF ReadWatch
  <1>4. \/ watch # NoWatch /\ exec'[x] = [pc |-> "polling", slot |-> slot, seen |-> watch]
        \/ exec'[x] = [pc |-> "failed", slot |-> slot]
    BY <1>2 DEF ReadWatch
  <1>5. Active' \subseteq {x}
    BY <1>1, <1>3 DEF Active
  <1>6. OneAtATime'
    BY <1>5 DEF OneAtATime
  <1>7. ReadStaysTrue'
    <2> SUFFICES ASSUME NEW y \in Execution, exec'[y].pc \in {"polling", "polled"}
                 PROVE  watch # NoWatch /\ exec'[y].pc = "polling" /\ exec'[y].seen = watch
      BY DEF ReadStaysTrue, ReadWatch
    <2>1. y = x
      BY <1>5 DEF Active
    <2> QED BY <1>4, <2>1
  <1>8. \A n : LatestOutput(n)' = LatestOutput(n)
    BY DEF LatestOutput, ReadWatch
  <1> QED BY <1>6, <1>7, <1>8 DEF InTurn, SequentialInv, ChangesExact, RowSumsUpRuns, ReadWatch

LEMMA PersistKeepsSequence ==
  ASSUME IInv, InTurn, SequentialInv, NEW x \in Execution, PersistRunAndWatch(x)
  PROVE  SequentialInv'
  <1> DEFINE run == [by |-> x, previous |-> exec[x].seen.last, output |-> exec[x].output,
                     changed |-> exec[x].changed, at |-> now]
  <1>1. /\ HasPolled(exec[x]) /\ exec'[x].pc = "persisted" /\ exec[x].pc = "polled"
        /\ DOMAIN exec' = Execution
        /\ \A y \in Execution \ {x} : exec'[y] = exec[y]
    BY GotoEffect DEF PersistRunAndWatch, Goto, Polled
  <1>2. /\ exec[x].seen \in Row /\ exec[x].output \in Found /\ exec[x].changed \in BOOLEAN
    BY <1>1 DEF HasPolled
  <1>3. watch \in Row /\ watch # NoWatch /\ now \in Time
    BY DEF PersistRunAndWatch, IInv, TypeOK
  <1>4. /\ exec[x].seen.last = watch.last /\ exec[x].seen.changedAt = watch.changedAt
        /\ exec[x].changed = Changed(watch.last, exec[x].output)
    BY <1>1 DEF SequentialInv, ReadStaysTrue
  <1>5. watch.last \in Found /\ watch.changedAt \in Time \cup {Never}
    BY <1>3 DEF Row
  <1>6. /\ watch' \in Row
        /\ watch'.last = IF exec[x].output # NoOutput THEN exec[x].output ELSE watch.last
        /\ watch'.changedAt = IF exec[x].changed THEN now ELSE watch.changedAt
    BY <1>2, <1>3, <1>4, <1>5 DEF PersistRunAndWatch, UpdatedRow, Row
  <1>7. run \in Run
    BY <1>2, <1>3, <1>4, <1>5 DEF Run
  <1>8. run.output = exec[x].output /\ run.changed = exec[x].changed /\ run.at = now
    OBVIOUS
  <1> HIDE DEF run
  <1>9. runs' = Append(runs, run) /\ runs \in Seq(Run)
    BY DEF PersistRunAndWatch, run, IInv, TypeOK
  <1>10. /\ Len(runs) \in Nat /\ Len(runs') = Len(runs) + 1 /\ DOMAIN runs = 1..Len(runs)
         /\ DOMAIN runs' = 1..Len(runs') /\ runs'[Len(runs')] = run
         /\ \A i \in 1..Len(runs) : runs'[i] = runs[i]
    BY <1>9
  <1>11. /\ \A n \in 0..Len(runs) : LatestOutput(n)' = LatestOutput(n)
         /\ LatestOutput(Len(runs))' = IF run.output # NoOutput THEN run.output ELSE LatestOutput(Len(runs))
    BY <1>7, <1>9, LatestOutputGrows
  <1>12. watch.last = LatestOutput(Len(runs))
    BY <1>3 DEF InTurn, SequentialInv, RowSumsUpRuns
  <1>13. OneAtATime'
    <2>1. Active' \subseteq Active
      BY <1>1 DEF Active
    <2> QED BY <2>1 DEF SequentialInv, OneAtATime
  <1>14. ReadStaysTrue'
    <2> SUFFICES ASSUME NEW y \in Execution, exec'[y].pc \in {"polling", "polled"}
                 PROVE  FALSE
      BY DEF ReadStaysTrue
    <2>1. y # x /\ exec[y].pc \in {"polling", "polled"}
      BY <1>1
    <2>2. x \in Active /\ y \in Active
      BY <1>1, <2>1 DEF Active
    <2> QED BY <2>1, <2>2 DEF SequentialInv, OneAtATime
  <1>15. ChangesExact'
    <2> SUFFICES ASSUME NEW i \in DOMAIN runs'
                 PROVE  (runs'[i].changed <=> /\ LatestOutput(i - 1)' # NoOutput
                                              /\ runs'[i].output \notin {NoOutput, LatestOutput(i - 1)'})
      BY DEF ChangesExact
    <2>1. i - 1 \in 0..Len(runs)
      BY <1>10
    <2>2. LatestOutput(i - 1)' = LatestOutput(i - 1)
      BY <1>11, <2>1
    <2>3. CASE i \in DOMAIN runs
      BY <1>10, <2>2, <2>3 DEF InTurn, SequentialInv, ChangesExact
    <2>4. CASE i = Len(runs')
      <3>1. i - 1 = Len(runs) /\ runs'[i] = run
        BY <1>10, <2>4
      <3> QED BY <1>4, <1>8, <1>12, <2>2, <3>1 DEF Changed
    <2> QED BY <1>10, <2>3, <2>4
  <1>16. RowSumsUpRuns'
    <2> DEFINE C == {i \in DOMAIN runs : runs[i].changed}
               D == {i \in DOMAIN runs' : runs'[i].changed}
    <2>1. watch'.last = LatestOutput(Len(runs))'
      BY <1>6, <1>8, <1>11, <1>12
    <2>2. watch'.changedAt = IF D = {} THEN Never ELSE runs'[Max(D)].at
      <3>1. CASE exec[x].changed
        <4>1. /\ Len(runs') \in DOMAIN runs' /\ DOMAIN runs' \in SUBSET Int
              /\ \A y \in DOMAIN runs' : Len(runs') >= y
          BY <1>10
        <4>2. runs'[Len(runs')].changed
          BY <1>8, <1>10, <3>1
        <4>3. Len(runs') \in D /\ D \in SUBSET Int /\ \A y \in D : Len(runs') >= y
          BY <4>1, <4>2
        <4>4. Max(D) = Len(runs')
          <5> HIDE DEF D
          <5> QED BY <4>3, MaxIs
        <4> QED BY <1>6, <1>8, <1>10, <3>1, <4>3, <4>4
      <3>2. CASE ~exec[x].changed
        <4>1. D = C
          BY <1>8, <1>10, <3>2
        <4>2. watch.changedAt = IF C = {} THEN Never ELSE runs[Max(C)].at
          BY <1>3 DEF InTurn, SequentialInv, RowSumsUpRuns
        <4>3. CASE C # {}
          <5>1. C \in SUBSET (1..Len(runs)) /\ C \in SUBSET Int
            BY <1>10
          <5>2. PICK m \in C : \A y \in C : m >= y
            <6> HIDE DEF C
            <6> QED BY <1>10, <4>3, <5>1, HasLargest
          <5>3. Max(C) = m
            <6> HIDE DEF C
            <6> QED BY <5>1, <5>2, MaxIs
          <5>4. runs'[m] = runs[m]
            BY <1>10, <5>1
          <5> QED BY <1>6, <3>2, <4>1, <4>2, <4>3, <5>3, <5>4
        <4>4. CASE C = {}
          BY <1>6, <3>2, <4>1, <4>2, <4>4
        <4> QED BY <4>3, <4>4
      <3> QED BY <3>1, <3>2
    <2> QED BY <2>1, <2>2 DEF RowSumsUpRuns
  <1>17. watch' # NoWatch
    BY <1>6, RowFacts
  <1> QED BY <1>13, <1>14, <1>15, <1>16, <1>17 DEF SequentialInv

LEMMA SequentialInit == Init => SequentialInv
  <1> SUFFICES ASSUME Init
               PROVE  SequentialInv
    OBVIOUS
  <1>1. \A x \in Execution : exec[x].pc = "idle"
    BY DEF Init
  <1>2. Active = {}
    BY <1>1 DEF Active
  <1>3. runs = <<>> /\ DOMAIN runs = {} /\ watch = NoWatch
    BY DEF Init
  <1> QED BY <1>1, <1>2, <1>3 DEF SequentialInv, OneAtATime, ReadStaysTrue, ChangesExact, RowSumsUpRuns

LEMMA SequentialNext ==
  ASSUME IInv, InTurn => SequentialInv, [Next]_vars, InTurn'
  PROVE  SequentialInv'
  <1>0. InTurn /\ SequentialInv
    <2>1. UNCHANGED overlapped \/ (overlapped' <=> overlapped \/ Active # {})
      BY Zenon DEF Next, vars, Passes, Configures, CreateContinuousOsintWatch, EditReads, EditWrites,
         DeleteContinuousOsintWatch, RunDueOsintWatches, Executes, ReadWatch, PollSource, PersistRunAndWatch,
         PersistRefused, AppendEvidenceEvent, RecordIntelligenceEvent, EnqueueAnalystReview, Ends, Fails, Settle
    <2>2. UNCHANGED deletes \/ deletes' = deletes + 1
      BY DEF Next, vars, Passes, Configures, CreateContinuousOsintWatch, EditReads, EditWrites,
         DeleteContinuousOsintWatch, RunDueOsintWatches, Executes, ReadWatch, PollSource, PersistRunAndWatch,
         PersistRefused, AppendEvidenceEvent, RecordIntelligenceEvent, EnqueueAnalystReview, Ends, Fails, Settle
    <2>3. overlapped \in BOOLEAN /\ deletes \in Nat
      BY DEF IInv, TypeOK
    <2>4. ~overlapped
      BY <2>1, <2>3 DEF InTurn
    <2>5. deletes = 0
      BY <2>2, <2>3 DEF InTurn
    <2> QED BY <2>4, <2>5 DEF InTurn
  <1>1. CASE UNCHANGED <<watch, runs, exec>>
    BY <1>0, <1>1, RowActionsKeepSequence
  <1>2. ASSUME NEW patch \in Patch, CreateContinuousOsintWatch(patch)
        PROVE  SequentialInv'
    <2>1. CASE watch = NoWatch
      BY <1>0, <1>2, <2>1, RowActionsKeepSequence DEF CreateContinuousOsintWatch, CreatedRow
    <2>2. CASE watch # NoWatch
      <3>1. watch \in Row /\ watch' # NoWatch
        <4>1. IInv' /\ watch \in Row
          BY <1>2, <2>2, CreateKeeps DEF IInv, TypeOK
        <4>2. watch' = [watch EXCEPT !.enabled = Asked(patch, "enabled", TRUE), !.review = Asked(patch, "review", TRUE),
                                     !.next = Earlier(watch.next, Asked(patch, "next", now))]
          BY <1>2, <2>2 DEF CreateContinuousOsintWatch, CreatedRow
        <4>3. Earlier(watch.next, Asked(patch, "next", now)) \in Slot
          BY <4>1, RowFacts, PatchFacts DEF Earlier, Row, IInv, TypeOK, Time
        <4>4. watch' \in Row
          BY <4>1, <4>2, <4>3, PatchFacts DEF Row
        <4> QED BY <4>1, <4>4, RowFacts
      <3>2. watch'.last = watch.last /\ watch'.changedAt = watch.changedAt
        BY <1>2, <2>2, <3>1 DEF CreateContinuousOsintWatch, CreatedRow, Row
      <3> QED BY <1>0, <1>2, <2>2, <3>1, <3>2, RowActionsKeepSequence DEF CreateContinuousOsintWatch
    <2> QED BY <2>1, <2>2
  <1>3. ASSUME EditWrites
        PROVE  SequentialInv'
    <2>1. edit \in [pc: {"writing"}, enabled: BOOLEAN, review: BOOLEAN, next: Slot]
      BY <1>3 DEF EditWrites, IInv, TypeOK, NoEdit
    <2>2. /\ (watch' = NoWatch <=> watch = NoWatch)
          /\ watch # NoWatch => watch'.last = watch.last /\ watch'.changedAt = watch.changedAt
      BY <1>3, <2>1, RowFacts DEF EditWrites, IInv, TypeOK, Row
    <2> QED BY <1>0, <1>3, <2>2, RowActionsKeepSequence DEF EditWrites
  <1>4. ASSUME DeleteContinuousOsintWatch
        PROVE  FALSE
    BY <1>4 DEF DeleteContinuousOsintWatch, InTurn, IInv, TypeOK
  <1>5. ASSUME RunDueOsintWatches
        PROVE  SequentialInv'
    <2>1. watch \in Row /\ now + Interval \in Slot
      BY <1>5, RowFacts DEF RunDueOsintWatches, Due, IInv, TypeOK
    <2>2. watch' \in Row /\ watch'.last = watch.last /\ watch'.changedAt = watch.changedAt
      BY <1>5, <2>1 DEF RunDueOsintWatches, Row
    <2> QED BY <1>0, <1>5, <2>1, <2>2, RowFacts, RowActionsKeepSequence DEF RunDueOsintWatches
  <1>6. ASSUME NEW x \in Execution, NEW slot \in Slot, ReadWatch(x, slot)
        PROVE  SequentialInv'
    BY <1>0, <1>6, ReadKeepsSequence
  <1>7. ASSUME NEW x \in Execution, NEW output \in Found, PollSource(x, output)
        PROVE  SequentialInv'
    <2> DEFINE e == [pc |-> "polled", slot |-> exec[x].slot, seen |-> exec[x].seen, output |-> output,
                     changed |-> Changed(exec[x].seen.last, output)]
    <2>1. exec'[x] = e /\ \A y \in Execution \ {x} : exec'[y] = exec[y]
      BY <1>7 DEF PollSource, IInv, TypeOK
    <2>2. e.pc = "polled" /\ e.seen = exec[x].seen /\ e.changed = Changed(e.seen.last, e.output)
      OBVIOUS
    <2> HIDE DEF e
    <2> QED BY <1>0, <1>7, <2>1, <2>2, StepsKeepSequence DEF PollSource, Active
  <1>8. ASSUME NEW x \in Execution, PersistRunAndWatch(x)
        PROVE  SequentialInv'
    BY <1>0, <1>8, PersistKeepsSequence
  <1>9. ASSUME NEW x \in Execution,
               \/ PersistRefused(x) \/ AppendEvidenceEvent(x) \/ RecordIntelligenceEvent(x)
               \/ EnqueueAnalystReview(x) \/ Ends(x)
        PROVE  SequentialInv'
    <2>1. PICK from \in Polled \ {"failed", "done"}, to \in Polled \ {"polled"} : Goto(x, from, to)
      BY <1>9 DEF PersistRefused, AppendEvidenceEvent, RecordIntelligenceEvent, EnqueueAnalystReview, Ends, Polled
    <2>2. /\ exec'[x].pc = to /\ exec[x].pc = from
          /\ \A y \in Execution \ {x} : exec'[y] = exec[y]
      <3>1. from \in Polled \ {"failed"} /\ to \in Polled
        OBVIOUS
      <3>2. exec'[x].pc = to /\ \A y \in Execution \ {x} : exec'[y] = exec[y]
        BY <2>1, <3>1, GotoEffect
      <3> QED BY <2>1, <3>2 DEF Goto
    <2>3. x \in Active /\ exec'[x].pc \notin {"polling", "polled"}
      BY <2>1, <2>2 DEF Active, Polled
    <2>4. UNCHANGED <<runs, watch>>
      BY <1>9 DEF PersistRefused, AppendEvidenceEvent, RecordIntelligenceEvent, EnqueueAnalystReview, Ends
    <2> QED BY <1>0, <2>2, <2>3, <2>4, StepsKeepSequence
  <1>10. ASSUME NEW x \in Execution, Fails(x)
         PROVE  SequentialInv'
    <2>1. /\ exec'[x] = [exec[x] EXCEPT !.pc = "failed"]
          /\ \A y \in Execution \ {x} : exec'[y] = exec[y]
      BY <1>10 DEF Fails, IInv, TypeOK
    <2>2. ExecutionOK(exec[x]) /\ exec[x].pc \notin {"idle", "done", "failed"}
      BY <1>10 DEF Fails, Active, IInv, TypeOK
    <2>3. exec'[x].pc = "failed"
      BY <2>1, <2>2, FailureKeeps
    <2>4. x \in Active /\ UNCHANGED <<runs, watch>>
      BY <1>10 DEF Fails
    <2> QED BY <1>0, <2>1, <2>3, <2>4, StepsKeepSequence
  <1> QED BY <1>1, <1>2, <1>3, <1>4, <1>5, <1>6, <1>7, <1>8, <1>9, <1>10
          DEF Next, vars, Passes, Configures, EditReads, Executes, Settle

\* As long as executions have not overlapped and the watch was not deleted, a
\* recorded change is a change of the output (runContinuousOsintWatch).
THEOREM RecordedChangesAreExact == Spec => []ChangesExact
  <1>1. IInv /\ (InTurn => SequentialInv) /\ [Next]_vars => (InTurn' => SequentialInv')
    BY SequentialNext
  <1>2. (InTurn => SequentialInv) => ChangesExact
    BY DEF InTurn, SequentialInv, ChangesExact
  <1>3. Init => (InTurn => SequentialInv)
    BY SequentialInit
  <1> QED BY <1>1, <1>2, <1>3, InductiveInvariant, PTL DEF Spec

\* Likewise the row agrees with its runs (persistRunAndWatch).
THEOREM RowAgreesWithRuns == Spec => []RowSumsUpRuns
  <1>1. IInv /\ (InTurn => SequentialInv) /\ [Next]_vars => (InTurn' => SequentialInv')
    BY SequentialNext
  <1>2. (InTurn => SequentialInv) => RowSumsUpRuns
    BY DEF InTurn, SequentialInv, RowSumsUpRuns
  <1>3. Init => (InTurn => SequentialInv)
    BY SequentialInit
  <1> QED BY <1>1, <1>2, <1>3, InductiveInvariant, PTL DEF Spec
=============================================================================
