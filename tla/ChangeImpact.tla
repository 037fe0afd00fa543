---------------------------- MODULE ChangeImpact ----------------------------
(***************************************************************************)
(* From a recomputed intelligence state to the analyst queue               *)
(* (change-impact.ts, analyst-review.ts), for one subject and predicate.   *)
(*                                                                         *)
(* A call of recordChangeImpact loads the latest snapshot, assesses how    *)
(* material the difference is, commits snapshot and change event in one    *)
(* transaction, and only then, in statements of their own, queues an       *)
(* analyst review and an activation.  Calls of overlapping ingestions      *)
(* interleave with each other and with the analysts; a call may die, or    *)
(* fail because an event cannot be emitted, between any two statements.    *)
(* promoteRunsToIntelligence swallows the failure.                         *)
(*                                                                         *)
(* An intelligence state is the record assessMateriality looks at, with    *)
(* its hash.  Scores and confidences are integer hundredths.  The sums the *)
(* code forms with floating point fall on the same side of its thresholds; *)
(* a difference of two confidences need not (0.9 - 0.8 < 0.1): there the   *)
(* code may add up to 0.24 less than the model.  No property depends on it.*)
(***************************************************************************)
EXTENDS Integers, Sequences, SequencesExt

CONSTANTS
  Call,        \* calls of recordChangeImpact
  State,       \* intelligence states an ingestion may compute
  Time,        \* observedAt: when the source record was retrieved
  NoState,     \* there is no earlier snapshot
  MaxActions,  \* bound: updates of one review
  MaxFaults    \* bound: calls that die or fail

ASSUME ChangeImpactAssumption ==
  /\ \A s \in State :
       /\ s.contested \in BOOLEAN /\ s.temporal \in BOOLEAN /\ s.verify \in BOOLEAN
       /\ s.confidence \in 0..100
       /\ s.lineages \in Nat
  /\ \A s, t \in State : s.hash = t.hash => s.contested = t.contested
  /\ NoState \notin State
  /\ Time \subseteq Nat
  /\ MaxActions \in Nat
  /\ MaxFaults \in Nat

VARIABLES
  snapshots,    \* intelligence_state_snapshots
  changes,      \* intelligence_change_events
  reviews,      \* reviews[h]: the analyst_review_queue row of state hash h
  actions,      \* actions[h]: rows of analyst_review_actions, in commit order
  activations,  \* change ids of the queued intelligence_activation items
  call,         \* call[c]: control state and locals of a call
  faults        \* faults so far (bounded by MaxFaults)

vars == <<snapshots, changes, reviews, actions, activations, call, faults>>

Hash == {s.hash : s \in State}

-----------------------------------------------------------------------------
(* assessMateriality *)

\* Mutant of NewlyContested: the first state of a subject does not count.
NewlyContestedLater(previous, current) ==
  /\ current.contested
  /\ IF previous = NoState THEN FALSE ELSE ~previous.contested

NewlyContested(previous, current) ==
  current.contested /\ (previous = NoState \/ ~previous.contested)

NewlyTemporal(previous, current) ==
  current.temporal /\ (previous = NoState \/ ~previous.temporal)

Abs(n) == IF n < 0 THEN -n ELSE n

ConfidenceScore(delta) == IF delta >= 25 THEN 24 ELSE IF delta >= 10 THEN 12 ELSE 0
LineageScore(delta) == IF delta <= 0 THEN 0 ELSE IF delta >= 3 THEN 14 ELSE 5 * delta

\* What the difference to an earlier state adds to the score.
MovementScore(previous, current) ==
  (IF previous.leader # current.leader THEN 28 ELSE 0)
  + ConfidenceScore(Abs(current.confidence - previous.confidence))
  + LineageScore(current.lineages - previous.lineages)

Score(previous, current) ==
  (IF previous = NoState THEN 28 ELSE 18 + MovementScore(previous, current))
  + (IF NewlyContested(previous, current) THEN 38 ELSE 0)
  + (IF NewlyTemporal(previous, current) THEN 20 ELSE 0)
  + (IF current.verify THEN 8 ELSE 0)

MaterialityOf(score) ==
  IF score >= 85 THEN "critical"
  ELSE IF score >= 65 THEN "high"
  ELSE IF score >= 40 THEN "medium"
  ELSE "low"

Unchanged(previous, current) == previous # NoState /\ previous.hash = current.hash

AssessMateriality(previous, current) ==
  IF Unchanged(previous, current) THEN "none" ELSE MaterialityOf(Score(previous, current))

Materiality == {"none", "low", "medium", "high", "critical"}
Material(materiality) == materiality \in {"medium", "high", "critical"}

-----------------------------------------------------------------------------
ReviewStatus == {"open", "in_review", "resolved", "dismissed"}
Pending == {"open", "in_review"}

NoReview == [status |-> "absent", priority |-> "none", change |-> "none"]

NewCall == [pc |-> "new"]

Init ==
  /\ snapshots = {}
  /\ changes = {}
  /\ reviews = [h \in Hash |-> NoReview]
  /\ actions = [h \in Hash |-> <<>>]
  /\ activations = {}
  /\ call = [c \in Call |-> NewCall]
  /\ faults = 0

-----------------------------------------------------------------------------
(* recordChangeImpact *)

\* order by observed_at desc limit 1: of equal times any row.
Latest ==
  IF snapshots = {} THEN {NoState}
  ELSE {s.state : s \in {t \in snapshots : \A u \in snapshots : u.at <= t.at}}

\* The states were recomputed before the latest snapshot is read.
Assess(c, state, at, previous) ==
  /\ call[c].pc = "new"
  /\ previous \in Latest
  /\ call' = [call EXCEPT ![c] =
       [pc |-> "assessed", state |-> state, at |-> at, previous |-> previous,
        materiality |-> AssessMateriality(previous, state)]]
  /\ UNCHANGED <<snapshots, changes, reviews, actions, activations, faults>>

Goto(c, from, to) ==
  /\ call[c].pc = from
  /\ call' = [call EXCEPT ![c] = [@ EXCEPT !.pc = to]]

\* One ingestion retrieves a record once, so that a change id, the hash of the
\* record and the new state, is the call's own.
ChangeEvent(c) ==
  [id |-> c, previous |-> call[c].previous, current |-> call[c].state,
   materiality |-> call[c].materiality]

\* Mutants of Persist: medium changes left out, a state seen before not stored
\* again.
PersistWithoutMedium(c) ==
  /\ Goto(c, "assessed", IF call[c].materiality \in {"high", "critical"} THEN "reviewing" ELSE "done")
  /\ snapshots' = snapshots \cup {[state |-> call[c].state, at |-> call[c].at]}
  /\ changes' = changes \cup {ChangeEvent(c)}
  /\ UNCHANGED <<reviews, actions, activations, faults>>
PersistOncePerState(c) ==
  /\ Goto(c, "assessed", IF Material(call[c].materiality) THEN "reviewing" ELSE "done")
  /\ snapshots' = snapshots \cup {[state |-> call[c].state, at |-> call[c].at]}
  /\ changes' = IF \E s \in snapshots : s.state.hash = call[c].state.hash THEN changes
                ELSE changes \cup {ChangeEvent(c)}
  /\ UNCHANGED <<reviews, actions, activations, faults>>

\* Snapshot and change event are committed together.
Persist(c) ==
  /\ Goto(c, "assessed", IF Material(call[c].materiality) THEN "reviewing" ELSE "done")
  /\ snapshots' = snapshots \cup {[state |-> call[c].state, at |-> call[c].at]}
  /\ changes' = changes \cup {ChangeEvent(c)}
  /\ UNCHANGED <<reviews, actions, activations, faults>>

\* Mutant of UpsertedReview: a decided review is opened again.
UpsertedReviewReopens(row, c) ==
  IF row.status \in Pending THEN [row EXCEPT !.priority = call[c].materiality]
  ELSE [status |-> "open", priority |-> call[c].materiality, change |-> c]

\* The row of kind intelligence_change whose dedupe key is the state: a new one
\* is open, a pending one takes the new priority, a decided one stays.  The
\* change a review was opened for is never replaced.
UpsertedReview(row, c) ==
  IF row.status = "absent"
  THEN [status |-> "open", priority |-> call[c].materiality, change |-> c]
  ELSE IF row.status \in Pending THEN [row EXCEPT !.priority = call[c].materiality]
  ELSE row

EnqueueAnalystReview(c) ==
  /\ Goto(c, "reviewing", "activating")
  /\ reviews' = [reviews EXCEPT ![call[c].state.hash] = UpsertedReview(@, c)]
  /\ UNCHANGED <<snapshots, changes, actions, activations, faults>>

EnqueueActivation(c) ==
  /\ Goto(c, "activating", "done")
  /\ activations' = activations \cup {c}
  /\ UNCHANGED <<snapshots, changes, reviews, actions, faults>>

\* A statement or an emission fails, or the process dies: whatever was
\* committed stays, the rest is not done, and the caller does not retry.
GiveUp(c) ==
  /\ call[c].pc \in {"assessed", "reviewing", "activating"}
  /\ call' = [call EXCEPT ![c] = [@ EXCEPT !.pc = "failed"]]
  /\ faults < MaxFaults
  /\ faults' = faults + 1
  /\ UNCHANGED <<snapshots, changes, reviews, actions, activations>>

-----------------------------------------------------------------------------
(* updateAnalystReview: the row and its audit action in one transaction.
   actions[h] is in the order of the commits.  The time an action carries is
   taken before the row is locked, so of two racing updates the earlier commit
   may carry the later time. *)

UpdateAnalystReview(h, status) ==
  /\ reviews[h].status # "absent"
  /\ Len(actions[h]) < MaxActions
  /\ reviews' = [reviews EXCEPT ![h] = [@ EXCEPT !.status = status]]
  /\ actions' = [actions EXCEPT ![h] = Append(@, status)]
  /\ UNCHANGED <<snapshots, changes, activations, call, faults>>

-----------------------------------------------------------------------------
CallNext(c) ==
  \/ \E state \in State, at \in Time, previous \in Latest : Assess(c, state, at, previous)
  \/ Persist(c)
  \/ EnqueueAnalystReview(c)
  \/ EnqueueActivation(c)
  \/ GiveUp(c)

Next ==
  \/ \E c \in Call : CallNext(c)
  \/ \E h \in Hash, status \in ReviewStatus : UpdateAnalystReview(h, status)

Spec == Init /\ [][Next]_vars
-----------------------------------------------------------------------------
(* Properties *)

Priority == {"medium", "high", "critical"}

PastAssessment == {"assessed", "reviewing", "activating", "done", "failed"}

Assessed ==
  [pc: PastAssessment, state: State, at: Time, previous: State \cup {NoState},
   materiality: Materiality]

CallOK(l) ==
  \/ l = NewCall
  \/ l \in Assessed /\ l.materiality = AssessMateriality(l.previous, l.state)

\* Type invariant; the materiality a call carries is the one it assessed.
TypeOK ==
  /\ snapshots \subseteq [state: State, at: Time]
  /\ changes \subseteq [id: Call, previous: State \cup {NoState}, current: State,
                        materiality: Materiality]
  /\ reviews \in [Hash -> {NoReview} \cup
                         [status: ReviewStatus, priority: Priority, change: Call]]
  /\ actions \in [Hash -> Seq(ReviewStatus)]
  /\ activations \subseteq Call
  /\ DOMAIN call = Call /\ \A c \in Call : CallOK(call[c])
  /\ faults \in 0..MaxFaults

\* Whatever calls and analysts do at the same time, the append-only actions
\* account for the status of every review: it is the status of the last action
\* and "open" before the first.  Neither a later ingestion of the state nor the
\* race of two analysts leaves a status that no audited action explains
\* (CONTINUOUS_INTELLIGENCE.md:15).
AuditExplainsStatus ==
  \A h \in Hash : reviews[h].status # "absent" =>
    reviews[h].status = IF actions[h] = <<>> THEN "open" ELSE Last(actions[h])

\* The event row of a change: of the same state, and material.
StoredMaterial(c, h) ==
  \E e \in changes : e.id = c /\ e.current.hash = h /\ Material(e.materiality)

\* The analyst queue and the activations never run ahead of the record: each
\* names a committed, material change event, of the review's own state; quiet
\* observations make no noise in either (CONTINUOUS_INTELLIGENCE.md:14).
FollowUpsRecorded ==
  /\ \A h \in Hash : reviews[h].status # "absent" => StoredMaterial(reviews[h].change, h)
  /\ \A c \in activations : \E h \in Hash : StoredMaterial(c, h)

\* A committed material change has its review and its activation, unless the
\* call that committed it is still under way or failed: no other call of the
\* state, no earlier decision and no analyst makes it drop out of the queues.
MaterialChangeFollowedUp ==
  \A e \in changes : Material(e.materiality) =>
    \/ reviews[e.current.hash].status # "absent" /\ e.id \in activations
    \/ call[e.id].pc \in {"reviewing", "activating", "failed"}

\* A change that makes a subject contested is material whatever else it does
\* or undoes: its first contested state, a change of leader or of confidence in
\* either direction never outweigh the contention (assessMateriality).
ContentionIsMaterial ==
  \A e \in changes :
    e.current.contested /\ (e.previous # NoState => ~e.previous.contested)
      => Material(e.materiality)

\* "Medium/high/critical changes create analyst-review items"
\* (CONTINUOUS_INTELLIGENCE.md:14): once a call is past the queue, the review
\* of its material change is pending.
MaterialChangeIsPending ==
  [][\A c \in Call :
       call[c].pc = "reviewing" /\ call'[c].pc = "activating" =>
         reviews'[call[c].state.hash].status \in Pending]_vars
=============================================================================
