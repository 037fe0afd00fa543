------------------------- MODULE ChangeImpactProofs -------------------------
(***************************************************************************)
(* Theorems about ChangeImpact, for every set of calls, states and times.  *)
(***************************************************************************)
EXTENDS ChangeImpact, TLAPS

USE ChangeImpactAssumption DEF ChangeImpactAssumption

-----------------------------------------------------------------------------
(* The inductive invariant *)

Committed == {"reviewing", "activating", "done", "failed"}

\* Change events are what calls left behind, and a call that goes on to the
\* queues has left its own.
EventsOfCalls == \A e \in changes : call[e.id].pc \in Committed /\ e = ChangeEvent(e.id)

FollowingUp ==
  \A c \in Call :
    /\ call[c].pc \in {"reviewing", "activating"} =>
         Material(call[c].materiality) /\ ChangeEvent(c) \in changes
    /\ call[c].pc = "activating" => reviews[call[c].state.hash].status # "absent"

\* No action precedes its review.
NoActionWithoutReview == \A h \in Hash : reviews[h].status = "absent" => actions[h] = <<>>

\* The inductive invariant behind the theorems.
IInv ==
  /\ TypeOK
  /\ EventsOfCalls
  /\ FollowingUp
  /\ NoActionWithoutReview
  /\ AuditExplainsStatus
  /\ FollowUpsRecorded
  /\ MaterialChangeFollowedUp

-----------------------------------------------------------------------------
(* The assessment *)

\* An assessment is one of the five materialities.
LEMMA AssessedType ==
  ASSUME NEW previous, NEW current
  PROVE  AssessMateriality(previous, current) \in Materiality
  BY DEF AssessMateriality, MaterialityOf, Materiality

\* What moved since an earlier state never lowers the score.
LEMMA MovementIsNat ==
  ASSUME NEW previous \in State, NEW current \in State
  PROVE  MovementScore(previous, current) \in Nat
  <1>1. ConfidenceScore(Abs(current.confidence - previous.confidence)) \in Nat
    BY DEF ConfidenceScore
  <1>2. LineageScore(current.lineages - previous.lineages) \in Nat
    BY DEF LineageScore
  <1> QED
    BY <1>1, <1>2 DEF MovementScore

\* New contention alone reaches "medium", from any earlier state and from none.
THEOREM NewContentionIsMaterial ==
  ASSUME NEW previous \in State \cup {NoState}, NEW current \in State,
         current.contested, previous # NoState => ~previous.contested
  PROVE  Material(AssessMateriality(previous, current))
  <1>1. ~Unchanged(previous, current)
    BY DEF Unchanged
  <1>2. NewlyContested(previous, current)
    BY DEF NewlyContested
  <1>3. (IF previous = NoState THEN 28 ELSE 18 + MovementScore(previous, current)) \in Nat
        /\ (IF previous = NoState THEN 28 ELSE 18 + MovementScore(previous, current)) >= 18
    BY MovementIsNat
  <1>4. Score(previous, current) \in Nat /\ Score(previous, current) >= 56
    BY <1>2, <1>3 DEF Score
  <1> QED
    BY <1>1, <1>4 DEF AssessMateriality, MaterialityOf, Material

-----------------------------------------------------------------------------
(* Steps of a call *)

\* A call that moves on keeps what it assessed.
LEMMA MovesOn ==
  ASSUME TypeOK, NEW c \in Call, NEW to \in PastAssessment, call[c].pc # "new",
         call' = [call EXCEPT ![c] = [@ EXCEPT !.pc = to]]
  PROVE  /\ call[c] \in Assessed
         /\ call[c].materiality = AssessMateriality(call[c].previous, call[c].state)
         /\ DOMAIN call' = Call
         /\ call'[c] \in Assessed
         /\ call'[c].pc = to
         /\ call'[c].state = call[c].state
         /\ call'[c].previous = call[c].previous
         /\ call'[c].materiality = call[c].materiality
         /\ \A d \in Call : d # c => call'[d] = call[d]
         /\ \A d \in Call : ChangeEvent(d)' = ChangeEvent(d)
         /\ \A d \in Call : CallOK(call'[d])
  <1>1. /\ call[c] \in Assessed
        /\ call[c].materiality = AssessMateriality(call[c].previous, call[c].state)
        /\ DOMAIN call = Call
    BY DEF TypeOK, CallOK, NewCall
  <1>2. /\ DOMAIN call' = Call
        /\ call'[c] = [call[c] EXCEPT !.pc = to]
        /\ \A d \in Call : d # c => call'[d] = call[d]
    BY <1>1
  <1>3. /\ call'[c] \in Assessed /\ call'[c].pc = to /\ call'[c].state = call[c].state
        /\ call'[c].previous = call[c].previous
        /\ call'[c].materiality = call[c].materiality
    BY <1>1, <1>2 DEF Assessed
  <1>4. \A d \in Call : ChangeEvent(d)' = ChangeEvent(d)
    BY <1>2, <1>3 DEF ChangeEvent
  <1>5. \A d \in Call : CallOK(call'[d])
    BY <1>1, <1>2, <1>3 DEF CallOK, TypeOK
  <1> QED
    BY <1>1, <1>2, <1>3, <1>4, <1>5

\* A committed state and event are of the types of their tables.
LEMMA PersistType ==
  ASSUME TypeOK, NEW c \in Call, Persist(c)
  PROVE  /\ ChangeEvent(c) \in [id: Call, previous: State \cup {NoState}, current: State,
                                materiality: Materiality]
         /\ [state |-> call[c].state, at |-> call[c].at] \in [state: State, at: Time]
  <1>1. call[c] \in Assessed
    BY DEF Persist, Goto, TypeOK, CallOK, NewCall
  <1> QED
    BY <1>1 DEF Assessed, ChangeEvent

\* The queue's row after an upsert.
LEMMA UpsertType ==
  ASSUME TypeOK, NEW c \in Call, NEW row \in {NoReview} \cup
           [status: ReviewStatus, priority: Priority, change: Call],
         call[c].materiality \in Priority
  PROVE  /\ UpsertedReview(row, c) \in [status: ReviewStatus, priority: Priority, change: Call]
         /\ row.status = "absent" => UpsertedReview(row, c).status = "open"
                                     /\ UpsertedReview(row, c).change = c
         /\ row.status # "absent" => UpsertedReview(row, c).status = row.status
                                     /\ UpsertedReview(row, c).change = row.change
  <1>1. CASE row.status = "absent"
    BY <1>1 DEF UpsertedReview, ReviewStatus
  <1>2. CASE row.status # "absent"
    <2>1. row \in [status: ReviewStatus, priority: Priority, change: Call]
      BY <1>2 DEF NoReview
    <2> QED
      BY <1>2, <2>1 DEF UpsertedReview
  <1> QED
    BY <1>1, <1>2

-----------------------------------------------------------------------------
(* Type correctness *)

\* Every step keeps tables and locals of their types.
LEMMA TypeStep ==
  ASSUME IInv, [Next]_vars
  PROVE  TypeOK'
  <1> USE DEF IInv
  <1>1. ASSUME NEW c \in Call, NEW state \in State, NEW at \in Time, NEW previous \in Latest,
               Assess(c, state, at, previous)
        PROVE  TypeOK'
    <2>1. previous \in State \cup {NoState}
      BY DEF TypeOK, Latest
    <2> DEFINE l == [pc |-> "assessed", state |-> state, at |-> at, previous |-> previous,
                     materiality |-> AssessMateriality(previous, state)]
    <2>2. CallOK(l)
      <3>1. l \in Assessed
        BY <2>1, AssessedType DEF Assessed, PastAssessment
      <3> QED
        BY <3>1 DEF CallOK
    <2>3. DOMAIN call' = Call /\ \A d \in Call : CallOK(call'[d])
      <3>1. DOMAIN call' = Call /\ call'[c] = l /\ \A d \in Call : d # c => call'[d] = call[d]
        BY <1>1 DEF Assess, TypeOK
      <3> QED
        BY <2>2, <3>1 DEF TypeOK
    <2> QED
      BY <1>1, <2>3 DEF Assess, TypeOK
  <1>2. ASSUME NEW c \in Call, Persist(c)
        PROVE  TypeOK'
    <2>1. DOMAIN call' = Call /\ \A d \in Call : CallOK(call'[d])
      BY <1>2, MovesOn DEF Persist, Goto, PastAssessment
    <2> QED
      BY <1>2, <2>1, PersistType DEF Persist, TypeOK
  <1>3. ASSUME NEW c \in Call, EnqueueAnalystReview(c)
        PROVE  TypeOK'
    <2>1. DOMAIN call' = Call /\ \A d \in Call : CallOK(call'[d])
      BY <1>3, MovesOn DEF EnqueueAnalystReview, Goto, PastAssessment
    <2>2. call[c].materiality \in Priority
      BY <1>3 DEF EnqueueAnalystReview, Goto, FollowingUp, Material, Priority
    <2>3. call[c].state.hash \in Hash
      BY <1>3, MovesOn DEF EnqueueAnalystReview, Goto, PastAssessment, Assessed, Hash
    <2>4. reviews' \in [Hash -> {NoReview} \cup
                          [status: ReviewStatus, priority: Priority, change: Call]]
      BY <1>3, <2>2, <2>3, UpsertType DEF EnqueueAnalystReview, TypeOK
    <2> QED
      BY <1>3, <2>1, <2>4 DEF EnqueueAnalystReview, TypeOK
  <1>4. ASSUME NEW c \in Call, EnqueueActivation(c)
        PROVE  TypeOK'
    <2>1. DOMAIN call' = Call /\ \A d \in Call : CallOK(call'[d])
      BY <1>4, MovesOn DEF EnqueueActivation, Goto, PastAssessment
    <2> QED
      BY <1>4, <2>1 DEF EnqueueActivation, TypeOK
  <1>5. ASSUME NEW c \in Call, GiveUp(c)
        PROVE  TypeOK'
    <2>1. DOMAIN call' = Call /\ \A d \in Call : CallOK(call'[d])
      BY <1>5, MovesOn DEF GiveUp, PastAssessment
    <2>2. faults' \in 0..MaxFaults
      BY <1>5 DEF GiveUp, TypeOK
    <2> QED
      BY <1>5, <2>1, <2>2 DEF GiveUp, TypeOK
  <1>6. ASSUME NEW h \in Hash, NEW status \in ReviewStatus, UpdateAnalystReview(h, status)
        PROVE  TypeOK'
    <2>1. reviews[h] \in [status: ReviewStatus, priority: Priority, change: Call]
      BY <1>6 DEF UpdateAnalystReview, TypeOK, NoReview
    <2>2. [reviews[h] EXCEPT !.status = status] \in
            [status: ReviewStatus, priority: Priority, change: Call]
      BY <2>1
    <2>3. reviews' \in [Hash -> {NoReview} \cup
                          [status: ReviewStatus, priority: Priority, change: Call]]
      BY <1>6, <2>2 DEF UpdateAnalystReview, TypeOK
    <2>4. actions' \in [Hash -> Seq(ReviewStatus)]
      BY <1>6 DEF UpdateAnalystReview, TypeOK
    <2> QED
      BY <1>6, <2>3, <2>4 DEF UpdateAnalystReview, TypeOK
  <1>7. CASE UNCHANGED vars
    BY <1>7 DEF vars, TypeOK
  <1> QED
    BY <1>1, <1>2, <1>3, <1>4, <1>5, <1>6, <1>7 DEF Next, CallNext

-----------------------------------------------------------------------------
(* Change events and the calls that left them *)

\* Every step keeps each change event the record of the call that committed it.
LEMMA EventsStep ==
  ASSUME IInv, [Next]_vars
  PROVE  EventsOfCalls'
  <1> USE DEF IInv
  <1>0. \A e \in changes : e.id \in Call
    BY DEF TypeOK
  <1>1. ASSUME NEW c \in Call, NEW state \in State, NEW at \in Time, NEW previous \in Latest,
               Assess(c, state, at, previous)
        PROVE  EventsOfCalls'
    <2>1. \A d \in Call : d # c => call'[d] = call[d] /\ ChangeEvent(d)' = ChangeEvent(d)
      BY <1>1 DEF Assess, TypeOK, ChangeEvent
    <2>2. \A e \in changes : e.id # c
      BY <1>1 DEF Assess, EventsOfCalls, Committed
    <2> QED
      BY <1>0, <1>1, <2>1, <2>2 DEF Assess, EventsOfCalls
  <1>2. ASSUME NEW c \in Call, NEW to \in Committed, call[c].pc # "new",
               call' = [call EXCEPT ![c] = [@ EXCEPT !.pc = to]], UNCHANGED changes
        PROVE  EventsOfCalls'
    <2>1. to \in PastAssessment
      BY DEF Committed, PastAssessment
    <2>2. /\ call'[c].pc \in Committed
          /\ \A d \in Call : d # c => call'[d] = call[d]
          /\ \A d \in Call : ChangeEvent(d)' = ChangeEvent(d)
      BY <1>2, <2>1, MovesOn
    <2> QED
      BY <1>0, <1>2, <2>2 DEF EventsOfCalls
  <1>3. ASSUME NEW c \in Call, Persist(c)
        PROVE  EventsOfCalls'
    <2>1. /\ call'[c].pc \in Committed
          /\ \A d \in Call : d # c => call'[d] = call[d]
          /\ \A d \in Call : ChangeEvent(d)' = ChangeEvent(d)
      BY <1>3, MovesOn DEF Persist, Goto, Committed, PastAssessment
    <2>2. ChangeEvent(c).id = c
      BY DEF ChangeEvent
    <2> QED
      BY <1>0, <1>3, <2>1, <2>2 DEF Persist, EventsOfCalls
  <1>4. ASSUME NEW c \in Call, EnqueueAnalystReview(c) \/ EnqueueActivation(c) \/ GiveUp(c)
        PROVE  EventsOfCalls'
    BY <1>2, <1>4 DEF EnqueueAnalystReview, EnqueueActivation, GiveUp, Goto, Committed
  <1>5. ASSUME NEW h \in Hash, NEW status \in ReviewStatus, UpdateAnalystReview(h, status)
        PROVE  EventsOfCalls'
    BY <1>5 DEF UpdateAnalystReview, EventsOfCalls, ChangeEvent
  <1>6. CASE UNCHANGED vars
    BY <1>6 DEF vars, EventsOfCalls, ChangeEvent
  <1> QED
    BY <1>1, <1>3, <1>4, <1>5, <1>6 DEF Next, CallNext

-----------------------------------------------------------------------------
(* The analyst queue *)

\* An upsert opens the review of the call's state and leaves every other
\* status and change as they are.
LEMMA UpsertEffect ==
  ASSUME IInv, NEW c \in Call, EnqueueAnalystReview(c)
  PROVE  /\ call[c].state.hash \in Hash
         /\ reviews'[call[c].state.hash].status # "absent"
         /\ \A h \in Hash : reviews[h].status # "absent" =>
              reviews'[h].status = reviews[h].status /\ reviews'[h].change = reviews[h].change
         /\ \A h \in Hash : reviews[h].status = "absent" /\ reviews'[h].status # "absent" =>
              /\ h = call[c].state.hash
              /\ reviews'[h].status = "open" /\ reviews'[h].change = c
  <1> DEFINE h0 == call[c].state.hash
  <1>1. TypeOK /\ call[c].pc = "reviewing" /\ call[c].materiality \in Priority
    BY DEF IInv, EnqueueAnalystReview, Goto, FollowingUp, Material, Priority
  <1>2. h0 \in Hash
    BY <1>1, MovesOn DEF EnqueueAnalystReview, Goto, PastAssessment, Assessed, Hash
  <1>3. /\ reviews'[h0] = UpsertedReview(reviews[h0], c)
        /\ \A h \in Hash : h # h0 => reviews'[h] = reviews[h]
    BY <1>1, <1>2 DEF EnqueueAnalystReview, TypeOK
  <1>4. reviews[h0] \in {NoReview} \cup [status: ReviewStatus, priority: Priority, change: Call]
    BY <1>1, <1>2 DEF TypeOK
  <1>5. /\ reviews'[h0] \in [status: ReviewStatus, priority: Priority, change: Call]
        /\ reviews[h0].status = "absent" => reviews'[h0].status = "open" /\ reviews'[h0].change = c
        /\ reviews[h0].status # "absent" => reviews'[h0].status = reviews[h0].status
                                            /\ reviews'[h0].change = reviews[h0].change
    BY <1>1, <1>3, <1>4, UpsertType
  <1>6. reviews'[h0].status # "absent"
    BY <1>5 DEF ReviewStatus
  <1> QED
    BY <1>2, <1>3, <1>5, <1>6

\* An analyst's update keeps the review's change and appends its status.
LEMMA UpdateEffect ==
  ASSUME TypeOK, NEW h \in Hash, NEW status \in ReviewStatus, UpdateAnalystReview(h, status)
  PROVE  /\ reviews[h].status # "absent"
         /\ reviews'[h].status = status /\ status # "absent"
         /\ reviews'[h].change = reviews[h].change
         /\ actions'[h] # <<>> /\ Last(actions'[h]) = status
         /\ \A g \in Hash : g # h => reviews'[g] = reviews[g] /\ actions'[g] = actions[g]
  <1>1. reviews[h] \in [status: ReviewStatus, priority: Priority, change: Call]
    BY DEF UpdateAnalystReview, TypeOK, NoReview
  <1>2. reviews'[h] = [reviews[h] EXCEPT !.status = status]
    BY DEF UpdateAnalystReview, TypeOK
  <1>3. actions'[h] = Append(actions[h], status) /\ actions[h] \in Seq(ReviewStatus)
    BY DEF UpdateAnalystReview, TypeOK
  <1>4. actions'[h] # <<>> /\ Last(actions'[h]) = status
    BY <1>3 DEF Last
  <1> QED
    BY <1>1, <1>2, <1>4 DEF UpdateAnalystReview, TypeOK, ReviewStatus

\* Statuses and actions move together.
LEMMA AuditStep ==
  ASSUME IInv, [Next]_vars
  PROVE  NoActionWithoutReview' /\ AuditExplainsStatus'
  <1> USE DEF IInv
  <1>1. ASSUME UNCHANGED <<reviews, actions>>
        PROVE  NoActionWithoutReview' /\ AuditExplainsStatus'
    BY <1>1 DEF NoActionWithoutReview, AuditExplainsStatus
  <1>2. ASSUME NEW c \in Call, EnqueueAnalystReview(c)
        PROVE  NoActionWithoutReview' /\ AuditExplainsStatus'
    <2>1. actions' = actions
      BY <1>2 DEF EnqueueAnalystReview
    <2> QED
      BY <1>2, <2>1, UpsertEffect DEF NoActionWithoutReview, AuditExplainsStatus
  <1>3. ASSUME NEW h \in Hash, NEW status \in ReviewStatus, UpdateAnalystReview(h, status)
        PROVE  NoActionWithoutReview' /\ AuditExplainsStatus'
    BY <1>3, UpdateEffect DEF NoActionWithoutReview, AuditExplainsStatus
  <1> QED
    BY <1>1, <1>2, <1>3 DEF Next, CallNext, Assess, Persist, EnqueueActivation, GiveUp, vars

-----------------------------------------------------------------------------
(* What follows a change *)

\* Change events are never removed.
LEMMA ChangesGrow ==
  ASSUME [Next]_vars
  PROVE  changes \subseteq changes'
  BY DEF Next, CallNext, Assess, Persist, EnqueueAnalystReview, EnqueueActivation, GiveUp,
         UpdateAnalystReview, vars

\* Reviews are never removed, and keep the change they were opened for.
LEMMA ReviewsStay ==
  ASSUME IInv, [Next]_vars, NEW h \in Hash, reviews[h].status # "absent"
  PROVE  reviews'[h].status # "absent" /\ reviews'[h].change = reviews[h].change
  <1> USE DEF IInv
  <1>1. ASSUME NEW c \in Call, EnqueueAnalystReview(c)
        PROVE  reviews'[h].status # "absent" /\ reviews'[h].change = reviews[h].change
    BY <1>1, UpsertEffect
  <1>2. ASSUME NEW g \in Hash, NEW status \in ReviewStatus, UpdateAnalystReview(g, status)
        PROVE  reviews'[h].status # "absent" /\ reviews'[h].change = reviews[h].change
    BY <1>2, UpdateEffect
  <1> QED
    BY <1>1, <1>2 DEF Next, CallNext, Assess, Persist, EnqueueActivation, GiveUp, vars

\* Every step keeps a call that goes on to the queues behind its own event.
LEMMA FollowingUpStep ==
  ASSUME IInv, [Next]_vars
  PROVE  FollowingUp'
  <1> USE DEF IInv
  <1>1. ASSUME NEW c \in Call, NEW state \in State, NEW at \in Time, NEW previous \in Latest,
               Assess(c, state, at, previous)
        PROVE  FollowingUp'
    <2>1. \A d \in Call : d # c => call'[d] = call[d] /\ ChangeEvent(d)' = ChangeEvent(d)
      BY <1>1 DEF Assess, TypeOK, ChangeEvent
    <2>2. call'[c].pc = "assessed"
      BY <1>1 DEF Assess, TypeOK
    <2> QED
      BY <1>1, <2>1, <2>2 DEF Assess, FollowingUp
  <1>2. ASSUME NEW c \in Call, Persist(c)
        PROVE  FollowingUp'
    <2>1. /\ call'[c].pc = IF Material(call[c].materiality) THEN "reviewing" ELSE "done"
          /\ call'[c].materiality = call[c].materiality
          /\ \A d \in Call : d # c => call'[d] = call[d]
          /\ \A d \in Call : ChangeEvent(d)' = ChangeEvent(d)
      BY <1>2, MovesOn DEF Persist, Goto, PastAssessment
    <2>2. ChangeEvent(c) \in changes' /\ changes \subseteq changes' /\ reviews' = reviews
      BY <1>2 DEF Persist
    <2> QED
      BY <2>1, <2>2 DEF FollowingUp
  <1>3. ASSUME NEW c \in Call, EnqueueAnalystReview(c)
        PROVE  FollowingUp'
    <2>1. /\ call'[c].pc = "activating" /\ call[c].pc = "reviewing"
          /\ call'[c].materiality = call[c].materiality /\ call'[c].state = call[c].state
          /\ \A d \in Call : d # c => call'[d] = call[d]
          /\ \A d \in Call : ChangeEvent(d)' = ChangeEvent(d)
      BY <1>3, MovesOn DEF EnqueueAnalystReview, Goto, PastAssessment
    <2>2. changes' = changes
      BY <1>3 DEF EnqueueAnalystReview
    <2>3. \A d \in Call : call[d].pc = "activating" => call[d].state.hash \in Hash
      BY DEF TypeOK, CallOK, NewCall, Assessed, Hash
    <2> QED
      BY <1>3, <2>1, <2>2, <2>3, UpsertEffect DEF FollowingUp
  <1>4. ASSUME NEW c \in Call, EnqueueActivation(c) \/ GiveUp(c)
        PROVE  FollowingUp'
    <2>1. /\ call'[c].pc \in {"done", "failed"}
          /\ \A d \in Call : d # c => call'[d] = call[d]
          /\ \A d \in Call : ChangeEvent(d)' = ChangeEvent(d)
      BY <1>4, MovesOn DEF EnqueueActivation, GiveUp, Goto, PastAssessment
    <2> QED
      BY <1>4, <2>1 DEF EnqueueActivation, GiveUp, FollowingUp
  <1>5. ASSUME NEW h \in Hash, NEW status \in ReviewStatus, UpdateAnalystReview(h, status)
        PROVE  FollowingUp'
    <2>1. \A d \in Call : call[d].pc = "activating" => call[d].state.hash \in Hash
      BY DEF TypeOK, CallOK, NewCall, Assessed, Hash
    <2>2. \A g \in Hash : reviews[g].status # "absent" => reviews'[g].status # "absent"
      BY ReviewsStay
    <2>3. call' = call /\ changes' = changes /\ \A d \in Call : ChangeEvent(d)' = ChangeEvent(d)
      BY <1>5 DEF UpdateAnalystReview, ChangeEvent
    <2> QED
      BY <2>1, <2>2, <2>3 DEF FollowingUp
  <1>6. CASE UNCHANGED vars
    BY <1>6 DEF vars, FollowingUp, ChangeEvent
  <1> QED
    BY <1>1, <1>2, <1>3, <1>4, <1>5, <1>6 DEF Next, CallNext

\* Every step keeps queue and activations behind the committed events.
LEMMA RecordedStep ==
  ASSUME IInv, [Next]_vars
  PROVE  FollowUpsRecorded'
  <1> USE DEF IInv
  <1>1. \A c, h : StoredMaterial(c, h) => StoredMaterial(c, h)'
    BY ChangesGrow DEF StoredMaterial
  <1>2. \A c \in Call : call[c].pc \in {"reviewing", "activating"} =>
          call[c].state.hash \in Hash /\ StoredMaterial(c, call[c].state.hash)
    <2> SUFFICES ASSUME NEW c \in Call, call[c].pc \in {"reviewing", "activating"}
                 PROVE  call[c].state.hash \in Hash /\ StoredMaterial(c, call[c].state.hash)
      OBVIOUS
    <2>1. call[c].state.hash \in Hash
      BY DEF TypeOK, CallOK, NewCall, Assessed, Hash
    <2>2. ChangeEvent(c) \in changes /\ Material(call[c].materiality)
      BY DEF FollowingUp
    <2> QED
      BY <2>1, <2>2 DEF StoredMaterial, ChangeEvent
  <1>3. ASSUME UNCHANGED <<reviews, activations>>
        PROVE  FollowUpsRecorded'
    BY <1>1, <1>3 DEF FollowUpsRecorded
  <1>4. ASSUME NEW c \in Call, EnqueueAnalystReview(c)
        PROVE  FollowUpsRecorded'
    <2>1. activations' = activations /\ call[c].pc = "reviewing"
      BY <1>4 DEF EnqueueAnalystReview, Goto
    <2>2. \A h \in Hash : reviews'[h].status # "absent" => StoredMaterial(reviews'[h].change, h)
      BY <1>2, <1>4, <2>1, UpsertEffect DEF FollowUpsRecorded
    <2>3. changes' = changes
      BY <1>4 DEF EnqueueAnalystReview
    <2>4. (\A d \in activations : \E h \in Hash : StoredMaterial(d, h))'
      BY <1>1, <2>1 DEF FollowUpsRecorded
    <2>5. (\A h \in Hash : reviews[h].status # "absent" => StoredMaterial(reviews[h].change, h))'
      BY <2>2, <2>3 DEF StoredMaterial
    <2> QED
      BY <2>4, <2>5 DEF FollowUpsRecorded
  <1>5. ASSUME NEW c \in Call, EnqueueActivation(c)
        PROVE  FollowUpsRecorded'
    BY <1>1, <1>2, <1>5 DEF EnqueueActivation, Goto, FollowUpsRecorded
  <1>6. ASSUME NEW h \in Hash, NEW status \in ReviewStatus, UpdateAnalystReview(h, status)
        PROVE  FollowUpsRecorded'
    <2>1. \A g \in Hash : reviews'[g].status # "absent" =>
             reviews[g].status # "absent" /\ reviews'[g].change = reviews[g].change
      BY <1>6, UpdateEffect
    <2>2. activations' = activations /\ changes' = changes
      BY <1>6 DEF UpdateAnalystReview
    <2> QED
      BY <1>1, <2>1, <2>2 DEF FollowUpsRecorded, StoredMaterial
  <1> QED
    BY <1>3, <1>4, <1>5, <1>6 DEF Next, CallNext, Assess, Persist, GiveUp, vars

\* Every step keeps a material change in the queues or under way.
LEMMA FollowedUpStep ==
  ASSUME IInv, [Next]_vars
  PROVE  MaterialChangeFollowedUp'
  <1> USE DEF IInv
  <1> DEFINE InQueues(e) == reviews[e.current.hash].status # "absent" /\ e.id \in activations
             UnderWay(e) == call[e.id].pc \in {"reviewing", "activating", "failed"}
  <1>1. \A e \in changes : /\ e.id \in Call /\ e.current.hash \in Hash
                           /\ e.current = call[e.id].state /\ e.materiality = call[e.id].materiality
    BY DEF TypeOK, Hash, EventsOfCalls, ChangeEvent
  <1>2. activations \subseteq activations'
    BY DEF Next, CallNext, Assess, Persist, EnqueueAnalystReview, EnqueueActivation, GiveUp,
           UpdateAnalystReview, vars
  <1>3. \A e \in changes : InQueues(e) => InQueues(e)'
    BY <1>1, <1>2, ReviewsStay
  <1>4. ASSUME UNCHANGED changes,
               \A e \in changes : UnderWay(e) => UnderWay(e)' \/ InQueues(e)'
        PROVE  MaterialChangeFollowedUp'
    BY <1>3, <1>4 DEF MaterialChangeFollowedUp
  <1>5. ASSUME NEW c \in Call, NEW state \in State, NEW at \in Time, NEW previous \in Latest,
               Assess(c, state, at, previous)
        PROVE  MaterialChangeFollowedUp'
    <2>1. changes' = changes /\ call[c].pc = "new" /\ \A d \in Call : d # c => call'[d] = call[d]
      BY <1>5 DEF Assess, TypeOK
    <2> QED
      BY <1>1, <1>4, <2>1
  <1>6. ASSUME NEW c \in Call, Persist(c)
        PROVE  MaterialChangeFollowedUp'
    <2>1. /\ call'[c].pc = IF Material(call[c].materiality) THEN "reviewing" ELSE "done"
          /\ \A d \in Call : d # c => call'[d] = call[d]
          /\ call[c].pc = "assessed"
      BY <1>6, MovesOn DEF Persist, Goto, PastAssessment
    <2>2. changes' = changes \cup {ChangeEvent(c)}
      BY <1>6 DEF Persist
    <2>3. ASSUME NEW e \in changes, Material(e.materiality)
          PROVE  InQueues(e)' \/ UnderWay(e)'
      <3>1. InQueues(e) \/ UnderWay(e)
        BY <2>3 DEF MaterialChangeFollowedUp
      <3>2. UnderWay(e) => e.id # c
        BY <2>1
      <3> QED
        BY <1>1, <1>3, <2>1, <3>1, <3>2
    <2>4. Material(ChangeEvent(c).materiality) => UnderWay(ChangeEvent(c))'
      BY <2>1 DEF ChangeEvent
    <2>5. ASSUME NEW e \in changes', Material(e.materiality)
          PROVE  InQueues(e)' \/ UnderWay(e)'
      <3>1. CASE e \in changes
        BY <2>3, <2>5, <3>1
      <3>2. CASE e = ChangeEvent(c)
        <4>1. e.id = c /\ e.materiality = call[c].materiality
          BY <3>2 DEF ChangeEvent
        <4> QED
          BY <2>1, <2>5, <4>1
      <3> QED
        BY <2>2, <3>1, <3>2
    <2> QED
      BY <2>5 DEF MaterialChangeFollowedUp
  <1>7. ASSUME NEW c \in Call, EnqueueAnalystReview(c) \/ GiveUp(c)
        PROVE  MaterialChangeFollowedUp'
    <2>1. /\ call'[c].pc \in {"activating", "failed"}
          /\ \A d \in Call : d # c => call'[d] = call[d]
          /\ changes' = changes
      BY <1>7, MovesOn DEF EnqueueAnalystReview, GiveUp, Goto, PastAssessment
    <2> QED
      BY <1>1, <1>4, <2>1
  <1>8. ASSUME NEW c \in Call, EnqueueActivation(c)
        PROVE  MaterialChangeFollowedUp'
    <2>1. /\ call[c].pc = "activating"
          /\ \A d \in Call : d # c => call'[d] = call[d]
          /\ changes' = changes /\ c \in activations' /\ reviews' = reviews
      BY <1>8, MovesOn DEF EnqueueActivation, Goto, PastAssessment
    <2>2. \A e \in changes : e.id = c => InQueues(e)'
      BY <1>1, <2>1 DEF FollowingUp
    <2> QED
      BY <1>1, <1>4, <2>1, <2>2
  <1>9. ASSUME UNCHANGED <<call, changes>>
        PROVE  MaterialChangeFollowedUp'
    BY <1>4, <1>9
  <1> QED
    BY <1>5, <1>6, <1>7, <1>8, <1>9 DEF Next, CallNext, UpdateAnalystReview, vars

-----------------------------------------------------------------------------
(* The theorems *)

\* The conjunction of the parts above is inductive, and so holds throughout.
THEOREM InductiveInvariant == Spec => []IInv
  <1>1. Init => IInv
    BY DEF Init, IInv, TypeOK, CallOK, EventsOfCalls, FollowingUp, NoActionWithoutReview,
           AuditExplainsStatus, FollowUpsRecorded, MaterialChangeFollowedUp, NoReview, NewCall
  <1>2. IInv /\ [Next]_vars => IInv'
    BY TypeStep, EventsStep, AuditStep, FollowingUpStep, RecordedStep, FollowedUpStep DEF IInv
  <1> QED
    BY <1>1, <1>2, PTL DEF Spec

\* Type correctness.
THEOREM TypeCorrect == Spec => []TypeOK
  <1>1. IInv => TypeOK
    BY DEF IInv
  <1> QED
    BY <1>1, InductiveInvariant, PTL

\* The append-only actions account for the status of every review.
THEOREM StatusIsAudited == Spec => []AuditExplainsStatus
  <1>1. IInv => AuditExplainsStatus
    BY DEF IInv
  <1> QED
    BY <1>1, InductiveInvariant, PTL

\* Queue and activations never run ahead of the committed change events.
THEOREM FollowUpsAreRecorded == Spec => []FollowUpsRecorded
  <1>1. IInv => FollowUpsRecorded
    BY DEF IInv
  <1> QED
    BY <1>1, InductiveInvariant, PTL

\* A committed material change is followed up unless its own call fails.
THEOREM MaterialChangesFollowedUp == Spec => []MaterialChangeFollowedUp
  <1>1. IInv => MaterialChangeFollowedUp
    BY DEF IInv
  <1> QED
    BY <1>1, InductiveInvariant, PTL

\* Every change event that newly contests a subject is material.
THEOREM ContentionRecordedAsMaterial == Spec => []ContentionIsMaterial
  <1>1. IInv => ContentionIsMaterial
    <2> SUFFICES ASSUME IInv, NEW e \in changes, e.current.contested,
                        e.previous # NoState => ~e.previous.contested
                 PROVE  Material(e.materiality)
      BY DEF ContentionIsMaterial
    <2>1. e.previous \in State \cup {NoState} /\ e.current \in State /\ e.id \in Call
      BY DEF IInv, TypeOK
    <2>2. /\ e.previous = call[e.id].previous /\ e.current = call[e.id].state
          /\ e.materiality = call[e.id].materiality /\ call[e.id].pc # "new"
      BY DEF IInv, EventsOfCalls, ChangeEvent, Committed
    <2>3. e.materiality = AssessMateriality(e.previous, e.current)
      BY <2>1, <2>2 DEF IInv, TypeOK, CallOK, NewCall
    <2> QED
      BY <2>1, <2>3, NewContentionIsMaterial
  <1> QED
    BY <1>1, InductiveInvariant, PTL
=============================================================================
