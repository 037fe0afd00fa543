------------------------ MODULE OsintAdapterBusProofs ------------------------
(***************************************************************************)
(* Proofs about OsintAdapterBus: the request budget is kept, no run sleeps *)
(* while there is budget, results count the requests that were made, and   *)
(* an aborted run makes at most the one request it was waiting for, for    *)
(* every number of runs, limit, timeout and number of retries.             *)
(*                                                                         *)
(* The properties are proved together, from the invariant IInv.            *)
(***************************************************************************)
EXTENDS OsintAdapterBus, FiniteSetTheorems, TLAPS

\* A run whose caller is gone still ends as completed or timed out only if
\* that request was made, and one is cancelled only if the caller is gone.
AbortReported ==
  \A r \in Run :
    /\ r \in aborted /\ run[r].status \in {"completed", "partial", "timed_out"} => Made(r) # before[r]
    /\ run[r].status = "cancelled" => r \in aborted

\* The window keeps at least the requests of the last minute.
WindowInv ==
  /\ window \subseteq {x \in Request : age[x] # NotMade}
  /\ InLastMinute \subseteq window
  /\ IsFiniteSet(window)
  /\ Cardinality(InLastMinute) <= Limit

\* The loop variable tells which requests a run has made.
CountInv ==
  \A r \in Run :
    /\ Made(r) = 1..IF run[r].pc = "waiting" THEN run[r].attempt - 1 ELSE run[r].attempt
    /\ run[r].pc \in {"idle", "checking"} => run[r].attempt = 0
    /\ run[r].pc \in {"waiting", "executing", "pausing"} => run[r].attempt >= 1
    /\ run[r].pc = "pausing" => run[r].attempt <= MaxRetries

\* What an aborted run has made since.
AbortInv ==
  \A r \in Run :
    /\ r \in aborted /\ run[r].pc = "executing" => run[r].attempt \notin before[r]
    /\ r \in aborted /\ run[r].pc \in {"idle", "checking", "waiting"} => Made(r) = before[r]

\* While a run sleeps, no request leaves the window.
SleepInv ==
  \A r \in Run :
    run[r].pc = "waiting" /\ run[r].wait > 0 =>
      /\ Cardinality(InLastMinute) = Limit
      /\ \A x \in InLastMinute : age[x] + run[r].wait <= Minute

IInv == TypeOK /\ WindowInv /\ CountInv /\ AbortInv /\ AbortObeyed /\ AbortReported /\ SleepInv

USE DEF maxAttempts, Attempt, NotMade, NoStatus, Status

LEMMA AtType ==
  ASSUME TypeOK, NEW r \in Run, NEW pc \in {"checking", "waiting", "executing", "pausing"},
         NEW k \in 0..maxAttempts, NEW w \in Nat, Goto(r, pc, k, w)
  PROVE  /\ run' \in [Run -> [pc : {"idle", "checking", "waiting", "executing", "pausing", "done"},
                              attempt : 0..maxAttempts, wait : Nat, status : Status \cup {NoStatus}]]
         /\ \A s \in Run : (run'[s].status = NoStatus) <=> (run'[s].pc # "done")
         /\ run'[r].pc = pc /\ run'[r].attempt = k /\ run'[r].wait = w /\ run'[r].status = NoStatus
         /\ \A s \in Run \ {r} : run'[s] = run[s]
  BY DEF TypeOK, Goto, At

LEMMA ResultType ==
  ASSUME TypeOK, NEW r \in Run, NEW status \in Status, NEW k \in 0..maxAttempts, Result(r, status, k)
  PROVE  /\ run' \in [Run -> [pc : {"idle", "checking", "waiting", "executing", "pausing", "done"},
                              attempt : 0..maxAttempts, wait : Nat, status : Status \cup {NoStatus}]]
         /\ \A s \in Run : (run'[s].status = NoStatus) <=> (run'[s].pc # "done")
         /\ run'[r].pc = "done" /\ run'[r].attempt = k /\ run'[r].status = status
         /\ \A s \in Run \ {r} : run'[s] = run[s]
  BY DEF TypeOK, Result

\* What is looked at is what was asked for in the last minute.
LEMMA RecentIsLastMinute ==
  ASSUME TypeOK, WindowInv
  PROVE  Recent = InLastMinute /\ IsFiniteSet(InLastMinute)
  <1>1. ASSUME NEW x \in window PROVE age[x] \in 0..Minute
    BY <1>1 DEF TypeOK, WindowInv
  <1>2. Recent \subseteq InLastMinute
    BY <1>1, OsintAdapterBusAssumption DEF Recent, InLastMinute, TypeOK
  <1>3. InLastMinute \subseteq Recent
    BY OsintAdapterBusAssumption DEF Recent, InLastMinute, WindowInv
  <1>4. IsFiniteSet(InLastMinute)
    BY FS_Subset DEF WindowInv
  <1> QED BY <1>2, <1>3, <1>4

\* The effect of a request on the ages and on the window.
LEMMA MakesRequestEffect ==
  ASSUME TypeOK, WindowInv, NEW r \in Run, NEW k \in Attempt, MakesRequest(r, k), Cardinality(Recent) < Limit
  PROVE  /\ age' \in [Request -> {NotMade} \cup 0..Minute]
         /\ window' \subseteq Request
         /\ WindowInv'
         /\ Made(r)' = Made(r) \cup {k}
         /\ \A s \in Run \ {r} : Made(s)' = Made(s)
  <1> DEFINE x == <<r, k>>
  <1>1. x \in Request
    BY DEF Request
  <1>2. age' \in [Request -> {NotMade} \cup 0..Minute]
    BY <1>1, OsintAdapterBusAssumption DEF MakesRequest, TypeOK
  <1>3. age'[x] = 0 /\ \A y \in Request \ {x} : age'[y] = age[y]
    BY <1>1 DEF MakesRequest, TypeOK
  <1>4. Recent = InLastMinute /\ IsFiniteSet(InLastMinute)
    BY RecentIsLastMinute
  <1>5. window' = InLastMinute \cup {x}
    BY <1>4 DEF MakesRequest
  <1>6. InLastMinute' = InLastMinute \cup {x}
    BY <1>1, <1>3, OsintAdapterBusAssumption DEF InLastMinute
  <1>7. IsFiniteSet(window')
    BY <1>4, <1>5, FS_AddElement
  <1>8. Cardinality(InLastMinute') <= Limit
    <2>1. Cardinality(InLastMinute) \in Nat
      BY <1>4, FS_CardinalityType
    <2>2. Cardinality(InLastMinute \cup {x}) =
            IF x \in InLastMinute THEN Cardinality(InLastMinute) ELSE Cardinality(InLastMinute) + 1
      BY <1>4, FS_AddElement
    <2>3. Cardinality(InLastMinute \cup {x}) \in Nat
      BY <1>4, FS_AddElement, FS_CardinalityType
    <2> QED BY <1>4, <1>6, <2>1, <2>2, <2>3, OsintAdapterBusAssumption
  <1>9. window' \subseteq {y \in Request : age'[y] # NotMade}
    BY <1>1, <1>3, <1>5 DEF InLastMinute
  <1>10. Made(r)' = Made(r) \cup {k}
    BY <1>3 DEF Made, Request
  <1>11. \A s \in Run \ {r} : Made(s)' = Made(s)
    BY <1>3 DEF Made, Request
  <1> QED BY <1>1, <1>2, <1>5, <1>6, <1>7, <1>8, <1>9, <1>10, <1>11 DEF WindowInv, InLastMinute

-----------------------------------------------------------------------------

\* A run ends and reports what it has made.
LEMMA ResultStep ==
  ASSUME IInv, NEW r \in Run, NEW status \in Status, NEW k \in 0..maxAttempts,
         Result(r, status, k), Made(r) = 1..k,
         status = "cancelled" => r \in aborted,
         r \in aborted /\ status \in {"completed", "partial", "timed_out"} => Made(r) # before[r],
         UNCHANGED <<age, window, aborted, before>>
  PROVE  IInv'
  <1>1. InLastMinute' = InLastMinute /\ \A s \in Run : Made(s)' = Made(s)
    BY DEF InLastMinute, Made
  <1>2. TypeOK
    BY DEF IInv
  <1>3. /\ run' \in [Run -> [pc : {"idle", "checking", "waiting", "executing", "pausing", "done"},
                              attempt : 0..maxAttempts, wait : Nat, status : Status \cup {NoStatus}]]
        /\ \A s \in Run : (run'[s].status = NoStatus) <=> (run'[s].pc # "done")
        /\ run'[r].pc = "done" /\ run'[r].attempt = k /\ run'[r].status = status
        /\ \A s \in Run \ {r} : run'[s] = run[s]
    BY <1>2, ResultType
  <1>4. TypeOK'
    BY <1>2, <1>3 DEF TypeOK
  <1>5. WindowInv'
    BY <1>1 DEF IInv, WindowInv
  <1>6. CountInv'
    BY <1>1, <1>3 DEF IInv, CountInv
  <1>7. AbortInv'
    BY <1>1, <1>3 DEF IInv, AbortInv
  <1>8. AbortObeyed'
    BY <1>1 DEF IInv, TypeOK, AbortObeyed
  <1>9. AbortReported'
    BY <1>1, <1>3 DEF IInv, AbortReported
  <1>10. SleepInv'
    BY <1>1, <1>3 DEF IInv, SleepInv
  <1> QED BY <1>4, <1>5, <1>6, <1>7, <1>8, <1>9, <1>10 DEF IInv

\* A request that brought no answer ends the run or a pause begins.
LEMMA GivesUpOrPausesStep ==
  ASSUME IInv, NEW r \in Run, NEW status \in {"failed", "timed_out"}, run[r].pc = "executing",
         GivesUpOrPauses(r, status), UNCHANGED <<age, window, aborted, before>>
  PROVE  IInv'
  <1>1. /\ run[r].attempt \in Attempt
        /\ Made(r) = 1..run[r].attempt
        /\ r \in aborted => Made(r) # before[r]
    BY OsintAdapterBusAssumption DEF IInv, TypeOK, CountInv, AbortInv
  <1>2. CASE run[r].attempt = maxAttempts
    BY <1>1, <1>2, ResultStep DEF GivesUpOrPauses
  <1>3. CASE run[r].attempt # maxAttempts
    <2> DEFINE k == run[r].attempt
    <2>1. InLastMinute' = InLastMinute /\ \A s \in Run : Made(s)' = Made(s)
      BY DEF InLastMinute, Made
    <2>2. Pause(k) \in Nat
      BY <1>1, OsintAdapterBusAssumption DEF Pause
    <2>3. /\ run' \in [Run -> [pc : {"idle", "checking", "waiting", "executing", "pausing", "done"},
                                attempt : 0..maxAttempts, wait : Nat, status : Status \cup {NoStatus}]]
          /\ \A s \in Run : (run'[s].status = NoStatus) <=> (run'[s].pc # "done")
          /\ run'[r].pc = "pausing" /\ run'[r].attempt = k /\ run'[r].status = NoStatus
          /\ \A s \in Run \ {r} : run'[s] = run[s]
      BY <1>1, <1>3, <2>2, AtType DEF IInv, GivesUpOrPauses
    <2>4. TypeOK'
      BY <2>3 DEF IInv, TypeOK
    <2>5. WindowInv'
      BY <2>1 DEF IInv, WindowInv
    <2>6. CountInv'
      BY <1>1, <1>3, <2>1, <2>3, OsintAdapterBusAssumption DEF IInv, CountInv
    <2>7. AbortInv'
      BY <2>1, <2>3 DEF IInv, AbortInv
    <2>8. AbortObeyed'
      BY <2>1 DEF IInv, TypeOK, AbortObeyed
    <2>9. AbortReported'
      BY <2>1, <2>3 DEF IInv, AbortReported
    <2>10. SleepInv'
      BY <2>1, <2>3 DEF IInv, SleepInv
    <2> QED BY <2>4, <2>5, <2>6, <2>7, <2>8, <2>9, <2>10 DEF IInv
  <1> QED BY <1>2, <1>3

\* A request is made, by a run that has made none since its caller left.
LEMMA MakesRequestStep ==
  ASSUME IInv, NEW r \in Run, NEW k \in Attempt, MakesRequest(r, k), Cardinality(Recent) < Limit,
         Made(r) = 1..k - 1, r \in aborted => Made(r) = before[r],
         UNCHANGED <<aborted, before>>
  PROVE  IInv'
  <1>1. TypeOK /\ WindowInv
    BY DEF IInv
  <1>2. /\ age' \in [Request -> {NotMade} \cup 0..Minute]
        /\ window' \subseteq Request
        /\ WindowInv'
        /\ Made(r)' = Made(r) \cup {k}
        /\ \A s \in Run \ {r} : Made(s)' = Made(s)
    BY <1>1, MakesRequestEffect
  <1>3. /\ run' \in [Run -> [pc : {"idle", "checking", "waiting", "executing", "pausing", "done"},
                              attempt : 0..maxAttempts, wait : Nat, status : Status \cup {NoStatus}]]
        /\ \A s \in Run : (run'[s].status = NoStatus) <=> (run'[s].pc # "done")
        /\ run'[r].pc = "executing" /\ run'[r].attempt = k /\ run'[r].status = NoStatus
        /\ \A s \in Run \ {r} : run'[s] = run[s]
    BY <1>1, AtType, OsintAdapterBusAssumption DEF MakesRequest
  <1>4. Made(r)' = 1..k
    BY <1>2
  <1>5. TypeOK'
    BY <1>1, <1>2, <1>3 DEF TypeOK
  <1>6. CountInv'
    BY <1>2, <1>3, <1>4 DEF IInv, CountInv
  <1>7. AbortInv'
    <2>1. r \in aborted => k \notin before[r]
      OBVIOUS
    <2> QED BY <1>2, <1>3, <2>1 DEF IInv, AbortInv
  <1>8. AbortObeyed'
    <2> SUFFICES ASSUME NEW s \in aborted PROVE \A i, j \in Made(s)' \ before[s] : i = j
      BY DEF AbortObeyed
    <2>1. s \in Run
      BY <1>1 DEF TypeOK
    <2>2. CASE s = r
      <3>1. Made(r)' \ before[r] \subseteq {k}
        BY <1>2, <2>2
      <3> QED BY <2>2, <3>1
    <2>3. CASE s # r
      BY <1>2, <2>1, <2>3 DEF IInv, AbortObeyed
    <2> QED BY <2>2, <2>3
  <1>9. AbortReported'
    BY <1>2, <1>3 DEF IInv, AbortReported
  <1>10. SleepInv'
    <2>1. Cardinality(InLastMinute) # Limit
      BY <1>1, RecentIsLastMinute, FS_CardinalityType, OsintAdapterBusAssumption
    <2>2. \A s \in Run : ~(run'[s].pc = "waiting" /\ run'[s].wait > 0)
      BY <1>3, <2>1 DEF IInv, SleepInv
    <2> QED BY <2>2 DEF SleepInv
  <1> QED BY <1>2, <1>5, <1>6, <1>7, <1>8, <1>9, <1>10 DEF IInv

\* A run that claims budget makes its request or sleeps.
LEMMA AcquireRateLimitStep ==
  ASSUME IInv, NEW r \in Run, NEW k \in Attempt, AcquireRateLimit(r, k),
         Made(r) = 1..k - 1, r \in aborted => Made(r) = before[r],
         UNCHANGED <<aborted, before>>
  PROVE  IInv'
  <1>1. TypeOK /\ WindowInv
    BY DEF IInv
  <1>2. CASE Cardinality(Recent) < Limit /\ MakesRequest(r, k)
    BY <1>2, MakesRequestStep
  <1>3. CASE Cardinality(Recent) >= Limit /\ SleepsUntilOldestExpires(r, k) /\ UNCHANGED <<age, window>>
    <2>1. Recent = InLastMinute /\ Cardinality(InLastMinute) = Limit
      BY <1>1, <1>3, RecentIsLastMinute, FS_CardinalityType, OsintAdapterBusAssumption DEF WindowInv
    <2>2. PICK oldest \in InLastMinute :
            /\ \A x \in InLastMinute : age[x] <= age[oldest]
            /\ Goto(r, "waiting", k, Minute - age[oldest])
      BY <1>3, <2>1 DEF SleepsUntilOldestExpires
    <2> DEFINE w == Minute - age[oldest]
    <2>3. w \in Nat /\ \A x \in InLastMinute : age[x] \in Nat /\ age[x] + w <= Minute
      BY <2>2, OsintAdapterBusAssumption DEF InLastMinute
    <2> HIDE DEF w
    <2>4. /\ run' \in [Run -> [pc : {"idle", "checking", "waiting", "executing", "pausing", "done"},
                                attempt : 0..maxAttempts, wait : Nat, status : Status \cup {NoStatus}]]
          /\ \A s \in Run : (run'[s].status = NoStatus) <=> (run'[s].pc # "done")
          /\ run'[r].pc = "waiting" /\ run'[r].attempt = k /\ run'[r].wait = w /\ run'[r].status = NoStatus
          /\ \A s \in Run \ {r} : run'[s] = run[s]
      <3>1. Goto(r, "waiting", k, w)
        BY <2>2 DEF w
      <3> QED BY <1>1, <2>3, <3>1, AtType
    <2>5. InLastMinute' = InLastMinute /\ \A s \in Run : Made(s)' = Made(s)
      BY <1>3 DEF InLastMinute, Made
    <2>6. TypeOK'
      BY <1>1, <1>3, <2>4 DEF TypeOK
    <2>7. WindowInv'
      BY <1>1, <1>3, <2>5 DEF WindowInv
    <2>8. CountInv'
      BY <2>4, <2>5 DEF IInv, CountInv
    <2>9. AbortInv'
      BY <2>4, <2>5 DEF IInv, AbortInv
    <2>10. AbortObeyed'
      BY <1>1, <2>5 DEF IInv, TypeOK, AbortObeyed
    <2>11. AbortReported'
      BY <2>4, <2>5 DEF IInv, AbortReported
    <2>12. SleepInv'
      BY <1>3, <2>1, <2>3, <2>4, <2>5 DEF IInv, SleepInv
    <2> QED BY <2>6, <2>7, <2>8, <2>9, <2>10, <2>11, <2>12 DEF IInv
  <1> QED BY <1>2, <1>3 DEF AcquireRateLimit

\* The head of the loop.
LEMMA AttemptsStep ==
  ASSUME IInv, NEW r \in Run, NEW k \in Attempt, Attempts(r, k), Made(r) = 1..k - 1,
         UNCHANGED <<aborted, before>>
  PROVE  IInv'
  <1>1. CASE r \in aborted /\ Result(r, "cancelled", k - 1) /\ UNCHANGED <<age, window>>
    BY <1>1, ResultStep, OsintAdapterBusAssumption
  <1>2. CASE r \notin aborted /\ AcquireRateLimit(r, k)
    BY <1>2, AcquireRateLimitStep
  <1> QED BY <1>1, <1>2 DEF Attempts

\* The caller goes away.
LEMMA AbortsStep ==
  ASSUME IInv, NEW r \in Run, Aborts(r)
  PROVE  IInv'
  <1>1. /\ aborted' = aborted \cup {r} /\ before' = [before EXCEPT ![r] = Made(r)]
        /\ age' = age /\ window' = window /\ r \notin aborted /\ run[r].pc # "done"
    BY DEF Aborts
  <1>2. InLastMinute' = InLastMinute /\ \A s \in Run : Made(s)' = Made(s)
    BY <1>1 DEF InLastMinute, Made
  <1>3. /\ TypeOK
        /\ before' \in [Run -> SUBSET Attempt]
        /\ before'[r] = Made(r) /\ \A s \in Run \ {r} : before'[s] = before[s]
    BY <1>1 DEF IInv, TypeOK, Made
  <1>4. WindowInv'
    BY <1>1, <1>2 DEF IInv, WindowInv
  <1>5. AbortObeyed'
    BY <1>1, <1>2, <1>3 DEF IInv, TypeOK, AbortObeyed
  <1>6. CASE run[r].pc = "executing" /\ Result(r, "cancelled", run[r].attempt)
    <2> DEFINE k == run[r].attempt
    <2>1. k \in 0..maxAttempts /\ Made(r) = 1..k
      BY <1>3, <1>6 DEF IInv, TypeOK, CountInv
    <2>2. /\ run' \in [Run -> [pc : {"idle", "checking", "waiting", "executing", "pausing", "done"},
                                attempt : 0..maxAttempts, wait : Nat, status : Status \cup {NoStatus}]]
          /\ \A s \in Run : (run'[s].status = NoStatus) <=> (run'[s].pc # "done")
          /\ run'[r].pc = "done" /\ run'[r].attempt = k /\ run'[r].status = "cancelled"
          /\ \A s \in Run \ {r} : run'[s] = run[s]
      BY <1>3, <1>6, <2>1, ResultType
    <2>3. TypeOK'
      BY <1>1, <1>3, <2>2 DEF TypeOK
    <2>4. CountInv'
      BY <1>2, <2>1, <2>2 DEF IInv, CountInv
    <2>5. AbortInv'
      BY <1>1, <1>2, <1>3, <2>2 DEF IInv, AbortInv
    <2>6. AbortReported'
      BY <1>1, <1>2, <1>3, <2>2 DEF IInv, AbortReported
    <2>7. SleepInv'
      BY <1>1, <1>2, <2>2 DEF IInv, SleepInv
    <2> QED BY <1>4, <1>5, <2>3, <2>4, <2>5, <2>6, <2>7 DEF IInv
  <1>7. CASE run[r].pc = "executing" /\ GivesUpOrPauses(r, "failed")
    <2> DEFINE k == run[r].attempt
    <2>1. k \in Attempt /\ Made(r) = 1..k
      BY <1>3, <1>7, OsintAdapterBusAssumption DEF IInv, TypeOK, CountInv
    <2>2. /\ run' \in [Run -> [pc : {"idle", "checking", "waiting", "executing", "pausing", "done"},
                                attempt : 0..maxAttempts, wait : Nat, status : Status \cup {NoStatus}]]
          /\ \A s \in Run : (run'[s].status = NoStatus) <=> (run'[s].pc # "done")
          /\ \/ run'[r].pc = "done" /\ run'[r].status = "failed"
             \/ run'[r].pc = "pausing" /\ run'[r].status = NoStatus /\ k <= MaxRetries
          /\ run'[r].attempt = k
          /\ \A s \in Run \ {r} : run'[s] = run[s]
      <3>1. CASE k = maxAttempts
        BY <1>3, <1>7, <2>1, <3>1, ResultType DEF GivesUpOrPauses
      <3>2. CASE k # maxAttempts
        <4>1. Pause(k) \in Nat /\ k <= MaxRetries
          BY <2>1, <3>2, OsintAdapterBusAssumption DEF Pause
        <4> QED BY <1>3, <1>7, <2>1, <3>2, <4>1, AtType DEF GivesUpOrPauses
      <3> QED BY <3>1, <3>2
    <2>3. TypeOK'
      BY <1>1, <1>3, <2>2 DEF TypeOK
    <2>4. CountInv'
      BY <1>2, <2>1, <2>2 DEF IInv, CountInv
    <2>5. AbortInv'
      BY <1>1, <1>2, <1>3, <2>2 DEF IInv, AbortInv
    <2>6. AbortReported'
      BY <1>1, <1>2, <1>3, <2>2 DEF IInv, AbortReported
    <2>7. SleepInv'
      BY <1>1, <1>2, <2>2 DEF IInv, SleepInv
    <2> QED BY <1>4, <1>5, <2>3, <2>4, <2>5, <2>6, <2>7 DEF IInv
  <1>8. CASE run[r].pc # "executing" /\ UNCHANGED run
    <2>1. TypeOK'
      BY <1>1, <1>3, <1>8 DEF TypeOK
    <2>2. CountInv'
      BY <1>2, <1>8 DEF IInv, CountInv
    <2>3. AbortInv'
      BY <1>1, <1>2, <1>3, <1>8 DEF IInv, AbortInv
    <2>4. AbortReported'
      BY <1>1, <1>2, <1>3, <1>8 DEF IInv, TypeOK, AbortReported
    <2>5. SleepInv'
      BY <1>1, <1>2, <1>8 DEF IInv, SleepInv
    <2> QED BY <1>4, <1>5, <2>1, <2>2, <2>3, <2>4, <2>5 DEF IInv
  <1> QED BY <1>6, <1>7, <1>8 DEF Aborts, Hears

LEMMA OlderFacts ==
  ASSUME NEW a \in {NotMade} \cup 0..Minute
  PROVE  /\ Older(a) \in {NotMade} \cup 0..Minute
         /\ Older(a) = NotMade <=> a = NotMade
         /\ Older(a) \in 0..Minute - 1 => a \in 0..Minute - 1
         /\ a \in 0..Minute - 2 => Older(a) = a + 1
  <1>1. CASE a = NotMade
    BY <1>1, OsintAdapterBusAssumption DEF Older
  <1>2. CASE a = Minute
    BY <1>2, OsintAdapterBusAssumption DEF Older
  <1>3. CASE a \in 0..Minute - 1
    BY <1>3, OsintAdapterBusAssumption DEF Older
  <1> QED BY <1>1, <1>2, <1>3, OsintAdapterBusAssumption

LEMMA SoonerFacts ==
  ASSUME NEW w \in Nat
  PROVE  /\ Sooner(w) \in Nat
         /\ Sooner(w) > 0 => w = Sooner(w) + 1
  BY DEF Sooner

\* A tick.
LEMMA PassesStep ==
  ASSUME IInv, Passes
  PROVE  IInv'
  <1>1. /\ TypeOK /\ WindowInv
        /\ age' = [x \in Request |-> Older(age[x])]
        /\ run' = [r \in Run |-> [run[r] EXCEPT !.wait = Sooner(@)]]
        /\ UNCHANGED <<window, aborted, before>>
    BY DEF IInv, Passes
  <1>2. \A x \in Request :
          /\ age'[x] \in {NotMade} \cup 0..Minute
          /\ age'[x] = NotMade <=> age[x] = NotMade
          /\ age'[x] \in 0..Minute - 1 => age[x] \in 0..Minute - 1
          /\ age[x] \in 0..Minute - 2 => age'[x] = age[x] + 1
    BY <1>1, OlderFacts DEF TypeOK
  <1>3. \A r \in Run :
          /\ run'[r].pc = run[r].pc
          /\ run'[r].attempt = run[r].attempt
          /\ run'[r].status = run[r].status
          /\ run'[r].wait \in Nat
          /\ run'[r].wait > 0 => run[r].wait = run'[r].wait + 1
    BY <1>1, SoonerFacts DEF TypeOK
  <1>4. run' \in [Run -> [pc : {"idle", "checking", "waiting", "executing", "pausing", "done"},
                          attempt : 0..maxAttempts, wait : Nat, status : Status \cup {NoStatus}]]
    <2> SUFFICES ASSUME NEW r \in Run
                 PROVE  [run[r] EXCEPT !.wait = Sooner(@)] \in
                          [pc : {"idle", "checking", "waiting", "executing", "pausing", "done"},
                           attempt : 0..maxAttempts, wait : Nat, status : Status \cup {NoStatus}]
      BY <1>1
    <2>1. Sooner(run[r].wait) \in Nat
      BY <1>1, SoonerFacts DEF TypeOK
    <2> QED BY <1>1, <2>1 DEF TypeOK
  <1>5. TypeOK'
    BY <1>1, <1>2, <1>3, <1>4 DEF TypeOK
  <1>6. \A r \in Run : Made(r)' = Made(r)
    BY <1>2 DEF Made, Request
  <1>7. InLastMinute' \subseteq InLastMinute
    BY <1>2 DEF InLastMinute
  <1>8. IsFiniteSet(InLastMinute) /\ Cardinality(InLastMinute) \in Nat
    BY <1>1, RecentIsLastMinute, FS_CardinalityType
  <1>9. WindowInv'
    <2>1. IsFiniteSet(InLastMinute') /\ Cardinality(InLastMinute') \in Nat
      BY <1>7, <1>8, FS_Subset, FS_CardinalityType
    <2>2. Cardinality(InLastMinute') <= Cardinality(InLastMinute)
      BY <1>7, <1>8, FS_Subset
    <2>3. Cardinality(InLastMinute') <= Limit
      BY <1>1, <1>8, <2>1, <2>2, OsintAdapterBusAssumption DEF WindowInv
    <2>4. window' \subseteq {x \in Request : age'[x] # NotMade}
      BY <1>1, <1>2 DEF WindowInv
    <2>5. InLastMinute' \subseteq window' /\ IsFiniteSet(window')
      BY <1>1, <1>7 DEF WindowInv
    <2> QED BY <2>3, <2>4, <2>5 DEF WindowInv
  <1>10. CountInv'
    BY <1>3, <1>6 DEF IInv, CountInv
  <1>11. AbortInv'
    BY <1>1, <1>3, <1>6 DEF IInv, AbortInv
  <1>12. AbortObeyed'
    BY <1>1, <1>6 DEF IInv, TypeOK, AbortObeyed
  <1>13. AbortReported'
    BY <1>1, <1>3, <1>6 DEF IInv, AbortReported
  <1>14. SleepInv'
    <2> SUFFICES ASSUME NEW r \in Run, run'[r].pc = "waiting", run'[r].wait > 0
                 PROVE  /\ Cardinality(InLastMinute') = Limit
                        /\ \A x \in InLastMinute' : age'[x] + run'[r].wait <= Minute
      BY DEF SleepInv
    <2>1. /\ run[r].wait = run'[r].wait + 1
          /\ run'[r].wait \in Nat
          /\ Cardinality(InLastMinute) = Limit
          /\ \A x \in InLastMinute : age[x] + run[r].wait <= Minute
      BY <1>3 DEF IInv, SleepInv
    <2>2. \A x \in InLastMinute : age[x] \in 0..Minute - 2 /\ age'[x] = age[x] + 1
      BY <1>2, <2>1, OsintAdapterBusAssumption DEF InLastMinute
    <2>3. InLastMinute' = InLastMinute
      BY <1>7, <2>2, OsintAdapterBusAssumption DEF InLastMinute
    <2>4. \A x \in InLastMinute : age'[x] + run'[r].wait <= Minute
      BY <2>1, <2>2, OsintAdapterBusAssumption
    <2> QED BY <2>1, <2>3, <2>4
  <1> QED BY <1>5, <1>9, <1>10, <1>11, <1>12, <1>13, <1>14 DEF IInv

LEMMA InitInv == Init => IInv
  <1> SUFFICES ASSUME Init PROVE IInv
    OBVIOUS
  <1>1. TypeOK
    BY OsintAdapterBusAssumption DEF Init, TypeOK
  <1>2. InLastMinute = {}
    BY OsintAdapterBusAssumption DEF Init, InLastMinute
  <1>3. WindowInv
    BY <1>2, FS_EmptySet, OsintAdapterBusAssumption DEF Init, WindowInv
  <1>4. \A r \in Run : Made(r) = {}
    BY DEF Init, Made, Request
  <1>5. CountInv
    <2>1. 1..0 = {}
      OBVIOUS
    <2> QED BY <1>4, <2>1 DEF Init, CountInv
  <1>6. AbortInv /\ AbortObeyed /\ AbortReported /\ SleepInv
    BY <1>4 DEF Init, AbortInv, AbortObeyed, AbortReported, SleepInv
  <1> QED BY <1>1, <1>3, <1>5, <1>6 DEF IInv

LEMMA NextInv == IInv /\ [Next]_vars => IInv'
  <1> SUFFICES ASSUME IInv, [Next]_vars PROVE IInv'
    OBVIOUS
  <1>1. CASE Passes
    BY <1>1, PassesStep
  <1>2. ASSUME NEW r \in Run, Begins(r) PROVE IInv'
    <2>1. Made(r) = 1..0 /\ run[r].pc = "idle" /\ run[r].attempt = 0
      BY <1>2 DEF Begins, IInv, CountInv
    <2>2. 0 \in 0..maxAttempts /\ UNCHANGED <<age, window, aborted, before>>
      BY <1>2, OsintAdapterBusAssumption DEF Begins
    <2>3. ASSUME NEW status \in {"failed", "cancelled"}, Result(r, status, 0), status = "cancelled" => r \in aborted
          PROVE  IInv'
      <3>1. status \in Status /\ status \notin {"completed", "partial", "timed_out"}
        BY <2>3
      <3> QED BY <2>1, <2>2, <2>3, <3>1, ResultStep
    <2>4. CASE r \notin aborted /\ Goto(r, "checking", 0, 0)
      <3>1. UNCHANGED <<age, window, aborted, before>>
        BY <1>2 DEF Begins
      <3>2. InLastMinute' = InLastMinute /\ \A s \in Run : Made(s)' = Made(s)
        BY <3>1 DEF InLastMinute, Made
      <3>3. /\ run' \in [Run -> [pc : {"idle", "checking", "waiting", "executing", "pausing", "done"},
                                  attempt : 0..maxAttempts, wait : Nat, status : Status \cup {NoStatus}]]
            /\ \A s \in Run : (run'[s].status = NoStatus) <=> (run'[s].pc # "done")
            /\ run'[r].pc = "checking" /\ run'[r].attempt = 0 /\ run'[r].status = NoStatus
            /\ \A s \in Run \ {r} : run'[s] = run[s]
        BY <2>4, AtType, OsintAdapterBusAssumption DEF IInv
      <3>4. TypeOK' /\ WindowInv'
        BY <3>1, <3>2, <3>3 DEF IInv, TypeOK, WindowInv
      <3>5. CountInv'
        BY <2>1, <3>2, <3>3 DEF IInv, CountInv
      <3>6. AbortInv' /\ AbortReported'
        BY <2>4, <3>1, <3>2, <3>3 DEF IInv, AbortInv, AbortReported
      <3>7. AbortObeyed' /\ SleepInv'
        BY <3>1, <3>2, <3>3 DEF IInv, TypeOK, AbortObeyed, SleepInv
      <3> QED BY <3>4, <3>5, <3>6, <3>7 DEF IInv
    <2>5. Result(r, "failed", 0) \/ (r \in aborted /\ Result(r, "cancelled", 0)) \/ (r \notin aborted /\ Goto(r, "checking", 0, 0))
      BY <1>2 DEF Begins
    <2> QED BY <2>3, <2>4, <2>5
  <1>3. ASSUME NEW r \in Run, Checked(r) PROVE IInv'
    <2>1. Made(r) = 1..0 /\ UNCHANGED <<aborted, before>>
      BY <1>3 DEF Checked, IInv, CountInv
    <2>2. CASE Attempts(r, 1)
      <3>1. 1 \in Attempt /\ Made(r) = 1..1 - 1
        BY <2>1, OsintAdapterBusAssumption
      <3> QED BY <2>1, <2>2, <3>1, AttemptsStep
    <2>3. CASE \E status \in {"failed", "thrown"} : Result(r, status, 0) /\ UNCHANGED <<age, window>>
      <3>1. PICK status \in {"failed", "thrown"} : Result(r, status, 0) /\ UNCHANGED <<age, window>>
        BY <2>3
      <3>2. status \in Status /\ status \notin {"cancelled", "completed", "partial", "timed_out"}
        OBVIOUS
      <3>3. 0 \in 0..maxAttempts
        BY OsintAdapterBusAssumption
      <3> QED BY <2>1, <3>1, <3>2, <3>3, ResultStep
    <2>4. Attempts(r, 1) \/ \E status \in {"failed", "thrown"} : Result(r, status, 0) /\ UNCHANGED <<age, window>>
      BY <1>3 DEF Checked
    <2> QED BY <2>2, <2>3, <2>4
  <1>4. ASSUME NEW r \in Run, Wakes(r) PROVE IInv'
    <2>1. /\ run[r].attempt \in Attempt
          /\ Made(r) = 1..run[r].attempt - 1
          /\ r \in aborted => Made(r) = before[r]
      BY <1>4, OsintAdapterBusAssumption DEF Wakes, IInv, TypeOK, CountInv, AbortInv
    <2> QED BY <1>4, <2>1, AcquireRateLimitStep DEF Wakes
  <1>5. ASSUME NEW r \in Run, Retries(r) PROVE IInv'
    <2>1. /\ run[r].attempt + 1 \in Attempt
          /\ Made(r) = 1..(run[r].attempt + 1) - 1
      BY SMTT(30), <1>5, OsintAdapterBusAssumption DEF Retries, IInv, TypeOK, CountInv
    <2> QED BY <1>5, <2>1, AttemptsStep DEF Retries
  <1>6. ASSUME NEW r \in Run, Answers(r) PROVE IInv'
    <2>1. /\ run[r].attempt \in Attempt
          /\ Made(r) = 1..run[r].attempt
          /\ r \in aborted => Made(r) # before[r]
      BY SMTT(30), <1>6, OsintAdapterBusAssumption DEF Answers, IInv, TypeOK, CountInv, AbortInv
    <2>2. PICK status \in {"completed", "partial"} : Result(r, status, run[r].attempt)
      BY <1>6 DEF Answers
    <2>3. status \in Status /\ status # "cancelled" /\ run[r].attempt \in 0..maxAttempts
      BY <2>1, OsintAdapterBusAssumption
    <2>4. UNCHANGED <<age, window, aborted, before>>
      BY <1>6 DEF Answers
    <2> QED BY <2>1, <2>2, <2>3, <2>4, ResultStep
  <1>7. ASSUME NEW r \in Run, Fails(r) PROVE IInv'
    BY <1>7, GivesUpOrPausesStep DEF Fails
  <1>8. ASSUME NEW r \in Run, TimesOut(r) PROVE IInv'
    BY <1>8, GivesUpOrPausesStep DEF TimesOut
  <1>9. ASSUME NEW r \in Run, Aborts(r) PROVE IInv'
    BY <1>9, AbortsStep
  <1>10. CASE UNCHANGED vars
    BY <1>10 DEF vars, IInv, TypeOK, WindowInv, CountInv, AbortInv, AbortObeyed, AbortReported, SleepInv, InLastMinute, Made
  <1> QED BY <1>1, <1>2, <1>3, <1>4, <1>5, <1>6, <1>7, <1>8, <1>9, <1>10 DEF Next

THEOREM Invariance == Spec => []IInv
  BY InitInv, NextInv, PTL DEF Spec

\* Every state is of the declared type.
THEOREM TypeCorrect == Spec => []TypeOK
  <1>1. IInv => TypeOK
    BY DEF IInv
  <1> QED BY <1>1, Invariance, PTL

\* Runs that share an adapter never make more than its limit of requests in
\* a minute, however they overlap (acquireRateLimit).
THEOREM BudgetIsKept == Spec => []BudgetKept
  <1>1. IInv => BudgetKept
    BY DEF IInv, WindowInv, BudgetKept
  <1> QED BY <1>1, Invariance, PTL

\* No run sleeps while the budget has a place for it (acquireRateLimit).
THEOREM NoIdleSleep == Spec => []SleepsOnlyWithoutBudget
  <1>1. IInv => SleepsOnlyWithoutBudget
    BY DEF IInv, SleepInv, SleepsOnlyWithoutBudget
  <1> QED BY <1>1, Invariance, PTL

\* A result counts exactly the requests its run made, on every way out (run).
THEOREM ResultsCountRequests == Spec => []AttemptsCounted
  <1>1. IInv => AttemptsCounted
    BY DEF IInv, CountInv, AttemptsCounted
  <1> QED BY <1>1, Invariance, PTL

\* After its caller is gone a run makes at most one more request, and its
\* result says cancelled unless that request was made (run, withTimeout).
THEOREM AbortsTakeEffect == Spec => [](AbortObeyed /\ AbortReported)
  <1>1. IInv => AbortObeyed /\ AbortReported
    BY DEF IInv
  <1> QED BY <1>1, Invariance, PTL

=============================================================================
