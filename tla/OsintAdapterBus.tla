--------------------------- MODULE OsintAdapterBus ---------------------------
(***************************************************************************)
(* Runs of one adapter of the OSINT adapter bus (osint-adapter-bus.ts):    *)
(* the checks before the first attempt, the attempts with their timeout    *)
(* and the pauses between them, the abort signal of the caller, and the    *)
(* sliding window of requests per minute that all runs of the adapter in a *)
(* process share, whichever bus object they go through.                    *)
(*                                                                         *)
(* Time is counted in ticks and kept as ages and remaining delays, so that *)
(* no bound on the clock is needed.  A timer may fire late, never early.   *)
(* The answer of an attempt that has timed out is dropped by the code and  *)
(* changes nothing here.                                                   *)
(***************************************************************************)
EXTENDS Integers, FiniteSets

CONSTANTS
  Run,         \* calls of run() for the adapter
  Limit,       \* rateLimitPerMinute, at least one
  Minute,      \* the length of the window
  Timeout,     \* timeoutMs
  MaxRetries,  \* maxRetries
  PauseStep,   \* 250 ms per attempt made
  PauseMax     \* the longest pause between attempts

ASSUME OsintAdapterBusAssumption ==
  /\ Limit \in Nat \ {0}
  /\ Minute \in Nat \ {0}
  /\ Timeout \in Nat \ {0}
  /\ MaxRetries \in Nat
  /\ PauseStep \in Nat
  /\ PauseMax \in Nat

VARIABLES
  run,       \* run[r]: control state, attempt, remaining delay and outcome of a run
  age,       \* age[x]: time since request x was made, capped at a minute
  window,    \* adapterRequestWindows.get(id): requests whose time stamp is kept
  aborted,   \* runs whose signal is aborted
  before     \* before[r]: requests made when the caller aborted

vars == <<run, age, window, aborted, before>>

maxAttempts == MaxRetries + 1
Attempt == 1..maxAttempts
Request == Run \X Attempt

NotMade == -1
NoStatus == "none"
Status == {"completed", "partial", "failed", "cancelled", "timed_out", "thrown"}

\* The requests run r has made.
Made(r) == {k \in Attempt : age[<<r, k>>] # NotMade}

Init ==
  /\ run = [r \in Run |-> [pc |-> "idle", attempt |-> 0, wait |-> 0, status |-> NoStatus]]
  /\ age = [x \in Request |-> NotMade]
  /\ window = {}
  /\ aborted = {}
  /\ before = [r \in Run |-> {}]

At(pc, attempt, wait) == [pc |-> pc, attempt |-> attempt, wait |-> wait, status |-> NoStatus]

Goto(r, pc, attempt, wait) == run' = [run EXCEPT ![r] = At(pc, attempt, wait)]

Result(r, status, attempts) ==
  run' = [run EXCEPT ![r] = [pc |-> "done", attempt |-> attempts, wait |-> 0, status |-> status]]

-----------------------------------------------------------------------------
(* The request budget *)

\* Mutant of Recent: time stamps are never given up.
RecentForever == window

Recent == {x \in window : age[x] < Minute}

\* Mutant of SleepsUntilOldestExpires: the run sleeps until the newest request is a minute old.
SleepsUntilNewestExpires(r, k) ==
  \E newest \in Recent :
    /\ \A x \in Recent : age[newest] <= age[x]
    /\ Goto(r, "waiting", k, Minute - age[newest])

SleepsUntilOldestExpires(r, k) ==
  \E oldest \in Recent :
    /\ \A x \in Recent : age[x] <= age[oldest]
    /\ Goto(r, "waiting", k, Minute - age[oldest])

\* The time stamp is kept and the adapter's execute is called.
MakesRequest(r, k) ==
  /\ window' = Recent \cup {<<r, k>>}
  /\ age' = [age EXCEPT ![<<r, k>>] = 0]
  /\ Goto(r, "executing", k, Timeout)

\* Looking at the window and taking a place in it is one step: there is no
\* await in between.
AcquireRateLimit(r, k) ==
  \/ /\ Cardinality(Recent) < Limit
     /\ MakesRequest(r, k)
  \/ /\ Cardinality(Recent) >= Limit
     /\ SleepsUntilOldestExpires(r, k)
     /\ UNCHANGED <<age, window>>

\* Mutant of Wakes: after the sleep a place is taken for granted.
WakesSure(r) ==
  /\ run[r].pc = "waiting"
  /\ run[r].wait = 0
  /\ MakesRequest(r, run[r].attempt)
  /\ UNCHANGED <<aborted, before>>

\* After the sleep the window is looked at again; the signal is not.
Wakes(r) ==
  /\ run[r].pc = "waiting"
  /\ run[r].wait = 0
  /\ AcquireRateLimit(r, run[r].attempt)
  /\ UNCHANGED <<aborted, before>>

-----------------------------------------------------------------------------
(* run *)

\* A disabled adapter, or one of a denied execution class, is refused.
Begins(r) ==
  /\ run[r].pc = "idle"
  /\ \/ Result(r, "failed", 0)
     \/ r \in aborted /\ Result(r, "cancelled", 0)
     \/ r \notin aborted /\ Goto(r, "checking", 0, 0)
  /\ UNCHANGED <<age, window, aborted, before>>

\* Mutants of Attempts: the signal is not looked at, or the attempt that is
\* not made is counted.
AttemptsRegardless(r, k) == AcquireRateLimit(r, k)
AttemptsMiscounted(r, k) ==
  \/ r \in aborted /\ Result(r, "cancelled", k) /\ UNCHANGED <<age, window>>
  \/ r \notin aborted /\ AcquireRateLimit(r, k)

\* The head of the loop and the attempt's claim on the budget.
Attempts(r, k) ==
  \/ r \in aborted /\ Result(r, "cancelled", k - 1) /\ UNCHANGED <<age, window>>
  \/ r \notin aborted /\ AcquireRateLimit(r, k)

\* health() and the policy check answer, or one of them throws.
Checked(r) ==
  /\ run[r].pc = "checking"
  /\ \/ Attempts(r, 1)
     \/ \E status \in {"failed", "thrown"} : Result(r, status, 0) /\ UNCHANGED <<age, window>>
  /\ UNCHANGED <<aborted, before>>

Pause(k) == IF PauseStep * k < PauseMax THEN PauseStep * k ELSE PauseMax

GivesUpOrPauses(r, status) ==
  IF run[r].attempt = maxAttempts THEN Result(r, status, run[r].attempt)
  ELSE Goto(r, "pausing", run[r].attempt, Pause(run[r].attempt))

Retries(r) ==
  /\ run[r].pc = "pausing"
  /\ run[r].wait = 0
  /\ Attempts(r, run[r].attempt + 1)
  /\ UNCHANGED <<aborted, before>>

\* The adapter answers, with or without warnings, before its timer fires.
Answers(r) ==
  /\ run[r].pc = "executing"
  /\ \E status \in {"completed", "partial"} : Result(r, status, run[r].attempt)
  /\ UNCHANGED <<age, window, aborted, before>>

Fails(r) ==
  /\ run[r].pc = "executing"
  /\ GivesUpOrPauses(r, "failed")
  /\ UNCHANGED <<age, window, aborted, before>>

TimesOut(r) ==
  /\ run[r].pc = "executing"
  /\ run[r].wait = 0
  /\ GivesUpOrPauses(r, "timed_out")
  /\ UNCHANGED <<age, window, aborted, before>>

\* The signal rejects a request under way, unless the error the adapter
\* itself throws on the signal wins the race.  Nobody else listens.
Hears(r) ==
  IF run[r].pc = "executing"
  THEN Result(r, "cancelled", run[r].attempt) \/ GivesUpOrPauses(r, "failed")
  ELSE UNCHANGED run

\* The caller goes away.
Aborts(r) ==
  /\ r \notin aborted
  /\ run[r].pc # "done"
  /\ aborted' = aborted \cup {r}
  /\ before' = [before EXCEPT ![r] = Made(r)]
  /\ Hears(r)
  /\ UNCHANGED <<age, window>>

Older(a) == IF a = NotMade \/ a = Minute THEN a ELSE a + 1
Sooner(w) == IF w = 0 THEN 0 ELSE w - 1

Passes ==
  /\ age' = [x \in Request |-> Older(age[x])]
  /\ run' = [r \in Run |-> [run[r] EXCEPT !.wait = Sooner(@)]]
  /\ UNCHANGED <<window, aborted, before>>

-----------------------------------------------------------------------------

Next ==
  \/ Passes
  \/ \E r \in Run :
       \/ Begins(r)
       \/ Checked(r)
       \/ Wakes(r)
       \/ Retries(r)
       \/ Answers(r)
       \/ Fails(r)
       \/ TimesOut(r)
       \/ Aborts(r)

Spec == Init /\ [][Next]_vars

\* Time passes, timers that are due fire and the checks answer; an adapter
\* may stay silent for ever.
Fairness ==
  /\ WF_vars(Passes)
  /\ \A r \in Run : WF_vars(Checked(r) \/ Wakes(r) \/ Retries(r) \/ TimesOut(r))

FairSpec == Spec /\ Fairness

-----------------------------------------------------------------------------
(* Properties *)

\* Type invariant.
TypeOK ==
  /\ run \in [Run -> [pc : {"idle", "checking", "waiting", "executing", "pausing", "done"},
                      attempt : 0..maxAttempts, wait : Nat, status : Status \cup {NoStatus}]]
  /\ \A r \in Run : (run[r].status = NoStatus) <=> (run[r].pc # "done")
  /\ age \in [Request -> {NotMade} \cup 0..Minute]
  /\ window \subseteq Request
  /\ aborted \subseteq Run
  /\ before \in [Run -> SUBSET Attempt]

InLastMinute == {x \in Request : age[x] \in 0..Minute - 1}

\* Never more than Limit requests are made within a minute, whichever runs
\* make them, and however many wake at the same time (acquireRateLimit).
BudgetKept == Cardinality(InLastMinute) <= Limit

\* A run sleeps for a place in the window only as long as there is none: the
\* time it computes before the sleep is not stale in the meantime
\* (acquireRateLimit).
SleepsOnlyWithoutBudget ==
  \A r \in Run :
    run[r].pc = "waiting" /\ run[r].wait > 0 => Cardinality(InLastMinute) = Limit

\* The attempts a result reports are the requests the run made, on every way
\* out of the loop, and no run makes more than its retries allow (run).
AttemptsCounted ==
  \A r \in Run : run[r].pc = "done" => Made(r) = 1..run[r].attempt

\* Once its caller is gone a run makes at most one more request: the one it
\* was waiting to make (run, acquireRateLimit, withTimeout).
AbortObeyed ==
  \A r \in aborted : \A j, k \in Made(r) \ before[r] : j = k

\* Every run ends, though its adapter may never answer and the other runs
\* may take the places it waits for (run).
EveryRunEnds ==
  \A r \in Run : run[r].pc = "checking" ~> run[r].pc = "done"

=============================================================================
