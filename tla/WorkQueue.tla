----------------------------- MODULE WorkQueue -----------------------------
(***************************************************************************)
(* The durable work queue (durable-workflow-store.ts, PostgreSQL path) and *)
(* the workflow executor that drains it (workflow-executor.ts).            *)
(*                                                                         *)
(* A work item is one row, identified by (workflow_type, dedupe_key).  A   *)
(* tick is one call of processWorkflowTick: it leases a batch of rows in   *)
(* one transaction, then executes the batch sequentially, renewing only    *)
(* the lease of the item it is executing.  Ticks overlap: the dynamic      *)
(* worker aborts its HTTP call after 30 s and polls again with the same    *)
(* DISHA_WORKER_ID while the first tick still runs, so several ticks may   *)
(* carry one worker id (WorkerOf).  Every statement that the store commits *)
(* is one atomic step; everything between two awaits is interleaved.       *)
(*                                                                         *)
(* Time is abstracted: a lease is expired or not (lease_expires_at <= now) *)
(* and a row is available or not (available_at <= now); the clock may pass *)
(* either instant between any two steps.                                   *)
(***************************************************************************)
EXTENDS Naturals, FiniteSets

CONSTANTS
  Item,         \* work items, one per (workflow_type, dedupe_key)
  Tick,         \* concurrent calls of processWorkflowTick
  Worker,       \* worker ids
  NoWorker,     \* lease_owner is null
  NoItem,       \* a tick between two items
  WorkerOf,     \* the worker id a tick was called with
  MaxAttempts,  \* max_attempts of a row
  Priority,     \* priority of a row
  MaxItems,     \* size limit of a leased batch
  MaxFaults,    \* bound: crashes, lost replies and failing statements
  MaxExpiries   \* bound: leases that expire while a tick still holds them

ASSUME WorkQueueAssumption ==
  /\ WorkerOf \in [Tick -> Worker]
  /\ NoWorker \notin Worker
  /\ NoItem \notin Item
  /\ MaxAttempts \in [Item -> 1..20]
  /\ Priority \in [Item -> 0..1000]
  /\ MaxItems \in 1..100
  /\ MaxFaults \in Nat
  /\ MaxExpiries \in Nat

VARIABLES
  work,      \* work[i]: the row of item i in durable_work_items
  tick,      \* tick[t]: control state of a tick
  claim,     \* claim[t][i]: attempt number under which t leased i, 0 if none
  tried,     \* history: outcomes of the executions of i that ended
  faults,    \* faults so far (bounded by MaxFaults)
  expiries   \* expiries of held leases so far (bounded by MaxExpiries)

vars == <<work, tick, claim, tried, faults, expiries>>

-----------------------------------------------------------------------------
(* Rows and control states *)

\* 'failed' is a legal value of the column that no statement ever writes.
WorkStatus == {"absent", "queued", "leased", "completed", "dead"}

Row == [status: WorkStatus, owner: Worker \cup {NoWorker},
        expired: BOOLEAN, available: BOOLEAN, attempts: Nat]

NoRow == [status |-> "absent", owner |-> NoWorker,
          expired |-> FALSE, available |-> FALSE, attempts |-> 0]

Control == {"idle", "next", "executing", "completing", "failing"}
TickState == [pc: Control, cur: Item \cup {NoItem}]
Idle == [pc |-> "idle", cur |-> NoItem]

NoClaim == [i \in Item |-> 0]
Claimed(t) == {i \in Item : claim[t][i] # 0}

Init ==
  /\ work = [i \in Item |-> NoRow]
  /\ tick = [t \in Tick |-> Idle]
  /\ claim = [t \in Tick |-> NoClaim]
  /\ tried = [i \in Item |-> {}]
  /\ faults = 0
  /\ expiries = 0

-----------------------------------------------------------------------------
(* Store operations *)

\* The row enqueueWorkflow and the schedulers insert.
QueuedRow == [status |-> "queued", owner |-> NoWorker,
              expired |-> FALSE, available |-> TRUE, attempts |-> 0]

\* A conflict on (workflow_type, dedupe_key) leaves the row as it is,
\* whatever its status: a settled key is never queued again.
EnqueueRow(i) == IF work[i].status = "absent" THEN QueuedRow ELSE work[i]

Enqueue(i) ==
  /\ work' = [work EXCEPT ![i] = EnqueueRow(i)]
  /\ UNCHANGED <<tick, claim, tried, faults, expiries>>

\* Mutant of Eligible: leased rows are never taken over.
EligibleQueuedOnly(i) == work[i].status = "queued" /\ work[i].available

Eligible(i) ==
  /\ \/ work[i].status = "queued"
     \/ work[i].status = "leased" /\ work[i].expired
  /\ work[i].available

\* Mutant of LeasedRow: the attempt is not counted.
LeasedRowSameAttempt(row, worker) ==
  [status |-> "leased", owner |-> worker, expired |-> FALSE,
   available |-> row.available, attempts |-> row.attempts]

LeasedRow(row, worker) ==
  [status |-> "leased", owner |-> worker, expired |-> FALSE,
   available |-> row.available, attempts |-> row.attempts + 1]

\* renew, complete and fail update the row only "where status='leased' and
\* lease_owner=$worker"; none of them looks at the expiry or the attempt.
Owns(t, i) == work[i].status = "leased" /\ work[i].owner = WorkerOf[t]

\* lease_owner and lease_expires_at become null.
ReleasedRow(row, status, available) ==
  [status |-> status, owner |-> NoWorker, expired |-> FALSE,
   available |-> available, attempts |-> row.attempts]

CompletedRow(row) == ReleasedRow(row, "completed", row.available)

\* Mutant of FailedRow: > for >=.
FailedRowOffByOne(row, i) ==
  IF row.attempts > MaxAttempts[i]
  THEN ReleasedRow(row, "dead", row.available)
  ELSE ReleasedRow(row, "queued", FALSE)

\* Dead when the attempts are used up, else queued again after a backoff.
FailedRow(row, i) ==
  IF row.attempts >= MaxAttempts[i]
  THEN ReleasedRow(row, "dead", row.available)
  ELSE ReleasedRow(row, "queued", FALSE)

-----------------------------------------------------------------------------
(* The executor *)

\* Rows another session may hold locked at this instant: those a running
\* tick is renewing, completing or failing.  "skip locked" passes them over.
MayBeLocked == {i \in Item : work[i].status = "leased" /\ \E t \in Tick : claim[t][i] # 0}

\* order by priority desc ... limit maxItems, over the rows not skipped.
IsBatch(batch, candidates) ==
  /\ batch \subseteq candidates
  /\ Cardinality(batch) <= MaxItems
  /\ batch = candidates \/ Cardinality(batch) = MaxItems
  /\ \A i \in batch, j \in candidates \ batch : Priority[i] >= Priority[j]

LeaseRows(t, batch) ==
  work' = [i \in Item |-> IF i \in batch THEN LeasedRow(work[i], WorkerOf[t]) ELSE work[i]]

ClaimRows(t, batch) ==
  claim' = [claim EXCEPT ![t] = [i \in Item |-> IF i \in batch THEN work[i].attempts + 1 ELSE 0]]

Fault == faults < MaxFaults /\ faults' = faults + 1

Lease(t) ==
  /\ tick[t].pc = "idle"
  /\ \E locked \in SUBSET MayBeLocked :
     \E batch \in (SUBSET Item) \ {{}} :
       /\ IsBatch(batch, {i \in Item : Eligible(i)} \ locked)
       /\ LeaseRows(t, batch)
       /\ ClaimRows(t, batch)
  /\ tick' = [tick EXCEPT ![t] = [pc |-> "next", cur |-> NoItem]]
  /\ UNCHANGED <<tried, faults, expiries>>

\* The lease commits but its reply is lost: the tick throws, the rows stay
\* leased by a worker that does not know of them.
LeaseReplyLost(t) ==
  /\ tick[t].pc = "idle"
  /\ \E batch \in (SUBSET Item) \ {{}} :
       /\ IsBatch(batch, {i \in Item : Eligible(i)})
       /\ LeaseRows(t, batch)
  /\ Fault
  /\ UNCHANGED <<tick, claim, tried, expiries>>

StartItem(t, i) ==
  /\ tick[t].pc = "next"
  /\ i \in Claimed(t)
  /\ tick' = [tick EXCEPT ![t] = [pc |-> "executing", cur |-> i]]
  /\ UNCHANGED <<work, claim, tried, faults, expiries>>

\* The interval timer lives until the item's finally block.
Heartbeat(t) ==
  /\ tick[t].cur # NoItem
  /\ Owns(t, tick[t].cur)
  /\ work' = [work EXCEPT ![tick[t].cur].expired = FALSE]
  /\ UNCHANGED <<tick, claim, tried, faults, expiries>>

\* The tick stays with its item.
GoTo(t, pc) == tick' = [tick EXCEPT ![t] = [pc |-> pc, cur |-> tick[t].cur]]

\* Mutant of ExecuteEnds: the error of execute is swallowed.
ExecuteEndsSwallowing(t, outcome) ==
  /\ tick[t].pc = "executing"
  /\ tried' = [tried EXCEPT ![tick[t].cur] = @ \cup {outcome}]
  /\ GoTo(t, "completing")
  /\ UNCHANGED <<work, claim, faults, expiries>>

ExecuteEnds(t, outcome) ==
  /\ tick[t].pc = "executing"
  /\ tried' = [tried EXCEPT ![tick[t].cur] = @ \cup {outcome}]
  /\ GoTo(t, IF outcome = "ok" THEN "completing" ELSE "failing")
  /\ UNCHANGED <<work, claim, faults, expiries>>

\* On to the next leased item, or return from the tick.
AfterItem(t) ==
  /\ claim' = [claim EXCEPT ![t][tick[t].cur] = 0]
  /\ tick' = [tick EXCEPT ![t] =
       IF Claimed(t) = {tick[t].cur} THEN Idle ELSE [pc |-> "next", cur |-> NoItem]]

Complete(t) ==
  /\ tick[t].pc = "completing"
  /\ Owns(t, tick[t].cur)
  /\ work' = [work EXCEPT ![tick[t].cur] = CompletedRow(@)]
  /\ \/ AfterItem(t) /\ UNCHANGED faults
     \* workflow.completed cannot be emitted: caught, and failWorkflow follows
     \/ GoTo(t, "failing") /\ Fault /\ UNCHANGED claim
  /\ UNCHANGED <<tried, expiries>>

\* completeWorkflow returns false: workflow_lease_lost_before_completion.
CompleteLeaseLost(t) ==
  /\ tick[t].pc = "completing"
  /\ ~Owns(t, tick[t].cur)
  /\ GoTo(t, "failing")
  /\ UNCHANGED <<work, claim, tried, faults, expiries>>

\* The update throws and changes nothing.
CompleteError(t) ==
  /\ tick[t].pc = "completing"
  /\ Fault
  /\ GoTo(t, "failing")
  /\ UNCHANGED <<work, claim, tried, expiries>>

\* An exception leaves processWorkflowTick: the rest of the batch is dropped.
Abandon(t) ==
  /\ tick' = [tick EXCEPT ![t] = Idle]
  /\ claim' = [claim EXCEPT ![t] = NoClaim]

Fail(t) ==
  /\ tick[t].pc = "failing"
  /\ LET i == tick[t].cur IN
     \/ /\ Owns(t, i)
        /\ work' = [work EXCEPT ![i] = FailedRow(@, i)]
        /\ \/ AfterItem(t) /\ UNCHANGED faults
           \/ Abandon(t) /\ Fault   \* the event after the update throws
     \/ /\ ~Owns(t, i)
        /\ AfterItem(t)
        /\ UNCHANGED <<work, faults>>
  /\ UNCHANGED <<tried, expiries>>

\* The process dies, or failWorkflow itself throws, at any point of a tick.
Crash(t) ==
  /\ tick[t].pc # "idle"
  /\ Fault
  /\ Abandon(t)
  /\ UNCHANGED <<work, tried, expiries>>

-----------------------------------------------------------------------------
(* The clock *)

HeldByTick(i) == \E t \in Tick : claim[t][i] # 0 /\ claim[t][i] = work[i].attempts

ExpireLease(i) ==
  /\ work[i].status = "leased" /\ ~work[i].expired
  /\ work' = [work EXCEPT ![i].expired = TRUE]

\* The lease of a crashed or abandoned tick runs out.
ExpireOrphan(i) ==
  /\ ~HeldByTick(i)
  /\ ExpireLease(i)
  /\ UNCHANGED <<tick, claim, tried, faults, expiries>>

\* The lease runs out under a tick that still holds it: the item waits
\* behind another one of its batch, or the heartbeat is late.
ExpireHeld(i) ==
  /\ HeldByTick(i)
  /\ expiries < MaxExpiries
  /\ ExpireLease(i)
  /\ expiries' = expiries + 1
  /\ UNCHANGED <<tick, claim, tried, faults>>

BackoffElapses(i) ==
  /\ work[i].status = "queued" /\ ~work[i].available
  /\ work' = [work EXCEPT ![i].available = TRUE]
  /\ UNCHANGED <<tick, claim, tried, faults, expiries>>

-----------------------------------------------------------------------------
ItemNext(i) ==
  \/ Enqueue(i)
  \/ ExpireOrphan(i)
  \/ ExpireHeld(i)
  \/ BackoffElapses(i)

TickNext(t) ==
  \/ Lease(t)
  \/ LeaseReplyLost(t)
  \/ \E i \in Item : StartItem(t, i)
  \/ Heartbeat(t)
  \/ \E outcome \in {"ok", "error"} : ExecuteEnds(t, outcome)
  \/ Complete(t)
  \/ CompleteLeaseLost(t)
  \/ CompleteError(t)
  \/ Fail(t)
  \/ Crash(t)

Next == (\E i \in Item : ItemNext(i)) \/ (\E t \in Tick : TickNext(t))

Spec == Init /\ [][Next]_vars

\* The worker polls for ever, every started execution returns (adapters and
\* fetches carry timeouts) and time passes.
Fairness ==
  /\ \A t \in Tick :
       /\ WF_vars(Lease(t))
       /\ WF_vars(\E i \in Item : StartItem(t, i))
       /\ WF_vars(\E outcome \in {"ok", "error"} : ExecuteEnds(t, outcome))
       /\ WF_vars(Complete(t) \/ CompleteLeaseLost(t))
       /\ WF_vars(Fail(t))
  /\ \A i \in Item : WF_vars(ExpireOrphan(i)) /\ WF_vars(BackoffElapses(i))

FairSpec == Spec /\ Fairness
-----------------------------------------------------------------------------
(* Properties *)

\* Type invariant of the rows, the ticks and their claims.
TypeOK ==
  /\ work \in [Item -> Row]
  /\ tick \in [Tick -> TickState]
  /\ claim \in [Tick -> [Item -> Nat]]
  /\ tried \in [Item -> SUBSET {"ok", "error"}]
  /\ faults \in 0..MaxFaults
  /\ expiries \in 0..MaxExpiries

\* However leases expire and ticks overlap, two ticks never hold an item under
\* the same attempt number: of several concurrent executions of one item at
\* most one is the current one, and the attempt number tells which
\* (attempts=w.attempts+1 under "for update skip locked").
ClaimsDistinct ==
  \A t, u \in Tick : \A i \in Item :
    t # u /\ claim[t][i] # 0 => claim[t][i] # claim[u][i]

\* The lease itself never looks at max_attempts: a row goes beyond it only by
\* taking over a lease that was orphaned by a fault or ran out under its tick,
\* and by no more attempts than there were of those (leaseWorkflowItems,
\* failWorkflow).
AttemptsWithinBudget ==
  \A i \in Item : work[i].attempts <= MaxAttempts[i] + faults + expiries

\* processWorkflowTick reports workflow_lease_lost_before_completion instead of
\* completing an item that was leased again in the meantime: whoever
\* completes an item holds its latest lease.
LostLeaseNeverCompletes ==
  [][\A i \in Item : work[i].status = "leased" /\ work'[i].status = "completed" =>
       \E t \in Tick :
         /\ tick[t].pc = "completing" /\ tick[t].cur = i
         /\ claim[t][i] = work[i].attempts
         /\ tick'[t] # tick[t]]_vars

\* Every enqueued item is eventually completed or dead-lettered, whatever
\* finite number of crashes, lost replies and expiries hits the ticks.
EventuallySettled ==
  \A i \in Item :
    work[i].status # "absent" ~> work[i].status \in {"completed", "dead"}

PhaseOf(i) ==
  IF work[i].status \in {"queued", "leased"} THEN "open" ELSE work[i].status

Promise == INSTANCE AtLeastOnce WITH phase <- [i \in Item |-> PhaseOf(i)]

\* The queue implements its promise: completed only after an execution
\* succeeded, dead only after one ended, and settled once.
KeepsPromise == Promise!Spec
=============================================================================
