-------------------------- MODULE WorkQueueProofs --------------------------
(***************************************************************************)
(* Theorems about WorkQueue, for every set of items, ticks and workers.    *)
(* IInv is inductive; each action has a lemma that it preserves IInv.      *)
(* From it follow who owns a lease, how many attempts there are, that      *)
(* settled items stay so, that no item gets stuck, and that the queue      *)
(* implements AtLeastOnce.                                                 *)
(***************************************************************************)
EXTENDS WorkQueue, FiniteSetTheorems, NaturalsInduction, WellFoundedInduction, TLAPS

-----------------------------------------------------------------------------
(* Numbers *)

\* A non-empty set of numbers has a smallest one.
LEMMA Smallest ==
  ASSUME NEW T \in SUBSET Nat, T # {}
  PROVE  \E n \in T : \A k \in T : n <= k
  <1> DEFINE R == {ss \in Nat \X Nat : ss[1] < ss[2]}
  <1>1. IsWellFoundedOn(R, Nat)
    BY NatLessThanWellFounded DEF OpToRel
  <1>2. PICK n \in T : \A k \in T : ~(<<k, n>> \in R)
    BY <1>1, WFMin
  <1>3. ASSUME NEW k \in T PROVE n <= k
    <2>1. k \in Nat /\ n \in Nat
      OBVIOUS
    <2>2. ~(k < n)
      BY <1>2, <2>1
    <2> QED BY <2>1, <2>2
  <1> QED BY <1>3

\* A function with values up to a bound is highest somewhere.
LEMMA Peak ==
  ASSUME NEW rest, rest # {}, NEW bound, bound \in Nat, NEW f,
         \A k \in rest : f[k] \in 0..bound
  PROVE  \E j \in rest : \A k \in rest : f[j] >= f[k]
  <1> DEFINE Above == {u \in Nat : \A k \in rest : f[k] <= u}
  <1>1. \A k \in rest : f[k] \in Nat /\ f[k] <= bound
    OBVIOUS
  <1>2. Above \in SUBSET Nat /\ Above # {}
    <2>1. bound \in Above
      BY <1>1
    <2> QED
      BY <2>1
  <1>3. PICK u \in Above : \A v \in Above : u <= v
    <2> HIDE DEF Above
    <2> QED
      BY <1>2, Smallest
  <1>4. PICK j \in rest : f[j] >= u
    <2> SUFFICES ASSUME \A k \in rest : ~(f[k] >= u) PROVE FALSE
      OBVIOUS
    <2>1. \A k \in rest : f[k] <= u - 1
      BY <1>1, <1>3
    <2>2. u - 1 \in Nat
      BY <1>1, <1>3, <2>1
    <2>3. u - 1 \in Above
      BY <2>1, <2>2
    <2> QED
      BY <1>3, <2>2, <2>3
  <1>5. \A k \in rest : f[k] <= u
    BY <1>3
  <1> QED
    BY <1>1, <1>3, <1>4, <1>5

USE WorkQueueAssumption DEF WorkQueueAssumption

-----------------------------------------------------------------------------
(* What is proved about the queue besides the properties TLC checks *)

\* A queued item always has an attempt left: a row whose attempts are used up
\* waits in no queue, it is leased, completed or dead (failWorkflow).
QueuedHasAttemptLeft ==
  \A i \in Item : work[i].status = "queued" => work[i].attempts < MaxAttempts[i]

\* A settled item is final: no late completion, late failure, renewal,
\* expiry or repeated enqueue with its dedupe key changes the row again.
SettledIsFinal ==
  [][\A i \in Item : work[i].status \in {"completed", "dead"} => work'[i] = work[i]]_vars

\* The control state of a tick agrees with its claims and with what its
\* executions have left behind: a tick completes or fails only an item it
\* leased and whose execution ended accordingly.
TickControl ==
  \A t \in Tick :
    /\ tick[t].pc \in {"idle", "next"} <=> tick[t].cur = NoItem
    /\ tick[t].pc = "idle" => Claimed(t) = {}
    /\ tick[t].cur # NoItem => claim[t][tick[t].cur] # 0
    /\ tick[t].pc = "completing" => "ok" \in tried[tick[t].cur]
    /\ tick[t].pc = "failing" => tried[tick[t].cur] # {}

\* No tick holds an attempt that the row has not reached yet.
ClaimsBounded ==
  \A t \in Tick, i \in Item :
    /\ claim[t][i] <= work[i].attempts
    /\ work[i].status = "absent" => claim[t][i] = 0

\* The inductive invariant behind the theorems: what the
\* ticks remember of the rows stays consistent with the rows.
IInv ==
  /\ TypeOK
  /\ TickControl
  /\ ClaimsBounded
  /\ ClaimsDistinct
  /\ QueuedHasAttemptLeft

\* Whoever holds the current attempt of a leased row is its owner, however many
\* ticks share a worker id: its heartbeat and its completion are not refused.
HolderOwns ==
  \A t \in Tick, i \in Item :
    claim[t][i] # 0 /\ claim[t][i] = work[i].attempts /\ work[i].status = "leased"
      => work[i].owner = WorkerOf[t]

HoldsLiveLease(t, i) ==
  /\ claim[t][i] # 0
  /\ claim[t][i] = work[i].attempts
  /\ work[i].status = "leased"
  /\ ~work[i].expired

\* While a tick holds an unexpired lease, no step of a tick with another worker
\* id can complete, fail, requeue or take over the item; time alone may expire
\* the lease. A tick with the same worker id can.
LiveLeaseUndisturbed ==
  [][\A t \in Tick, i \in Item :
       HoldsLiveLease(t, i) /\ (\A u \in Tick : WorkerOf[u] = WorkerOf[t] => tick'[u] = tick[u]) =>
         /\ work'[i].status = "leased"
         /\ work'[i].attempts = work[i].attempts]_vars

\* Who settles or requeues a leased item is executing it and has the worker id
\* of the latest lease, even after its own lease was lost: what is wrong with a
\* late completion is never more than that two ticks share a worker id.
ReleasedBySameWorker ==
  [][\A i \in Item : work[i].status = "leased" /\ work'[i].status # "leased" =>
       \E u \in Tick :
         /\ tick[u].cur = i /\ tick'[u] # tick[u]
         /\ work'[i].status = "completed" => tick[u].pc = "completing"
         /\ WorkerOf[u] = work[i].owner
         /\ \A t \in Tick : claim[t][i] # 0 /\ claim[t][i] = work[i].attempts => WorkerOf[u] = WorkerOf[t]]_vars

LEMMA AttemptLimit == \A i \in Item : MaxAttempts[i] \in Nat /\ MaxAttempts[i] > 0
  OBVIOUS

LEMMA InitIInv == Init => IInv
  <1> SUFFICES ASSUME Init PROVE IInv
    OBVIOUS
  <1> USE DEF Init
  <1>1. TypeOK
    BY DEF TypeOK, Row, NoRow, WorkStatus, TickState, Control, Idle, NoClaim
  <1>2. TickControl
    BY DEF TickControl, Idle, NoClaim, Claimed
  <1>3. ClaimsBounded /\ ClaimsDistinct /\ QueuedHasAttemptLeft
    BY DEF ClaimsBounded, ClaimsDistinct, QueuedHasAttemptLeft, NoRow, NoClaim
  <1> QED
    BY <1>1, <1>2, <1>3 DEF IInv

-----------------------------------------------------------------------------
(* What a step of the rows owes to the invariant *)

\* Rows never lose attempts, never disappear and are queued only with an
\* attempt left.
RowsAdvance ==
  /\ work' \in [Item -> Row]
  /\ \A i \in Item :
       /\ work[i].status # "absent" =>
            /\ work'[i].attempts >= work[i].attempts
            /\ work'[i].status # "absent"
       /\ work'[i].status = "queued" => work'[i].attempts < MaxAttempts[i]

\* A step of the store that touches no tick preserves the invariant.
LEMMA RowStep ==
  ASSUME IInv, RowsAdvance, UNCHANGED <<tick, claim, tried>>,
         faults' \in 0..MaxFaults, expiries' \in 0..MaxExpiries
  PROVE  IInv'
  <1> USE DEF IInv, RowsAdvance
  <1>1. TypeOK'
    BY DEF TypeOK
  <1>2. TickControl'
    BY DEF TickControl, Claimed
  <1>3. ClaimsBounded'
    BY DEF ClaimsBounded, TypeOK, Row
  <1>4. ClaimsDistinct'
    BY DEF ClaimsDistinct
  <1>5. QueuedHasAttemptLeft'
    BY DEF QueuedHasAttemptLeft
  <1> QED
    BY <1>1, <1>2, <1>3, <1>4, <1>5

\* A tick that moves on to another control state keeps its claims.
LEMMA ControlStep ==
  ASSUME IInv, RowsAdvance, UNCHANGED <<claim, expiries>>,
         faults' \in 0..MaxFaults,
         NEW t \in Tick, NEW s \in TickState,
         tick' = [tick EXCEPT ![t] = s],
         tried' \in [Item -> SUBSET {"ok", "error"}],
         \A i \in Item : tried[i] \subseteq tried'[i],
         s.pc \notin {"idle", "next"}, s.cur \in Claimed(t),
         s.pc = "completing" => "ok" \in tried'[s.cur],
         s.pc = "failing" => tried'[s.cur] # {}
  PROVE  IInv'
  <1> USE DEF IInv, RowsAdvance
  <1>1. TypeOK'
    BY DEF TypeOK
  <1>2. TickControl'
    <2> SUFFICES ASSUME NEW u \in Tick
                 PROVE  /\ tick'[u].pc \in {"idle", "next"} <=> tick'[u].cur = NoItem
                        /\ tick'[u].pc = "idle" => Claimed(u)' = {}
                        /\ tick'[u].cur # NoItem => claim'[u][tick'[u].cur] # 0
                        /\ tick'[u].pc = "completing" => "ok" \in tried'[tick'[u].cur]
                        /\ tick'[u].pc = "failing" => tried'[tick'[u].cur] # {}
      BY DEF TickControl
    <2>1. CASE u = t
      BY <2>1 DEF TypeOK, Claimed
    <2>2. CASE u # t
      <3>1. tick'[u] = tick[u]
        BY <2>2 DEF TypeOK
      <3>2. tick[u].cur # NoItem => tick[u].cur \in Item
        BY DEF TypeOK, TickState
      <3> QED
        BY <3>1, <3>2 DEF TickControl, Claimed, TypeOK, TickState, Control
    <2> QED
      BY <2>1, <2>2
  <1>3. ClaimsBounded'
    BY DEF ClaimsBounded, TypeOK, Row
  <1>4. ClaimsDistinct'
    BY DEF ClaimsDistinct
  <1>5. QueuedHasAttemptLeft'
    BY DEF QueuedHasAttemptLeft
  <1> QED
    BY <1>1, <1>2, <1>3, <1>4, <1>5

\* A tick may drop claims when it goes to the next item or returns.
LEMMA ReleaseStep ==
  ASSUME IInv, RowsAdvance, UNCHANGED <<tried, expiries>>,
         faults' \in 0..MaxFaults,
         NEW t \in Tick, NEW kept \in SUBSET Claimed(t),
         claim' = [claim EXCEPT ![t] = [i \in Item |-> IF i \in kept THEN claim[t][i] ELSE 0]],
         tick' = [tick EXCEPT ![t] = IF kept = {} THEN Idle ELSE [pc |-> "next", cur |-> NoItem]]
  PROVE  IInv'
  <1> USE DEF IInv, RowsAdvance
  <1>1. TypeOK'
    BY DEF TypeOK, TickState, Control, Idle
  <1>2. TickControl'
    <2> SUFFICES ASSUME NEW u \in Tick
                 PROVE  /\ tick'[u].pc \in {"idle", "next"} <=> tick'[u].cur = NoItem
                        /\ tick'[u].pc = "idle" => Claimed(u)' = {}
                        /\ tick'[u].cur # NoItem => claim'[u][tick'[u].cur] # 0
                        /\ tick'[u].pc = "completing" => "ok" \in tried'[tick'[u].cur]
                        /\ tick'[u].pc = "failing" => tried'[tick'[u].cur] # {}
      BY DEF TickControl
    <2>1. CASE u = t
      BY <2>1 DEF TypeOK, Claimed, Idle
    <2>2. CASE u # t
      BY <2>2 DEF TickControl, Claimed, TypeOK
    <2> QED
      BY <2>1, <2>2
  <1>3. ClaimsBounded'
    BY DEF ClaimsBounded, TypeOK, Row
  <1>4. ClaimsDistinct'
    BY DEF ClaimsDistinct, TypeOK
  <1>5. QueuedHasAttemptLeft'
    BY DEF QueuedHasAttemptLeft
  <1> QED
    BY <1>1, <1>2, <1>3, <1>4, <1>5

-----------------------------------------------------------------------------
(* Rows of the single operations *)

LEMMA SameRows == IInv /\ UNCHANGED work => RowsAdvance
  BY DEF IInv, TypeOK, Row, QueuedHasAttemptLeft, RowsAdvance

LEMMA LeasedRows ==
  ASSUME IInv, NEW t \in Tick, NEW batch \in SUBSET Item,
         \A i \in batch : Eligible(i), LeaseRows(t, batch)
  PROVE  /\ RowsAdvance
         /\ \A i \in batch : work'[i].attempts = work[i].attempts + 1
         /\ \A i \in batch : work[i].status # "absent"
  <1> USE DEF IInv, TypeOK
  <1>1. \A i \in Item : LeasedRow(work[i], WorkerOf[t]) \in Row
    BY DEF LeasedRow, Row, WorkStatus
  <1>2. \A i \in Item : work'[i] = IF i \in batch THEN LeasedRow(work[i], WorkerOf[t]) ELSE work[i]
    BY DEF LeaseRows
  <1>3. work' \in [Item -> Row]
    BY <1>1 DEF LeaseRows
  <1>4. \A i \in batch : work[i].status # "absent"
    BY DEF Eligible
  <1>5. \A i \in Item :
          /\ LeasedRow(work[i], WorkerOf[t]).status = "leased"
          /\ LeasedRow(work[i], WorkerOf[t]).attempts = work[i].attempts + 1
          /\ work[i].attempts \in Nat
    BY DEF LeasedRow, Row
  <1> QED
    BY <1>2, <1>3, <1>4, <1>5 DEF RowsAdvance, QueuedHasAttemptLeft

LEMMA SettledRows ==
  ASSUME IInv, NEW t \in Tick, NEW i \in Item, Owns(t, i), NEW row,
         row = CompletedRow(work[i]) \/ row = FailedRow(work[i], i),
         work' = [work EXCEPT ![i] = row]
  PROVE  RowsAdvance
  <1> USE DEF IInv, TypeOK
  <1>1. work[i] \in Row
    OBVIOUS
  <1>2. /\ row \in Row
        /\ row.attempts = work[i].attempts
        /\ row.status # "absent"
        /\ row.status = "queued" => row.attempts < MaxAttempts[i]
    <2> work[i].attempts \in Nat /\ work[i].available \in BOOLEAN
      BY <1>1 DEF Row
    <2> MaxAttempts[i] \in Nat
      BY AttemptLimit
    <2>1. CASE row = CompletedRow(work[i])
      BY <1>1, <2>1 DEF CompletedRow, ReleasedRow, Row, WorkStatus
    <2>2. CASE row = FailedRow(work[i], i) /\ work[i].attempts >= MaxAttempts[i]
      BY <1>1, <2>2 DEF FailedRow, ReleasedRow, Row, WorkStatus
    <2>3. CASE row = FailedRow(work[i], i) /\ ~(work[i].attempts >= MaxAttempts[i])
      BY <1>1, <2>3 DEF FailedRow, ReleasedRow, Row, WorkStatus
    <2> QED
      BY <2>1, <2>2, <2>3
  <1>3. \A j \in Item : j # i => work'[j] = work[j]
    OBVIOUS
  <1>4. work'[i] = row
    OBVIOUS
  <1> QED
    BY <1>1, <1>2, <1>3, <1>4 DEF RowsAdvance, Row, QueuedHasAttemptLeft

\* The clock and the heartbeat change a flag of one row and nothing else.
LEMMA FlagRows ==
  ASSUME IInv, NEW i \in Item, NEW expired \in BOOLEAN, NEW available \in BOOLEAN,
         work' = [work EXCEPT ![i] = [status |-> work[i].status, owner |-> work[i].owner,
                                      expired |-> expired, available |-> available,
                                      attempts |-> work[i].attempts]]
  PROVE  RowsAdvance
  <1> DEFINE row == [status |-> work[i].status, owner |-> work[i].owner,
                     expired |-> expired, available |-> available,
                     attempts |-> work[i].attempts]
  <1> USE DEF IInv, TypeOK
  <1>1. row \in Row /\ row.status = work[i].status /\ row.attempts = work[i].attempts
    BY DEF Row
  <1>2. work' = [work EXCEPT ![i] = row]
    OBVIOUS
  <1> HIDE DEF row
  <1> QED
    BY <1>1, <1>2 DEF RowsAdvance, Row, QueuedHasAttemptLeft

LEMMA ExpiryRows ==
  ASSUME IInv, NEW i \in Item, NEW b \in BOOLEAN,
         work' = [work EXCEPT ![i].expired = b] \/ work' = [work EXCEPT ![i].available = b]
  PROVE  RowsAdvance
  <1>1. work[i] \in Row
    BY DEF IInv, TypeOK
  <1>2. /\ [work[i] EXCEPT !.expired = b] =
             [status |-> work[i].status, owner |-> work[i].owner, expired |-> b,
              available |-> work[i].available, attempts |-> work[i].attempts]
        /\ [work[i] EXCEPT !.available = b] =
             [status |-> work[i].status, owner |-> work[i].owner, expired |-> work[i].expired,
              available |-> b, attempts |-> work[i].attempts]
    BY <1>1 DEF Row
  <1>3. work[i].expired \in BOOLEAN /\ work[i].available \in BOOLEAN
    BY <1>1 DEF Row
  <1>4. CASE work' = [work EXCEPT ![i].expired = b]
    <2>1. work' = [work EXCEPT ![i] = [work[i] EXCEPT !.expired = b]]
      BY <1>4
    <2>2. work' = [work EXCEPT ![i] =
             [status |-> work[i].status, owner |-> work[i].owner, expired |-> b,
              available |-> work[i].available, attempts |-> work[i].attempts]]
      BY <1>2, <2>1, Zenon
    <2> QED
      BY <1>3, <2>2, FlagRows, Zenon
  <1>5. CASE work' = [work EXCEPT ![i].available = b]
    <2>1. work' = [work EXCEPT ![i] = [work[i] EXCEPT !.available = b]]
      BY <1>5
    <2>2. work' = [work EXCEPT ![i] =
             [status |-> work[i].status, owner |-> work[i].owner, expired |-> work[i].expired,
              available |-> b, attempts |-> work[i].attempts]]
      BY <1>2, <2>1, Zenon
    <2> QED
      BY <1>3, <2>2, FlagRows, Zenon
  <1> QED
    BY <1>4, <1>5

-----------------------------------------------------------------------------
(* The actions *)

LEMMA ItemNextIInv ==
  ASSUME IInv, NEW i \in Item, ItemNext(i)
  PROVE  IInv'
  <1> USE DEF IInv, TypeOK
  <1>1. CASE Enqueue(i)
    <2>1. ASSUME work[i].status = "absent" PROVE RowsAdvance
      <3>1. work' = [work EXCEPT ![i] = QueuedRow]
        BY <1>1, <2>1 DEF Enqueue, EnqueueRow
      <3>2. QueuedRow \in Row /\ QueuedRow.attempts = 0 /\ MaxAttempts[i] \in 1..20
        BY DEF QueuedRow, Row, WorkStatus
      <3>3. \A j \in Item : j # i => work'[j] = work[j]
        BY <3>1
      <3>4. work'[i] = QueuedRow /\ work' \in [Item -> Row]
        BY <3>1, <3>2
      <3> HIDE DEF QueuedRow
      <3> QED
        BY SMTT(30), <2>1, <3>2, <3>3, <3>4 DEF RowsAdvance, Row, QueuedHasAttemptLeft
    <2>2. ASSUME work[i].status # "absent" PROVE RowsAdvance
      <3>1. UNCHANGED work
        BY <1>1, <2>2 DEF Enqueue, EnqueueRow
      <3> QED
        BY <3>1, SameRows
    <2>3. RowsAdvance
      BY <2>1, <2>2
    <2> QED
      BY <1>1, <2>3, RowStep DEF Enqueue
  <1>2. CASE ExpireOrphan(i)
    <2>1. RowsAdvance
      BY <1>2, ExpiryRows DEF ExpireOrphan, ExpireLease
    <2> QED
      BY <1>2, <2>1, RowStep DEF ExpireOrphan
  <1>3. CASE ExpireHeld(i)
    <2>1. RowsAdvance
      BY <1>3, ExpiryRows DEF ExpireHeld, ExpireLease
    <2>2. expiries' \in 0..MaxExpiries
      BY <1>3 DEF ExpireHeld
    <2> QED
      BY <1>3, <2>1, <2>2, RowStep DEF ExpireHeld
  <1>4. CASE BackoffElapses(i)
    <2>1. RowsAdvance
      BY <1>4, ExpiryRows DEF BackoffElapses
    <2> QED
      BY <1>4, <2>1, RowStep DEF BackoffElapses
  <1> QED
    BY <1>1, <1>2, <1>3, <1>4 DEF ItemNext

LEMMA LeaseIInv ==
  ASSUME IInv, NEW t \in Tick, Lease(t)
  PROVE  IInv'
  <1>1. PICK batch \in (SUBSET Item) \ {{}} :
          /\ \A i \in batch : Eligible(i)
          /\ LeaseRows(t, batch)
          /\ ClaimRows(t, batch)
    BY DEF Lease, IsBatch
  <1>2. /\ RowsAdvance
        /\ \A i \in batch : work'[i].attempts = work[i].attempts + 1
        /\ \A i \in batch : work[i].status # "absent"
    BY <1>1, LeasedRows
  <1>3. /\ tick[t].pc = "idle"
        /\ tick' = [tick EXCEPT ![t] = [pc |-> "next", cur |-> NoItem]]
        /\ UNCHANGED <<tried, faults, expiries>>
    BY DEF Lease
  <1>4. \A u \in Tick, i \in Item :
          claim'[u][i] = IF u # t THEN claim[u][i]
                         ELSE IF i \in batch THEN work[i].attempts + 1 ELSE 0
    BY <1>1 DEF ClaimRows, IInv, TypeOK
  <1>5. TypeOK'
    <2>1. claim' \in [Tick -> [Item -> Nat]]
      BY <1>1 DEF ClaimRows, IInv, TypeOK, Row
    <2> QED
      BY <1>2, <1>3, <2>1 DEF IInv, TypeOK, RowsAdvance, TickState, Control
  <1>6. TickControl'
    BY <1>3, <1>4 DEF IInv, TypeOK, TickControl, Claimed, TickState, Control
  <1>7. ClaimsBounded'
    <2> SUFFICES ASSUME NEW u \in Tick, NEW i \in Item
                 PROVE  /\ claim'[u][i] <= work'[i].attempts
                        /\ work'[i].status = "absent" => claim'[u][i] = 0
      BY DEF ClaimsBounded
    <2>1. claim[u][i] <= work[i].attempts /\ (work[i].status = "absent" => claim[u][i] = 0)
      BY DEF IInv, ClaimsBounded
    <2>2. work[i].attempts \in Nat /\ work'[i].attempts \in Nat /\ claim[u][i] \in Nat
      BY <1>2 DEF IInv, TypeOK, Row, RowsAdvance
    <2> QED
      BY <1>2, <1>4, <2>1, <2>2 DEF RowsAdvance
  <1>8. ClaimsDistinct'
    <2> SUFFICES ASSUME NEW u \in Tick, NEW v \in Tick, NEW i \in Item, u # v
                 PROVE  claim'[u][i] # 0 => claim'[u][i] # claim'[v][i]
      BY DEF ClaimsDistinct
    <2>1. claim[u][i] <= work[i].attempts /\ claim[v][i] <= work[i].attempts
      BY DEF IInv, ClaimsBounded
    <2>2. work[i].attempts \in Nat /\ claim[u][i] \in Nat /\ claim[v][i] \in Nat
      BY DEF IInv, TypeOK, Row
    <2>3. claim[u][i] # 0 => claim[u][i] # claim[v][i]
      BY DEF IInv, ClaimsDistinct
    <2> QED
      BY <1>4, <2>1, <2>2, <2>3
  <1>9. QueuedHasAttemptLeft'
    BY <1>2 DEF QueuedHasAttemptLeft, RowsAdvance
  <1> QED
    BY <1>5, <1>6, <1>7, <1>8, <1>9 DEF IInv

LEMMA LeaseReplyLostIInv ==
  ASSUME IInv, NEW t \in Tick, LeaseReplyLost(t)
  PROVE  IInv'
  <1>1. PICK batch \in (SUBSET Item) \ {{}} :
          (\A i \in batch : Eligible(i)) /\ LeaseRows(t, batch)
    BY DEF LeaseReplyLost, IsBatch
  <1>2. RowsAdvance
    BY <1>1, LeasedRows
  <1>3. faults' \in 0..MaxFaults /\ UNCHANGED <<tick, claim, tried, expiries>>
    BY DEF LeaseReplyLost, Fault, IInv, TypeOK
  <1> QED
    BY <1>2, <1>3, RowStep DEF IInv, TypeOK

LEMMA StartItemIInv ==
  ASSUME IInv, NEW t \in Tick, NEW i \in Item, StartItem(t, i)
  PROVE  IInv'
  <1> DEFINE s == [pc |-> "executing", cur |-> i]
  <1>1. s \in TickState
    BY DEF TickState, Control
  <1>2. RowsAdvance
    BY SameRows DEF StartItem
  <1>3. /\ tick' = [tick EXCEPT ![t] = s] /\ UNCHANGED <<claim, tried, expiries>>
        /\ faults' \in 0..MaxFaults /\ tried' \in [Item -> SUBSET {"ok", "error"}]
        /\ s.cur \in Claimed(t) /\ s.pc = "executing"
    BY DEF StartItem, IInv, TypeOK
  <1> HIDE DEF s
  <1> QED
    BY <1>1, <1>2, <1>3, ControlStep

LEMMA HeartbeatIInv ==
  ASSUME IInv, NEW t \in Tick, Heartbeat(t)
  PROVE  IInv'
  <1>1. tick[t].cur \in Item
    BY DEF Heartbeat, IInv, TypeOK, TickState
  <1>2. RowsAdvance
    BY <1>1, ExpiryRows DEF Heartbeat
  <1> QED
    BY <1>2, RowStep DEF Heartbeat, IInv, TypeOK

\* A tick that executes, completes or fails an item holds a claim on it.
LEMMA CurrentItem ==
  ASSUME IInv, NEW t \in Tick, tick[t].pc \in {"executing", "completing", "failing"}
  PROVE  tick[t].cur \in Item /\ tick[t].cur \in Claimed(t)
  <1>1. tick[t].cur # NoItem /\ claim[t][tick[t].cur] # 0
    BY DEF IInv, TickControl
  <1>2. tick[t].cur \in Item \cup {NoItem}
    BY DEF IInv, TypeOK, TickState
  <1> QED
    BY <1>1, <1>2 DEF Claimed

LEMMA ExecuteEndsIInv ==
  ASSUME IInv, NEW t \in Tick, NEW outcome \in {"ok", "error"}, ExecuteEnds(t, outcome)
  PROVE  IInv'
  <1> DEFINE i == tick[t].cur
             s == [pc |-> IF outcome = "ok" THEN "completing" ELSE "failing", cur |-> i]
  <1>1. i \in Item /\ i \in Claimed(t)
    BY CurrentItem DEF ExecuteEnds
  <1>2. s \in TickState /\ tick' = [tick EXCEPT ![t] = s]
    BY <1>1 DEF ExecuteEnds, GoTo, TickState, Control
  <1>3. /\ tried' \in [Item -> SUBSET {"ok", "error"}]
        /\ \A j \in Item : tried[j] \subseteq tried'[j]
        /\ outcome \in tried'[i]
    BY <1>1 DEF ExecuteEnds, IInv, TypeOK
  <1>4. RowsAdvance
    BY SameRows DEF ExecuteEnds
  <1>5. UNCHANGED <<claim, expiries>> /\ faults' \in 0..MaxFaults
    BY DEF ExecuteEnds, IInv, TypeOK
  <1> HIDE DEF i
  <1>6. /\ s.pc \notin {"idle", "next"} /\ s.cur \in Claimed(t)
        /\ s.pc = "completing" => "ok" \in tried'[s.cur]
        /\ s.pc = "failing" => tried'[s.cur] # {}
    BY <1>1, <1>3
  <1> HIDE DEF s
  <1> QED
    BY <1>2, <1>3, <1>4, <1>5, <1>6, ControlStep

\* The claims a tick keeps when it is done with its current item.
LEMMA AfterItemStep ==
  ASSUME IInv, RowsAdvance, NEW t \in Tick, AfterItem(t),
         tick[t].pc \in {"executing", "completing", "failing"},
         UNCHANGED <<tried, expiries>>, faults' \in 0..MaxFaults
  PROVE  IInv'
  <1> DEFINE kept == Claimed(t) \ {tick[t].cur}
  <1>1. tick[t].cur \in Item /\ tick[t].cur \in Claimed(t)
    BY CurrentItem
  <1>2. kept \in SUBSET Claimed(t)
    OBVIOUS
  <1>3. claim' = [claim EXCEPT ![t] = [i \in Item |-> IF i \in kept THEN claim[t][i] ELSE 0]]
    <2>1. claim \in [Tick -> [Item -> Nat]]
      BY DEF IInv, TypeOK
    <2>2. claim' = [claim EXCEPT ![t] = [claim[t] EXCEPT ![tick[t].cur] = 0]]
      BY DEF AfterItem
    <2>3. [claim[t] EXCEPT ![tick[t].cur] = 0] =
            [i \in Item |-> IF i \in kept THEN claim[t][i] ELSE 0]
      BY <1>1, <2>1 DEF Claimed
    <2> QED
      BY <2>2, <2>3
  <1>4. tick' = [tick EXCEPT ![t] = IF kept = {} THEN Idle ELSE [pc |-> "next", cur |-> NoItem]]
    <2>1. kept = {} <=> Claimed(t) = {tick[t].cur}
      BY <1>1
    <2> HIDE DEF kept
    <2> QED
      BY <2>1 DEF AfterItem
  <1> HIDE DEF kept
  <1> QED
    BY <1>2, <1>3, <1>4, ReleaseStep

LEMMA AbandonStep ==
  ASSUME IInv, RowsAdvance, NEW t \in Tick, Abandon(t),
         UNCHANGED <<tried, expiries>>, faults' \in 0..MaxFaults
  PROVE  IInv'
  <1> DEFINE kept == {}
  <1>1. kept \in SUBSET Claimed(t)
    OBVIOUS
  <1>2. claim' = [claim EXCEPT ![t] = [i \in Item |-> IF i \in kept THEN claim[t][i] ELSE 0]]
    BY DEF Abandon, NoClaim
  <1>3. tick' = [tick EXCEPT ![t] = IF kept = {} THEN Idle ELSE [pc |-> "next", cur |-> NoItem]]
    BY DEF Abandon
  <1> QED
    BY <1>1, <1>2, <1>3, ReleaseStep

\* The statement of a completing tick was refused, or its event was lost.
LEMMA ToFailingStep ==
  ASSUME IInv, RowsAdvance, NEW t \in Tick, GoTo(t, "failing"),
         tick[t].pc = "completing",
         UNCHANGED <<claim, tried, expiries>>, faults' \in 0..MaxFaults
  PROVE  IInv'
  <1> DEFINE s == [pc |-> "failing", cur |-> tick[t].cur]
  <1>1. tick[t].cur \in Item /\ tick[t].cur \in Claimed(t)
    BY CurrentItem
  <1>2. s \in TickState /\ s.pc = "failing" /\ s.cur = tick[t].cur
    BY <1>1 DEF TickState, Control
  <1>3. tick' = [tick EXCEPT ![t] = s]
    BY DEF GoTo
  <1>4. tried'[s.cur] # {} /\ tried' \in [Item -> SUBSET {"ok", "error"}]
    BY <1>2 DEF IInv, TickControl, TypeOK
  <1> HIDE DEF s
  <1> QED
    BY <1>1, <1>2, <1>3, <1>4, ControlStep

LEMMA FaultBound == IInv /\ (Fault \/ UNCHANGED faults) => faults' \in 0..MaxFaults
  BY DEF IInv, TypeOK, Fault

LEMMA CompleteIInv ==
  ASSUME IInv, NEW t \in Tick,
         Complete(t) \/ CompleteLeaseLost(t) \/ CompleteError(t)
  PROVE  IInv'
  <1>1. tick[t].pc = "completing" /\ UNCHANGED <<tried, expiries>>
    BY DEF Complete, CompleteLeaseLost, CompleteError
  <1>2. tick[t].cur \in Item
    BY <1>1, CurrentItem
  <1>3. faults' \in 0..MaxFaults
    BY FaultBound DEF Complete, CompleteLeaseLost, CompleteError
  <1>4. RowsAdvance
    <2>1. CASE Complete(t)
      <3>1. work' = [work EXCEPT ![tick[t].cur] = CompletedRow(work[tick[t].cur])]
        BY <2>1 DEF Complete
      <3> QED
        BY <1>2, <2>1, <3>1, SettledRows DEF Complete
    <2>2. CASE CompleteLeaseLost(t) \/ CompleteError(t)
      BY <2>2, SameRows DEF CompleteLeaseLost, CompleteError
    <2> QED
      BY <2>1, <2>2
  <1>5. CASE AfterItem(t)
    BY <1>1, <1>3, <1>4, <1>5, AfterItemStep
  <1>6. CASE GoTo(t, "failing") /\ UNCHANGED claim
    BY <1>1, <1>3, <1>4, <1>6, ToFailingStep
  <1> QED
    BY <1>5, <1>6 DEF Complete, CompleteLeaseLost, CompleteError

LEMMA FailIInv ==
  ASSUME IInv, NEW t \in Tick, Fail(t)
  PROVE  IInv'
  <1>1. tick[t].pc = "failing" /\ UNCHANGED <<tried, expiries>>
    BY DEF Fail
  <1>2. tick[t].cur \in Item
    BY <1>1, CurrentItem
  <1>3. faults' \in 0..MaxFaults
    BY FaultBound DEF Fail
  <1>4. RowsAdvance
    <2>1. CASE Owns(t, tick[t].cur) /\ UNCHANGED work
      BY <2>1, SameRows
    <2>2. CASE UNCHANGED work
      BY <2>2, SameRows
    <2>3. CASE /\ Owns(t, tick[t].cur)
               /\ work' = [work EXCEPT ![tick[t].cur] = FailedRow(work[tick[t].cur], tick[t].cur)]
      BY <1>2, <2>3, SettledRows
    <2> QED
      BY <2>1, <2>2, <2>3 DEF Fail
  <1>5. CASE AfterItem(t)
    BY <1>1, <1>3, <1>4, <1>5, AfterItemStep
  <1>6. CASE Abandon(t)
    BY <1>1, <1>3, <1>4, <1>6, AbandonStep
  <1> QED
    BY <1>5, <1>6 DEF Fail

LEMMA CrashIInv ==
  ASSUME IInv, NEW t \in Tick, Crash(t)
  PROVE  IInv'
  <1>1. RowsAdvance
    BY SameRows DEF Crash
  <1>2. faults' \in 0..MaxFaults
    BY FaultBound DEF Crash
  <1> QED
    BY <1>1, <1>2, AbandonStep DEF Crash

LEMMA NextIInv == IInv /\ [Next]_vars => IInv'
  <1> SUFFICES ASSUME IInv, [Next]_vars PROVE IInv'
    OBVIOUS
  <1>1. CASE UNCHANGED vars
    <2>1. RowsAdvance
      BY <1>1, SameRows DEF vars
    <2> QED
      BY <1>1, <2>1, RowStep, FaultBound DEF vars, IInv, TypeOK
  <1>2. CASE \E i \in Item : ItemNext(i)
    BY <1>2, ItemNextIInv
  <1>3. ASSUME NEW t \in Tick, TickNext(t) PROVE IInv'
    BY <1>3, LeaseIInv, LeaseReplyLostIInv, StartItemIInv, HeartbeatIInv,
       ExecuteEndsIInv, CompleteIInv, FailIInv, CrashIInv DEF TickNext
  <1> QED
    BY <1>1, <1>2, <1>3 DEF Next

-----------------------------------------------------------------------------
(* Theorems *)

\* IInv holds in every reachable state, for every constants.
THEOREM InductiveInvariant == Spec => []IInv
  BY InitIInv, NextIInv, PTL DEF Spec

\* Rows, ticks and claims keep their types.
THEOREM TypeCorrect == Spec => []TypeOK
  <1>1. IInv => TypeOK
    BY DEF IInv
  <1> QED
    BY <1>1, InductiveInvariant, PTL

\* No two ticks ever hold an item under the same attempt number.
THEOREM AttemptsIdentifyLeases == Spec => []ClaimsDistinct
  <1>1. IInv => ClaimsDistinct
    BY DEF IInv
  <1> QED
    BY <1>1, InductiveInvariant, PTL

\* A row without an attempt left is never queued.
THEOREM NoSpentItemQueued == Spec => []QueuedHasAttemptLeft
  <1>1. IInv => QueuedHasAttemptLeft
    BY DEF IInv
  <1> QED
    BY <1>1, InductiveInvariant, PTL

-----------------------------------------------------------------------------
(* What any step may do to one item *)

\* Claims on i survive or are dropped; none appears.
KeepsClaims(i) == \A u \in Tick : claim'[u][i] \in {claim[u][i], 0}

\* Nothing but the flags of the row changes, and of a settled row nothing.
Quiet(i) ==
  /\ KeepsClaims(i)
  /\ work'[i].status = work[i].status
  /\ work'[i].owner = work[i].owner
  /\ work'[i].attempts = work[i].attempts
  /\ work[i].status \in {"completed", "dead"} => work'[i] = work[i]

Enters(i) ==
  /\ KeepsClaims(i)
  /\ work[i].status = "absent"
  /\ work'[i].status = "queued"

\* Tick t settles or requeues i.
Releases(t, i) ==
  /\ KeepsClaims(i)
  /\ tick[t].cur = i /\ tick'[t] # tick[t]
  /\ Owns(t, i)
  /\ work'[i].status \in {"completed", "dead", "queued"}
  /\ work'[i].attempts = work[i].attempts
  /\ work'[i].status = "completed" => tick[t].pc = "completing"

Acquires(t, i) ==
  /\ Eligible(i)
  /\ work'[i].status = "leased"
  /\ work'[i].owner = WorkerOf[t]
  /\ work'[i].attempts = work[i].attempts + 1
  /\ claim'[t][i] \in {0, work[i].attempts + 1}
  /\ \A u \in Tick \ {t} : claim'[u][i] = claim[u][i]

StepShape(i) ==
  \/ Quiet(i)
  \/ Enters(i)
  \/ \E t \in Tick : Releases(t, i) \/ Acquires(t, i)

LEMMA QuietRow ==
  ASSUME NEW i \in Item, KeepsClaims(i), work'[i] = work[i]
  PROVE  StepShape(i)
  BY DEF StepShape, Quiet

LEMMA ClaimsDropped ==
  ASSUME IInv, NEW t \in Tick, AfterItem(t) \/ Abandon(t)
  PROVE  \A i \in Item : KeepsClaims(i)
  <1>1. claim \in [Tick -> [Item -> Nat]]
    BY DEF IInv, TypeOK
  <1>2. CASE AfterItem(t)
    <2>1. claim' = [claim EXCEPT ![t] = [claim[t] EXCEPT ![tick[t].cur] = 0]]
      BY <1>2 DEF AfterItem
    <2> QED
      BY <1>1, <2>1 DEF KeepsClaims
  <1>3. CASE Abandon(t)
    BY <1>1, <1>3 DEF Abandon, NoClaim, KeepsClaims
  <1> QED
    BY <1>2, <1>3

LEMMA LeaseShape ==
  ASSUME IInv, NEW t \in Tick, Lease(t) \/ LeaseReplyLost(t), NEW i \in Item
  PROVE  StepShape(i)
  <1>1. PICK batch \in SUBSET Item :
          /\ \A j \in batch : Eligible(j)
          /\ LeaseRows(t, batch)
          /\ ClaimRows(t, batch) \/ (UNCHANGED claim /\ tick[t].pc = "idle")
    BY DEF Lease, LeaseReplyLost, IsBatch
  <1>2. claim \in [Tick -> [Item -> Nat]] /\ work[i].attempts \in Nat
    BY DEF IInv, TypeOK, Row
  <1>3. \A u \in Tick : u # t => claim'[u][i] = claim[u][i]
    BY <1>1, <1>2 DEF ClaimRows
  <1>4. claim'[t][i] = IF i \in batch /\ ClaimRows(t, batch) THEN work[i].attempts + 1 ELSE 0
    <2>1. CASE ClaimRows(t, batch)
      BY <1>2, <2>1 DEF ClaimRows
    <2>2. CASE UNCHANGED claim /\ tick[t].pc = "idle"
      BY <1>2, <2>2 DEF IInv, TickControl, Claimed, ClaimRows
    <2> QED
      BY <1>1, <2>1, <2>2
  <1>5. CASE i \in batch
    <2>1. work'[i] = LeasedRow(work[i], WorkerOf[t])
      BY <1>1, <1>5 DEF LeaseRows
    <2>2. Acquires(t, i)
      BY <1>1, <1>3, <1>4, <1>5, <2>1 DEF LeasedRow, Acquires
    <2> QED
      BY <2>2 DEF StepShape
  <1>6. CASE i \notin batch
    <2>1. work'[i] = work[i] /\ KeepsClaims(i)
      BY <1>1, <1>3, <1>4, <1>6 DEF LeaseRows, KeepsClaims
    <2> QED
      BY <2>1, QuietRow
  <1> QED
    BY <1>5, <1>6

LEMMA SettleShape ==
  ASSUME IInv, NEW t \in Tick, NEW i \in Item, Complete(t) \/ Fail(t)
  PROVE  StepShape(i)
  <1>1. tick[t].pc \in {"completing", "failing"} /\ work \in [Item -> Row] /\ tick \in [Tick -> TickState]
    BY DEF Complete, Fail, IInv, TypeOK
  <1>2. tick[t].cur \in Item
    BY <1>1, CurrentItem
  <1>3. KeepsClaims(i)
    BY ClaimsDropped DEF Complete, Fail, KeepsClaims
  <1>4. tick'[t] # tick[t]
    BY <1>1 DEF Complete, Fail, AfterItem, Abandon, GoTo, Idle
  <1>5. CASE Complete(t) /\ i = tick[t].cur
    <2>1. work'[i] = CompletedRow(work[i]) /\ Owns(t, i)
      BY <1>1, <1>2, <1>5 DEF Complete
    <2>2. Releases(t, i)
      BY <1>3, <1>4, <1>5, <2>1 DEF Releases, CompletedRow, ReleasedRow, Complete
    <2> QED
      BY <2>2 DEF StepShape
  <1>6. CASE Fail(t) /\ i = tick[t].cur /\ Owns(t, i)
    <2>1. work'[i] = FailedRow(work[i], i)
      BY <1>1, <1>2, <1>6 DEF Fail
    <2>2. work'[i].status \in {"dead", "queued"} /\ work'[i].attempts = work[i].attempts
      BY <2>1 DEF FailedRow, ReleasedRow
    <2>3. Releases(t, i)
      BY <1>3, <1>4, <1>6, <2>2 DEF Releases
    <2> QED
      BY <2>3 DEF StepShape
  <1>7. CASE i # tick[t].cur \/ (Fail(t) /\ ~Owns(t, i))
    <2>1. work'[i] = work[i]
      BY <1>1, <1>2, <1>7 DEF Complete, Fail
    <2> QED
      BY <1>3, <2>1, QuietRow
  <1> QED
    BY <1>5, <1>6, <1>7

LEMMA FlagOnly ==
  ASSUME IInv, NEW i \in Item, NEW b \in BOOLEAN,
         work' = [work EXCEPT ![i].expired = b] \/ work' = [work EXCEPT ![i].available = b]
  PROVE  /\ work'[i].status = work[i].status
         /\ work'[i].owner = work[i].owner
         /\ work'[i].attempts = work[i].attempts
  <1>1. work \in [Item -> Row] /\ work[i] \in Row
    BY DEF IInv, TypeOK
  <1>2. CASE work' = [work EXCEPT ![i].expired = b]
    <2>1. work' = [work EXCEPT ![i] = [work[i] EXCEPT !.expired = b]]
      BY <1>2
    <2> QED
      BY <1>1, <2>1 DEF Row
  <1>3. CASE work' = [work EXCEPT ![i].available = b]
    <2>1. work' = [work EXCEPT ![i] = [work[i] EXCEPT !.available = b]]
      BY <1>3
    <2> QED
      BY <1>1, <2>1 DEF Row
  <1> QED
    BY <1>2, <1>3

LEMMA NextShape ==
  ASSUME IInv, [Next]_vars, NEW i \in Item
  PROVE  StepShape(i)
  <1> USE DEF IInv, TypeOK
  <1>1. CASE UNCHANGED vars
    BY <1>1, QuietRow DEF vars, KeepsClaims
  <1>2. ASSUME NEW j \in Item, ItemNext(j) PROVE StepShape(i)
    <2>1. UNCHANGED claim
      BY <1>2 DEF ItemNext, Enqueue, ExpireOrphan, ExpireHeld, BackoffElapses
    <2>2. KeepsClaims(i)
      BY <2>1 DEF KeepsClaims
    <2>3. CASE i # j
      <3>1. work'[i] = work[i]
        BY <1>2, <2>3 DEF ItemNext, Enqueue, ExpireOrphan, ExpireHeld, BackoffElapses, ExpireLease
      <3> QED
        BY <2>2, <3>1, QuietRow
    <2>4. CASE i = j /\ Enqueue(i)
      <3>1. work'[i] = EnqueueRow(i)
        BY <2>4 DEF Enqueue
      <3>2. CASE work[i].status = "absent"
        BY <2>2, <3>1, <3>2 DEF EnqueueRow, QueuedRow, Enters, StepShape
      <3>3. CASE work[i].status # "absent"
        BY <2>2, <3>1, <3>3, QuietRow DEF EnqueueRow
      <3> QED
        BY <3>2, <3>3
    <2>5. CASE i = j /\ ~Enqueue(i)
      <3>1. /\ work'[i].status = work[i].status /\ work'[i].owner = work[i].owner
            /\ work'[i].attempts = work[i].attempts
            /\ work[i].status \in {"leased", "queued"}
        <4>1. work[i] \in Row
          OBVIOUS
        <4>2. CASE work' = [work EXCEPT ![i].expired = TRUE] /\ work[i].status = "leased"
          BY <4>1, <4>2, FlagOnly
        <4>3. CASE work' = [work EXCEPT ![i].available = TRUE] /\ work[i].status = "queued"
          BY <4>1, <4>3, FlagOnly
        <4> QED
          BY <1>2, <2>5, <4>2, <4>3
          DEF ItemNext, ExpireOrphan, ExpireHeld, ExpireLease, BackoffElapses
      <3> QED
        BY <2>2, <3>1 DEF Quiet, StepShape
    <2> QED
      BY <2>3, <2>4, <2>5
  <1>3. ASSUME NEW t \in Tick, TickNext(t) PROVE StepShape(i)
    <2>1. CASE Lease(t) \/ LeaseReplyLost(t)
      BY <2>1, LeaseShape
    <2>2. CASE Complete(t) \/ Fail(t)
      BY <2>2, SettleShape
    <2>3. CASE Heartbeat(t)
      <3>1. tick[t].cur \in Item /\ work[tick[t].cur].status = "leased"
        BY <2>3 DEF Heartbeat, Owns, TickState
      <3>2. KeepsClaims(i)
        BY <2>3 DEF Heartbeat, KeepsClaims
      <3>3. CASE i # tick[t].cur
        <4>1. work'[i] = work[i]
          BY <2>3, <3>3 DEF Heartbeat
        <4> QED
          BY <3>2, <4>1, QuietRow
      <3>4. CASE i = tick[t].cur
        <4>1. work' = [work EXCEPT ![i].expired = FALSE]
          BY <2>3, <3>4 DEF Heartbeat
        <4>2. /\ work'[i].status = work[i].status /\ work'[i].owner = work[i].owner
              /\ work'[i].attempts = work[i].attempts
          BY <4>1, FlagOnly
        <4> QED
          BY <3>1, <3>2, <3>4, <4>2 DEF Quiet, StepShape
      <3> QED
        BY <3>3, <3>4
    <2>4. CASE \/ \E j \in Item : StartItem(t, j)
               \/ \E outcome \in {"ok", "error"} : ExecuteEnds(t, outcome)
               \/ CompleteLeaseLost(t) \/ CompleteError(t)
      BY <2>4, QuietRow DEF StartItem, ExecuteEnds, CompleteLeaseLost, CompleteError, KeepsClaims
    <2>5. CASE Crash(t)
      BY <2>5, QuietRow, ClaimsDropped DEF Crash
    <2> QED
      BY <1>3, <2>1, <2>2, <2>3, <2>4, <2>5 DEF TickNext
  <1> QED
    BY <1>1, <1>2, <1>3 DEF Next

\* No step changes the row of a settled item.
THEOREM SettledStaysSettled == Spec => SettledIsFinal
  <1> DEFINE Final == \A i \in Item : work[i].status \in {"completed", "dead"} => work'[i] = work[i]
  <1>1. IInv /\ [Next]_vars => [Final]_vars
    <2> SUFFICES ASSUME IInv, [Next]_vars, NEW i \in Item, work[i].status \in {"completed", "dead"}
                 PROVE  work'[i] = work[i]
      OBVIOUS
    <2>1. StepShape(i)
      BY NextShape
    <2> QED
      BY <2>1 DEF StepShape, Quiet, Enters, Releases, Acquires, Owns, Eligible
  <1> QED
    BY <1>1, InductiveInvariant, PTL DEF Spec, SettledIsFinal

-----------------------------------------------------------------------------
(* Who owns a lease *)

LEMMA HolderOwnsStep ==
  ASSUME IInv, HolderOwns, [Next]_vars
  PROVE  HolderOwns'
  <1> SUFFICES ASSUME NEW t \in Tick, NEW i \in Item, claim'[t][i] # 0,
                      claim'[t][i] = work'[i].attempts, work'[i].status = "leased"
               PROVE  work'[i].owner = WorkerOf[t]
    BY DEF HolderOwns
  <1>1. StepShape(i)
    BY NextShape
  <1>2. CASE Quiet(i)
    BY <1>2 DEF Quiet, KeepsClaims, HolderOwns
  <1>3. CASE Enters(i) \/ \E u \in Tick : Releases(u, i)
    BY <1>3 DEF Enters, Releases
  <1>4. ASSUME NEW u \in Tick, Acquires(u, i)
        PROVE  work'[i].owner = WorkerOf[t]
    <2>1. CASE u = t
      BY <1>4, <2>1 DEF Acquires
    <2>2. CASE u # t
      <3>1. claim[t][i] <= work[i].attempts /\ claim'[t][i] = claim[t][i]
        BY <1>4, <2>2 DEF Acquires, IInv, ClaimsBounded
      <3>2. work[i].attempts \in Nat /\ claim[t][i] \in Nat
        BY DEF IInv, TypeOK, Row
      <3> QED
        BY <1>4, <3>1, <3>2 DEF Acquires
    <2> QED
      BY <2>1, <2>2
  <1> QED
    BY <1>1, <1>2, <1>3, <1>4 DEF StepShape

\* The holder of the current attempt owns its row, whichever ticks share its
\* worker id.
THEOREM HolderOwnsItsLease == Spec => []HolderOwns
  <1>1. Init => HolderOwns
    BY DEF Init, NoRow, HolderOwns
  <1>2. IInv /\ HolderOwns /\ [Next]_vars => HolderOwns'
    BY HolderOwnsStep
  <1> QED
    BY <1>1, <1>2, InductiveInvariant, PTL DEF Spec

\* Nobody of another worker id disturbs an unexpired lease.
THEOREM LeaseProtects == Spec => LiveLeaseUndisturbed
  <1> DEFINE Undisturbed ==
        \A t \in Tick, i \in Item :
          HoldsLiveLease(t, i) /\ (\A u \in Tick : WorkerOf[u] = WorkerOf[t] => tick'[u] = tick[u]) =>
            /\ work'[i].status = "leased"
            /\ work'[i].attempts = work[i].attempts
  <1>1. IInv /\ HolderOwns /\ [Next]_vars => [Undisturbed]_vars
    <2> SUFFICES ASSUME IInv, HolderOwns, [Next]_vars, NEW t \in Tick, NEW i \in Item, HoldsLiveLease(t, i),
                        \A u \in Tick : WorkerOf[u] = WorkerOf[t] => tick'[u] = tick[u]
                 PROVE  Quiet(i)
      BY DEF Quiet, HoldsLiveLease
    <2>1. StepShape(i)
      BY NextShape
    <2>2. ASSUME NEW u \in Tick, Releases(u, i) PROVE FALSE
      BY <2>2 DEF HoldsLiveLease, HolderOwns, Releases, Owns
    <2>3. ASSUME NEW u \in Tick, Acquires(u, i) PROVE FALSE
      BY <2>3 DEF Acquires, Eligible, HoldsLiveLease
    <2> QED
      BY <2>1, <2>2, <2>3 DEF StepShape, Enters, HoldsLiveLease
  <1> QED
    BY <1>1, InductiveInvariant, HolderOwnsItsLease, PTL DEF Spec, LiveLeaseUndisturbed

\* A leased item is completed, buried or requeued only by a tick that is at it
\* and has the worker id of the latest lease.
THEOREM ReleaseNeedsSameWorker == Spec => ReleasedBySameWorker
  <1> DEFINE BySameWorker ==
        \A i \in Item : work[i].status = "leased" /\ work'[i].status # "leased" =>
          \E u \in Tick :
            /\ tick[u].cur = i /\ tick'[u] # tick[u]
            /\ work'[i].status = "completed" => tick[u].pc = "completing"
            /\ WorkerOf[u] = work[i].owner
            /\ \A t \in Tick : claim[t][i] # 0 /\ claim[t][i] = work[i].attempts => WorkerOf[u] = WorkerOf[t]
  <1>1. IInv /\ HolderOwns /\ [Next]_vars => [BySameWorker]_vars
    <2> SUFFICES ASSUME IInv, HolderOwns, [Next]_vars, NEW i \in Item,
                        work[i].status = "leased", work'[i].status # "leased"
                 PROVE  \E u \in Tick :
                          /\ tick[u].cur = i /\ tick'[u] # tick[u]
                          /\ work'[i].status = "completed" => tick[u].pc = "completing"
                          /\ WorkerOf[u] = work[i].owner
                          /\ \A t \in Tick :
                               claim[t][i] # 0 /\ claim[t][i] = work[i].attempts => WorkerOf[u] = WorkerOf[t]
      OBVIOUS
    <2>1. PICK u \in Tick : Releases(u, i)
      BY NextShape DEF StepShape, Quiet, Enters, Acquires
    <2>2. /\ tick[u].cur = i /\ tick'[u] # tick[u]
          /\ work'[i].status = "completed" => tick[u].pc = "completing"
          /\ WorkerOf[u] = work[i].owner
      BY <2>1 DEF Releases, Owns
    <2> QED
      BY <2>2 DEF HolderOwns
  <1> QED
    BY <1>1, InductiveInvariant, HolderOwnsItsLease, PTL DEF Spec, ReleasedBySameWorker

-----------------------------------------------------------------------------
(* Attempts and what they are owed to *)

\* A leased row that can be, or will be, taken over.
Loose(i) == work[i].status = "leased" /\ (work[i].expired \/ ~HeldByTick(i))

\* A row that can be taken over has not used up what faults and expiries owe it.
Budget ==
  \A i \in Item :
    /\ work[i].attempts <= MaxAttempts[i] + faults + expiries
    /\ Loose(i) => work[i].attempts < MaxAttempts[i] + faults + expiries

\* Faults and expiries are never taken back.
LEMMA CountersGrow ==
  ASSUME IInv, [Next]_vars
  PROVE  faults' \in {faults, faults + 1} /\ expiries' \in {expiries, expiries + 1}
  <1>1. CASE UNCHANGED vars
    BY <1>1 DEF vars
  <1>2. CASE \E i \in Item : ItemNext(i)
    BY <1>2 DEF ItemNext, Enqueue, ExpireOrphan, ExpireHeld, BackoffElapses
  <1>3. ASSUME NEW t \in Tick, TickNext(t)
        PROVE  faults' \in {faults, faults + 1} /\ expiries' = expiries
    BY <1>3 DEF TickNext, Lease, LeaseReplyLost, StartItem, Heartbeat, ExecuteEnds, Complete,
       CompleteLeaseLost, CompleteError, Fail, Crash, Fault
  <1> QED
    BY <1>1, <1>2, <1>3 DEF Next

\* What a step without a fault or an expiry does to i: if the row can be
\* taken over afterwards it could be before, under the same attempt.
NotLoosened(i) == Loose(i)' => Loose(i) /\ work'[i].attempts = work[i].attempts

LEMMA SameRowNotLoosened ==
  ASSUME NEW i \in Item, work'[i] = work[i], \A t \in Tick : claim'[t][i] = claim[t][i]
  PROVE  NotLoosened(i)
  BY DEF NotLoosened, Loose, HeldByTick

LEMMA ItemNextLoosens ==
  ASSUME IInv, NEW j \in Item, ItemNext(j), NEW i \in Item
  PROVE  NotLoosened(i) \/ expiries' = expiries + 1
  <1> USE DEF IInv, TypeOK
  <1>1. UNCHANGED claim
    BY DEF ItemNext, Enqueue, ExpireOrphan, ExpireHeld, BackoffElapses
  <1>2. CASE work'[i] = work[i]
    BY <1>1, <1>2, SameRowNotLoosened
  <1>3. CASE i # j
    <2>1. work'[i] = work[i]
      BY <1>3 DEF ItemNext, Enqueue, ExpireOrphan, ExpireHeld, BackoffElapses, ExpireLease
    <2> QED
      BY <1>2, <2>1
  <1>4. CASE i = j /\ Enqueue(j)
    <2>1. work'[i] = EnqueueRow(i)
      BY <1>4 DEF Enqueue
    <2>2. CASE work[i].status = "absent"
      BY <2>1, <2>2 DEF EnqueueRow, QueuedRow, NotLoosened, Loose
    <2>3. CASE work[i].status # "absent"
      BY <1>2, <2>1, <2>3 DEF EnqueueRow
    <2> QED
      BY <2>2, <2>3
  <1>5. CASE i = j /\ ExpireOrphan(j)
    <2>1. work[i].status = "leased" /\ ~HeldByTick(i)
      BY <1>5 DEF ExpireOrphan, ExpireLease
    <2>2. work'[i].attempts = work[i].attempts
      BY <1>5, FlagOnly DEF ExpireOrphan, ExpireLease
    <2> QED
      BY <2>1, <2>2 DEF NotLoosened, Loose
  <1>6. CASE i = j /\ BackoffElapses(j)
    <2>1. work'[i].status = "queued"
      BY <1>6, FlagOnly DEF BackoffElapses
    <2> QED
      BY <2>1 DEF NotLoosened, Loose
  <1> QED
    BY <1>3, <1>4, <1>5, <1>6 DEF ItemNext, ExpireHeld

LEMMA LeaseLoosens ==
  ASSUME IInv, NEW t \in Tick, Lease(t), NEW i \in Item
  PROVE  NotLoosened(i)
  <1> USE DEF IInv, TypeOK
  <1>1. PICK batch \in SUBSET Item : LeaseRows(t, batch) /\ ClaimRows(t, batch)
    BY DEF Lease
  <1>2. claim' = [claim EXCEPT ![t] = [j \in Item |-> IF j \in batch THEN work[j].attempts + 1 ELSE 0]]
    BY <1>1 DEF ClaimRows
  <1>3. CASE i \in batch
    <2>1. work'[i] = LeasedRow(work[i], WorkerOf[t])
      BY <1>1, <1>3 DEF LeaseRows
    <2>2. ~work'[i].expired /\ work'[i].attempts = work[i].attempts + 1
      BY <2>1 DEF LeasedRow
    <2>3. claim'[t][i] = work'[i].attempts /\ claim'[t][i] # 0
      BY <1>2, <1>3, <2>2 DEF Row
    <2> QED
      BY <2>2, <2>3 DEF NotLoosened, Loose, HeldByTick
  <1>4. CASE i \notin batch
    <2>1. claim[t][i] = 0
      BY DEF Lease, TickControl, Claimed
    <2>2. work'[i] = work[i] /\ \A u \in Tick : claim'[u][i] = claim[u][i]
      BY <1>1, <1>2, <1>4, <2>1 DEF LeaseRows
    <2> QED
      BY <2>2, SameRowNotLoosened
  <1> QED
    BY <1>3, <1>4

LEMMA AfterItemLoosens ==
  ASSUME IInv, HolderOwns, NEW t \in Tick, Complete(t) \/ Fail(t), AfterItem(t), NEW i \in Item
  PROVE  NotLoosened(i)
  <1> USE DEF IInv, TypeOK
  <1>1. claim' = [claim EXCEPT ![t] = [claim[t] EXCEPT ![tick[t].cur] = 0]]
    BY DEF AfterItem
  <1>2. tick[t].cur \in Item
    BY CurrentItem DEF Complete, Fail
  <1>3. CASE i # tick[t].cur
    <2>1. work'[i] = work[i]
      BY <1>3 DEF Complete, Fail
    <2>2. \A u \in Tick : claim'[u][i] = claim[u][i]
      BY <1>1, <1>3
    <2> QED
      BY <2>1, <2>2, SameRowNotLoosened
  <1>4. CASE i = tick[t].cur /\ Owns(t, i)
    <2>1. work'[i] = CompletedRow(work[i]) \/ work'[i] = FailedRow(work[i], i)
      BY <1>2, <1>4 DEF Complete, Fail
    <2>2. work'[i].status # "leased"
      BY <2>1 DEF CompletedRow, FailedRow, ReleasedRow
    <2> QED
      BY <2>2 DEF NotLoosened, Loose
  <1>5. CASE i = tick[t].cur /\ ~Owns(t, i)
    <2>1. work'[i] = work[i]
      BY <1>5 DEF Complete, Fail
    <2>2. \A u \in Tick : u # t => claim'[u][i] = claim[u][i]
      BY <1>1
    <2>3. work[i].status = "leased" => ~(claim[t][i] # 0 /\ claim[t][i] = work[i].attempts)
      BY <1>5 DEF HolderOwns, Owns
    <2> QED
      BY <2>1, <2>2, <2>3 DEF NotLoosened, Loose, HeldByTick
  <1> QED
    BY <1>3, <1>4, <1>5

\* A row becomes takeable only by a fault or an expiry.
LEMMA LooseningCosts ==
  ASSUME IInv, HolderOwns, [Next]_vars, NEW i \in Item
  PROVE  NotLoosened(i) \/ faults' = faults + 1 \/ expiries' = expiries + 1
  <1>1. CASE UNCHANGED vars
    BY <1>1, SameRowNotLoosened DEF vars
  <1>2. ASSUME NEW t \in Tick, TickNext(t)
        PROVE  NotLoosened(i) \/ faults' = faults + 1
    <2>1. CASE Lease(t)
      BY <2>1, LeaseLoosens
    <2>2. CASE LeaseReplyLost(t) \/ CompleteError(t) \/ Crash(t)
      BY <2>2 DEF LeaseReplyLost, CompleteError, Crash, Fault
    <2>3. CASE \/ \E j \in Item : StartItem(t, j)
               \/ \E outcome \in {"ok", "error"} : ExecuteEnds(t, outcome)
               \/ CompleteLeaseLost(t)
      BY <2>3, SameRowNotLoosened DEF StartItem, ExecuteEnds, CompleteLeaseLost
    <2>4. CASE Complete(t) \/ Fail(t)
      <3>1. AfterItem(t) \/ faults' = faults + 1
        BY <2>4 DEF Complete, Fail, Fault
      <3> QED
        BY <2>4, <3>1, AfterItemLoosens
    <2>5. CASE Heartbeat(t)
      <3>1. tick[t].cur \in Item /\ UNCHANGED claim /\ work' = [work EXCEPT ![tick[t].cur].expired = FALSE]
        BY <2>5 DEF Heartbeat, IInv, TypeOK, TickState
      <3>2. CASE i # tick[t].cur
        <4>1. work'[i] = work[i]
          BY <3>1, <3>2 DEF IInv, TypeOK
        <4> QED
          BY <3>1, <4>1, SameRowNotLoosened
      <3>3. CASE i = tick[t].cur
        <4>1. work'[i].status = work[i].status /\ work'[i].attempts = work[i].attempts
          BY <3>1, <3>3, FlagOnly
        <4>2. ~work'[i].expired
          BY <3>1, <3>3 DEF IInv, TypeOK, Row
        <4> QED
          BY <3>1, <4>1, <4>2 DEF NotLoosened, Loose, HeldByTick
      <3> QED
        BY <3>2, <3>3
    <2> QED
      BY <1>2, <2>1, <2>2, <2>3, <2>4, <2>5 DEF TickNext
  <1> QED
    BY <1>1, <1>2, ItemNextLoosens DEF Next

LEMMA BudgetStep ==
  ASSUME IInv, HolderOwns, Budget, [Next]_vars
  PROVE  Budget'
  <1> SUFFICES ASSUME NEW i \in Item
               PROVE  /\ work'[i].attempts <= MaxAttempts[i] + faults' + expiries'
                      /\ Loose(i)' => work'[i].attempts < MaxAttempts[i] + faults' + expiries'
    BY DEF Budget
  <1> DEFINE owed == MaxAttempts[i] + faults + expiries
             owedNext == MaxAttempts[i] + faults' + expiries'
             now == work[i].attempts
             next == work'[i].attempts
  <1>1. /\ now \in Nat /\ next \in Nat /\ MaxAttempts[i] \in Nat
        /\ faults \in Nat /\ expiries \in Nat /\ faults' \in Nat /\ expiries' \in Nat
    <2>1. IInv'
      BY NextIInv
    <2> QED
      BY <2>1, AttemptLimit DEF IInv, TypeOK, Row
  <1>2. owed \in Nat /\ owedNext \in Nat
    BY <1>1
  <1>3. owedNext >= owed
    BY <1>1, CountersGrow
  <1>4. ASSUME ~NotLoosened(i) PROVE owedNext > owed
    <2>1. faults' = faults + 1 \/ expiries' = expiries + 1
      BY <1>4, LooseningCosts
    <2> QED
      BY <1>1, <2>1, CountersGrow
  <1>5. now <= owed
    BY DEF Budget
  <1>6. ASSUME Loose(i) PROVE now < owed
    BY <1>6 DEF Budget
  <1> SUFFICES next <= owedNext /\ (Loose(i)' => next < owedNext)
    OBVIOUS
  <1> HIDE DEF owed, owedNext, now, next
  <1>7. CASE next = now
    <2>1. next <= owedNext
      BY <1>1, <1>2, <1>3, <1>5, <1>7
    <2>2. ASSUME Loose(i)' PROVE next < owedNext
      <3>1. CASE Loose(i)
        <4>1. now < owed
          BY <1>6, <3>1
        <4> QED
          BY <1>1, <1>2, <1>3, <1>7, <4>1
      <3>2. CASE ~Loose(i)
        <4>1. ~NotLoosened(i)
          BY <2>2, <3>2 DEF NotLoosened
        <4>2. owedNext > owed
          BY <1>4, <4>1
        <4> QED
          BY <1>1, <1>2, <1>5, <1>7, <4>2
      <3> QED
        BY <3>1, <3>2
    <2> QED
      BY <2>1, <2>2
  <1>8. CASE Enters(i)
    <2>1. next < MaxAttempts[i]
      BY <1>8, NextIInv DEF Enters, IInv, QueuedHasAttemptLeft, next
    <2>2. next < owedNext
      BY <1>1, <2>1 DEF owedNext
    <2> QED
      BY <1>1, <1>2, <2>2
  <1>9. ASSUME NEW t \in Tick, Acquires(t, i)
        PROVE  next <= owedNext /\ (Loose(i)' => next < owedNext)
    <2>1. next = now + 1
      BY <1>9 DEF Acquires, now, next
    <2>2. now < owed
      <3>1. CASE work[i].status = "queued"
        <4>1. now < MaxAttempts[i]
          BY <3>1 DEF IInv, QueuedHasAttemptLeft, now
        <4> QED
          BY <1>1, <4>1 DEF owed
      <3>2. CASE work[i].status = "leased" /\ work[i].expired
        <4>1. Loose(i)
          BY <3>2 DEF Loose
        <4> QED
          BY <1>6, <4>1
      <3> QED
        BY <1>9, <3>1, <3>2 DEF Acquires, Eligible
    <2>3. ASSUME Loose(i)' PROVE next < owedNext
      <3>1. next # now
        BY <1>1, <2>1
      <3>2. ~NotLoosened(i)
        BY <2>3, <3>1 DEF NotLoosened, now, next
      <3>3. owedNext > owed
        BY <1>4, <3>2
      <3> QED
        BY <1>1, <1>2, <2>1, <2>2, <3>3
    <2>4. next <= owedNext
      BY <1>1, <1>2, <1>3, <2>1, <2>2
    <2> QED
      BY <2>3, <2>4
  <1>10. next = now \/ Enters(i) \/ \E t \in Tick : Acquires(t, i)
    BY NextShape DEF StepShape, Quiet, Releases, now, next
  <1> QED
    BY <1>7, <1>8, <1>9, <1>10

\* However often leases run out, replies are lost and workers die, a row goes
\* beyond its max_attempts by no more than that.
THEOREM AttemptsStayWithinBudget == Spec => []AttemptsWithinBudget
  <1>1. Init => HolderOwns /\ Budget
    <2> SUFFICES ASSUME Init PROVE HolderOwns /\ Budget
      OBVIOUS
    <2>1. \A i \in Item : MaxAttempts[i] \in Nat
      BY AttemptLimit
    <2> QED
      BY <2>1 DEF Init, NoRow, HolderOwns, Budget, Loose
  <1>2. IInv /\ HolderOwns /\ Budget /\ [Next]_vars => HolderOwns' /\ Budget'
    BY HolderOwnsStep, BudgetStep
  <1>3. Budget => AttemptsWithinBudget
    BY DEF Budget, AttemptsWithinBudget
  <1> QED
    BY <1>1, <1>2, <1>3, InductiveInvariant, PTL DEF Spec

-----------------------------------------------------------------------------
(* Something always goes on *)

\* A tick that is under way can go on: on to a leased item, or on with the
\* current one, which needs no other tick.
CanGoOn(t) ==
  \/ tick[t].pc = "next" /\ Claimed(t) # {}
  \/ tick[t].pc \in {"executing", "completing", "failing"}

\* An idle tick finds a batch to lease, when no row is locked.
CanLease(t) ==
  /\ tick[t].pc = "idle"
  /\ \E batch \in (SUBSET Item) \ {{}} : IsBatch(batch, {i \in Item : Eligible(i)})

\* Time will do something for the row: its backoff or its orphaned lease ends.
WaitsForTime(i) ==
  \/ work[i].status = "queued" /\ ~work[i].available
  \/ work[i].status = "leased" /\ ~work[i].expired /\ ~HeldByTick(i)

\* No item gets stuck, whatever leases are orphaned, expire or are taken over:
\* while one is queued or leased, its waiting time runs, or some tick can go on
\* or lease a batch (leaseWorkflowItems, processWorkflowTick).
NoItemStuck ==
  \A i \in Item : work[i].status \in {"queued", "leased"} =>
    WaitsForTime(i) \/ \E t \in Tick : CanGoOn(t) \/ CanLease(t)

\* A row is leased only while it is available, a tick between two items has
\* one to go on with, and finitely many items have a row.
ProgressInv ==
  /\ \A i \in Item : work[i].status = "leased" => work[i].available
  /\ \A t \in Tick : tick[t].pc = "next" => Claimed(t) # {}
  /\ IsFiniteSet({i \in Item : work[i].status # "absent"})

\* The items of the highest priorities of a finite set, as many as wanted.
TopOf(candidates, n) ==
  {batch \in SUBSET candidates :
     /\ Cardinality(batch) = n
     /\ \A i \in batch, j \in candidates \ batch : Priority[i] >= Priority[j]}

LEMMA Highest ==
  ASSUME NEW rest \in SUBSET Item, rest # {}
  PROVE  \E j \in rest : \A k \in rest : Priority[j] >= Priority[k]
  <1>1. 1000 \in Nat
    OBVIOUS
  <1>2. \A k \in rest : Priority[k] \in 0..1000
    BY Zenon
  <1> HIDE WorkQueueAssumption
  <1> QED
    BY <1>1, <1>2, Peak, Zenon

LEMMA OneMore ==
  ASSUME NEW candidates \in SUBSET Item, IsFiniteSet(candidates), NEW n \in Nat, n < Cardinality(candidates),
         TopOf(candidates, n) # {}
  PROVE  TopOf(candidates, n + 1) # {}
  <1>1. PICK batch \in TopOf(candidates, n) : TRUE
    OBVIOUS
  <1> DEFINE rest == candidates \ batch
  <1>2. /\ batch \subseteq candidates /\ Cardinality(batch) = n /\ IsFiniteSet(batch)
        /\ \A i \in batch, j \in rest : Priority[i] >= Priority[j]
    BY <1>1, FS_Subset DEF TopOf
  <1>3. rest # {}
    BY <1>2
  <1>6. PICK j \in rest : \A k \in rest : Priority[j] >= Priority[k]
    BY <1>3, Highest
  <1> DEFINE more == batch \cup {j}
  <1>7. more \in SUBSET candidates /\ Cardinality(more) = n + 1
    <2>1. j \notin batch /\ j \in candidates
      BY <1>6
    <2>2. Cardinality(batch \cup {j}) = Cardinality(batch) + 1
      BY <1>2, <2>1, FS_AddElement
    <2> QED
      BY <1>2, <2>1, <2>2
  <1>8. ASSUME NEW i \in more, NEW k \in candidates \ more
        PROVE  Priority[i] >= Priority[k]
    <2>1. k \in rest
      OBVIOUS
    <2>2. CASE i \in batch
      BY <1>2, <2>1, <2>2
    <2>3. CASE i = j
      BY <1>6, <2>1, <2>3
    <2> QED
      BY <2>2, <2>3
  <1> QED
    BY <1>7, <1>8 DEF TopOf

\* There is a batch whenever there is a candidate.
LEMMA BatchExists ==
  ASSUME NEW candidates \in SUBSET Item, IsFiniteSet(candidates), candidates # {}
  PROVE  \E batch \in (SUBSET Item) \ {{}} : IsBatch(batch, candidates)
  <1> DEFINE size == Cardinality(candidates)
             wanted == IF size <= MaxItems THEN size ELSE MaxItems
             Missing == {n \in 0..wanted : TopOf(candidates, n) = {}}
  <1>1. size \in Nat /\ size # 0 /\ MaxItems \in Nat /\ MaxItems >= 1
    BY FS_CardinalityType, FS_EmptySet
  <1>2. wanted \in Nat /\ wanted >= 1 /\ wanted <= size /\ wanted <= MaxItems
        /\ (wanted = size \/ wanted = MaxItems)
    BY <1>1
  <1>3. Missing = {}
    <2> SUFFICES ASSUME Missing # {} PROVE FALSE
      OBVIOUS
    <2>1. Missing \in SUBSET Nat
      BY <1>2
    <2>2. PICK n \in Missing : \A k \in Missing : n <= k
      BY <2>1, Smallest
    <2>3. n # 0
      <3>1. {} \in TopOf(candidates, 0)
        BY FS_EmptySet DEF TopOf
      <3> QED
        BY <2>2, <3>1
    <2> HIDE DEF wanted, size
    <2>4. n - 1 \in Nat /\ n - 1 < size /\ n - 1 \in 0..wanted /\ (n - 1) + 1 = n
      BY <1>1, <1>2, <2>2, <2>3
    <2>5. TopOf(candidates, n - 1) # {}
      BY <2>2, <2>4
    <2>6. TopOf(candidates, (n - 1) + 1) # {}
      BY <2>4, <2>5, OneMore DEF size
    <2> QED
      BY <2>2, <2>4, <2>6
  <1>4. PICK batch \in TopOf(candidates, wanted) : TRUE
    BY <1>2, <1>3
  <1>5. /\ batch \subseteq candidates /\ Cardinality(batch) = wanted /\ IsFiniteSet(batch)
        /\ \A i \in batch, j \in candidates \ batch : Priority[i] >= Priority[j]
    BY <1>4, FS_Subset DEF TopOf
  <1>6. batch # {}
    BY <1>2, <1>5, FS_EmptySet
  <1>7. wanted = size => batch = candidates
    BY <1>5, FS_Subset
  <1> HIDE DEF wanted, size
  <1>8. IsBatch(batch, candidates)
    BY <1>1, <1>2, <1>5, <1>7 DEF IsBatch
  <1>9. batch \in (SUBSET Item) \ {{}}
    BY <1>5, <1>6
  <1> QED
    BY <1>8, <1>9

\* Rows keep what progress needs.
RowsProgress ==
  /\ \A i \in Item : work'[i].status = "leased" => work'[i].available
  /\ IsFiniteSet({i \in Item : work'[i].status # "absent"})

\* At most one row is added, and a row that is leased is available.
LEMMA ProgressOfRows ==
  ASSUME IInv, ProgressInv, NEW j \in Item,
         \A i \in Item : i # j /\ work'[i].status # "absent" => work[i].status # "absent",
         \A i \in Item : work'[i].status = "leased" => work'[i].available
  PROVE  RowsProgress
  <1> DEFINE old == {i \in Item : work[i].status # "absent"}
             new == {i \in Item : work'[i].status # "absent"}
  <1>1. IsFiniteSet(old \cup {j})
    BY FS_AddElement DEF ProgressInv
  <1>2. new \subseteq old \cup {j}
    OBVIOUS
  <1>3. IsFiniteSet(new)
    BY <1>1, <1>2, FS_Subset
  <1> QED
    BY <1>3 DEF RowsProgress

LEMMA SameRowsProgress == ProgressInv /\ UNCHANGED work => RowsProgress
  BY DEF ProgressInv, RowsProgress

\* One row changes, and stays or becomes available.
LEMMA OneRowProgress ==
  ASSUME IInv, ProgressInv, NEW i \in Item, NEW row, work' = [work EXCEPT ![i] = row],
         row.status = "leased" => row.available
  PROVE  RowsProgress
  <1>1. work \in [Item -> Row]
    BY DEF IInv, TypeOK
  <1>2. work'[i] = row /\ \A j \in Item : j # i => work'[j] = work[j]
    BY <1>1
  <1>3. \A j \in Item : work'[j].status = "leased" => work'[j].available
    BY <1>2 DEF ProgressInv
  <1> QED
    BY <1>2, <1>3, ProgressOfRows

LEMMA LeaseRowsProgress ==
  ASSUME IInv, ProgressInv, NEW t \in Tick, NEW batch \in SUBSET Item, LeaseRows(t, batch),
         \A i \in batch : Eligible(i)
  PROVE  RowsProgress
  <1>1. work \in [Item -> Row]
    BY DEF IInv, TypeOK
  <1>2. \A i \in Item : work'[i] = IF i \in batch THEN LeasedRow(work[i], WorkerOf[t]) ELSE work[i]
    BY DEF LeaseRows
  <1>3. ASSUME NEW i \in batch
        PROVE  work[i].status # "absent" /\ work'[i].status = "leased" /\ work'[i].available
    <2>1. work[i].status \in {"queued", "leased"} /\ work[i].available
      BY DEF Eligible
    <2>2. work'[i] = LeasedRow(work[i], WorkerOf[t])
      BY <1>2
    <2> QED
      BY <2>1, <2>2 DEF LeasedRow
  <1>4. \A i \in Item : work'[i].status # "absent" => work[i].status # "absent"
    BY <1>2, <1>3
  <1>5. \A i \in Item : work'[i].status = "leased" => work'[i].available
    BY <1>2, <1>3 DEF ProgressInv
  <1>6. CASE Item = {}
    BY <1>6, FS_EmptySet DEF RowsProgress
  <1>7. CASE Item # {}
    BY <1>4, <1>5, <1>7, ProgressOfRows
  <1> QED
    BY <1>6, <1>7

\* The rows an action leaves behind.
LEMMA NextRowsProgress ==
  ASSUME IInv, ProgressInv, [Next]_vars
  PROVE  RowsProgress
  <1>1. work \in [Item -> Row]
    BY DEF IInv, TypeOK
  <1>2. ASSUME NEW i \in Item, ItemNext(i) PROVE RowsProgress
    <2>1. CASE Enqueue(i)
      <3>1. EnqueueRow(i).status = "leased" => EnqueueRow(i).available
        BY DEF EnqueueRow, QueuedRow, ProgressInv
      <3> QED
        BY <2>1, <3>1, OneRowProgress DEF Enqueue
    <2>2. CASE ExpireOrphan(i) \/ ExpireHeld(i) \/ BackoffElapses(i)
      <3>1. \E row : /\ work' = [work EXCEPT ![i] = row]
                     /\ row.status = "leased" => row.available
        <4>1. CASE ExpireOrphan(i) \/ ExpireHeld(i)
          <5> DEFINE row == [work[i] EXCEPT !.expired = TRUE]
          <5>1. work' = [work EXCEPT ![i] = row]
            BY <4>1 DEF ExpireOrphan, ExpireHeld, ExpireLease
          <5>2. row.status = work[i].status /\ row.available = work[i].available
            BY <1>1 DEF Row
          <5> HIDE DEF row
          <5> QED
            BY <5>1, <5>2 DEF ProgressInv
        <4>2. CASE BackoffElapses(i)
          <5> DEFINE row == [work[i] EXCEPT !.available = TRUE]
          <5>1. work' = [work EXCEPT ![i] = row]
            BY <4>2 DEF BackoffElapses
          <5>2. row.available
            BY <1>1 DEF Row
          <5> HIDE DEF row
          <5> QED
            BY <5>1, <5>2
        <4> QED
          BY <2>2, <4>1, <4>2
      <3> QED
        BY <3>1, OneRowProgress
    <2> QED
      BY <1>2, <2>1, <2>2 DEF ItemNext
  <1>3. ASSUME NEW t \in Tick, TickNext(t) PROVE RowsProgress
    <2>1. CASE Lease(t) \/ LeaseReplyLost(t)
      <3>1. PICK batch \in SUBSET Item : LeaseRows(t, batch) /\ \A i \in batch : Eligible(i)
        BY <2>1 DEF Lease, LeaseReplyLost, IsBatch
      <3> QED
        BY <3>1, LeaseRowsProgress
    <2>2. ASSUME NEW i \in Item, \/ work' = [work EXCEPT ![i] = CompletedRow(@)]
                                 \/ work' = [work EXCEPT ![i] = FailedRow(@, i)]
          PROVE  RowsProgress
      <3>1. CompletedRow(work[i]).status # "leased" /\ FailedRow(work[i], i).status # "leased"
        BY DEF CompletedRow, FailedRow, ReleasedRow
      <3>2. PICK row \in {CompletedRow(work[i]), FailedRow(work[i], i)} : work' = [work EXCEPT ![i] = row]
        BY <2>2
      <3> QED
        BY <3>1, <3>2, OneRowProgress
    <2>3. CASE Complete(t) \/ Fail(t)
      <3>1. tick[t].cur \in Item
        BY <2>3, CurrentItem DEF Complete, Fail
      <3> QED
        BY <2>2, <2>3, <3>1, SameRowsProgress DEF Complete, Fail
    <2>4. CASE Heartbeat(t)
      <3>1. tick[t].cur \in Item
        BY <2>4 DEF Heartbeat, IInv, TypeOK, TickState
      <3> DEFINE row == [work[tick[t].cur] EXCEPT !.expired = FALSE]
      <3>2. work' = [work EXCEPT ![tick[t].cur] = row]
        BY <2>4 DEF Heartbeat
      <3>3. row.status = work[tick[t].cur].status /\ row.available = work[tick[t].cur].available
        BY <1>1, <3>1 DEF Row
      <3> HIDE DEF row
      <3> QED
        BY <3>1, <3>2, <3>3, OneRowProgress DEF ProgressInv
    <2> QED
      BY <1>3, <2>1, <2>3, <2>4, SameRowsProgress
         DEF TickNext, StartItem, ExecuteEnds, CompleteLeaseLost, CompleteError, Crash
  <1> QED
    BY <1>2, <1>3, SameRowsProgress DEF Next, vars

\* A tick between two items has one to go on with.
LEMMA TicksProgress ==
  ASSUME IInv, ProgressInv, [Next]_vars, NEW t \in Tick
  PROVE  tick'[t].pc = "next" => Claimed(t)' # {}
  <1>1. tick \in [Tick -> TickState] /\ claim \in [Tick -> [Item -> Nat]] /\ work \in [Item -> Row]
    BY DEF IInv, TypeOK
  <1>2. CASE tick'[t] = tick[t] /\ claim'[t] = claim[t]
    BY <1>2 DEF ProgressInv, Claimed
  <1>3. CASE Lease(t)
    <2>1. PICK batch \in (SUBSET Item) \ {{}} : ClaimRows(t, batch)
      BY <1>3 DEF Lease
    <2>2. \A i \in batch : claim'[t][i] = work[i].attempts + 1 /\ work[i].attempts \in Nat
      BY <1>1, <2>1 DEF ClaimRows, Row
    <2>3. \A i \in batch : claim'[t][i] # 0
      BY <2>2
    <2> QED
      BY <2>1, <2>3 DEF Claimed
  <1>4. ASSUME tick'[t].pc = "next", tick[t].pc \in {"completing", "failing"}, AfterItem(t)
        PROVE  Claimed(t)' # {}
    <2>1. Claimed(t) # {tick[t].cur}
      <3>1. Claimed(t) = {tick[t].cur} => tick'[t] = Idle
        BY <1>1, <1>4 DEF AfterItem
      <3> QED
        BY <1>4, <3>1 DEF Idle
    <2>0. tick[t].cur \in Item /\ tick[t].cur \in Claimed(t)
      BY <1>4, CurrentItem
    <2>2. \A i \in Item : i # tick[t].cur => claim'[t][i] = claim[t][i]
      BY <1>1, <1>4 DEF AfterItem
    <2>3. PICK i \in Claimed(t) : i # tick[t].cur
      BY <2>0, <2>1
    <2> QED
      BY <2>2, <2>3 DEF Claimed
  <1>5. ASSUME NEW pc, GoTo(t, pc), pc # "next" PROVE tick'[t].pc # "next"
    BY <1>1, <1>5 DEF GoTo
  <1>6. ASSUME Abandon(t) PROVE tick'[t].pc # "next"
    BY <1>1, <1>6 DEF Abandon, Idle
  <1>7. CASE TickNext(t)
    <2>1. CASE Complete(t) \/ Fail(t)
      BY <1>4, <1>5, <1>6, <2>1 DEF Complete, Fail
    <2>2. CASE LeaseReplyLost(t) \/ Heartbeat(t)
      BY <1>2, <2>2 DEF LeaseReplyLost, Heartbeat
    <2>3. CASE (\E i \in Item : StartItem(t, i)) \/ \E outcome \in {"ok", "error"} : ExecuteEnds(t, outcome)
      BY <1>1, <2>3 DEF StartItem, ExecuteEnds, GoTo
    <2>4. CASE CompleteLeaseLost(t) \/ CompleteError(t) \/ Crash(t)
      BY <1>5, <1>6, <2>4 DEF CompleteLeaseLost, CompleteError, Crash
    <2> QED
      BY <1>3, <1>7, <2>1, <2>2, <2>3, <2>4 DEF TickNext
  <1>8. ASSUME NEW u \in Tick \ {t}, TickNext(u)
        PROVE  tick'[t] = tick[t] /\ claim'[t] = claim[t]
    <2>1. CASE Lease(u)
      BY <1>1, <2>1 DEF Lease, ClaimRows
    <2>2. ASSUME AfterItem(u) \/ Abandon(u) PROVE tick'[t] = tick[t] /\ claim'[t] = claim[t]
      BY <1>1, <2>2 DEF AfterItem, Abandon
    <2>3. ASSUME NEW pc, GoTo(u, pc), UNCHANGED claim PROVE tick'[t] = tick[t] /\ claim'[t] = claim[t]
      BY <1>1, <2>3 DEF GoTo
    <2>4. CASE Complete(u) \/ Fail(u) \/ Crash(u)
      BY <2>2, <2>3, <2>4 DEF Complete, Fail, Crash
    <2>5. CASE CompleteLeaseLost(u) \/ CompleteError(u) \/ \E outcome \in {"ok", "error"} : ExecuteEnds(u, outcome)
      BY <2>3, <2>5 DEF CompleteLeaseLost, CompleteError, ExecuteEnds
    <2>6. CASE LeaseReplyLost(u) \/ Heartbeat(u) \/ \E i \in Item : StartItem(u, i)
      BY <1>1, <2>6 DEF LeaseReplyLost, Heartbeat, StartItem
    <2> QED
      BY <1>8, <2>1, <2>4, <2>5, <2>6 DEF TickNext
  <1>9. ASSUME NEW i \in Item, ItemNext(i)
        PROVE  tick'[t] = tick[t] /\ claim'[t] = claim[t]
    BY <1>9 DEF ItemNext, Enqueue, ExpireOrphan, ExpireHeld, BackoffElapses
  <1> QED
    BY <1>2, <1>7, <1>8, <1>9 DEF Next, vars

\* In no reachable state is an item stuck; the worker has a tick to run.
THEOREM NoItemEverStuck ==
  ASSUME Tick # {}
  PROVE  Spec => []NoItemStuck
  <1>1. Init => ProgressInv
    <2> SUFFICES ASSUME Init PROVE ProgressInv
      OBVIOUS
    <2>1. \A i \in Item : work[i].status = "absent"
      BY DEF Init, NoRow
    <2>2. \A t \in Tick : tick[t].pc = "idle"
      BY DEF Init, Idle
    <2> DEFINE rows == {i \in Item : work[i].status # "absent"}
    <2>3. rows = {}
      BY <2>1
    <2> HIDE DEF rows
    <2>4. IsFiniteSet(rows)
      BY <2>3, FS_EmptySet
    <2> QED
      BY <2>1, <2>2, <2>4 DEF ProgressInv, rows
  <1>2. IInv /\ ProgressInv /\ [Next]_vars => ProgressInv'
    BY NextRowsProgress, TicksProgress DEF ProgressInv, RowsProgress
  <1>3. IInv /\ ProgressInv => NoItemStuck
    <2> SUFFICES ASSUME IInv, ProgressInv, NEW i \in Item, work[i].status \in {"queued", "leased"},
                        ~WaitsForTime(i)
                 PROVE  \E t \in Tick : CanGoOn(t) \/ CanLease(t)
      BY DEF NoItemStuck
    <2>1. work \in [Item -> Row] /\ tick \in [Tick -> TickState]
      BY DEF IInv, TypeOK
    <2>2. ASSUME NEW t \in Tick, tick[t].pc # "idle" PROVE CanGoOn(t)
      BY <2>1, <2>2 DEF ProgressInv, CanGoOn, TickState, Control
    <2>3. CASE HeldByTick(i)
      <3>1. PICK t \in Tick : claim[t][i] # 0
        BY <2>3 DEF HeldByTick
      <3>2. tick[t].pc # "idle"
        BY <3>1 DEF IInv, TickControl, Claimed
      <3> QED
        BY <2>2, <3>2
    <2>4. CASE ~HeldByTick(i)
      <3> DEFINE candidates == {j \in Item : Eligible(j)}
      <3>1. Eligible(i)
        BY <2>1, <2>4 DEF WaitsForTime, Eligible, ProgressInv, Row
      <3>2. candidates \subseteq {j \in Item : work[j].status # "absent"}
        BY DEF Eligible
      <3>3. IsFiniteSet(candidates)
        BY <3>2, FS_Subset DEF ProgressInv
      <3>4. \E batch \in (SUBSET Item) \ {{}} : IsBatch(batch, candidates)
        BY <3>1, <3>3, BatchExists
      <3>5. \A t \in Tick : tick[t].pc = "idle" => CanLease(t)
        BY <3>4 DEF CanLease
      <3> QED
        BY <2>2, <3>5
    <2> QED
      BY <2>3, <2>4
  <1> QED
    BY <1>1, <1>2, <1>3, InductiveInvariant, PTL DEF Spec

-----------------------------------------------------------------------------
(* Refinement of AtLeastOnce *)

phases == [i \in Item |-> PhaseOf(i)]

\* The item j enters phase p and every other item stays where it is.
LEMMA PhaseChange ==
  ASSUME IInv, NEW j \in Item, NEW p,
         work' = [work EXCEPT ![j] = work'[j]], PhaseOf(j)' = p
  PROVE  phases' = [phases EXCEPT ![j] = p]
  <1>1. \A i \in Item : i # j => PhaseOf(i)' = PhaseOf(i)
    BY DEF IInv, TypeOK, PhaseOf
  <1> QED
    BY <1>1 DEF phases

LEMMA PhasesSame ==
  ASSUME \A i \in Item : PhaseOf(i)' = PhaseOf(i)
  PROVE  phases' = phases
  BY DEF phases

LEMMA QuietPhases ==
  ASSUME IInv, \A i \in Item : Quiet(i) \/ \E t \in Tick : Acquires(t, i)
  PROVE  phases' = phases
  <1>1. \A i \in Item : PhaseOf(i)' = PhaseOf(i)
    BY DEF PhaseOf, Quiet, Acquires, Eligible
  <1> QED
    BY <1>1, PhasesSame

\* The abstract step the store and the executor take with one item.
LEMMA SettleRefines ==
  ASSUME IInv, NEW t \in Tick, Complete(t) \/ Fail(t)
  PROVE  Promise!Next \/ UNCHANGED <<phases, tried>>
  <1>1. tick[t].pc \in {"completing", "failing"} /\ UNCHANGED tried
    BY DEF Complete, Fail
  <1>2. PICK j \in Item : j = tick[t].cur
    BY <1>1, CurrentItem
  <1>3. work \in [Item -> Row]
    BY DEF IInv, TypeOK
  <1>4. CASE Complete(t)
    <2>1. work' = [work EXCEPT ![j] = CompletedRow(work[j])] /\ phases[j] = "open"
      BY <1>2, <1>4 DEF Complete, Owns, phases, PhaseOf
    <2>2. work' = [work EXCEPT ![j] = work'[j]] /\ PhaseOf(j)' = "completed"
      BY ZenonT(60), <1>2, <1>3, <2>1 DEF CompletedRow, ReleasedRow, PhaseOf
    <2>3. phases' = [phases EXCEPT ![j] = "completed"]
      BY <1>2, <2>2, PhaseChange
    <2>4. "ok" \in tried[j]
      BY <1>2, <1>4 DEF Complete, IInv, TickControl
    <2>5. Promise!SettleCompleted(j)
      BY <1>1, <2>1, <2>3, <2>4 DEF Promise!SettleCompleted, phases
    <2> QED
      BY <1>2, <2>5 DEF Promise!Next
  <1>5. CASE Fail(t) /\ Owns(t, j)
    <2>1. work' = [work EXCEPT ![j] = FailedRow(work[j], j)] /\ phases[j] = "open"
      BY <1>2, <1>5 DEF Fail, Owns, phases, PhaseOf
    <2>2. work' = [work EXCEPT ![j] = work'[j]] /\ PhaseOf(j)' \in {"open", "dead"}
      BY ZenonT(60), <1>2, <1>3, <2>1 DEF FailedRow, ReleasedRow, PhaseOf
    <2>3. tried[j] # {}
      BY <1>2, <1>5 DEF Fail, IInv, TickControl
    <2>4. CASE PhaseOf(j)' = "dead"
      <3>1. phases' = [phases EXCEPT ![j] = "dead"]
        BY <1>2, <2>2, <2>4, PhaseChange
      <3>2. Promise!GiveUp(j)
        BY <1>1, <2>1, <2>3, <3>1 DEF Promise!GiveUp, phases
      <3> QED
        BY <1>2, <3>2 DEF Promise!Next
    <2>5. CASE PhaseOf(j)' = "open"
      <3>1. phases' = [phases EXCEPT ![j] = "open"]
        BY <1>2, <2>2, <2>5, PhaseChange
      <3> QED
        BY <1>1, <1>2, <2>1, <3>1 DEF phases
    <2> QED
      BY <2>2, <2>4, <2>5
  <1>6. CASE Fail(t) /\ ~Owns(t, j)
    BY <1>1, <1>2, <1>6 DEF Fail, phases, PhaseOf
  <1> QED
    BY <1>4, <1>5, <1>6

LEMMA StepRefines ==
  ASSUME IInv, [Next]_vars
  PROVE  [Promise!Next]_(Promise!abstractVars)
  <1> SUFFICES Promise!Next \/ UNCHANGED <<phases, tried>>
    BY DEF Promise!abstractVars, phases
  <1>1. CASE UNCHANGED vars
    BY <1>1 DEF vars, phases, PhaseOf
  <1>2. ASSUME NEW j \in Item, ItemNext(j)
        PROVE  Promise!Next \/ UNCHANGED <<phases, tried>>
    <2>1. UNCHANGED <<tick, tried>>
      BY <1>2 DEF ItemNext, Enqueue, ExpireOrphan, ExpireHeld, BackoffElapses
    <2>2. CASE Enqueue(j) /\ work[j].status = "absent"
      <3>1. work' = [work EXCEPT ![j] = QueuedRow] /\ phases[j] = "absent"
        BY <2>2 DEF Enqueue, EnqueueRow, phases, PhaseOf
      <3>2. work' = [work EXCEPT ![j] = work'[j]] /\ PhaseOf(j)' = "open"
        BY <3>1 DEF IInv, TypeOK, QueuedRow, PhaseOf
      <3>3. phases' = [phases EXCEPT ![j] = "open"]
        BY <3>2, PhaseChange
      <3>4. Promise!Submit(j)
        BY <2>1, <3>1, <3>3 DEF Promise!Submit, phases
      <3> QED
        BY <3>4 DEF Promise!Next
    <2>3. CASE ~(Enqueue(j) /\ work[j].status = "absent")
      <3>1. \A i \in Item : ~Enters(i)
        BY SMTT(30), <1>2, <2>3 DEF ItemNext, Enqueue, EnqueueRow, ExpireOrphan, ExpireHeld,
           ExpireLease, BackoffElapses, Enters, IInv, TypeOK
      <3>2. \A i \in Item, t \in Tick : ~Releases(t, i)
        BY <2>1 DEF Releases
      <3>3. \A i \in Item : Quiet(i) \/ \E t \in Tick : Acquires(t, i)
        BY <3>1, <3>2, NextShape DEF StepShape
      <3> QED
        BY <2>1, <3>3, QuietPhases
    <2> QED
      BY <2>2, <2>3
  <1>3. ASSUME NEW t \in Tick, TickNext(t)
        PROVE  Promise!Next \/ UNCHANGED <<phases, tried>>
    <2>1. CASE Lease(t) \/ LeaseReplyLost(t)
      <3>1. PICK batch \in SUBSET Item :
              (\A i \in batch : Eligible(i)) /\ LeaseRows(t, batch)
        BY <2>1 DEF Lease, LeaseReplyLost, IsBatch
      <3>2. \A i \in Item : PhaseOf(i)' = PhaseOf(i)
        BY <3>1 DEF LeaseRows, LeasedRow, Eligible, PhaseOf
      <3> QED
        BY <2>1, <3>2, PhasesSame DEF Lease, LeaseReplyLost
    <2>2. CASE Complete(t) \/ Fail(t)
      BY <2>2, SettleRefines
    <2>3. ASSUME NEW outcome \in {"ok", "error"}, ExecuteEnds(t, outcome)
          PROVE  Promise!Next
      <3>1. tick[t].cur \in Item /\ claim[t][tick[t].cur] # 0
        BY <2>3, CurrentItem DEF ExecuteEnds, Claimed
      <3>2. phases[tick[t].cur] # "absent"
        BY <3>1 DEF IInv, ClaimsBounded, phases, PhaseOf
      <3>3. Promise!RunEnds(tick[t].cur, outcome)
        BY <2>3, <3>2 DEF ExecuteEnds, Promise!RunEnds, phases, PhaseOf
      <3> QED
        BY <3>1, <3>3 DEF Promise!Next, Promise!Outcome
    <2>4. CASE Heartbeat(t)
      <3>1. tick[t].cur \in Item
        BY <2>4 DEF Heartbeat, IInv, TypeOK, TickState
      <3>2. work' = [work EXCEPT ![tick[t].cur].expired = FALSE]
        BY <2>4 DEF Heartbeat
      <3>3. work'[tick[t].cur].status = work[tick[t].cur].status
        BY <3>1, <3>2, FlagOnly
      <3>4. \A i \in Item : i # tick[t].cur => work'[i] = work[i]
        BY <3>2 DEF IInv, TypeOK
      <3>5. \A i \in Item : PhaseOf(i)' = PhaseOf(i)
        BY <3>3, <3>4 DEF PhaseOf
      <3> QED
        BY <2>4, <3>5, PhasesSame DEF Heartbeat
    <2>5. CASE \/ \E i \in Item : StartItem(t, i)
               \/ CompleteLeaseLost(t) \/ CompleteError(t) \/ Crash(t)
      BY <2>5 DEF StartItem, CompleteLeaseLost, CompleteError, Crash, phases, PhaseOf
    <2> QED
      BY <1>3, <2>1, <2>2, <2>3, <2>4, <2>5 DEF TickNext
  <1> QED
    BY <1>1, <1>2, <1>3 DEF Next

\* The queue implements AtLeastOnce, for every constants: an item settles at
\* most once, completed only after a success, dead only after an execution.
THEOREM QueueKeepsPromise == Spec => KeepsPromise
  <1>1. Init => Promise!Init
    BY DEF Init, Promise!Init, NoRow, PhaseOf
  <1>2. IInv /\ [Next]_vars => [Promise!Next]_(Promise!abstractVars)
    BY StepRefines
  <1> QED
    BY <1>1, <1>2, InductiveInvariant, PTL DEF Spec, KeepsPromise, Promise!Spec
=============================================================================
