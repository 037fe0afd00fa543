--------------------------- MODULE EvidenceLedger ---------------------------
(***************************************************************************)
(* The PostgreSQL evidence ledger (evidence-ledger.ts).                    *)
(*                                                                         *)
(* A call of appendEvidenceEvent is one transaction: take the advisory     *)
(* lock of the mission, read the newest event, build the next one from it, *)
(* insert it and commit.  Calls for all missions interleave between any    *)
(* two statements; any statement may fail, the process may die, and the    *)
(* reply of a commit may be lost.                                          *)
(*                                                                         *)
(* The fields an event carries besides its place in the chain are one      *)
(* value per call, except lensResults: its conversion to and from the      *)
(* database is not the identity.                                           *)
(***************************************************************************)
EXTENDS Integers, Sequences, FiniteSets, SequencesExt

CONSTANTS
  Mission,
  Call,          \* calls of appendEvidenceEvent
  Lens,          \* the lensResults callers pass, a subset of LensValue
  LockKeyOf,     \* hashtext(mission_id): missions may collide
  HashValue(_),  \* hashValue: sha256 of the canonical JSON
  NoHash,        \* previousHash of the first event
  MaxFaults      \* bound: failing statements, crashes, lost replies

LensValue == {"undefined", "empty", "named"}

ASSUME EvidenceLedgerAssumption ==
  /\ Lens \subseteq LensValue
  /\ MaxFaults \in Nat

VARIABLES
  table,    \* table[m]: rows of evidence_events of m, in commit order
  pc,       \* pc[c]: the statement a call has reached
  mission,  \* mission[c]: its missionId
  lens,     \* lens[c]: its lensResults
  seen,     \* seen[c]: chain index and hash the next event is built from
  faults    \* faults so far (bounded by MaxFaults)

vars == <<table, pc, mission, lens, seen, faults>>

-----------------------------------------------------------------------------
(* Events *)

\* The payload is everything but the two hashes; JSON leaves an undefined
\* lensResults out of it, and keeps an empty one.
Payload(event) == <<event.id, event.missionId, event.chainIndex, event.lensResults, event.previousHash>>

PayloadHash(event) == HashValue(Payload(event))
EventHash(payloadHash, previousHash) == HashValue(<<payloadHash, previousHash>>)

\* buildEvidenceEvent, once the call has read the newest row.
BuildEvidenceEvent(c) ==
  LET payload == <<c, mission[c], seen[c].index, lens[c], seen[c].hash>> IN
    [id |-> c, missionId |-> mission[c], chainIndex |-> seen[c].index,
     lensResults |-> lens[c], previousHash |-> seen[c].hash,
     payloadHash |-> HashValue(payload),
     eventHash |-> EventHash(HashValue(payload), seen[c].hash)]

\* Mutant of StoredLens: the column is skipped.
StoredLensSkipped(l) == "empty"

\* "event.lensResults ?? []" on the way in, "row.lens_results ?? undefined" on
\* the way out: undefined comes back as the empty list.
StoredLens(l) == IF l = "undefined" THEN "empty" ELSE l

StoredEvent(event) ==
  [id |-> event.id, missionId |-> event.missionId, chainIndex |-> event.chainIndex,
   lensResults |-> StoredLens(event.lensResults), previousHash |-> event.previousHash,
   payloadHash |-> event.payloadHash, eventHash |-> event.eventHash]

Check == {"missionId", "chainIndex", "previousHash", "payloadHash", "eventHash"}

\* Mutant of Mismatch: the stored payload hash is believed.
MismatchOfLinks(events, k, check) ==
  LET event == events[k]
      previousHash == IF k = 1 THEN NoHash ELSE events[k - 1].eventHash
  IN  \/ check = "missionId" /\ event.missionId # events[1].missionId
      \/ check = "chainIndex" /\ event.chainIndex # k - 1
      \/ check = "previousHash" /\ event.previousHash # previousHash
      \/ check = "eventHash" /\ event.eventHash # EventHash(event.payloadHash, previousHash)

\* One comparison of verifyEvidenceChain fails.
Mismatch(events, k, check) ==
  LET event == events[k]
      previousHash == IF k = 1 THEN NoHash ELSE events[k - 1].eventHash
  IN  \/ check = "missionId" /\ event.missionId # events[1].missionId
      \/ check = "chainIndex" /\ event.chainIndex # k - 1
      \/ check = "previousHash" /\ event.previousHash # previousHash
      \/ check = "payloadHash" /\ event.payloadHash # PayloadHash(event)
      \/ check = "eventHash" /\ event.eventHash # EventHash(PayloadHash(event), previousHash)

\* verifyEvidenceChain(events).errors, and .ok
ChainErrors(events) == {error \in (1..Len(events)) \X Check : Mismatch(events, error[1], error[2])}

VerifyEvidenceChain(events) == ChainErrors(events) = {}

\* list: order by chain_index asc, which is unique within a mission.
ListEvents(m) ==
  CHOOSE s \in [1..Len(table[m]) -> ToSet(table[m])] :
    \A i, j \in DOMAIN s : i < j => s[i].chainIndex < s[j].chainIndex

-----------------------------------------------------------------------------
(* PostgresEvidenceLedgerStore.append *)

Init ==
  /\ table = [m \in Mission |-> <<>>]
  /\ pc = [c \in Call |-> "new"]
  /\ mission \in [Call -> Mission]
  /\ lens \in [Call -> Lens]
  /\ seen = [c \in Call |-> [index |-> 0, hash |-> NoHash]]
  /\ faults = 0

Goto(c, from, to) == pc[c] = from /\ pc' = [pc EXCEPT ![c] = to]

\* connect and begin
Begin(c) ==
  /\ Goto(c, "new", "waiting")
  /\ UNCHANGED <<table, mission, lens, seen, faults>>

\* Mutant of InTransaction: a session lock that a failed append never releases.
InTransactionLeaky(c) == pc[c] \in {"locked", "read", "inserted", "failed"}

InTransaction(c) == pc[c] \in {"locked", "read", "inserted"}

\* Mutant of Lock: pg_advisory_xact_lock_shared.
LockShared(c) ==
  /\ Goto(c, "waiting", "locked")
  /\ UNCHANGED <<table, mission, lens, seen, faults>>

\* pg_advisory_xact_lock(hashtext(missionId)), held until commit or rollback.
Lock(c) ==
  /\ \A d \in Call : InTransaction(d) => LockKeyOf[mission[d]] # LockKeyOf[mission[c]]
  /\ Goto(c, "waiting", "locked")
  /\ UNCHANGED <<table, mission, lens, seen, faults>>

\* order by chain_index desc limit 1
NewestOf(m) == CHOOSE e \in ToSet(table[m]) : \A f \in ToSet(table[m]) : f.chainIndex <= e.chainIndex

SeenNow(m) ==
  IF table[m] = <<>>
  THEN [index |-> 0, hash |-> NoHash]
  ELSE [index |-> NewestOf(m).chainIndex + 1, hash |-> NewestOf(m).eventHash]

ReadLast(c) ==
  /\ Goto(c, "locked", "read")
  /\ seen' = [seen EXCEPT ![c] = SeenNow(mission[c])]
  /\ UNCHANGED <<table, mission, lens, faults>>

\* unique index evidence_events_mission_chain_idx
IndexTaken(c) == \E e \in ToSet(table[mission[c]]) : e.chainIndex = seen[c].index

\* A taken index makes the insert fail, and the transaction rolls back.
Insert(c) ==
  /\ Goto(c, "read", IF IndexTaken(c) THEN "failed" ELSE "inserted")
  /\ UNCHANGED <<table, mission, lens, seen, faults>>

\* Mutant of CommitRow: the row replaces the mission's earlier ones.
CommitRowReplaces(c) ==
  table' = [table EXCEPT ![mission[c]] = <<StoredEvent(BuildEvidenceEvent(c))>>]

CommitRow(c) ==
  table' = [table EXCEPT ![mission[c]] = Append(@, StoredEvent(BuildEvidenceEvent(c)))]

Commit(c) ==
  /\ Goto(c, "inserted", "returned")
  /\ CommitRow(c)
  /\ UNCHANGED <<mission, lens, seen, faults>>

Fault == faults < MaxFaults /\ faults' = faults + 1

\* The commit takes effect but its reply is lost: append throws.
CommitReplyLost(c) ==
  /\ Goto(c, "inserted", "failed")
  /\ CommitRow(c)
  /\ Fault
  /\ UNCHANGED <<mission, lens, seen>>

\* A statement fails, or the process dies: rollback releases the lock.
Rollback(c) ==
  /\ pc[c] = "waiting" \/ InTransaction(c)
  /\ pc' = [pc EXCEPT ![c] = "failed"]
  /\ Fault
  /\ UNCHANGED <<table, mission, lens, seen>>

Advance(c) == Lock(c) \/ ReadLast(c) \/ Insert(c) \/ Commit(c)

Next == \E c \in Call : Begin(c) \/ Advance(c) \/ CommitReplyLost(c) \/ Rollback(c)

Spec == Init /\ [][Next]_vars

\* The database answers every statement in the end.
FairSpec == Spec /\ \A c \in Call : WF_vars(Advance(c))
-----------------------------------------------------------------------------
(* Properties *)

\* Type invariant; the hashes are left untyped.
TypeOK ==
  /\ DOMAIN table = Mission
  /\ \A m \in Mission : table[m] \in Seq(ToSet(table[m]))
  /\ \A m \in Mission : \A e \in ToSet(table[m]) :
       e.chainIndex \in Nat /\ e.lensResults \in LensValue \ {"undefined"}
  /\ pc \in [Call -> {"new", "waiting", "locked", "read", "inserted", "returned", "failed"}]
  /\ mission \in [Call -> Mission]
  /\ lens \in [Call -> Lens]
  /\ DOMAIN seen = Call /\ \A c \in Call : seen[c].index \in Nat
  /\ faults \in 0..MaxFaults

\* The chain of every mission has the indexes 0, 1, 2, ... without a gap or a
\* repetition, in commit order, and each event names the hash of the one
\* before it: the chain never forks, whoever appends at the same time.
ChainLinked ==
  \A m \in Mission : \A k \in 1..Len(table[m]) :
    /\ table[m][k].chainIndex = k - 1
    /\ table[m][k].previousHash = IF k = 1 THEN NoHash ELSE table[m][k - 1].eventHash

\* Appends never fail one another: as many have failed as statements have
\* failed, processes died and replies were lost.  The advisory lock lets none
\* build on a row that is not the newest, so the unique index refuses none, and
\* none waits in vain (append).
FailuresAreFaults == Cardinality({c \in Call : pc[c] = "failed"}) = faults

\* Evidence events remain verifiable after persistence: what list returns
\* passes verifyEvidenceChain at any time (production-spine.ts:37).
PersistedChainVerifies == \A m \in Mission : VerifyEvidenceChain(table[m])

\* Of what list returns, verifyEvidenceChain reports at most the two hashes of
\* events whose caller left lensResults undefined: every other event verifies,
\* and such an event breaks neither the links nor the hashes of the events
\* after it, whoever appends at the same time.
OnlyUndefinedReported ==
  \A m \in Mission : \A error \in ChainErrors(table[m]) :
    lens[table[m][error[1]].id] = "undefined" /\ error[2] \in {"payloadHash", "eventHash"}

\* Alterations of a stored chain that leave its newest event in place. A
\* rewritten event carries other lensResults than those stored or hashed.
Swapped(s, k) == [s EXCEPT ![k] = s[k + 1], ![k + 1] = s[k]]
Rewritten(e, l) == [e EXCEPT !.lensResults = l]
Rehashed(e) ==
  [e EXCEPT !.payloadHash = PayloadHash(e),
            !.eventHash = EventHash(PayloadHash(e), e.previousHash)]
OtherLens(e) == LensValue \ {e.lensResults, lens[e.id]}

RewrittenAt(s, k) == {ReplaceAt(s, k, Rewritten(s[k], l)) : l \in OtherLens(s[k])}
RehashedAt(s, k) == {ReplaceAt(s, k, Rehashed(Rewritten(s[k], l))) : l \in OtherLens(s[k])}

\* Events reported already are only rewritten with their hashes: the report
\* does not tell what else is changed about them.
Unreported(s) == {k \in 1..Len(s) : \A error \in ChainErrors(s) : error[1] # k}

Alterations(s) ==
  LET earlier == 1..(Len(s) - 1) IN
    {RemoveAt(s, k) : k \in earlier}
    \cup {Swapped(s, k) : k \in earlier}
    \cup (UNION {RewrittenAt(s, k) : k \in Unreported(s)})
    \cup (UNION {RehashedAt(s, k) : k \in earlier})

\* Tamper evidence (EVIDENCE_MODEL.md:27): where an event was dropped, moved or
\* rewritten, even with its own hashes computed anew, verifyEvidenceChain
\* reports what it did not report of the stored chain.
AlterationDetected ==
  \A m \in Mission : \A altered \in Alterations(ListEvents(m)) :
    ~(ChainErrors(altered) \subseteq ChainErrors(ListEvents(m)))

\* Every append ends: no append waits for a lock for ever.
AppendEnds == \A c \in Call : pc[c] = "waiting" ~> pc[c] \in {"returned", "failed"}

Log == INSTANCE EvidenceLog WITH
  chain <- [m \in Mission |-> [k \in 1..Len(table[m]) |-> table[m][k].id]],
  outcome <- [c \in Call |-> IF pc[c] \in {"returned", "failed"} THEN pc[c] ELSE "none"]

\* The ledger implements the append-only log: committed events are never
\* changed, lost, reordered or appended twice, and a caller that got its event
\* back finds it in the chain.
ImplementsLog == Log!Spec
=============================================================================
