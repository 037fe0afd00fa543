------------------------ MODULE EvidenceLedgerProofs ------------------------
(***************************************************************************)
(* Theorems about EvidenceLedger, for every set of missions and calls,     *)
(* every assignment of lock keys and every hash function, without          *)
(* collisions where tampering is to be noticed.                            *)
(***************************************************************************)
EXTENDS EvidenceLedger, FiniteSetTheorems, NaturalsInduction, WellFoundedInduction, TLAPS

USE EvidenceLedgerAssumption DEF EvidenceLedgerAssumption

-----------------------------------------------------------------------------
(* The inductive invariant *)

\* What a transaction read as the newest event still is the newest event when
\* it inserts and when it commits, so its insert never meets a taken index.
ReadStaysNewest ==
  \A c \in Call : pc[c] \in {"read", "inserted"} => seen[c] = SeenNow(mission[c])

\* Transactions whose missions share a lock key exclude each other.
LockExclusive ==
  \A c, d \in Call :
    c # d /\ InTransaction(c) /\ InTransaction(d) => LockKeyOf[mission[c]] # LockKeyOf[mission[d]]

\* The inductive invariant behind the theorems.
IInv == TypeOK /\ LockExclusive /\ ChainLinked /\ ReadStaysNewest

-----------------------------------------------------------------------------
(* Sequences *)

\* What appending one element does to a sequence.
LEMMA AppendOne ==
  ASSUME NEW s, s \in Seq(ToSet(s)), NEW e
  PROVE  LET t == Append(s, e) IN
           /\ t \in Seq(ToSet(t))
           /\ ToSet(t) = ToSet(s) \cup {e}
           /\ Len(t) = Len(s) + 1
           /\ \A k \in 1..Len(s) : t[k] = s[k]
           /\ t[Len(s) + 1] = e
  <1> DEFINE S == ToSet(s) \cup {e}
             t == Append(s, e)
  <1>1. s \in Seq(S)
    OBVIOUS
  <1> HIDE DEF S
  <1>2. e \in S
    BY DEF S
  <1>3. /\ t \in Seq(S) /\ Len(t) = Len(s) + 1 /\ Len(s) \in Nat
        /\ DOMAIN t = 1..(Len(s) + 1)
        /\ \A k \in 1..Len(s) : t[k] = s[k]
        /\ t[Len(s) + 1] = e
    BY <1>1, <1>2
  <1>4. DOMAIN s = 1..Len(s)
    BY <1>1
  <1> HIDE DEF t
  <1>5. ToSet(t) = ToSet(s) \cup {e}
    BY <1>3, <1>4 DEF ToSet
  <1>6. t \in Seq(ToSet(t))
    BY <1>3, <1>5 DEF S
  <1> QED
    BY <1>3, <1>5, <1>6 DEF t

\* In a linked chain the newest row is the one committed last.
LEMMA NewestIsLast ==
  ASSUME IInv, NEW m \in Mission
  PROVE  /\ Len(table[m]) \in Nat
         /\ table[m] = <<>> <=> Len(table[m]) = 0
         /\ SeenNow(m) = IF Len(table[m]) = 0 THEN [index |-> 0, hash |-> NoHash]
                         ELSE [index |-> Len(table[m]), hash |-> table[m][Len(table[m])].eventHash]
  <1> DEFINE s == table[m]
             n == Len(s)
  <1>1. s \in Seq(ToSet(s)) /\ n \in Nat /\ DOMAIN s = 1..n
    BY DEF IInv, TypeOK
  <1>2. s = <<>> <=> n = 0
    BY <1>1
  <1>3. \A k \in 1..n : s[k].chainIndex = k - 1
    BY DEF IInv, ChainLinked
  <1>4. n # 0 => NewestOf(m) = s[n]
    <2> SUFFICES ASSUME n # 0 PROVE NewestOf(m) = s[n]
      OBVIOUS
    <2>1. s[n] \in ToSet(s) /\ \A f \in ToSet(s) : f.chainIndex <= s[n].chainIndex
      <3>1. s[n] \in ToSet(s) /\ s[n].chainIndex = n - 1
        BY SMTT(30), <1>1, <1>3 DEF ToSet
      <3>2. ASSUME NEW f \in ToSet(s) PROVE f.chainIndex <= n - 1
        <4>1. PICK k \in 1..n : f = s[k]
          BY <1>1 DEF ToSet
        <4>2. f.chainIndex = k - 1
          BY <1>3, <4>1
        <4> QED
          BY <1>1, <4>2
      <3> QED
        BY <3>1, <3>2
    <2>2. NewestOf(m) \in ToSet(s) /\ \A f \in ToSet(s) : f.chainIndex <= NewestOf(m).chainIndex
      BY <2>1 DEF NewestOf
    <2>3. PICK k \in 1..n : NewestOf(m) = s[k]
      BY <1>1, <2>2 DEF ToSet
    <2>4. n - 1 <= k - 1
      BY <1>1, <1>3, <2>1, <2>2, <2>3
    <2> QED
      BY <1>1, <2>3, <2>4
  <1>5. n # 0 => s[n].chainIndex + 1 = n
    BY <1>1, <1>3
  <1> QED
    BY <1>1, <1>2, <1>4, <1>5 DEF SeenNow

-----------------------------------------------------------------------------
(* The inductive invariant *)

LEMMA InitIInv == Init => IInv
  <1> SUFFICES ASSUME Init PROVE IInv
    OBVIOUS
  <1> USE DEF Init
  <1>1. \A m \in Mission : table[m] = <<>> /\ Len(table[m]) = 0
    OBVIOUS
  <1>2. TypeOK
    BY <1>1 DEF TypeOK, ToSet
  <1>3. LockExclusive /\ ReadStaysNewest
    BY DEF LockExclusive, ReadStaysNewest, InTransaction
  <1>4. ChainLinked
    BY <1>1 DEF ChainLinked
  <1> QED
    BY <1>2, <1>3, <1>4 DEF IInv

\* A step that commits nothing.
LEMMA NoCommit ==
  ASSUME IInv, UNCHANGED <<table, mission, lens>>, NEW c \in Call, NEW to,
         pc' = [pc EXCEPT ![c] = to],
         to \in {"waiting", "locked", "read", "inserted", "failed"},
         InTransaction(c)' => InTransaction(c) \/
           \A d \in Call : InTransaction(d) => LockKeyOf[mission[d]] # LockKeyOf[mission[c]],
         \A d \in Call : d # c => seen'[d] = seen[d],
         DOMAIN seen' = Call, seen'[c].index \in Nat,
         to \in {"read", "inserted"} => seen'[c] = SeenNow(mission[c]),
         faults' \in 0..MaxFaults
  PROVE  IInv'
  <1> USE DEF IInv
  <1>1. TypeOK'
    BY DEF TypeOK
  <1>2. \A d \in Call : pc'[d] = IF d = c THEN to ELSE pc[d]
    BY DEF TypeOK
  <1>3. LockExclusive'
    BY <1>2 DEF LockExclusive, InTransaction
  <1>4. ChainLinked'
    BY DEF ChainLinked
  <1>5. \A m \in Mission : SeenNow(m)' = SeenNow(m)
    BY DEF SeenNow, NewestOf
  <1>6. ReadStaysNewest'
    BY <1>2, <1>5 DEF ReadStaysNewest, TypeOK
  <1> QED
    BY <1>1, <1>3, <1>4, <1>6

LEMMA FaultBound == IInv /\ (Fault \/ UNCHANGED faults) => faults' \in 0..MaxFaults
  BY DEF IInv, TypeOK, Fault

LEMMA SeenTyped == ASSUME IInv, NEW m \in Mission PROVE SeenNow(m).index \in Nat
  BY NewestIsLast

\* The row a call commits continues the chain of its mission.
LEMMA CommitLinks ==
  ASSUME IInv, NEW c \in Call, pc[c] = "inserted", CommitRow(c)
  PROVE  LET m == mission[c]
             n == Len(table[m])
             e == StoredEvent(BuildEvidenceEvent(c))
         IN /\ m \in Mission /\ n \in Nat
            /\ \A q \in Mission \ {m} : table'[q] = table[q]
            /\ table'[m] = Append(table[m], e)
            /\ table'[m] \in Seq(ToSet(table'[m])) /\ ToSet(table'[m]) = ToSet(table[m]) \cup {e}
            /\ Len(table'[m]) = n + 1
            /\ \A k \in 1..n : table'[m][k] = table[m][k]
            /\ table'[m][n + 1] = e
            /\ DOMAIN table' = Mission
            /\ seen[c].index = n
            /\ seen[c].hash = IF n = 0 THEN NoHash ELSE table[m][n].eventHash
  <1> DEFINE m == mission[c]
             e == StoredEvent(BuildEvidenceEvent(c))
  <1>1. m \in Mission /\ table[m] \in Seq(ToSet(table[m])) /\ DOMAIN table = Mission
    BY DEF IInv, TypeOK
  <1>2. table' = [table EXCEPT ![m] = Append(table[m], e)]
    BY DEF CommitRow
  <1>3. table'[m] = Append(table[m], e) /\ \A q \in Mission \ {m} : table'[q] = table[q]
    BY <1>1, <1>2
  <1>4. seen[c] = SeenNow(m)
    BY DEF IInv, ReadStaysNewest
  <1> HIDE DEF e
  <1>5. /\ Len(table[m]) \in Nat
        /\ seen[c].index = Len(table[m])
        /\ seen[c].hash = IF Len(table[m]) = 0 THEN NoHash ELSE table[m][Len(table[m])].eventHash
    BY <1>1, <1>4, NewestIsLast
  <1>6. /\ table'[m] \in Seq(ToSet(table'[m])) /\ ToSet(table'[m]) = ToSet(table[m]) \cup {e}
        /\ Len(table'[m]) = Len(table[m]) + 1
        /\ \A k \in 1..Len(table[m]) : table'[m][k] = table[m][k]
        /\ table'[m][Len(table[m]) + 1] = e
    BY <1>1, <1>3, AppendOne
  <1> QED
    BY <1>1, <1>2, <1>3, <1>5, <1>6 DEF e

LEMMA CommitIInv ==
  ASSUME IInv, NEW c \in Call, pc[c] = "inserted", CommitRow(c),
         NEW to \in {"returned", "failed"}, pc' = [pc EXCEPT ![c] = to],
         UNCHANGED <<mission, lens, seen>>, faults' \in 0..MaxFaults
  PROVE  IInv'
  <1> DEFINE m == mission[c]
             n == Len(table[m])
             e == StoredEvent(BuildEvidenceEvent(c))
  <1>1. /\ m \in Mission /\ n \in Nat
        /\ \A q \in Mission \ {m} : table'[q] = table[q]
        /\ table'[m] \in Seq(ToSet(table'[m])) /\ ToSet(table'[m]) = ToSet(table[m]) \cup {e}
        /\ Len(table'[m]) = n + 1
        /\ \A k \in 1..n : table'[m][k] = table[m][k]
        /\ table'[m][n + 1] = e
        /\ DOMAIN table' = Mission
        /\ seen[c].index = n
        /\ seen[c].hash = IF n = 0 THEN NoHash ELSE table[m][n].eventHash
    BY CommitLinks
  <1>2. /\ e.chainIndex = n /\ e.previousHash = seen[c].hash
        /\ e.lensResults \in LensValue \ {"undefined"}
    BY <1>1 DEF StoredEvent, BuildEvidenceEvent, StoredLens, IInv, TypeOK, LensValue
  <1>3. m' = m
    OBVIOUS
  <1> HIDE DEF m, n, e
  <1>4. TypeOK'
    <2>1. \A q \in Mission : table'[q] \in Seq(ToSet(table'[q]))
      BY <1>1 DEF IInv, TypeOK
    <2>2. \A q \in Mission : \A f \in ToSet(table'[q]) :
            f.chainIndex \in Nat /\ f.lensResults \in LensValue \ {"undefined"}
      BY <1>1, <1>2 DEF IInv, TypeOK
    <2>3. pc' \in [Call -> {"new", "waiting", "locked", "read", "inserted", "returned", "failed"}]
      BY DEF IInv, TypeOK
    <2> QED
      BY <1>1, <2>1, <2>2, <2>3 DEF IInv, TypeOK
  <1>5. \A d \in Call : pc'[d] = IF d = c THEN to ELSE pc[d]
    BY DEF IInv, TypeOK
  <1>6. LockExclusive'
    BY <1>5 DEF IInv, LockExclusive, InTransaction
  <1>7. ChainLinked'
    <2> SUFFICES ASSUME NEW q \in Mission, NEW k \in 1..Len(table'[q])
                 PROVE  /\ table'[q][k].chainIndex = k - 1
                        /\ table'[q][k].previousHash =
                             IF k = 1 THEN NoHash ELSE table'[q][k - 1].eventHash
      BY DEF ChainLinked
    <2>1. CASE q # m
      BY <1>1, <2>1 DEF IInv, ChainLinked
    <2>2. CASE q = m /\ k \in 1..n
      <3>1. table'[m][k] = table[m][k] /\ (k # 1 => table'[m][k - 1] = table[m][k - 1])
        BY <1>1, <2>2
      <3>2. /\ table[m][k].chainIndex = k - 1
            /\ table[m][k].previousHash = IF k = 1 THEN NoHash ELSE table[m][k - 1].eventHash
        BY <1>1, <2>2 DEF IInv, ChainLinked, n
      <3> QED
        BY <2>2, <3>1, <3>2
    <2>3. CASE q = m /\ k = n + 1
      <3>1. n # 0 => table'[m][n] = table[m][n]
        BY <1>1
      <3>2. k = 1 <=> n = 0
        BY <1>1, <2>3
      <3>3. k - 1 = n
        BY <1>1, <2>3
      <3> QED
        BY <1>1, <1>2, <2>3, <3>1, <3>2, <3>3
    <2> QED
      BY <1>1, <2>1, <2>2, <2>3
  <1>8. ReadStaysNewest'
    <2> SUFFICES ASSUME NEW d \in Call, pc'[d] \in {"read", "inserted"}
                 PROVE  seen[d] = SeenNow(mission[d])'
      BY DEF ReadStaysNewest
    <2>1. d # c /\ pc[d] \in {"read", "inserted"}
      BY <1>5
    <2>2. mission[d] # m
      BY <2>1 DEF IInv, LockExclusive, InTransaction, m
    <2>3. table'[mission[d]] = table[mission[d]]
      BY <1>1, <2>2 DEF IInv, TypeOK
    <2>4. SeenNow(mission[d])' = SeenNow(mission[d])
      BY <2>3 DEF SeenNow, NewestOf
    <2> QED
      BY <2>1, <2>4 DEF IInv, ReadStaysNewest
  <1> QED
    BY <1>4, <1>6, <1>7, <1>8 DEF IInv

LEMMA NextIInv == IInv /\ [Next]_vars => IInv'
  <1> SUFFICES ASSUME IInv, [Next]_vars PROVE IInv'
    OBVIOUS
  <1>1. CASE UNCHANGED vars
    <2>1. TypeOK' /\ ChainLinked'
      BY <1>1 DEF vars, IInv, TypeOK, ChainLinked
    <2>2. LockExclusive'
      BY <1>1 DEF vars, IInv, LockExclusive, InTransaction
    <2>3. \A m \in Mission : SeenNow(m)' = SeenNow(m)
      BY <1>1 DEF vars, SeenNow, NewestOf
    <2>4. ReadStaysNewest'
      BY <1>1, <2>3 DEF vars, IInv, ReadStaysNewest, TypeOK
    <2> QED
      BY <2>1, <2>2, <2>4 DEF IInv
  <1>2. ASSUME NEW c \in Call, Begin(c) PROVE IInv'
    <2>1. seen[c].index \in Nat /\ DOMAIN seen = Call
      BY DEF IInv, TypeOK
    <2>2. ~InTransaction(c)'
      BY <1>2 DEF Begin, Goto, InTransaction, IInv, TypeOK
    <2> QED
      BY <1>2, <2>1, <2>2, NoCommit, FaultBound DEF Begin, Goto
  <1>3. ASSUME NEW c \in Call, Lock(c) PROVE IInv'
    <2>1. seen[c].index \in Nat /\ DOMAIN seen = Call
      BY DEF IInv, TypeOK
    <2> QED
      BY <1>3, <2>1, NoCommit, FaultBound DEF Lock, Goto
  <1>4. ASSUME NEW c \in Call, ReadLast(c) PROVE IInv'
    <2>1. mission[c] \in Mission
      BY DEF IInv, TypeOK
    <2>2. /\ DOMAIN seen' = Call
          /\ seen'[c] = SeenNow(mission[c]) /\ \A d \in Call : d # c => seen'[d] = seen[d]
      BY <1>4 DEF ReadLast, IInv, TypeOK
    <2>3. SeenNow(mission[c]).index \in Nat
      BY <2>1, SeenTyped
    <2>4. InTransaction(c)
      BY <1>4 DEF ReadLast, Goto, InTransaction
    <2> QED
      BY <1>4, <2>2, <2>3, <2>4, NoCommit, FaultBound DEF ReadLast, Goto
  <1>5. ASSUME NEW c \in Call, Insert(c) PROVE IInv'
    <2>1. seen[c].index \in Nat /\ DOMAIN seen = Call
      BY DEF IInv, TypeOK
    <2>2. InTransaction(c) /\ seen[c] = SeenNow(mission[c])
      BY <1>5 DEF Insert, Goto, InTransaction, IInv, ReadStaysNewest
    <2>3. CASE IndexTaken(c)
      BY <1>5, <2>1, <2>2, <2>3, NoCommit, FaultBound DEF Insert, Goto
    <2>4. CASE ~IndexTaken(c)
      BY <1>5, <2>1, <2>2, <2>4, NoCommit, FaultBound DEF Insert, Goto
    <2> QED
      BY <2>3, <2>4
  <1>6. ASSUME NEW c \in Call, Commit(c) \/ CommitReplyLost(c) PROVE IInv'
    BY <1>6, CommitIInv, FaultBound DEF Commit, CommitReplyLost, Goto
  <1>7. ASSUME NEW c \in Call, Rollback(c) PROVE IInv'
    <2>1. seen[c].index \in Nat /\ DOMAIN seen = Call
      BY DEF IInv, TypeOK
    <2>2. ~InTransaction(c)'
      BY <1>7 DEF Rollback, InTransaction, IInv, TypeOK
    <2> QED
      BY <1>7, <2>1, <2>2, NoCommit, FaultBound DEF Rollback
  <1> QED
    BY <1>1, <1>2, <1>3, <1>4, <1>5, <1>6, <1>7 DEF Next, Advance

-----------------------------------------------------------------------------
(* Theorems *)

\* IInv holds in every reachable state.
THEOREM InductiveInvariant == Spec => []IInv
  BY InitIInv, NextIInv, PTL DEF Spec

\* Every variable keeps its type, whatever fails.
THEOREM TypeCorrect == Spec => []TypeOK
  <1>1. IInv => TypeOK
    BY DEF IInv
  <1> QED
    BY <1>1, InductiveInvariant, PTL

\* Chains never fork and never have a gap, whoever appends concurrently.
THEOREM ChainsLinked == Spec => []ChainLinked
  <1>1. IInv => ChainLinked
    BY DEF IInv
  <1> QED
    BY <1>1, InductiveInvariant, PTL

\* The newest event a transaction read is the newest event when it commits.
THEOREM NewestReadIsCurrent == Spec => []ReadStaysNewest
  <1>1. IInv => ReadStaysNewest
    BY DEF IInv
  <1> QED
    BY <1>1, InductiveInvariant, PTL

-----------------------------------------------------------------------------
(* Failures *)

Failed == {c \in Call : pc[c] = "failed"}

\* What is newest is what an insert builds on, so its index is free.
LEMMA IndexIsFree ==
  ASSUME IInv, NEW c \in Call, pc[c] = "read"
  PROVE  ~IndexTaken(c)
  <1> DEFINE m == mission[c]
             n == Len(table[m])
  <1>1. m \in Mission /\ seen[c] = SeenNow(m)
    BY DEF IInv, TypeOK, ReadStaysNewest
  <1>2. n \in Nat /\ seen[c].index = n
    BY <1>1, NewestIsLast
  <1>3. ASSUME NEW e \in ToSet(table[m]) PROVE e.chainIndex # n
    <2>0. table[m] \in Seq(ToSet(table[m]))
      BY <1>1 DEF IInv, TypeOK
    <2>1. PICK k \in 1..n : e = table[m][k]
      BY <2>0 DEF ToSet
    <2>2. e.chainIndex = k - 1
      BY <1>1, <2>1 DEF IInv, ChainLinked
    <2> QED
      BY <1>2, <2>2
  <1> QED
    BY <1>2, <1>3 DEF IndexTaken

\* A step that neither fails an append nor counts a fault, and one that does both.
LEMMA FailureStep ==
  ASSUME IInv, [Next]_vars
  PROVE  \/ Failed' = Failed /\ faults' = faults
         \/ \E c \in Call \ Failed : Failed' = Failed \cup {c} /\ faults' = faults + 1
  <1>1. CASE UNCHANGED vars
    BY <1>1 DEF vars, Failed
  <1>2. ASSUME NEW c \in Call, NEW to, to # "failed", pc[c] # "failed",
               pc' = [pc EXCEPT ![c] = to], faults' = faults
        PROVE  Failed' = Failed /\ faults' = faults
    BY <1>2 DEF Failed, IInv, TypeOK
  <1>3. ASSUME NEW c \in Call, Begin(c) \/ Lock(c) \/ ReadLast(c) \/ Commit(c)
        PROVE  Failed' = Failed /\ faults' = faults
    BY <1>2, <1>3 DEF Begin, Lock, ReadLast, Commit, Goto
  <1>4. ASSUME NEW c \in Call, Insert(c)
        PROVE  Failed' = Failed /\ faults' = faults
    <2>1. pc[c] = "read" /\ ~IndexTaken(c)
      BY <1>4, IndexIsFree DEF Insert, Goto
    <2> QED
      BY <1>2, <1>4, <2>1 DEF Insert, Goto
  <1>5. ASSUME NEW c \in Call, CommitReplyLost(c) \/ Rollback(c)
        PROVE  c \notin Failed /\ Failed' = Failed \cup {c} /\ faults' = faults + 1
    <2>1. pc[c] # "failed" /\ pc' = [pc EXCEPT ![c] = "failed"] /\ faults' = faults + 1
      BY <1>5 DEF CommitReplyLost, Rollback, InTransaction, Goto, Fault
    <2> QED
      BY <2>1 DEF Failed, IInv, TypeOK
  <1> QED
    BY <1>1, <1>3, <1>4, <1>5 DEF Next, Advance

\* No append fails because of another one: with any number of concurrent
\* appends, whatever the lock keys, only faults make appends fail.
THEOREM AppendsFailOnlyByFaults == Spec => []FailuresAreFaults
  <1> DEFINE Counted == IsFiniteSet(Failed) /\ Cardinality(Failed) = faults
  <1>1. Init => Counted
    <2>1. Init => Failed = {}
      BY DEF Init, Failed
    <2> QED
      BY <2>1, FS_EmptySet DEF Init
  <1>2. IInv /\ Counted /\ [Next]_vars => Counted'
    <2> SUFFICES ASSUME IInv, Counted, [Next]_vars PROVE Counted'
      OBVIOUS
    <2>1. CASE Failed' = Failed /\ faults' = faults
      BY <2>1
    <2>2. ASSUME NEW c \in Call \ Failed, Failed' = Failed \cup {c}, faults' = faults + 1
          PROVE  Counted'
      BY <2>2, FS_AddElement
    <2> QED
      BY <2>1, <2>2, FailureStep
  <1>3. Counted => FailuresAreFaults
    BY DEF FailuresAreFaults, Failed
  <1> HIDE DEF Counted
  <1> QED
    BY <1>1, <1>2, <1>3, InductiveInvariant, PTL DEF Spec

-----------------------------------------------------------------------------
(* Verification of what was persisted *)

EventFields == {"id", "missionId", "chainIndex", "lensResults", "previousHash", "payloadHash", "eventHash"}

\* The hash of an event with other lensResults.
PayloadHashWith(e, l) == HashValue(<<e.id, e.missionId, e.chainIndex, l, e.previousHash>>)

\* Each row is the event its call built: it holds the hashes of what the caller
\* passed, which only lensResults may differ from.
Authentic(m, e) ==
  /\ DOMAIN e = EventFields
  /\ e.missionId = m
  /\ e.lensResults = StoredLens(lens[e.id])
  /\ e.payloadHash = PayloadHashWith(e, lens[e.id])
  /\ e.eventHash = EventHash(PayloadHashWith(e, lens[e.id]), e.previousHash)

RowsAuthentic == \A m \in Mission : \A k \in 1..Len(table[m]) : Authentic(m, table[m][k])

LEMMA AuthenticStep ==
  ASSUME IInv, RowsAuthentic, [Next]_vars
  PROVE  RowsAuthentic'
  <1>0. lens' = lens
    BY DEF Next, Advance, Begin, Lock, ReadLast, Insert, Commit, CommitReplyLost, Rollback, vars
  <1>1. ASSUME NEW c \in Call, pc[c] = "inserted", CommitRow(c) PROVE RowsAuthentic'
    <2> DEFINE m == mission[c]
               n == Len(table[m])
               e == StoredEvent(BuildEvidenceEvent(c))
    <2>1. /\ m \in Mission /\ n \in Nat
          /\ \A q \in Mission \ {m} : table'[q] = table[q]
          /\ Len(table'[m]) = n + 1
          /\ \A k \in 1..n : table'[m][k] = table[m][k]
          /\ table'[m][n + 1] = e
      BY <1>1, CommitLinks
    <2>2. Authentic(m, e)
      BY DEF Authentic, StoredEvent, BuildEvidenceEvent, PayloadHashWith, EventFields
    <2> HIDE DEF m, n, e
    <2> SUFFICES ASSUME NEW q \in Mission, NEW k \in 1..Len(table'[q])
                 PROVE  Authentic(q, table'[q][k])
      BY <1>0 DEF RowsAuthentic, Authentic, PayloadHashWith, EventHash
    <2>3. CASE q # m
      BY <2>1, <2>3 DEF RowsAuthentic
    <2>4. CASE q = m /\ k = n + 1
      BY <2>1, <2>2, <2>4
    <2>5. CASE q = m /\ k \in 1..n
      BY <2>1, <2>5 DEF RowsAuthentic, n
    <2> QED
      BY <2>1, <2>3, <2>4, <2>5
  <1>2. CASE UNCHANGED table
    BY <1>0, <1>2 DEF RowsAuthentic, Authentic, PayloadHashWith, EventHash
  <1> QED
    BY <1>1, <1>2 DEF Next, Advance, Begin, Lock, ReadLast, Insert, Commit,
       CommitReplyLost, Rollback, Goto, vars

\* Every row of every reachable state is authentic.
LEMMA AlwaysAuthentic == Spec => []RowsAuthentic
  <1>1. Init => RowsAuthentic
    BY DEF Init, RowsAuthentic
  <1>2. IInv /\ RowsAuthentic /\ [Next]_vars => RowsAuthentic'
    BY AuthenticStep
  <1> QED BY <1>1, <1>2, InductiveInvariant, PTL DEF Spec

\* What is reported of a stored chain: never the place or the link of an event,
\* and the hashes only of events whose caller left lensResults undefined.
LEMMA ReportOfStored ==
  ASSUME IInv, RowsAuthentic, NEW m \in Mission, NEW error \in ChainErrors(table[m])
  PROVE  /\ error[1] \in 1..Len(table[m])
         /\ lens[table[m][error[1]].id] = "undefined"
         /\ error[2] \in {"payloadHash", "eventHash"}
  <1> DEFINE k == error[1]
             e == table[m][k]
             previousHash == IF k = 1 THEN NoHash ELSE table[m][k - 1].eventHash
  <1>1. k \in 1..Len(table[m]) /\ error[2] \in Check /\ Mismatch(table[m], k, error[2])
    BY DEF ChainErrors
  <1>2. Authentic(m, e)
    BY <1>1 DEF RowsAuthentic
  <1>3. table[m][1].missionId = m
    <2>1. Len(table[m]) \in Nat
      BY NewestIsLast
    <2>2. 1 \in 1..Len(table[m])
      BY <1>1, <2>1
    <2> QED BY <2>2 DEF RowsAuthentic, Authentic
  <1>4. e.chainIndex = k - 1 /\ e.previousHash = previousHash
    BY <1>1 DEF IInv, ChainLinked
  <1>5. error[2] \in {"payloadHash", "eventHash"}
    BY <1>1, <1>2, <1>3, <1>4 DEF Mismatch, Check, Authentic
  <1>6. ASSUME lens[e.id] # "undefined" PROVE FALSE
    <2>1. e.lensResults = lens[e.id]
      BY <1>2, <1>6 DEF Authentic, StoredLens
    <2>2. PayloadHash(e) = PayloadHashWith(e, lens[e.id])
      BY <2>1 DEF PayloadHash, Payload, PayloadHashWith
    <2>3. e.payloadHash = PayloadHash(e) /\ e.eventHash = EventHash(PayloadHash(e), previousHash)
      BY <1>2, <1>4, <2>2 DEF Authentic
    <2> QED BY <1>1, <1>5, <2>3 DEF Mismatch
  <1> QED BY <1>1, <1>5, <1>6

\* Whatever callers pass and whatever the hash function, what the database
\* returns is reported only where lensResults were left undefined.
THEOREM PersistedEventsVerify == Spec => []OnlyUndefinedReported
  <1>1. IInv /\ RowsAuthentic => OnlyUndefinedReported
    BY ReportOfStored DEF OnlyUndefinedReported
  <1> QED BY <1>1, AlwaysAuthentic, InductiveInvariant, PTL

-----------------------------------------------------------------------------
(* Tampering *)

LEMMA Smallest ==
  ASSUME NEW T \in SUBSET Nat, T # {}
  PROVE  \E n \in T : \A k \in T : n <= k
  <1> DEFINE R == {ss \in Nat \X Nat : ss[1] < ss[2]}
  <1>1. IsWellFoundedOn(R, Nat)
    BY NatLessThanWellFounded DEF OpToRel
  <1>2. PICK n \in T : \A k \in T : ~(<<k, n>> \in R)
    BY <1>1, WFMin
  <1>3. ASSUME NEW k \in T PROVE n <= k
    <2>1. k \in Nat /\ n \in Nat
      OBVIOUS
    <2>2. ~(k < n)
      BY <1>2, <2>1
    <2> QED BY <2>1, <2>2
  <1> QED BY <1>3

\* A strictly increasing map of 1..n to itself moves nothing.
LEMMA AscendingIsIdentity ==
  ASSUME NEW n \in Nat, NEW p \in [1..n -> 1..n], \A i, j \in 1..n : i < j => p[i] < p[j]
  PROVE  \A i \in 1..n : p[i] = i
  <1>1. \A i \in 1..n : p[i] >= i
    <2> DEFINE T == {i \in 1..n : p[i] < i}
    <2> SUFFICES ASSUME T # {} PROVE FALSE
      OBVIOUS
    <2>1. PICK i \in T : \A k \in T : i <= k
      <3>1. T \in SUBSET Nat
        OBVIOUS
      <3> HIDE DEF T
      <3> QED BY <3>1, Smallest
    <2>2. i \in 1..n /\ p[i] \in 1..n /\ p[i] < i
      OBVIOUS
    <2>3. i - 1 \in 1..n /\ i - 1 \notin T
      BY <2>1, <2>2
    <2>4. p[i - 1] \in 1..n /\ p[i - 1] >= i - 1 /\ p[i - 1] < p[i]
      BY <2>2, <2>3
    <2> QED BY <2>2, <2>3, <2>4
  <1>2. \A i \in 1..n : p[i] <= i
    <2> DEFINE T == {i \in 1..n : p[i] > i}
               U == {n - i : i \in T}
    <2> SUFFICES ASSUME T # {} PROVE FALSE
      OBVIOUS
    <2>1. U \in SUBSET Nat /\ U # {}
      OBVIOUS
    <2>2. PICK u \in U : \A k \in U : u <= k
      BY <2>1, Smallest
    <2>3. PICK i \in T : u = n - i
      OBVIOUS
    <2>4. i \in 1..n /\ p[i] \in 1..n /\ p[i] > i
      OBVIOUS
    <2>5. i + 1 \in 1..n
      BY <2>4
    <2>6. i + 1 \notin T
      <3>1. ASSUME i + 1 \in T PROVE FALSE
        <4>1. n - (i + 1) \in U
          BY <3>1
        <4>2. n - i <= n - (i + 1)
          BY <2>2, <2>3, <4>1
        <4> QED BY <2>4, <4>2
      <3> QED BY <3>1
    <2>7. p[i + 1] \in 1..n /\ p[i + 1] <= i + 1 /\ p[i] < p[i + 1]
      BY <2>4, <2>5, <2>6
    <2> QED BY <2>4, <2>5, <2>7
  <1> QED BY <1>1, <1>2

\* In a linked chain the order of the indexes is the order of the commits.
LEMMA ListedInOrder ==
  ASSUME IInv, NEW m \in Mission
  PROVE  ListEvents(m) = table[m]
  <1> DEFINE s == table[m]
             n == Len(s)
             Ascending(t) == \A i, j \in DOMAIN t : i < j => t[i].chainIndex < t[j].chainIndex
  <1>1. s \in Seq(ToSet(s)) /\ n \in Nat /\ DOMAIN s = 1..n
    BY DEF IInv, TypeOK
  <1>2. \A k \in 1..n : s[k].chainIndex = k - 1
    BY DEF IInv, ChainLinked
  <1>3. s \in [1..n -> ToSet(s)] /\ Ascending(s)
    BY <1>1, <1>2
  <1>4. ASSUME NEW t \in [1..n -> ToSet(s)], Ascending(t) PROVE t = s
    <2>1. \A i \in 1..n : \E k \in 1..n : t[i] = s[k]
      BY <1>1 DEF ToSet
    <2> DEFINE p == [i \in 1..n |-> t[i].chainIndex + 1]
    <2>2. \A i \in 1..n : p[i] \in 1..n /\ t[i] = s[p[i]]
      <3> SUFFICES ASSUME NEW i \in 1..n PROVE p[i] \in 1..n /\ t[i] = s[p[i]]
        OBVIOUS
      <3>1. PICK k \in 1..n : t[i] = s[k]
        BY <2>1
      <3>2. t[i].chainIndex = k - 1
        BY <1>2, <3>1
      <3>3. p[i] = k
        BY <1>1, <3>2
      <3> QED BY <3>1, <3>3
    <2>3. \A i, j \in 1..n : i < j => p[i] < p[j]
      <3> SUFFICES ASSUME NEW i \in 1..n, NEW j \in 1..n, i < j PROVE p[i] < p[j]
        OBVIOUS
      <3>1. t[i].chainIndex < t[j].chainIndex
        BY <1>4
      <3>2. s[p[i]].chainIndex = p[i] - 1 /\ s[p[j]].chainIndex = p[j] - 1
        BY <1>2, <2>2
      <3> HIDE DEF p
      <3>3. p[i] \in Int /\ p[j] \in Int /\ t[i] = s[p[i]] /\ t[j] = s[p[j]]
        BY <1>1, <2>2
      <3> QED BY <3>1, <3>2, <3>3
    <2>4. p \in [1..n -> 1..n]
      BY <2>2
    <2> HIDE DEF p
    <2>5. \A i \in 1..n : p[i] = i
      BY <1>1, <2>3, <2>4, AscendingIsIdentity
    <2> QED BY <1>1, <1>3, <2>2, <2>5
  <1>5. ListEvents(m) = CHOOSE t \in [1..n -> ToSet(s)] : Ascending(t)
    BY DEF ListEvents
  <1> HIDE DEF s, n, Ascending
  <1>6. (CHOOSE t \in [1..n -> ToSet(s)] : Ascending(t)) = s
    BY <1>3, <1>4
  <1> QED BY <1>5, <1>6 DEF s

\* An altered chain in which a place or a link is wrong is reported anew.
LEMMA MisplacedIsReported ==
  ASSUME IInv, RowsAuthentic, NEW m \in Mission, NEW events, NEW k \in 1..Len(events),
         \/ events[k].chainIndex # k - 1
         \/ events[k].previousHash # IF k = 1 THEN NoHash ELSE events[k - 1].eventHash
  PROVE  ~(ChainErrors(events) \subseteq ChainErrors(table[m]))
  <1>1. <<k, "chainIndex">> \in ChainErrors(events) \/ <<k, "previousHash">> \in ChainErrors(events)
    BY DEF ChainErrors, Mismatch, Check
  <1>2. \A error \in ChainErrors(table[m]) : error[2] \in {"payloadHash", "eventHash"}
    BY ReportOfStored
  <1> QED BY <1>1, <1>2

\* A rewritten event has another payload hash, and recomputed another hash of
\* its own.
LEMMA RewrittenHash ==
  ASSUME \A a, b : HashValue(a) = HashValue(b) => a = b,
         NEW m \in Mission, NEW e, Authentic(m, e), NEW l \in OtherLens(e)
  PROVE  /\ Rewritten(e, l).payloadHash = e.payloadHash
         /\ PayloadHash(Rewritten(e, l)) # PayloadHash(e)
         /\ Rehashed(Rewritten(e, l)).eventHash # e.eventHash
  <1> DEFINE r == Rewritten(e, l)
  <1>1. /\ DOMAIN r = EventFields /\ r.lensResults = l
        /\ r.payloadHash = e.payloadHash /\ r.previousHash = e.previousHash
        /\ r.id = e.id /\ r.missionId = e.missionId /\ r.chainIndex = e.chainIndex
    BY DEF Rewritten, EventFields, Authentic
  <1>2. PayloadHash(r) = PayloadHashWith(e, l) /\ PayloadHash(e) = PayloadHashWith(e, e.lensResults)
    BY <1>1 DEF PayloadHash, Payload, PayloadHashWith
  <1>3. l # e.lensResults /\ l # lens[e.id]
    BY DEF OtherLens
  <1>4. \A x : l # x => PayloadHashWith(e, l) # PayloadHashWith(e, x)
    <2> SUFFICES ASSUME NEW x, l # x PROVE PayloadHashWith(e, l) # PayloadHashWith(e, x)
      OBVIOUS
    <2>1. <<e.id, e.missionId, e.chainIndex, l, e.previousHash>> # <<e.id, e.missionId, e.chainIndex, x, e.previousHash>>
      OBVIOUS
    <2> QED BY <2>1 DEF PayloadHashWith
  <1>5. PayloadHash(r) # PayloadHash(e) /\ PayloadHash(r) # PayloadHashWith(e, lens[e.id])
    BY <1>2, <1>3, <1>4
  <1> HIDE DEF r
  <1>6. Rehashed(r).eventHash = EventHash(PayloadHash(r), e.previousHash)
    BY <1>1 DEF Rehashed, EventFields
  <1>7. EventHash(PayloadHash(r), e.previousHash) # EventHash(PayloadHashWith(e, lens[e.id]), e.previousHash)
    <2>1. <<PayloadHash(r), e.previousHash>> # <<PayloadHashWith(e, lens[e.id]), e.previousHash>>
      BY <1>5
    <2> QED BY <2>1 DEF EventHash
  <1>8. Rehashed(r).eventHash # e.eventHash
    BY <1>6, <1>7 DEF Authentic
  <1> QED BY <1>1, <1>5, <1>8 DEF r

\* If no two values have the same hash, what was dropped, moved or rewritten is
\* reported anew, whoever appended and whatever lensResults they passed
\* (verifyEvidenceChain).
THEOREM AlterationsAreDetected ==
  ASSUME \A a, b : HashValue(a) = HashValue(b) => a = b
  PROVE  Spec => []AlterationDetected
  <1>1. IInv /\ RowsAuthentic => AlterationDetected
    <2> SUFFICES ASSUME IInv, RowsAuthentic, NEW m \in Mission, NEW altered \in Alterations(table[m])
                 PROVE  ~(ChainErrors(altered) \subseteq ChainErrors(table[m]))
      BY ListedInOrder DEF AlterationDetected
    <2> DEFINE s == table[m]
               n == Len(s)
               earlier == 1..(n - 1)
               Noticed == ~(ChainErrors(altered) \subseteq ChainErrors(table[m]))
    <2>1. s \in Seq(ToSet(s)) /\ n \in Nat /\ DOMAIN s = 1..n
      BY DEF IInv, TypeOK
    <2>2. \A k \in 1..n : s[k].chainIndex = k - 1 /\ Authentic(m, s[k])
      BY DEF IInv, ChainLinked, RowsAuthentic
    <2>3. \A k \in earlier : s[k + 1].previousHash = s[k].eventHash
      <3> SUFFICES ASSUME NEW k \in earlier PROVE s[k + 1].previousHash = s[k].eventHash
        OBVIOUS
      <3>1. k + 1 \in 1..n /\ k + 1 # 1 /\ (k + 1) - 1 = k
        BY <2>1
      <3> QED BY <3>1 DEF IInv, ChainLinked
    <2>4. altered \in Alterations(s)
      OBVIOUS
    <2>5. \A k \in Unreported(s) : k \in 1..n /\ \A error \in ChainErrors(table[m]) : error[1] # k
      BY DEF Unreported
    <2> HIDE DEF s, Noticed
    <2>6. \/ \E k \in earlier : altered = RemoveAt(s, k)
          \/ \E k \in earlier : altered = Swapped(s, k)
          \/ \E k \in Unreported(s) : altered \in RewrittenAt(s, k)
          \/ \E k \in earlier : altered \in RehashedAt(s, k)
      BY <2>4 DEF Alterations, n
    <2> HIDE DEF n
    <2>7. ASSUME NEW k \in earlier, altered = RemoveAt(s, k) PROVE Noticed
      <3>1. k \in 1..n /\ k + 1 \in 1..n
        BY <2>1
      <3>2. /\ SubSeq(s, 1, k - 1) \in Seq(ToSet(s)) /\ Len(SubSeq(s, 1, k - 1)) = k - 1
            /\ SubSeq(s, k + 1, n) \in Seq(ToSet(s)) /\ Len(SubSeq(s, k + 1, n)) = n - k
            /\ SubSeq(s, k + 1, n)[1] = s[k + 1]
        BY <2>1, <3>1
      <3>3. k \in 1..Len(altered) /\ altered[k] = s[k + 1]
        BY <2>1, <2>7, <3>1, <3>2 DEF RemoveAt, n
      <3>4. s[k + 1].chainIndex = k
        BY <2>2, <3>1
      <3>5. altered[k].chainIndex # k - 1
        BY <3>1, <3>3, <3>4
      <3> QED BY <3>3, <3>5, MisplacedIsReported DEF Noticed
    <2>8. ASSUME NEW k \in earlier, altered = Swapped(s, k) PROVE Noticed
      <3>1. k \in 1..n /\ k + 1 \in 1..n
        BY <2>1
      <3>2. k \in 1..Len(altered) /\ altered[k] = s[k + 1]
        BY <2>1, <2>8, <3>1 DEF Swapped
      <3>3. s[k + 1].chainIndex = k
        BY <2>2, <3>1
      <3>4. altered[k].chainIndex # k - 1
        BY <3>1, <3>2, <3>3
      <3> QED BY <3>2, <3>4, MisplacedIsReported DEF Noticed
    <2>9. ASSUME NEW k \in Unreported(s), altered \in RewrittenAt(s, k) PROVE Noticed
      <3>1. PICK l \in OtherLens(s[k]) : altered = ReplaceAt(s, k, Rewritten(s[k], l))
        BY <2>9 DEF RewrittenAt
      <3>2. k \in 1..n
        BY <2>5
      <3>3. k \in 1..Len(altered) /\ altered[k] = Rewritten(s[k], l)
        BY <2>1, <3>1, <3>2 DEF ReplaceAt
      <3>4. <<k, "payloadHash">> \notin ChainErrors(s)
        BY <2>5 DEF s
      <3>5. s[k].payloadHash = PayloadHash(s[k])
        BY <2>1, <3>2, <3>4 DEF ChainErrors, Mismatch, Check, n
      <3>6. altered[k].payloadHash # PayloadHash(altered[k])
        BY <2>2, <3>2, <3>3, <3>5, RewrittenHash
      <3>7. <<k, "payloadHash">> \in ChainErrors(altered)
        BY <3>3, <3>6 DEF ChainErrors, Mismatch, Check
      <3> QED BY <3>4, <3>7 DEF Noticed, s
    <2>10. ASSUME NEW k \in earlier, altered \in RehashedAt(s, k) PROVE Noticed
      <3>1. PICK l \in OtherLens(s[k]) : altered = ReplaceAt(s, k, Rehashed(Rewritten(s[k], l)))
        BY <2>10 DEF RehashedAt
      <3>2. k \in 1..n /\ k + 1 \in 1..n /\ k + 1 # k /\ k + 1 # 1 /\ (k + 1) - 1 = k
        BY <2>1
      <3>3. k + 1 \in 1..Len(altered) /\ altered[k] = Rehashed(Rewritten(s[k], l)) /\ altered[k + 1] = s[k + 1]
        BY <2>1, <3>1, <3>2 DEF ReplaceAt
      <3>4. altered[k].eventHash # s[k].eventHash
        BY <2>2, <3>2, <3>3, RewrittenHash
      <3>5. altered[k + 1].previousHash # altered[k].eventHash
        BY <2>3, <3>3, <3>4
      <3>6. altered[k + 1].previousHash # IF k + 1 = 1 THEN NoHash ELSE altered[(k + 1) - 1].eventHash
        BY <3>2, <3>5
      <3> QED BY <3>3, <3>6, MisplacedIsReported DEF Noticed
    <2> QED BY <2>6, <2>7, <2>8, <2>9, <2>10 DEF Noticed
  <1> QED BY <1>1, AlwaysAuthentic, InductiveInvariant, PTL

-----------------------------------------------------------------------------
(* Refinement of EvidenceLog *)

chains == [m \in Mission |-> [k \in 1..Len(table[m]) |-> table[m][k].id]]
outcomes == [c \in Call |-> IF pc[c] \in {"returned", "failed"} THEN pc[c] ELSE "none"]

LEMMA CommitRefines ==
  ASSUME IInv, NEW c \in Call, Commit(c) \/ CommitReplyLost(c)
  PROVE  Log!Next
  <1>1. pc[c] = "inserted" /\ CommitRow(c)
    BY DEF Commit, CommitReplyLost, Goto
  <1>2. PICK m \in Mission : m = mission[c]
    BY DEF IInv, TypeOK
  <1>3. PICK n \in Nat : n = Len(table[m])
    BY <1>2, NewestIsLast
  <1>4. /\ \A q \in Mission \ {m} : table'[q] = table[q]
        /\ Len(table'[m]) = n + 1
        /\ \A k \in 1..n : table'[m][k] = table[m][k]
        /\ table'[m][n + 1].id = c
    <2>1. StoredEvent(BuildEvidenceEvent(c)).id = c
      BY DEF StoredEvent, BuildEvidenceEvent
    <2> QED
      BY <1>1, <1>2, <1>3, <2>1, CommitLinks
  <1>5. chains' = [chains EXCEPT ![m] = Append(@, c)]
    <2>1. chains[m] = [k \in 1..n |-> table[m][k].id] /\ chains[m] \in Seq({chains[m][k] : k \in 1..n})
      BY <1>3 DEF chains
    <2>2. Append(chains[m], c) = [k \in 1..(n + 1) |-> IF k = n + 1 THEN c ELSE table[m][k].id]
      <3>1. Len(chains[m]) = n
        BY <1>3, <2>1
      <3> QED
        BY SMTT(30), <1>3, <2>1, <3>1
    <2>3. chains'[m] = [k \in 1..(n + 1) |-> table'[m][k].id]
      BY <1>4 DEF chains
    <2>4. chains'[m] = Append(chains[m], c)
      BY <1>4, <2>2, <2>3
    <2>5. \A q \in Mission \ {m} : chains'[q] = chains[q]
      BY <1>4 DEF chains
    <2> QED
      BY <2>4, <2>5 DEF chains
  <1>6. outcomes[c] = "none" /\ \E o \in {"returned", "failed"} : outcomes' = [outcomes EXCEPT ![c] = o]
    <2>1. PICK o \in {"returned", "failed"} : pc' = [pc EXCEPT ![c] = o]
      BY DEF Commit, CommitReplyLost, Goto
    <2>2. outcomes' = [outcomes EXCEPT ![c] = o]
      BY <1>1, <2>1 DEF outcomes, IInv, TypeOK
    <2> QED
      BY <1>1, <2>2 DEF outcomes
  <1>7. Log!Appended(c, m) \/ Log!AppendedUnheard(c, m)
    BY <1>5, <1>6 DEF Log!Appended, Log!AppendedUnheard, Log!Extend, Log!Tell, chains, outcomes
  <1> QED
    BY <1>2, <1>7 DEF Log!Next

LEMMA StepRefines ==
  ASSUME IInv, [Next]_vars
  PROVE  [Log!Next]_(Log!logVars)
  <1> SUFFICES Log!Next \/ UNCHANGED <<chains, outcomes>>
    BY DEF Log!logVars, chains, outcomes
  <1>1. CASE UNCHANGED vars
    BY <1>1 DEF vars, chains, outcomes
  <1>2. ASSUME NEW c \in Call, Commit(c) \/ CommitReplyLost(c) PROVE Log!Next
    BY <1>2, CommitRefines
  <1>3. ASSUME NEW c \in Call, NEW to,
               pc' = [pc EXCEPT ![c] = to], UNCHANGED table,
               pc[c] \notin {"returned", "failed"},
               to \notin {"returned"}
        PROVE  Log!Next \/ UNCHANGED <<chains, outcomes>>
    <2>1. UNCHANGED chains
      BY <1>3 DEF chains
    <2>2. CASE to = "failed"
      <3>1. outcomes[c] = "none" /\ outcomes' = [outcomes EXCEPT ![c] = "failed"]
        BY <1>3, <2>2 DEF outcomes, IInv, TypeOK
      <3>2. Log!Failed(c)
        BY <2>1, <3>1 DEF Log!Failed, Log!Tell, chains, outcomes
      <3> QED
        BY <3>2 DEF Log!Next
    <2>3. CASE to # "failed"
      BY <1>3, <2>1, <2>3 DEF outcomes, IInv, TypeOK
    <2> QED
      BY <2>2, <2>3
  <1>4. ASSUME NEW c \in Call, Begin(c) \/ Lock(c) \/ ReadLast(c) \/ Insert(c) \/ Rollback(c)
        PROVE  Log!Next \/ UNCHANGED <<chains, outcomes>>
    <2>1. PICK to \in {"waiting", "locked", "read", "inserted", "failed"} :
            pc' = [pc EXCEPT ![c] = to]
      BY <1>4 DEF Begin, Lock, ReadLast, Insert, Rollback, Goto
    <2>2. UNCHANGED table /\ pc[c] \notin {"returned", "failed"}
      BY <1>4 DEF Begin, Lock, ReadLast, Insert, Rollback, Goto, InTransaction
    <2> QED
      BY <1>3, <2>1, <2>2
  <1> QED
    BY <1>1, <1>2, <1>4 DEF Next, Advance

\* The ledger implements the append-only log, for every constants.
THEOREM LedgerImplementsLog == Spec => ImplementsLog
  <1>1. Init => Log!Init
    BY DEF Init, Log!Init
  <1>2. IInv /\ [Next]_vars => [Log!Next]_(Log!logVars)
    BY StepRefines
  <1> QED
    BY <1>1, <1>2, InductiveInvariant, PTL DEF Spec, ImplementsLog, Log!Spec
=============================================================================
