----------------------- MODULE SourceIngestionProofs -----------------------
(***************************************************************************)
(* Theorems about SourceIngestion, for every set of sources, reports and   *)
(* executions, every listing and any number of failures and deaths.        *)
(***************************************************************************)
EXTENDS SourceIngestion, FiniteSetTheorems, WellFoundedInduction, SequenceTheorems, TLAPS

-----------------------------------------------------------------------------
(* The records of the runs *)

\* The library's induction theorems take an operator; this one takes a set.
LEMMA Smallest ==
  ASSUME NEW T \in SUBSET Nat, T # {}
  PROVE  \E n \in T : \A m \in T : n <= m
  <1> DEFINE R == {ss \in Nat \X Nat : ss[1] < ss[2]}
  <1>1. IsWellFoundedOn(R, Nat)
    BY NatLessThanWellFounded DEF OpToRel
  <1>2. PICK n \in T : \A m \in T : ~(<<m, n>> \in R)
    BY <1>1, WFMin
  <1>3. ASSUME NEW m \in T
        PROVE  n <= m
    <2>1. m \in Nat /\ n \in Nat
      OBVIOUS
    <2>2. ~(m < n)
      BY <1>2, <2>1
    <2> QED
      BY <2>1, <2>2
  <1> QED BY <1>3

\* The recursive function of FlattenSeq exists.
LEMMA FlattenDefined ==
  ASSUME NEW seqs, NEW n \in Nat \ {0}
  PROVE  \E g : g = [i \in 1..n |-> IF i = 1 THEN seqs[i] ELSE g[i - 1] \o seqs[i]]
  <1> DEFINE T == {k \in Nat \ {0} : ~\E g : g = [i \in 1..k |-> IF i = 1 THEN seqs[i] ELSE g[i - 1] \o seqs[i]]}
  <1> SUFFICES ASSUME T # {} PROVE FALSE
    OBVIOUS
  <1>1. PICK k \in T : \A m \in T : k <= m
    BY Smallest
  <1>k. k \in Nat \ {0} /\ ~\E g : g = [i \in 1..k |-> IF i = 1 THEN seqs[i] ELSE g[i - 1] \o seqs[i]]
    OBVIOUS
  <1>2. CASE k = 1
    <2> DEFINE g == [i \in 1..1 |-> seqs[i]]
    <2>1. g = [i \in 1..1 |-> IF i = 1 THEN seqs[i] ELSE g[i - 1] \o seqs[i]]
      OBVIOUS
    <2> QED BY <2>1, <1>2
  <1>3. CASE k # 1
    <2>1. k - 1 \in Nat \ {0} /\ k - 1 \notin T
      <3> HIDE DEF T
      <3>1. k - 1 \in Nat \ {0} /\ ~(k <= k - 1)
        BY <1>k, <1>3
      <3> QED BY <3>1, <1>1
    <2>2. PICK g : g = [i \in 1..k-1 |-> IF i = 1 THEN seqs[i] ELSE g[i - 1] \o seqs[i]]
      BY <2>1
    <2> DEFINE h == [i \in 1..k |-> IF i = k THEN g[k - 1] \o seqs[k] ELSE g[i]]
    <2>3. ASSUME NEW i \in 1..k
          PROVE  h[i] = IF i = 1 THEN seqs[i] ELSE h[i - 1] \o seqs[i]
      <3>1. CASE i = k
        <4>1. k \in 1..k /\ k - 1 \in 1..k /\ k - 1 # k
          BY <1>k, <1>3
        <4>2. h[k] = g[k - 1] \o seqs[k] /\ h[k - 1] = g[k - 1]
          BY <4>1
        <4> HIDE DEF h
        <4> QED BY <4>2, <3>1, <1>3
      <3>2. CASE i # k /\ i = 1
        <4>1. g[1] = seqs[1]
          BY <2>1, <2>2
        <4> QED BY <3>2, <4>1
      <3>3. CASE i # k /\ i # 1
        <4>1. i \in 1..k-1 /\ i - 1 \in 1..k-1
          BY <3>3
        <4>2. g[i] = g[i - 1] \o seqs[i]
          BY <4>1, <2>2, <3>3
        <4>3. h[i] = g[i] /\ h[i - 1] = g[i - 1]
          BY <3>3, <4>1
        <4> QED BY <3>3, <4>3, <4>2
      <3> HIDE DEF h
      <3> QED BY <3>1, <3>2, <3>3
    <2>4. h = [i \in 1..k |-> IF i = 1 THEN seqs[i] ELSE h[i - 1] \o seqs[i]]
      BY <2>3
    <2> QED BY <2>4, <1>k
  <1> QED BY <1>2, <1>3

\* Flattening sequences over P gives a sequence over P.
LEMMA FlattenRange ==
  ASSUME NEW P, NEW seqs \in Seq(Seq(P))
  PROVE  FlattenSeq(seqs) \in Seq(P)
  <1> DEFINE n == Len(seqs)
             F(g) == g = [i \in 1..n |-> IF i = 1 THEN seqs[i] ELSE g[i - 1] \o seqs[i]]
             flatten == CHOOSE g : F(g)
  <1>1. CASE n = 0
    <2>1. seqs = << >>
      BY <1>1
    <2> QED BY <1>1, <2>1 DEF FlattenSeq
  <1>2. CASE n # 0
    <2>1. n \in Nat \ {0} BY <1>2
    <2>2. \E g : F(g)
      BY <2>1, FlattenDefined
    <2>3. F(flatten)
      BY <2>2, Zenon
    <2> HIDE DEF flatten
    <2> DEFINE T == {k \in 1..n : flatten[k] \notin Seq(P)}
    <2>4. T = {}
      <3> SUFFICES ASSUME T # {} PROVE FALSE
        OBVIOUS
      <3>0. T \in SUBSET Nat
        BY <2>1
      <3>1. PICK k \in T : \A m \in T : k <= m
        <4> HIDE DEF T
        <4> QED BY Smallest, <3>0
      <3>k. k \in 1..n /\ k \in Nat /\ n \in Nat
        BY <2>1
      <3>6. flatten[k] \notin Seq(P)
        OBVIOUS
      <3>2. seqs[k] \in Seq(P)
        OBVIOUS
      <3>3. flatten[k] = IF k = 1 THEN seqs[k] ELSE flatten[k - 1] \o seqs[k]
        BY <2>3
      <3>4. CASE k = 1
        BY <3>2, <3>3, <3>4
      <3>5. CASE k # 1
        <4>1. k - 1 \in 1..n /\ k - 1 \notin T
          <5> HIDE DEF T
          <5>1. k - 1 \in 1..n /\ ~(k <= k - 1)
            BY <3>k, <3>5
          <5> QED BY <5>1, <3>1
        <4>2. flatten[k - 1] \in Seq(P)
          BY <4>1
        <4>3. flatten[k] = flatten[k - 1] \o seqs[k]
          BY <3>3, <3>5
        <4> HIDE DEF T
        <4> QED BY <4>2, <4>3, <3>2, <3>6
      <3> HIDE DEF T
      <3> QED BY <3>4, <3>5, <3>6
    <2>5. FlattenSeq(seqs) = flatten[n]
      BY <1>2, Zenon DEF FlattenSeq, flatten
    <2>6. n \in 1..n
      BY <2>1
    <2> QED BY <2>4, <2>5, <2>6
  <1> QED BY <1>1, <1>2

Completed(sources, results) ==
  {n \in Node : \E i \in DOMAIN sources : sources[i] = n[1] /\ results[i].status = "completed"}

\* Every record of the runs comes from a source whose run is completed.
LEMMA RecordsOfCompleted ==
  ASSUME NEW sources \in Seq(Source), NEW results \in Results(sources)
  PROVE  Records(sources, results) \in Seq(Completed(sources, results))
  <1> DEFINE P == Completed(sources, results)
             lists == [i \in DOMAIN sources |-> [j \in DOMAIN results[i].list |-> <<sources[i], results[i].list[j]>>]]
  <1>1. ASSUME NEW i \in DOMAIN sources
        PROVE  lists[i] \in Seq(P)
    <2>1. sources[i] \in Source
      OBVIOUS
    <2>2. results[i] \in Result(sources[i])
      BY DEF Results
    <2>3. results[i].list \in Seq(Report) /\ (results[i].list # <<>> => results[i].status = "completed")
      <3>1. Listing[sources[i]] \subseteq Seq(Report)
        BY <2>1, SourceIngestionAssumption DEF SourceIngestionAssumption
      <3>2. <<>> \in Seq(Report)
        OBVIOUS
      <3> QED
        BY <2>2, <3>1, <3>2 DEF Result
    <2>4. ASSUME NEW j \in DOMAIN results[i].list
          PROVE  <<sources[i], results[i].list[j]>> \in P
      <3>1. results[i].list # <<>> /\ results[i].list[j] \in Report
        BY <2>3
      <3>2. results[i].status = "completed"
        BY <2>3, <3>1
      <3> QED
        BY <2>1, <3>1, <3>2 DEF Completed, Node
    <2>5. lists[i] = [j \in 1..Len(results[i].list) |-> <<sources[i], results[i].list[j]>>]
      BY <2>3
    <2>6. Len(results[i].list) \in Nat
      BY <2>3
    <2>7. lists[i] = [j \in 1..Len(results[i].list) |-> lists[i][j]]
      BY <2>5
    <2>8. \A j \in 1..Len(results[i].list) : lists[i][j] \in P
      <3>1. DOMAIN results[i].list = 1..Len(results[i].list)
        BY <2>3
      <3>2. \A j \in DOMAIN results[i].list : lists[i][j] = <<sources[i], results[i].list[j]>>
        OBVIOUS
      <3> HIDE DEF P, lists
      <3> QED
        BY <2>4, <3>1, <3>2
    <2> HIDE DEF P, lists
    <2> QED
      BY <2>6, <2>7, <2>8
  <1>2. DOMAIN lists = 1..Len(sources) /\ Len(sources) \in Nat
    OBVIOUS
  <1>3. lists \in Seq(Seq(P))
    <2>1. lists = [i \in 1..Len(sources) |-> lists[i]]
      BY <1>2
    <2>2. \A i \in 1..Len(sources) : lists[i] \in Seq(P)
      BY <1>1, <1>2
    <2> HIDE DEF P, lists
    <2> QED
      BY <1>2, <2>1, <2>2
  <1>4. FlattenSeq(lists) \in Seq(P)
    <2> HIDE DEF P, lists
    <2> QED BY <1>3, FlattenRange
  <1> QED
    BY <1>4 DEF Records

-----------------------------------------------------------------------------
(* The inductive invariant *)

Fields ==
  {"pc", "item", "status", "batch", "unlinked", "lineages", "next", "affected", "seen", "clean"}

Own(x) == {c \in claims : c.by = x}

\* The form of an execution: it has its fields, its item is one of the queue
\* once it started, and it claims for a record of its batch.
FormOK(x) ==
  /\ DOMAIN exec[x] = Fields
  /\ exec[x].pc \in Control
  /\ exec[x].item \in WorkItem \cup {NoItem}
  /\ exec[x].pc = "idle" => exec[x].item = NoItem
  /\ exec[x].clean \in BOOLEAN
  /\ exec[x].affected \in BOOLEAN
  /\ exec[x].next \in Nat
  /\ exec[x].pc \in {"fetched", "promoting", "linking"} => exec[x].next = 1
  /\ exec[x].pc = "claiming" => exec[x].next \in DOMAIN exec[x].batch

\* The batch has records of completed runs only, and an item has one run.
BatchOK(x) ==
  /\ exec[x].batch \in Seq(Node)
  /\ \A n \in ToSet(exec[x].batch) : <<n[1], "completed">> \in ToSet(exec[x].status)
  /\ x \in Active /\ exec[x].item # NoItem =>
       \E status \in Unfailed(exec[x].item[1]) \cup {"failed"} :
         ToSet(exec[x].status) = {<<exec[x].item[1], status>>}

AfterCommit == {"promoting", "linking", "claiming", "assessing", "assessed", "closing"}

\* What an execution works on is on record: its runs, its records, its nodes.
StoredOK(x) ==
  /\ exec[x].pc \in AfterCommit => SourceRunsOf(x) \subseteq sourceRuns /\ RecordsOf(x) \subseteq records
  /\ exec[x].pc \in AfterCommit \ {"promoting"} => ToSet(exec[x].batch) \subseteq nodes

\* An assessment has the claims of x, or as many as it can load.
Covers(seen, x) == Own(x) \subseteq seen \/ Cardinality(seen) = ClaimLimit

\* How far the claims of an execution are assessed, unless a failure was
\* swallowed.
AssessedOK(x) ==
  /\ exec[x].pc \in {"idle", "fetched", "promoting", "linking"} => Own(x) = {}
  /\ exec[x].pc = "claiming" /\ exec[x].clean /\ Own(x) # {} => exec[x].affected
  /\ exec[x].pc = "assessed" /\ exec[x].clean => Covers(exec[x].seen, x)
  /\ exec[x].pc \in {"closing", "done"} /\ exec[x].clean /\ Own(x) # {} =>
       \E impact \in impacts : impact.by = x /\ Covers(impact.of, x)

ExecInv(x) == FormOK(x) /\ BatchOK(x) /\ StoredOK(x) /\ AssessedOK(x)

\* Runs and claims belong to executions that started.
Attributed ==
  /\ \A c \in claims : c.by \in Execution
  /\ \A run \in sourceRuns : run.by \in Execution /\ exec[run.by].pc # "idle"

Fetched(item) ==
  \E run \in sourceRuns :
    exec[run.by].item = item /\ run.source = item[1] /\ run.status \in Unfailed(item[1])

\* What a successful execution and a completed item mean.
SuccessFetched ==
  \A item \in WorkItem : phase[item] = "completed" \/ "ok" \in tried[item] => Fetched(item)

QueueOK ==
  /\ DOMAIN phase = WorkItem
  /\ DOMAIN tried = WorkItem

IInv ==
  /\ DOMAIN exec = Execution
  /\ \A x \in Execution : ExecInv(x)
  /\ Attributed
  /\ ClaimsTraceable
  /\ SuccessFetched
  /\ QueueOK

-----------------------------------------------------------------------------
(* Steps of one execution *)

\* What every step of x leaves alone: the other executions, and what is stored.
Frame(x) ==
  /\ DOMAIN exec' = Execution
  /\ \A y \in Execution \ {x} : exec'[y] = exec[y]
  /\ sourceRuns \subseteq sourceRuns' /\ records \subseteq records' /\ nodes \subseteq nodes'
  /\ impacts \subseteq impacts' /\ claims \subseteq claims'
  /\ \A c \in claims' \ claims : c.by = x
  /\ \A run \in sourceRuns' \ sourceRuns : run.by = x

\* The other executions keep their invariant.
LEMMA OthersKept ==
  ASSUME IInv, NEW x \in Execution, Frame(x), NEW y \in Execution \ {x}
  PROVE  ExecInv(y)'
  <1>1. exec'[y] = exec[y] /\ ExecInv(y)
    BY DEF Frame, IInv
  <1>2. FormOK(y)'
    BY <1>1 DEF ExecInv, FormOK
  <1>3. BatchOK(y)'
    BY <1>1 DEF ExecInv, BatchOK, Active
  <1>4. StoredOK(y)'
    <2>1. SourceRunsOf(y)' = SourceRunsOf(y) /\ RecordsOf(y)' = RecordsOf(y)
      BY <1>1 DEF SourceRunsOf, RecordsOf
    <2> QED
      BY <1>1, <2>1 DEF ExecInv, StoredOK, Frame
  <1>5. AssessedOK(y)'
    <2>1. Own(y)' = Own(y)
      BY DEF Own, Frame
    <2> QED
      BY <1>1, <2>1 DEF ExecInv, AssessedOK, Covers, Frame
  <1> QED
    BY <1>2, <1>3, <1>4, <1>5 DEF ExecInv

\* A step of x keeps the invariant if x does, if its claims are traceable and
\* if it reports success only for what was fetched.
LEMMA StepKeeps ==
  ASSUME IInv, NEW x \in Execution, Frame(x), ExecInv(x)', exec'[x].pc # "idle",
         exec[x].pc = "idle" \/ exec'[x].item = exec[x].item,
         \A c \in claims' \ claims :
           /\ <<c.by, c.node>> \in records'
           /\ [by |-> c.by, source |-> c.node[1], status |-> "completed"] \in sourceRuns'
           /\ c.node \in nodes',
         QueueOK',
         \A item \in WorkItem :
           phase'[item] = "completed" \/ "ok" \in tried'[item] =>
             phase[item] = "completed" \/ "ok" \in tried[item] \/ Fetched(item)'
  PROVE  IInv'
  <1>1. \A y \in Execution : ExecInv(y)'
    BY OthersKept
  <1>2. Attributed'
    BY DEF IInv, Attributed, Frame
  <1>3. ClaimsTraceable'
    BY DEF IInv, ClaimsTraceable, Frame
  <1>4. SuccessFetched'
    <2> SUFFICES ASSUME NEW item \in WorkItem, Fetched(item)
                 PROVE  Fetched(item)'
      BY DEF IInv, SuccessFetched
    <2>1. PICK run \in sourceRuns :
            exec[run.by].item = item /\ run.source = item[1] /\ run.status \in Unfailed(item[1])
      BY DEF Fetched
    <2>2. run.by \in Execution /\ exec[run.by].pc # "idle"
      BY DEF IInv, Attributed
    <2>3. exec'[run.by].item = item
      BY <2>1, <2>2 DEF Frame
    <2> QED
      BY <2>1, <2>3 DEF Fetched, Frame
  <1> QED
    BY <1>1, <1>2, <1>3, <1>4 DEF IInv, Frame

\* Without a claim, and for an item that is not settled, that is all.
LEMMA QuietStepKeeps ==
  ASSUME IInv, NEW x \in Execution, Frame(x), ExecInv(x)', exec'[x].pc # "idle",
         exec[x].pc = "idle" \/ exec'[x].item = exec[x].item,
         claims' = claims, UNCHANGED <<phase, tried>>
  PROVE  IInv'
  BY StepKeeps DEF IInv, QueueOK

-----------------------------------------------------------------------------
LEMMA OneResult ==
  ASSUME NEW s, NEW result \in Result(s)
  PROVE  <<result>> \in Results(<<s>>)
  <1>1. <<result>> = [i \in {1} |-> result] /\ DOMAIN <<s>> = {1} /\ <<s>>[1] = s
    OBVIOUS
  <1>2. ToSet(<<s>>) = {s}
    BY <1>1 DEF ToSet
  <1> QED
    BY <1>1, <1>2 DEF Results

LEMMA RunJobsKeeps ==
  ASSUME IInv, NEW x \in Execution, NEW item, NEW sources \in Seq(Source), NEW results \in Results(sources),
         \/ item = NoItem
         \/ item \in WorkItem /\ sources = <<item[1]>>,
         RunJobs(x, item, sources, results)
  PROVE  IInv'
  <1> DEFINE batch == Records(sources, results)
             status == [i \in DOMAIN sources |-> <<sources[i], results[i].status>>]
  <1>1. /\ exec'[x] = [pc |-> "fetched", item |-> item, status |-> status, batch |-> batch, unlinked |-> {},
                       lineages |-> NoLineage, next |-> 1, affected |-> FALSE, seen |-> {}, clean |-> TRUE]
        /\ DOMAIN exec' = Execution
        /\ \A y \in Execution \ {x} : exec'[y] = exec[y]
    BY DEF RunJobs, IInv, Idle
  <1>2. exec[x].pc = "idle" /\ UNCHANGED <<stores, phase, tried>>
    BY DEF RunJobs
  <1>3. batch \in Seq(Completed(sources, results))
    BY RecordsOfCompleted
  <1>4. \A n \in ToSet(batch) : n \in Completed(sources, results)
    <2> HIDE DEF batch
    <2> QED
      BY <1>3 DEF ToSet
  <1> HIDE DEF batch
  <1>5. FormOK(x)'
    BY <1>1 DEF FormOK, Fields, Control
  <1>6. BatchOK(x)'
    <2>1. batch \in Seq(Node)
      BY <1>3 DEF Completed
    <2>2. ASSUME NEW n \in ToSet(batch)
          PROVE  <<n[1], "completed">> \in ToSet(status)
      <3>1. PICK i \in DOMAIN sources : sources[i] = n[1] /\ results[i].status = "completed"
        BY <1>4 DEF Completed
      <3> QED
        BY <3>1 DEF ToSet
    <2>3. item # NoItem => ToSet(status) = {<<item[1], results[1].status>>}
      <3> SUFFICES ASSUME sources = <<item[1]>>
                   PROVE  ToSet(status) = {<<item[1], results[1].status>>}
        OBVIOUS
      <3>1. DOMAIN sources = {1} /\ sources[1] = item[1]
        OBVIOUS
      <3> QED
        BY <3>1 DEF ToSet
    <2>7. item # NoItem => results[1].status \in Unfailed(item[1]) \cup {"failed"}
      <3> SUFFICES ASSUME sources = <<item[1]>>
                   PROVE  results[1].status \in Unfailed(item[1]) \cup {"failed"}
        OBVIOUS
      <3>1. results[1] \in Result(item[1])
        BY DEF Results
      <3> QED
        BY <3>1 DEF Result
    <2>4. exec'[x].batch = batch /\ exec'[x].status = status /\ exec'[x].item = item
      BY <1>1
    <2> HIDE DEF status
    <2>5. \A n \in ToSet(exec'[x].batch) : <<n[1], "completed">> \in ToSet(exec'[x].status)
      BY <2>2, <2>4
    <2>6. item # NoItem => \E st \in Unfailed(item[1]) \cup {"failed"} : ToSet(exec'[x].status) = {<<item[1], st>>}
      BY <2>3, <2>4, <2>7, Zenon
    <2> QED
      BY <2>1, <2>4, <2>5, <2>6 DEF BatchOK
  <1>7. StoredOK(x)'
    BY <1>1 DEF StoredOK, AfterCommit
  <1>8. AssessedOK(x)'
    <2>1. Own(x)' = {}
      BY <1>2 DEF IInv, ExecInv, AssessedOK, Own, stores
    <2> QED
      BY <1>1, <2>1 DEF AssessedOK
  <1>9. Frame(x)
    BY <1>1, <1>2 DEF Frame, stores
  <1>10. ExecInv(x)'
    BY <1>5, <1>6, <1>7, <1>8 DEF ExecInv
  <1> QED
    BY <1>1, <1>2, <1>9, <1>10, QuietStepKeeps DEF stores

\* Queue!RunEnds adds one outcome to one item.
LEMMA OutcomeRecorded ==
  ASSUME QueueOK, NEW item \in WorkItem, NEW outcome, Queue!RunEnds(item, outcome)
  PROVE  /\ QueueOK'
         /\ phase' = phase
         /\ \A i \in WorkItem : "ok" \in tried'[i] => "ok" \in tried[i] \/ (i = item /\ outcome = "ok")
  BY DEF QueueOK, Queue!RunEnds

LEMMA PersistToPostgresKeeps ==
  ASSUME IInv, NEW x \in Execution, PersistToPostgres(x)
  PROVE  IInv'
  <1> DEFINE to == IF exec[x].batch = <<>> THEN "closing" ELSE "promoting"
  <1>1. /\ exec[x].pc = "fetched" /\ ExecInv(x)
        /\ exec'[x] = [exec[x] EXCEPT !.pc = to]
        /\ DOMAIN exec' = Execution
        /\ \A y \in Execution \ {x} : exec'[y] = exec[y]
        /\ DOMAIN exec[x] = Fields
    BY DEF PersistToPostgres, IInv, ExecInv, FormOK
  <1>2. /\ exec'[x].pc = to /\ DOMAIN exec'[x] = Fields
        /\ \A f \in Fields \ {"pc"} : exec'[x][f] = exec[x][f]
    BY <1>1 DEF Fields
  <1>3. /\ exec'[x].item = exec[x].item /\ exec'[x].status = exec[x].status /\ exec'[x].batch = exec[x].batch
        /\ exec'[x].next = exec[x].next /\ exec'[x].affected = exec[x].affected /\ exec'[x].clean = exec[x].clean
    BY <1>2 DEF Fields
  <1>4. UNCHANGED <<nodes, claims, impacts, phase, tried>> /\ Commits(x)
    BY DEF PersistToPostgres
  <1>5. Frame(x)
    BY <1>1, <1>4 DEF Frame, Commits, SourceRunsOf
  <1>6. FormOK(x)'
    BY <1>1, <1>2, <1>3 DEF ExecInv, FormOK, Control
  <1>7. BatchOK(x)'
    BY <1>1, <1>2, <1>3 DEF ExecInv, BatchOK, Active
  <1>8. StoredOK(x)'
    <2>1. SourceRunsOf(x)' = SourceRunsOf(x) /\ RecordsOf(x)' = RecordsOf(x)
      BY <1>3 DEF SourceRunsOf, RecordsOf
    <2>2. exec[x].batch = <<>> => ToSet(exec[x].batch) = {}
      BY DEF ToSet
    <2> QED
      BY <1>2, <1>3, <1>4, <2>1, <2>2 DEF StoredOK, Commits
  <1>9. AssessedOK(x)'
    <2>1. Own(x)' = {}
      BY <1>1, <1>4 DEF ExecInv, AssessedOK, Own
    <2> QED
      BY <1>2, <2>1 DEF AssessedOK
  <1> QED
    BY <1>2, <1>3, <1>4, <1>5, <1>6, <1>7, <1>8, <1>9, QuietStepKeeps DEF ExecInv

LEMMA PersistFailsKeeps ==
  ASSUME IInv, NEW x \in Execution, PersistFails(x)
  PROVE  IInv'
  <1>1. /\ exec[x].pc = "fetched" /\ ExecInv(x)
        /\ exec'[x] = [exec[x] EXCEPT !.pc = "failed"]
        /\ DOMAIN exec' = Execution
        /\ \A y \in Execution \ {x} : exec'[y] = exec[y]
        /\ DOMAIN exec[x] = Fields
    BY DEF PersistFails, IInv, ExecInv, FormOK
  <1>2. /\ exec'[x].pc = "failed" /\ DOMAIN exec'[x] = Fields
        /\ \A f \in Fields \ {"pc"} : exec'[x][f] = exec[x][f]
    BY <1>1 DEF Fields
  <1>3. /\ exec'[x].item = exec[x].item /\ exec'[x].status = exec[x].status /\ exec'[x].batch = exec[x].batch
        /\ exec'[x].next = exec[x].next /\ exec'[x].affected = exec[x].affected /\ exec'[x].clean = exec[x].clean
    BY <1>2 DEF Fields
  <1>4. UNCHANGED <<nodes, claims, impacts>> /\ (Commits(x) \/ UNCHANGED <<sourceRuns, records>>) /\ EndsWith(x, "error")
    BY DEF PersistFails
  <1>5. Frame(x)
    BY <1>1, <1>4 DEF Frame, Commits, SourceRunsOf
  <1>6. ExecInv(x)'
    BY <1>1, <1>2, <1>3 DEF ExecInv, FormOK, BatchOK, StoredOK, AssessedOK, Control, Active, AfterCommit
  <1>7. /\ QueueOK'
        /\ \A item \in WorkItem :
             phase'[item] = "completed" \/ "ok" \in tried'[item] => phase[item] = "completed" \/ "ok" \in tried[item]
    <2>1. exec[x].item \in WorkItem \cup {NoItem} /\ QueueOK
      BY <1>1 DEF ExecInv, FormOK, IInv
    <2>2. CASE exec[x].item = NoItem
      BY <2>1, <2>2, <1>4 DEF EndsWith, QueueOK
    <2>3. CASE exec[x].item # NoItem
      BY <2>1, <2>3, <1>4, OutcomeRecorded DEF EndsWith
    <2> QED
      BY <2>2, <2>3
  <1> QED
    BY <1>2, <1>3, <1>4, <1>5, <1>6, <1>7, StepKeeps

\* A step of the promotion after which the nodes of the batch are stored and
\* that makes no claim.
LEMMA PromotionKeeps ==
  ASSUME IInv, NEW x \in Execution, Frame(x), UNCHANGED <<claims, phase, tried>>,
         exec[x].pc \in AfterCommit, exec'[x].pc \in AfterCommit \ {"promoting"},
         DOMAIN exec'[x] = Fields,
         exec'[x].item = exec[x].item, exec'[x].status = exec[x].status,
         exec'[x].batch \in Seq(Node), ToSet(exec'[x].batch) \subseteq ToSet(exec[x].batch) \cap nodes',
         exec'[x].clean \in BOOLEAN, exec'[x].affected \in BOOLEAN, exec'[x].next \in Nat,
         exec'[x].pc = "linking" => exec'[x].next = 1,
         exec'[x].pc = "claiming" => exec'[x].next \in DOMAIN exec'[x].batch,
         AssessedOK(x)'
  PROVE  IInv'
  <1>1. ExecInv(x)
    BY DEF IInv
  <1>2. FormOK(x)'
    BY <1>1 DEF ExecInv, FormOK, AfterCommit, Control
  <1>3. BatchOK(x)'
    <2>1. x \in Active
      BY DEF Active, AfterCommit
    <2> QED
      BY <1>1, <2>1 DEF ExecInv, BatchOK
  <1>4. StoredOK(x)'
    <2>1. SourceRunsOf(x)' = SourceRunsOf(x) /\ RecordsOf(x)' \subseteq RecordsOf(x)
      BY DEF SourceRunsOf, RecordsOf
    <2>2. SourceRunsOf(x) \subseteq sourceRuns /\ RecordsOf(x) \subseteq records
      BY <1>1 DEF ExecInv, StoredOK
    <2> QED
      BY <2>1, <2>2 DEF StoredOK, Frame
  <1> QED
    BY <1>2, <1>3, <1>4, QuietStepKeeps DEF ExecInv, AfterCommit

\* What a step that changes the fields in changed and no others says of x.
Updates(x, changed) ==
  /\ DOMAIN exec' = Execution
  /\ \A y \in Execution \ {x} : exec'[y] = exec[y]
  /\ DOMAIN exec'[x] = Fields
  /\ \A f \in Fields \ changed : exec'[x][f] = exec[x][f]

LEMMA RecordNodesKeeps ==
  ASSUME IInv, NEW x \in Execution, RecordEvidenceLineageNodes(x)
  PROVE  IInv'
  <1>1. /\ exec[x].pc = "promoting" /\ DOMAIN exec[x] = Fields
        /\ FormOK(x) /\ BatchOK(x) /\ AssessedOK(x)
    BY DEF RecordEvidenceLineageNodes, IInv, ExecInv, FormOK
  <1>2. Updates(x, {"pc", "unlinked"}) /\ exec'[x].pc = "linking"
    BY <1>1 DEF RecordEvidenceLineageNodes, Updates, IInv, Fields
  <1>3. /\ exec'[x].item = exec[x].item /\ exec'[x].status = exec[x].status /\ exec'[x].batch = exec[x].batch
        /\ exec'[x].next = exec[x].next /\ exec'[x].affected = exec[x].affected /\ exec'[x].clean = exec[x].clean
    BY <1>2 DEF Updates, Fields
  <1>4. /\ nodes' = nodes \cup ToSet(exec[x].batch)
        /\ UNCHANGED <<sourceRuns, records, claims, impacts, phase, tried>>
    BY DEF RecordEvidenceLineageNodes
  <1>5. Frame(x)
    BY <1>2, <1>4 DEF Frame, Updates
  <1>6. AssessedOK(x)'
    BY <1>1, <1>2, <1>3, <1>4 DEF AssessedOK, Own
  <1>7. /\ exec[x].pc \in AfterCommit /\ exec'[x].pc \in AfterCommit \ {"promoting"}
        /\ exec[x].batch \in Seq(Node) /\ exec[x].next = 1
        /\ exec[x].clean \in BOOLEAN /\ exec[x].affected \in BOOLEAN
    BY <1>1, <1>2 DEF AfterCommit, FormOK, BatchOK
  <1> QED
    BY <1>2, <1>3, <1>4, <1>5, <1>6, <1>7, PromotionKeeps DEF Updates

\* Leaving out one element.
LEMMA WithoutOne ==
  ASSUME NEW S, NEW seq \in Seq(S), NEW i \in DOMAIN seq
  PROVE  Without(seq, i) \in Seq(S) /\ ToSet(Without(seq, i)) \subseteq ToSet(seq)
  <1> DEFINE a == SubSeq(seq, 1, i - 1)
             b == SubSeq(seq, i + 1, Len(seq))
  <1>1. i \in 1..Len(seq) /\ Len(seq) \in Nat
    OBVIOUS
  <1>2. a \in Seq(S) /\ Len(a) = i - 1 /\ \A k \in 1..Len(a) : a[k] = seq[k]
    BY <1>1
  <1>3. b \in Seq(S) /\ Len(b) = Len(seq) - i /\ \A k \in 1..Len(b) : b[k] = seq[i + k]
    BY <1>1
  <1> HIDE DEF a, b
  <1>4. \A k \in DOMAIN (a \o b) : \E l \in DOMAIN seq : (a \o b)[k] = seq[l]
    <2> SUFFICES ASSUME NEW k \in DOMAIN (a \o b)
                 PROVE  \E l \in 1..Len(seq) : (a \o b)[k] = seq[l]
      OBVIOUS
    <2>0. /\ DOMAIN (a \o b) = 1..Len(a) + Len(b)
          /\ (a \o b)[k] = IF k <= Len(a) THEN a[k] ELSE b[k - Len(a)]
      <3>1. /\ a \o b \in Seq(S) /\ Len(a \o b) = Len(a) + Len(b)
            /\ \A j \in 1..Len(a) + Len(b) : (a \o b)[j] = IF j <= Len(a) THEN a[j] ELSE b[j - Len(a)]
        BY <1>2, <1>3, ConcatProperties, Zenon
      <3>2. DOMAIN (a \o b) = 1..Len(a \o b)
        BY <3>1
      <3>3. DOMAIN (a \o b) = 1..Len(a) + Len(b)
        BY <3>1, <3>2, Zenon
      <3> QED
        BY <3>1, <3>3, Zenon
    <2>1. k \in Nat /\ k >= 1 /\ k <= Len(seq) - 1
      BY <1>1, <1>2, <1>3, <2>0
    <2>2. CASE k <= i - 1
      <3>1. k \in 1..Len(a) /\ k \in 1..Len(seq) /\ k <= Len(a)
        BY <1>1, <1>2, <2>1, <2>2
      <3> QED
        BY <1>2, <2>0, <3>1
    <2>3. CASE ~(k <= i - 1)
      <3>1. (a \o b)[k] = b[k - (i - 1)]
        BY <1>2, <2>0, <2>3
      <3>2. k - (i - 1) \in 1..Len(seq) - i /\ i + (k - (i - 1)) \in 1..Len(seq)
        BY <1>1, <2>1, <2>3
      <3>3. b[k - (i - 1)] = seq[i + (k - (i - 1))]
        BY <1>3, <3>2
      <3> QED
        BY <3>1, <3>2, <3>3
    <2> QED
      BY <2>2, <2>3
  <1>5. Without(seq, i) = a \o b
    BY DEF Without, a, b
  <1> QED
    BY <1>2, <1>3, <1>4, <1>5 DEF ToSet

LEMMA NodeFailsKeeps ==
  ASSUME IInv, NEW x \in Execution, NEW i \in DOMAIN exec[x].batch, NodeFails(x, i)
  PROVE  IInv'
  <1> DEFINE rest == Without(exec[x].batch, i)
  <1>1. /\ exec[x].pc = "promoting" /\ DOMAIN exec[x] = Fields
        /\ FormOK(x) /\ BatchOK(x) /\ StoredOK(x) /\ AssessedOK(x)
    BY DEF NodeFails, IInv, ExecInv, FormOK
  <1>2. Updates(x, {"batch", "clean"})
    BY <1>1 DEF NodeFails, Updates, IInv, Fields
  <1>3. exec'[x].batch = rest /\ exec'[x].clean = FALSE
    BY <1>1 DEF NodeFails, IInv, Fields
  <1>4. /\ exec'[x].pc = "promoting" /\ exec'[x].item = exec[x].item /\ exec'[x].status = exec[x].status
        /\ exec'[x].next = exec[x].next /\ exec'[x].affected = exec[x].affected
    BY <1>1, <1>2 DEF Updates, Fields
  <1>5. rest \in Seq(Node) /\ ToSet(rest) \subseteq ToSet(exec[x].batch)
    BY <1>1, WithoutOne DEF BatchOK
  <1>6. nodes \subseteq nodes' /\ UNCHANGED <<sourceRuns, records, claims, impacts, phase, tried>>
    BY DEF NodeFails
  <1> HIDE DEF rest
  <1>7. Frame(x)
    BY <1>2, <1>6 DEF Frame, Updates
  <1>8. FormOK(x)' /\ AssessedOK(x)'
    BY <1>1, <1>2, <1>3, <1>4, <1>6 DEF FormOK, AssessedOK, Own, Updates
  <1>9. BatchOK(x)'
    BY <1>1, <1>3, <1>4, <1>5 DEF BatchOK, Active
  <1>10. StoredOK(x)'
    <2>1. SourceRunsOf(x)' = SourceRunsOf(x) /\ RecordsOf(x)' \subseteq RecordsOf(x)
      BY <1>3, <1>4, <1>5 DEF SourceRunsOf, RecordsOf
    <2> QED
      BY <1>1, <1>4, <1>6, <2>1 DEF StoredOK, AfterCommit
  <1> QED
    BY <1>4, <1>6, <1>7, <1>8, <1>9, <1>10, QuietStepKeeps DEF ExecInv

\* A step of the promotion that makes no claim and keeps its batch.
LEMMA MoveKeeps ==
  ASSUME IInv, NEW x \in Execution,
         Updates(x, {"pc", "unlinked", "lineages", "seen", "clean"}),
         exec[x].pc \in AfterCommit \ {"promoting"}, exec'[x].pc \in AfterCommit \ {"promoting"},
         UNCHANGED <<sourceRuns, records, nodes, claims, phase, tried>>, impacts \subseteq impacts',
         exec'[x].clean \in BOOLEAN,
         exec'[x].pc = "linking" => exec[x].pc = "linking",
         exec'[x].pc = "claiming" => exec[x].pc = "linking" /\ exec[x].batch # <<>>,
         AssessedOK(x)'
  PROVE  IInv'
  <1>1. FormOK(x) /\ BatchOK(x) /\ StoredOK(x)
    BY DEF IInv, ExecInv
  <1>2. /\ exec'[x].item = exec[x].item /\ exec'[x].status = exec[x].status /\ exec'[x].batch = exec[x].batch
        /\ exec'[x].next = exec[x].next /\ exec'[x].affected = exec[x].affected
    BY DEF Updates, Fields
  <1>3. Frame(x)
    BY DEF Frame, Updates
  <1>4. exec[x].batch \in Seq(Node) /\ ToSet(exec[x].batch) \subseteq nodes
    BY <1>1 DEF BatchOK, StoredOK
  <1>5. exec[x].next \in Nat /\ (exec[x].pc = "linking" => exec[x].next = 1) /\ exec[x].affected \in BOOLEAN
    BY <1>1 DEF FormOK
  <1>6. exec'[x].pc = "claiming" => exec'[x].next \in DOMAIN exec'[x].batch
    <2>1. exec[x].batch # <<>> => 1 \in DOMAIN exec[x].batch
      BY <1>4
    <2> QED
      BY <1>2, <1>5, <2>1
  <1> QED
    BY <1>2, <1>3, <1>4, <1>5, <1>6, PromotionKeeps DEF Updates

LEMMA LinkKeeps ==
  ASSUME IInv, NEW x \in Execution, NEW i, LinkEvidenceLineage(x, i) \/ LinkFails(x, i)
  PROVE  IInv'
  <1>1. /\ exec[x].pc = "linking" /\ DOMAIN exec[x] = Fields
        /\ FormOK(x) /\ AssessedOK(x)
    BY DEF LinkEvidenceLineage, LinkFails, Linking, IInv, ExecInv, FormOK
  <1>2. /\ Updates(x, {"pc", "unlinked", "lineages", "seen", "clean"})
        /\ exec'[x].pc = "linking" /\ exec'[x].clean \in {exec[x].clean, FALSE}
    BY <1>1 DEF LinkEvidenceLineage, LinkFails, Updates, IInv, Fields
  <1>3. UNCHANGED <<sourceRuns, records, nodes, claims, impacts, phase, tried>>
    BY DEF LinkEvidenceLineage, LinkFails
  <1>4. AssessedOK(x)'
    BY <1>1, <1>2, <1>3 DEF AssessedOK, Own
  <1>5. exec'[x].clean \in BOOLEAN
    BY <1>1, <1>2 DEF FormOK
  <1> QED
    BY <1>1, <1>2, <1>3, <1>4, <1>5, MoveKeeps DEF AfterCommit

LEMMA AnalysisKeeps ==
  ASSUME IInv, NEW x \in Execution, AnalyzeEvidenceIndependence(x) \/ AnalysisFails(x)
  PROVE  IInv'
  <1> DEFINE to == IF exec[x].batch = <<>> THEN "closing" ELSE "claiming"
  <1>1. /\ exec[x].pc = "linking" /\ DOMAIN exec[x] = Fields /\ DOMAIN exec = Execution
        /\ FormOK(x) /\ AssessedOK(x)
    BY DEF AnalyzeEvidenceIndependence, AnalysisFails, IInv, ExecInv, FormOK
  <1>2. ASSUME NEW lineages
        PROVE  /\ DOMAIN Analysed(x, lineages) = Fields
               /\ Analysed(x, lineages).pc = to
               /\ \A f \in Fields \ {"pc", "lineages"} : Analysed(x, lineages)[f] = exec[x][f]
    BY <1>1 DEF Analysed, Fields
  <1>3. \E lineages :
          \/ exec' = [exec EXCEPT ![x] = Analysed(x, lineages)]
          \/ exec' = [exec EXCEPT ![x] = [Analysed(x, lineages) EXCEPT !.clean = FALSE]]
    BY Zenon DEF AnalyzeEvidenceIndependence, AnalysisFails
  <1>4. PICK lineages :
          \/ exec' = [exec EXCEPT ![x] = Analysed(x, lineages)]
          \/ exec' = [exec EXCEPT ![x] = [Analysed(x, lineages) EXCEPT !.clean = FALSE]]
    BY <1>3
  <1>5. /\ Updates(x, {"pc", "unlinked", "lineages", "seen", "clean"})
        /\ exec'[x].pc = to /\ exec'[x].clean \in {exec[x].clean, FALSE}
    <2> DEFINE a == Analysed(x, lineages)
    <2>1. /\ DOMAIN a = Fields /\ a.pc = to
          /\ \A f \in Fields \ {"pc", "lineages"} : a[f] = exec[x][f]
      BY <1>2
    <2> HIDE DEF a, to
    <2>2. a.clean = exec[x].clean
      BY <2>1 DEF Fields
    <2>3. /\ DOMAIN exec' = Execution
          /\ \A y \in Execution \ {x} : exec'[y] = exec[y]
          /\ exec'[x] = a \/ exec'[x] = [a EXCEPT !.clean = FALSE]
      BY <1>1, <1>4 DEF a
    <2>4. CASE exec'[x] = a
      BY <2>1, <2>2, <2>3, <2>4 DEF Updates
    <2>5. CASE exec'[x] = [a EXCEPT !.clean = FALSE]
      <3>1. /\ DOMAIN exec'[x] = Fields /\ exec'[x].pc = to /\ exec'[x].clean = FALSE
            /\ \A f \in Fields \ {"pc", "lineages", "clean"} : exec'[x][f] = exec[x][f]
        BY <2>1, <2>5 DEF Fields
      <3> QED
        BY <2>3, <3>1 DEF Updates
    <2> QED
      BY <2>3, <2>4, <2>5
  <1>6. UNCHANGED <<sourceRuns, records, nodes, claims, impacts, phase, tried>>
    BY DEF AnalyzeEvidenceIndependence, AnalysisFails, stores
  <1>7. AssessedOK(x)'
    <2>1. Own(x)' = {}
      BY <1>1, <1>6 DEF AssessedOK, Own
    <2> QED
      BY <1>5, <2>1 DEF AssessedOK
  <1>8. exec'[x].clean \in BOOLEAN
    BY <1>1, <1>5 DEF FormOK
  <1> QED
    BY <1>1, <1>5, <1>6, <1>7, <1>8, MoveKeeps DEF AfterCommit

LEMMA RecomputeKeeps ==
  ASSUME IInv, NEW x \in Execution, RecomputeClaimHypotheses(x)
  PROVE  IInv'
  <1>1. /\ exec[x].pc = "assessing" /\ DOMAIN exec[x] = Fields /\ FormOK(x)
    BY DEF RecomputeClaimHypotheses, IInv, ExecInv, FormOK
  <1>2. /\ Updates(x, {"pc", "unlinked", "lineages", "seen", "clean"})
        /\ exec'[x].pc = "assessed" /\ exec'[x].seen \in Loaded(claims) /\ exec'[x].clean = exec[x].clean
    BY <1>1 DEF RecomputeClaimHypotheses, Updates, IInv, Fields
  <1>3. UNCHANGED <<sourceRuns, records, nodes, claims, impacts, phase, tried>>
    BY DEF RecomputeClaimHypotheses, stores
  <1>4. AssessedOK(x)'
    <2>1. Own(x)' \subseteq claims /\ (exec'[x].seen = claims \/ Cardinality(exec'[x].seen) = ClaimLimit)
      BY <1>2, <1>3 DEF Own, Loaded, kSubset
    <2> QED
      BY <1>2, <2>1 DEF AssessedOK, Covers
  <1>5. exec'[x].clean \in BOOLEAN
    BY <1>1, <1>2 DEF FormOK
  <1> QED
    BY <1>1, <1>2, <1>3, <1>4, <1>5, MoveKeeps DEF AfterCommit

LEMMA RecordImpactKeeps ==
  ASSUME IInv, NEW x \in Execution, RecordChangeImpact(x)
  PROVE  IInv'
  <1>1. /\ exec[x].pc = "assessed" /\ DOMAIN exec[x] = Fields /\ FormOK(x) /\ AssessedOK(x)
    BY DEF RecordChangeImpact, IInv, ExecInv, FormOK
  <1>2. /\ Updates(x, {"pc", "unlinked", "lineages", "seen", "clean"})
        /\ exec'[x].pc = "closing" /\ exec'[x].clean = exec[x].clean
    BY <1>1 DEF RecordChangeImpact, Updates, IInv, Fields
  <1>3. impacts' = impacts \cup {ImpactOf(x)} /\ UNCHANGED <<sourceRuns, records, nodes, claims, phase, tried>>
    BY DEF RecordChangeImpact
  <1>4. AssessedOK(x)'
    <2>1. Own(x)' = Own(x) /\ (exec[x].clean => Covers(exec[x].seen, x))
      BY <1>1, <1>3 DEF AssessedOK, Own
    <2>2. ImpactOf(x) \in impacts' /\ ImpactOf(x).by = x /\ ImpactOf(x).of = exec[x].seen
      BY <1>3 DEF ImpactOf
    <2>3. exec[x].clean => \E impact \in impacts' : impact.by = x /\ (Own(x)' \subseteq impact.of \/ Cardinality(impact.of) = ClaimLimit)
      BY <2>1, <2>2 DEF Covers
    <2> QED
      BY <1>2, <2>3 DEF AssessedOK, Covers
  <1>5. exec'[x].clean \in BOOLEAN
    BY <1>1, <1>2 DEF FormOK
  <1> QED
    BY <1>1, <1>2, <1>3, <1>4, <1>5, MoveKeeps DEF AfterCommit

LEMMA AssessmentFailsKeeps ==
  ASSUME IInv, NEW x \in Execution, AssessmentFails(x)
  PROVE  IInv'
  <1>1. /\ exec[x].pc \in {"assessing", "assessed"} /\ DOMAIN exec[x] = Fields
    BY DEF AssessmentFails, IInv, ExecInv, FormOK
  <1>2. /\ Updates(x, {"pc", "unlinked", "lineages", "seen", "clean"})
        /\ exec'[x].pc = "closing" /\ exec'[x].clean = FALSE
    BY <1>1 DEF AssessmentFails, Updates, IInv, Fields
  <1>3. impacts \subseteq impacts' /\ UNCHANGED <<sourceRuns, records, nodes, claims, phase, tried>>
    BY DEF AssessmentFails
  <1>4. AssessedOK(x)'
    BY <1>2 DEF AssessedOK
  <1> QED
    BY <1>1, <1>2, <1>3, <1>4, MoveKeeps DEF AfterCommit

LEMMA ClaimKeeps ==
  ASSUME IInv, NEW x \in Execution, PersistEvidenceClaim(x) \/ ClaimFails(x)
  PROVE  IInv'
  <1> DEFINE to(affected) == CASE exec[x].next < Len(exec[x].batch) -> "claiming"
                               [] exec[x].next >= Len(exec[x].batch) /\ affected -> "assessing"
                               [] OTHER -> "closing"
  <1>1. /\ exec[x].pc = "claiming" /\ DOMAIN exec[x] = Fields /\ DOMAIN exec = Execution
        /\ FormOK(x) /\ BatchOK(x) /\ StoredOK(x) /\ AssessedOK(x)
    BY DEF PersistEvidenceClaim, ClaimFails, IInv, ExecInv, FormOK
  <1>2. /\ exec[x].next \in 1..Len(exec[x].batch) /\ Len(exec[x].batch) \in Nat
        /\ exec[x].affected \in BOOLEAN /\ exec[x].clean \in BOOLEAN
        /\ DOMAIN exec[x].batch = 1..Len(exec[x].batch)
    BY <1>1 DEF FormOK, BatchOK
  <1>3. ASSUME NEW affected
        PROVE  /\ DOMAIN Claimed(x, affected) = Fields
               /\ Claimed(x, affected).pc = to(affected)
               /\ Claimed(x, affected).affected = affected
               /\ Claimed(x, affected).next = exec[x].next + 1
               /\ \A f \in Fields \ {"pc", "next", "affected"} : Claimed(x, affected)[f] = exec[x][f]
    BY <1>1 DEF Claimed, Fields
  <1>4. \E affected \in BOOLEAN :
          \/ affected = TRUE /\ exec' = [exec EXCEPT ![x] = Claimed(x, affected)]
          \/ affected = exec[x].affected /\ exec' = [exec EXCEPT ![x] = [Claimed(x, affected) EXCEPT !.clean = FALSE]]
    BY <1>2, Zenon DEF PersistEvidenceClaim, ClaimFails
  <1>5. PICK affected \in BOOLEAN :
          \/ affected = TRUE /\ exec' = [exec EXCEPT ![x] = Claimed(x, affected)]
          \/ affected = exec[x].affected /\ exec' = [exec EXCEPT ![x] = [Claimed(x, affected) EXCEPT !.clean = FALSE]]
    BY <1>4
  <1>6. /\ Updates(x, {"pc", "next", "affected", "clean"})
        /\ exec'[x].pc = to(affected) /\ exec'[x].affected = affected
        /\ exec'[x].next = exec[x].next + 1
        /\ exec'[x].clean = FALSE \/ (exec'[x].clean = exec[x].clean /\ affected)
    <2> DEFINE a == Claimed(x, affected)
    <2>1. /\ DOMAIN a = Fields /\ a.pc = to(affected) /\ a.affected = affected /\ a.next = exec[x].next + 1
          /\ \A f \in Fields \ {"pc", "next", "affected"} : a[f] = exec[x][f]
      BY <1>3
    <2> HIDE DEF a, to
    <2>2. a.clean = exec[x].clean
      BY <2>1 DEF Fields
    <2>3. /\ DOMAIN exec' = Execution
          /\ \A y \in Execution \ {x} : exec'[y] = exec[y]
          /\ (affected = TRUE /\ exec'[x] = a) \/ exec'[x] = [a EXCEPT !.clean = FALSE]
      BY <1>1, <1>5 DEF a
    <2>4. CASE affected = TRUE /\ exec'[x] = a
      BY <2>1, <2>2, <2>3, <2>4 DEF Updates
    <2>5. CASE exec'[x] = [a EXCEPT !.clean = FALSE]
      <3>1. /\ DOMAIN exec'[x] = Fields /\ exec'[x].pc = to(affected) /\ exec'[x].clean = FALSE
            /\ exec'[x].affected = affected /\ exec'[x].next = exec[x].next + 1
            /\ \A f \in Fields \ {"pc", "next", "affected", "clean"} : exec'[x][f] = exec[x][f]
        BY <2>1, <2>5 DEF Fields
      <3> QED
        BY <2>3, <3>1 DEF Updates
    <2> QED
      BY <2>3, <2>4, <2>5
  <1>7. /\ exec'[x].item = exec[x].item /\ exec'[x].status = exec[x].status /\ exec'[x].batch = exec[x].batch
    BY <1>6 DEF Updates, Fields
  <1>8. /\ claims' = claims \/ claims' = claims \cup {NextClaim(x)}
        /\ UNCHANGED <<sourceRuns, records, nodes, impacts, phase, tried>>
    BY DEF PersistEvidenceClaim, ClaimFails
  <1>9. NextClaim(x).by = x /\ NextClaim(x).node = exec[x].batch[exec[x].next]
    BY DEF NextClaim
  <1>10. Frame(x)
    BY <1>6, <1>8, <1>9 DEF Frame, Updates
  <1>11. /\ to(affected) \in {"claiming", "assessing", "closing"}
         /\ to(affected) = "claiming" => exec[x].next + 1 \in 1..Len(exec[x].batch)
         /\ to(affected) = "closing" => ~affected
    BY <1>2
  <1> HIDE DEF to
  <1>12. FormOK(x)'
    <2>1. exec[x].item \in WorkItem \cup {NoItem}
      BY <1>1 DEF FormOK
    <2>2. exec'[x].pc \in {"claiming", "assessing", "closing"} /\ DOMAIN exec'[x] = Fields
      BY <1>6, <1>11 DEF Updates
    <2>3. exec'[x].next \in Nat
      BY <1>2, <1>6
    <2>4. exec'[x].clean \in BOOLEAN /\ exec'[x].affected \in BOOLEAN
      BY <1>2, <1>5, <1>6, Zenon
    <2>5. exec'[x].pc = "claiming" => exec'[x].next \in DOMAIN exec'[x].batch
      BY <1>2, <1>6, <1>7, <1>11
    <2> QED
      BY <1>7, <2>1, <2>2, <2>3, <2>4, <2>5 DEF FormOK, Control
  <1>13. BatchOK(x)'
    <2>1. x \in Active
      BY <1>1 DEF Active
    <2> QED
      BY <1>1, <1>7, <2>1 DEF BatchOK
  <1>14. StoredOK(x)'
    <2>1. SourceRunsOf(x)' = SourceRunsOf(x) /\ RecordsOf(x)' = RecordsOf(x)
      BY <1>7 DEF SourceRunsOf, RecordsOf
    <2> QED
      BY <1>1, <1>7, <1>8, <2>1 DEF StoredOK, AfterCommit
  <1>15. AssessedOK(x)'
    BY <1>6, <1>11 DEF AssessedOK
  <1>16. ASSUME NEW c \in claims' \ claims
         PROVE  /\ <<c.by, c.node>> \in records'
                /\ [by |-> c.by, source |-> c.node[1], status |-> "completed"] \in sourceRuns'
                /\ c.node \in nodes'
    <2>1. c.by = x /\ c.node \in ToSet(exec[x].batch)
      BY <1>2, <1>8, <1>9 DEF ToSet
    <2>2. SourceRunsOf(x) \subseteq sourceRuns /\ RecordsOf(x) \subseteq records /\ ToSet(exec[x].batch) \subseteq nodes
      BY <1>1 DEF StoredOK, AfterCommit
    <2>3. <<c.node[1], "completed">> \in ToSet(exec[x].status)
      BY <1>1, <2>1 DEF BatchOK
    <2>4. [by |-> x, source |-> c.node[1], status |-> "completed"] \in SourceRunsOf(x)
      <3> DEFINE s == <<c.node[1], "completed">>
      <3>1. s \in ToSet(exec[x].status) /\ s[1] = c.node[1] /\ s[2] = "completed"
        BY <2>3
      <3> HIDE DEF s
      <3>2. [by |-> x, source |-> s[1], status |-> s[2]] \in SourceRunsOf(x)
        BY <3>1 DEF SourceRunsOf
      <3> QED
        BY <3>1, <3>2
    <2>5. <<x, c.node>> \in RecordsOf(x)
      BY <2>1 DEF RecordsOf
    <2> QED
      BY <1>8, <2>1, <2>2, <2>4, <2>5
  <1>17. ExecInv(x)' /\ exec'[x].pc # "idle"
    BY <1>6, <1>11, <1>12, <1>13, <1>14, <1>15 DEF ExecInv
  <1>18. QueueOK' /\ UNCHANGED <<phase, tried>>
    BY <1>8 DEF IInv, QueueOK
  <1> QED
    BY <1>7, <1>10, <1>16, <1>17, <1>18, StepKeeps

LEMMA EndsKeeps ==
  ASSUME IInv, NEW x \in Execution, Ends(x)
  PROVE  IInv'
  <1>1. /\ exec[x].pc = "closing" /\ DOMAIN exec = Execution
        /\ FormOK(x) /\ BatchOK(x) /\ StoredOK(x) /\ AssessedOK(x) /\ QueueOK
    BY DEF Ends, IInv, ExecInv
  <1>2. /\ exec'[x] = [Idle EXCEPT !.pc = "done", !.item = exec[x].item, !.clean = exec[x].clean]
        /\ DOMAIN exec' = Execution
        /\ \A y \in Execution \ {x} : exec'[y] = exec[y]
    BY <1>1 DEF Ends
  <1>3. /\ DOMAIN exec'[x] = Fields /\ exec'[x].pc = "done" /\ exec'[x].item = exec[x].item
        /\ exec'[x].batch = <<>> /\ exec'[x].status = <<>> /\ exec'[x].next = 1
        /\ exec'[x].affected = FALSE /\ exec'[x].clean = exec[x].clean
    BY <1>2 DEF Idle, Fields
  <1>4. UNCHANGED <<sourceRuns, records, nodes, claims, impacts>> /\ EndsWith(x, Outcome(x))
    BY DEF Ends, stores
  <1>5. Frame(x)
    BY <1>2, <1>4 DEF Frame
  <1>6. FormOK(x)'
    <2>1. exec[x].item \in WorkItem \cup {NoItem} /\ exec[x].clean \in BOOLEAN
      BY <1>1, Zenon DEF FormOK
    <2>2. 1 \in Nat /\ FALSE \in BOOLEAN /\ TRUE \in BOOLEAN
      OBVIOUS
    <2> QED
      BY <1>3, <2>1, <2>2 DEF FormOK, Control
  <1>7. BatchOK(x)'
    <2>1. <<>> \in Seq(Node) /\ ToSet(<<>>) = {}
      BY DEF ToSet
    <2> QED
      BY <1>3, <2>1 DEF BatchOK, Active
  <1>8. StoredOK(x)'
    BY <1>3 DEF StoredOK, AfterCommit
  <1>9. AssessedOK(x)'
    BY <1>1, <1>3, <1>4 DEF AssessedOK, Covers, Own
  <1>10. /\ QueueOK'
         /\ \A item \in WorkItem :
              phase'[item] = "completed" \/ "ok" \in tried'[item] =>
                phase[item] = "completed" \/ "ok" \in tried[item] \/ Fetched(item)'
    <2>1. exec[x].item \in WorkItem \cup {NoItem}
      BY <1>1 DEF FormOK
    <2>2. CASE exec[x].item = NoItem
      BY <2>2, <1>1, <1>4 DEF EndsWith, QueueOK
    <2>3. CASE exec[x].item # NoItem
      <3>1. Queue!RunEnds(exec[x].item, Outcome(x)) /\ exec[x].item \in WorkItem
        BY <2>1, <2>3, <1>4 DEF EndsWith
      <3>2. /\ QueueOK'
            /\ phase' = phase
            /\ \A i \in WorkItem : "ok" \in tried'[i] => "ok" \in tried[i] \/ (i = exec[x].item /\ Outcome(x) = "ok")
        BY <3>1, <1>1, OutcomeRecorded
      <3>3. ASSUME Outcome(x) = "ok"
            PROVE  Fetched(exec[x].item)'
        <4>1. x \in Active
          BY <1>1 DEF Active
        <4>2. PICK status \in Unfailed(exec[x].item[1]) \cup {"failed"} : ToSet(exec[x].status) = {<<exec[x].item[1], status>>}
          BY <1>1, <2>3, <4>1 DEF BatchOK
        <4> DEFINE s == <<exec[x].item[1], status>>
        <4>3. s \in ToSet(exec[x].status) /\ s[1] = exec[x].item[1] /\ s[2] = status
          BY <4>2
        <4> HIDE DEF s
        <4>4. status \in Unfailed(exec[x].item[1])
          BY <3>3, <4>2, <4>3 DEF Outcome
        <4>5. [by |-> x, source |-> s[1], status |-> s[2]] \in SourceRunsOf(x)
          BY <4>3 DEF SourceRunsOf
        <4>6. [by |-> x, source |-> s[1], status |-> s[2]] \in sourceRuns'
          BY <1>1, <1>4, <4>5 DEF StoredOK, AfterCommit
        <4> QED
          BY <1>3, <4>3, <4>4, <4>6 DEF Fetched
      <3>4. ASSUME NEW item \in WorkItem, phase'[item] = "completed" \/ "ok" \in tried'[item]
            PROVE  phase[item] = "completed" \/ "ok" \in tried[item] \/ Fetched(item)'
        <4>1. CASE item = exec[x].item /\ Outcome(x) = "ok"
          BY <1>3, <3>3, <4>1 DEF Fetched
        <4>2. CASE ~(item = exec[x].item /\ Outcome(x) = "ok")
          BY <3>2, <3>4, <4>2
        <4> QED
          BY <4>1, <4>2
      <3> QED
        BY <3>2, <3>4
    <2> QED
      BY <2>2, <2>3
  <1> QED
    BY <1>3, <1>4, <1>5, <1>6, <1>7, <1>8, <1>9, <1>10, StepKeeps DEF ExecInv

LEMMA DiesKeeps ==
  ASSUME IInv, NEW x \in Execution, Dies(x)
  PROVE  IInv'
  <1>1. x \in Active /\ DOMAIN exec = Execution /\ FormOK(x)
    BY DEF Dies, IInv, ExecInv
  <1>2. /\ exec'[x] = [Idle EXCEPT !.pc = "failed", !.item = exec[x].item]
        /\ DOMAIN exec' = Execution
        /\ \A y \in Execution \ {x} : exec'[y] = exec[y]
    BY <1>1 DEF Dies
  <1>3. /\ DOMAIN exec'[x] = Fields /\ exec'[x].pc = "failed" /\ exec'[x].item = exec[x].item
        /\ exec'[x].batch = <<>> /\ exec'[x].status = <<>> /\ exec'[x].next = 1
        /\ exec'[x].affected = FALSE /\ exec'[x].clean = TRUE
    BY <1>2 DEF Idle, Fields
  <1>4. UNCHANGED <<sourceRuns, records, claims, impacts, phase, tried>> /\ nodes \subseteq nodes'
    BY DEF Dies
  <1>5. Frame(x)
    BY <1>2, <1>4 DEF Frame
  <1>6. FormOK(x)'
    <2>1. exec[x].item \in WorkItem \cup {NoItem} /\ exec[x].clean \in BOOLEAN
      BY <1>1, Zenon DEF FormOK
    <2>2. 1 \in Nat /\ FALSE \in BOOLEAN /\ TRUE \in BOOLEAN
      OBVIOUS
    <2> QED
      BY <1>3, <2>1, <2>2 DEF FormOK, Control
  <1>7. BatchOK(x)'
    <2>1. <<>> \in Seq(Node) /\ ToSet(<<>>) = {}
      BY DEF ToSet
    <2> QED
      BY <1>3, <2>1 DEF BatchOK, Active
  <1>8. StoredOK(x)' /\ AssessedOK(x)'
    BY <1>3 DEF StoredOK, AssessedOK, AfterCommit
  <1> QED
    BY <1>3, <1>4, <1>5, <1>6, <1>7, <1>8, QuietStepKeeps DEF ExecInv

\* Steps that touch no execution: policies and settlements.
LEMMA SettlementKeeps ==
  ASSUME IInv, UNCHANGED <<stores, exec>>, QueueOK',
         \A item \in WorkItem :
           phase'[item] = "completed" \/ "ok" \in tried'[item] =>
             phase[item] = "completed" \/ "ok" \in tried[item]
  PROVE  IInv'
  <1>1. UNCHANGED <<sourceRuns, records, nodes, edges, claims, impacts>> /\ exec' = exec
    BY DEF stores
  <1>2. \A x \in Execution : ExecInv(x)'
    <2> SUFFICES ASSUME NEW x \in Execution
                 PROVE  ExecInv(x)'
      OBVIOUS
    <2>1. ExecInv(x)
      BY DEF IInv
    <2> QED
      BY <1>1, <2>1 DEF ExecInv, FormOK, BatchOK, StoredOK, AssessedOK, Covers, Active, Own, SourceRunsOf, RecordsOf
  <1>3. Attributed' /\ ClaimsTraceable'
    BY <1>1 DEF IInv, Attributed, ClaimsTraceable
  <1>4. SuccessFetched'
    BY <1>1 DEF IInv, SuccessFetched, Fetched
  <1> QED
    BY <1>1, <1>2, <1>3, <1>4 DEF IInv

-----------------------------------------------------------------------------
(* The theorems *)

LEMMA InitIInv == Init => IInv
  <1> SUFFICES ASSUME Init
               PROVE  IInv
    OBVIOUS
  <1>1. ASSUME NEW x \in Execution
        PROVE  ExecInv(x)
    <2>1. exec[x] = Idle
      BY DEF Init
    <2>2. /\ DOMAIN exec[x] = Fields /\ exec[x].pc = "idle" /\ exec[x].item = NoItem /\ exec[x].batch = <<>>
          /\ exec[x].next = 1 /\ exec[x].affected = FALSE /\ exec[x].clean = TRUE
      BY <2>1 DEF Idle, Fields
    <2>3. Own(x) = {}
      BY DEF Init, Own
    <2>4. <<>> \in Seq(Node) /\ ToSet(<<>>) = {}
      BY DEF ToSet
    <2>5. FormOK(x)
      <3>1. 1 \in Nat /\ FALSE \in BOOLEAN /\ TRUE \in BOOLEAN
        OBVIOUS
      <3> QED
        BY <2>2, <3>1 DEF FormOK, Control
    <2>6. BatchOK(x)
      BY <2>2, <2>4 DEF BatchOK, Active
    <2>7. StoredOK(x) /\ AssessedOK(x)
      BY <2>2, <2>3 DEF StoredOK, AssessedOK, AfterCommit
    <2> QED
      BY <2>5, <2>6, <2>7 DEF ExecInv
  <1>2. Attributed /\ ClaimsTraceable
    BY DEF Init, Attributed, ClaimsTraceable
  <1>3. SuccessFetched /\ QueueOK
    BY DEF Init, Queue!Init, SuccessFetched, QueueOK
  <1> QED
    BY <1>1, <1>2, <1>3 DEF Init, IInv

\* Every step keeps the invariant.
LEMMA NextIInv ==
  ASSUME IInv, [Next]_vars
  PROVE  IInv'
  <1>1. CASE UNCHANGED vars
    BY <1>1, SettlementKeeps DEF vars, IInv, QueueOK
  <1>2. ASSUME NEW s \in Scheduled, Schedules(s)
        PROVE  IInv'
    <2>1. CASE UNCHANGED <<phase, tried>>
      BY <1>2, <2>1, SettlementKeeps
         DEF Schedules, UpsertDynamicSourcePolicy, RunDueSourceJobs, IInv, QueueOK
    <2>2. CASE ~UNCHANGED <<phase, tried>>
      <3>1. RunDueSourceJobs(s)
        BY <1>2, <2>2 DEF Schedules, UpsertDynamicSourcePolicy
      <3>2. /\ Queue!Submit(<<s, policy[s].next>>) /\ UNCHANGED <<stores, exec>>
        BY <2>2, <3>1 DEF RunDueSourceJobs
      <3>3. QueueOK'
        BY <3>2 DEF Queue!Submit, IInv, QueueOK
      <3>4. \A item \in WorkItem :
              phase'[item] = "completed" \/ "ok" \in tried'[item] =>
                phase[item] = "completed" \/ "ok" \in tried[item]
        BY <3>2 DEF Queue!Submit, IInv, QueueOK
      <3> QED
        BY <3>2, <3>3, <3>4, SettlementKeeps
    <2> QED
      BY <2>1, <2>2
  <1>3. ASSUME NEW x \in Execution, Starts(x)
        PROVE  IInv'
    <2>1. ASSUME NEW item \in WorkItem, NEW result \in Result(item[1]), ExecuteItem(x, item, result)
          PROVE  IInv'
      <3>1. item[1] \in Source
        BY SourceIngestionAssumption DEF SourceIngestionAssumption, WorkItem
      <3>2. <<item[1]>> \in Seq(Source) /\ DOMAIN <<item[1]>> = {1} /\ DOMAIN <<result>> = {1}
        BY <3>1
      <3>3. <<result>> \in Results(<<item[1]>>)
        BY OneResult
      <3>4. RunJobs(x, item, <<item[1]>>, <<result>>)
        BY <2>1 DEF ExecuteItem
      <3> QED
        BY <3>2, <3>3, <3>4, RunJobsKeeps
    <2>2. ASSUME NEW sources \in Batch, NEW results \in Results(sources), CallIngestion(x, sources, results)
          PROVE  IInv'
      <3>1. sources \in Seq(Source)
        BY SourceIngestionAssumption DEF SourceIngestionAssumption
      <3> QED
        BY <2>2, <3>1, RunJobsKeeps DEF CallIngestion
    <2> QED
      BY <1>3, <2>1, <2>2 DEF Starts
  <1>4. ASSUME NEW x \in Execution, Promotes(x)
        PROVE  IInv'
    <2>1. ASSUME NEW i \in DOMAIN exec[x].batch, NodeFails(x, i) \/ LinkEvidenceLineage(x, i) \/ LinkFails(x, i)
          PROVE  IInv'
      BY <2>1, NodeFailsKeeps, LinkKeeps
    <2> QED
      BY <1>4, <2>1, RecordNodesKeeps, AnalysisKeeps, ClaimKeeps, RecomputeKeeps, RecordImpactKeeps,
         AssessmentFailsKeeps DEF Promotes
  <1>5. ASSUME NEW x \in Execution, Executes(x)
        PROVE  IInv'
    BY <1>3, <1>4, <1>5, PersistToPostgresKeeps, PersistFailsKeeps, EndsKeeps, DiesKeeps DEF Executes
  <1>6. ASSUME NEW item \in WorkItem, Settle(item)
        PROVE  IInv'
    <2>1. UNCHANGED <<stores, exec, tried>> /\ QueueOK'
      BY <1>6 DEF Settle, Queue!SettleCompleted, Queue!GiveUp, IInv, QueueOK
    <2>2. \A i \in WorkItem : phase'[i] = "completed" => phase[i] = "completed" \/ "ok" \in tried[i]
      BY <1>6 DEF Settle, Queue!SettleCompleted, Queue!GiveUp, IInv, QueueOK
    <2> QED
      BY <2>1, <2>2, SettlementKeeps
  <1> QED
    BY <1>1, <1>2, <1>5, <1>6 DEF Next

-----------------------------------------------------------------------------
(* The roots of a node *)

Links(links) == links \in SUBSET (Node \X Node) /\ IsFiniteSet(links)

\* The edges not yet behind the path: fewer with each step up.
Ahead(links, seen) == {e \in links : e[1] \notin seen}

\* One step of collectRoots.
Collected(g, links, seen, m) ==
  IF m \in seen \/ ParentsIn(links, m) = {}
  THEN {m}
  ELSE UNION {g[seen \cup {m}][p] : p \in ParentsIn(links, m)}

Collects(g, links) == g = [seen \in SUBSET Node |-> [m \in Node |-> Collected(g, links, seen, m)]]

CollectsUpTo(k, g, links) ==
  \A seen \in SUBSET Node : Cardinality(Ahead(links, seen)) <= k =>
    \A m \in Node : g[seen][m] = Collected(g, links, seen, m)

LEMMA ParentsAreLinked ==
  ASSUME NEW links, Links(links), NEW n
  PROVE  /\ ParentsIn(links, n) \subseteq Node
         /\ \A p : p \in ParentsIn(links, n) <=> <<n, p>> \in links
  BY DEF Links, ParentsIn

LEMMA FewerAhead ==
  ASSUME NEW links, Links(links), NEW seen \in SUBSET Node
  PROVE  /\ Cardinality(Ahead(links, seen)) \in Nat
         /\ \A m \in Node \ seen : ParentsIn(links, m) # {} =>
              Cardinality(Ahead(links, seen \cup {m})) < Cardinality(Ahead(links, seen))
  <1>1. IsFiniteSet(links) /\ Ahead(links, seen) \in SUBSET links
    BY DEF Links, Ahead
  <1>2. IsFiniteSet(Ahead(links, seen))
    BY <1>1, FS_Subset
  <1>3. Cardinality(Ahead(links, seen)) \in Nat
    BY <1>2, FS_CardinalityType
  <1>4. ASSUME NEW m \in Node \ seen, ParentsIn(links, m) # {}
        PROVE  Cardinality(Ahead(links, seen \cup {m})) < Cardinality(Ahead(links, seen))
    <2>1. PICK p : <<m, p>> \in links
      BY <1>4, ParentsAreLinked
    <2>2. /\ Ahead(links, seen \cup {m}) \in SUBSET Ahead(links, seen)
          /\ Ahead(links, seen \cup {m}) # Ahead(links, seen)
      BY <2>1 DEF Ahead
    <2>3. /\ IsFiniteSet(Ahead(links, seen \cup {m}))
          /\ Cardinality(Ahead(links, seen \cup {m})) <= Cardinality(Ahead(links, seen))
          /\ Cardinality(Ahead(links, seen \cup {m})) # Cardinality(Ahead(links, seen))
      BY <1>2, <2>2, FS_Subset
    <2>4. Cardinality(Ahead(links, seen \cup {m})) \in Nat
      BY <2>3, FS_CardinalityType
    <2> QED BY <1>3, <2>3, <2>4
  <1> QED BY <1>3, <1>4

\* The recursive function of Roots exists.
LEMMA CollectDefined ==
  ASSUME NEW links, Links(links)
  PROVE  \E g : Collects(g, links)
  <1> DEFINE T == {k \in Nat : ~\E g : CollectsUpTo(k, g, links)}
             Left(seen) == Cardinality(Ahead(links, seen))
  <1>1. T = {}
    <2> SUFFICES ASSUME T # {} PROVE FALSE
      OBVIOUS
    <2>1. PICK k \in T : \A m \in T : k <= m
      BY Smallest
    <2>2. k \in Nat /\ ~\E g : CollectsUpTo(k, g, links)
      OBVIOUS
    <2>3. \E h : k # 0 => CollectsUpTo(k - 1, h, links)
      <3>1. CASE k = 0
        BY <3>1
      <3>2. CASE k # 0
        <4>1. k - 1 \in Nat /\ k - 1 \notin T
          <5> HIDE DEF T
          <5>1. k - 1 \in Nat /\ ~(k <= k - 1)
            BY <2>2, <3>2
          <5> QED BY <5>1, <2>1
        <4> QED BY <4>1
      <3> QED BY <3>1, <3>2
    <2>4. PICK h : k # 0 => CollectsUpTo(k - 1, h, links)
      BY <2>3
    <2> HIDE DEF T
    <2> DEFINE g == [seen \in SUBSET Node |->
                      [m \in Node |-> IF Left(seen) < k THEN h[seen][m] ELSE Collected(h, links, seen, m)]]
    <2>5. ASSUME NEW seen \in SUBSET Node, Left(seen) <= k, NEW m \in Node
          PROVE  g[seen][m] = Collected(g, links, seen, m)
      <3>1. Left(seen) \in Nat
        BY FewerAhead
      <3>2. g[seen][m] = Collected(h, links, seen, m)
        <4>1. CASE Left(seen) < k
          <5>1. k # 0 /\ Left(seen) <= k - 1
            BY <2>2, <3>1, <4>1
          <5>2. h[seen][m] = Collected(h, links, seen, m)
            BY <5>1, <2>4 DEF CollectsUpTo
          <5> QED BY <4>1, <5>2
        <4>2. CASE ~(Left(seen) < k)
          BY <4>2
        <4> QED BY <4>1, <4>2
      <3>3. CASE m \in seen \/ ParentsIn(links, m) = {}
        BY <3>2, <3>3 DEF Collected
      <3>4. CASE ~(m \in seen \/ ParentsIn(links, m) = {})
        <4>1. Left(seen \cup {m}) \in Nat /\ Left(seen \cup {m}) < Left(seen)
          BY <3>4, FewerAhead
        <4>2. Left(seen \cup {m}) < k
          BY <4>1, <3>1, <2>2, <2>5
        <4>3. \A p \in ParentsIn(links, m) : g[seen \cup {m}][p] = h[seen \cup {m}][p]
          BY <4>2, ParentsAreLinked
        <4> HIDE DEF g
        <4> QED BY <3>2, <3>4, <4>3 DEF Collected
      <3> QED BY <3>3, <3>4
    <2>6. CollectsUpTo(k, g, links)
      <3> HIDE DEF g
      <3> QED BY <2>5 DEF CollectsUpTo
    <2> QED BY <2>2, <2>6
  <1>2. Left({}) \in Nat
    BY FewerAhead
  <1>3. PICK h : CollectsUpTo(Left({}), h, links)
    BY <1>1, <1>2
  <1> DEFINE g == [seen \in SUBSET Node |-> [m \in Node |-> h[seen][m]]]
  <1>4. ASSUME NEW seen \in SUBSET Node, NEW m \in Node
        PROVE  h[seen][m] = Collected(g, links, seen, m)
    <2>1. Ahead(links, seen) \in SUBSET Ahead(links, {}) /\ IsFiniteSet(Ahead(links, {}))
      <3>1. Ahead(links, {}) = links
        BY DEF Ahead
      <3> QED BY <3>1 DEF Ahead, Links
    <2>2. Left(seen) <= Left({})
      BY <2>1, FS_Subset
    <2>3. h[seen][m] = Collected(h, links, seen, m)
      BY <2>2, <1>3 DEF CollectsUpTo
    <2>4. \A p \in ParentsIn(links, m) : g[seen \cup {m}][p] = h[seen \cup {m}][p]
      BY ParentsAreLinked
    <2> HIDE DEF g
    <2> QED BY <2>3, <2>4 DEF Collected
  <1>5. Collects(g, links)
    <2>1. \A seen \in SUBSET Node : [m \in Node |-> h[seen][m]] = [m \in Node |-> Collected(g, links, seen, m)]
      BY <1>4
    <2> QED BY <2>1 DEF Collects
  <1> QED BY <1>5

LEMMA RootsCollected ==
  ASSUME NEW links, Links(links)
  PROVE  \E g : /\ \A seen \in SUBSET Node, m \in Node : g[seen][m] = Collected(g, links, seen, m)
                /\ \A n : Roots(links, n) = g[{}][n]
  <1> DEFINE g == CHOOSE f : Collects(f, links)
  <1>1. Collects(g, links)
    BY CollectDefined
  <1>2. ASSUME NEW n PROVE Roots(links, n) = g[{}][n]
    BY Zenon DEF Roots, Collects, Collected
  <1> HIDE DEF g
  <1>3. \A seen \in SUBSET Node, m \in Node : g[seen][m] = Collected(g, links, seen, m)
    BY <1>1 DEF Collects
  <1> QED BY <1>2, <1>3

\* What a node goes back to.
Closed(links, S) == \A m \in S : ParentsIn(links, m) \subseteq S

LEMMA RootsWithin ==
  ASSUME NEW links, Links(links), NEW S \in SUBSET Node, Closed(links, S), NEW n \in S
  PROVE  Roots(links, n) \subseteq S /\ Roots(links, n) # {}
  <1>1. PICK g : /\ \A seen \in SUBSET Node, m \in Node : g[seen][m] = Collected(g, links, seen, m)
                 /\ \A r : Roots(links, r) = g[{}][r]
    BY RootsCollected
  <1> DEFINE Left(seen) == Cardinality(Ahead(links, seen))
             Wrong(seen, m) == ~(g[seen][m] \subseteq S /\ g[seen][m] # {})
             T == {k \in Nat : \E seen \in SUBSET Node, m \in S : Left(seen) = k /\ Wrong(seen, m)}
  <1>2. T = {}
    <2> SUFFICES ASSUME T # {} PROVE FALSE
      OBVIOUS
    <2>1. PICK k \in T : \A l \in T : k <= l
      BY Smallest
    <2>2. PICK seen \in SUBSET Node, m \in S : Left(seen) = k /\ Wrong(seen, m)
      OBVIOUS
    <2>3. g[seen][m] = Collected(g, links, seen, m)
      BY <1>1
    <2>4. CASE m \in seen \/ ParentsIn(links, m) = {}
      BY <2>2, <2>3, <2>4 DEF Collected
    <2>5. CASE ~(m \in seen \/ ParentsIn(links, m) = {})
      <3>1. /\ Left(seen) \in Nat
            /\ Left(seen \cup {m}) \in Nat /\ Left(seen \cup {m}) < Left(seen)
        BY <2>5, FewerAhead
      <3>2. ASSUME NEW p \in ParentsIn(links, m)
            PROVE  ~Wrong(seen \cup {m}, p)
        <4>1. p \in S
          BY DEF Closed
        <4>2. Left(seen \cup {m}) \notin T
          <5> HIDE DEF T
          <5>1. k \in Nat /\ ~(k <= Left(seen \cup {m}))
            BY <3>1, <2>2
          <5> QED BY <5>1, <2>1
        <4> HIDE DEF Wrong, Left
        <4> QED BY <4>1, <4>2, <3>1
      <3>3. g[seen][m] = UNION {g[seen \cup {m}][p] : p \in ParentsIn(links, m)}
        BY <2>3, <2>5 DEF Collected
      <3>4. PICK p \in ParentsIn(links, m) : TRUE
        BY <2>5
      <3>5. g[seen][m] # {}
        <4>1. PICK r : r \in g[seen \cup {m}][p]
          BY <3>2, <3>4
        <4>2. r \in UNION {g[seen \cup {m}][q] : q \in ParentsIn(links, m)}
          BY <4>1, <3>4
        <4> HIDE DEF T, Wrong
        <4> QED BY <4>2, <3>3
      <3>6. g[seen][m] \subseteq S
        <4>1. \A q \in ParentsIn(links, m) : g[seen \cup {m}][q] \subseteq S
          BY <3>2
        <4> HIDE DEF T, Wrong
        <4> QED BY <4>1, <3>3
      <3> QED BY <2>2, <3>5, <3>6
    <2> QED BY <2>4, <2>5
  <1>3. Left({}) \in Nat
    BY FewerAhead
  <1>4. ~Wrong({}, n)
    <2> HIDE DEF Wrong, Left
    <2> QED BY <1>2, <1>3
  <1> QED BY <1>1, <1>4

Reaches(links, m, r) == \A S \in SUBSET Node : Closed(links, S) /\ m \in S => r \in S

LEMMA ReachesFacts ==
  ASSUME NEW links, Links(links), NEW m \in Node
  PROVE  /\ Reaches(links, m, m)
         /\ \A r : \A p \in ParentsIn(links, m) : Reaches(links, p, r) => Reaches(links, m, r)
         /\ \A r : Reaches(links, m, r) /\ r # m => \E p \in ParentsIn(links, m) : Reaches(links, p, r)
         /\ \A r : Reaches(links, m, r) => r \in Node
  <1>1. Reaches(links, m, m)
    BY DEF Reaches
  <1>2. ASSUME NEW p \in ParentsIn(links, m), NEW r, Reaches(links, p, r)
        PROVE  Reaches(links, m, r)
    BY <1>2 DEF Reaches, Closed
  <1>3. ASSUME NEW r, Reaches(links, m, r), r # m
        PROVE  \E p \in ParentsIn(links, m) : Reaches(links, p, r)
    <2> DEFINE S == {m} \cup {s \in Node : \E p \in ParentsIn(links, m) : Reaches(links, p, s)}
    <2>1. ASSUME NEW s \in S, NEW q \in ParentsIn(links, s)
          PROVE  q \in S
      <3>1. q \in Node
        BY ParentsAreLinked
      <3>2. CASE s = m
        BY <3>1, <3>2 DEF Reaches
      <3>3. CASE s # m
        <4>1. PICK p \in ParentsIn(links, m) : Reaches(links, p, s)
          BY <3>3
        <4>2. Reaches(links, p, q)
          BY <4>1 DEF Reaches, Closed
        <4> QED BY <3>1, <4>2
      <3> QED BY <3>2, <3>3
    <2>2. Closed(links, S)
      BY <2>1 DEF Closed
    <2>3. r \in S
      <3> HIDE DEF S
      <3>1. S \in SUBSET Node /\ m \in S
        BY DEF S
      <3> QED BY <1>3, <2>2, <3>1 DEF Reaches
    <2> QED BY <1>3, <2>3
  <1>4. ASSUME NEW r, Reaches(links, m, r)
        PROVE  r \in Node
    <2>1. Closed(links, Node)
      BY ParentsAreLinked DEF Closed
    <2> QED BY <1>4, <2>1 DEF Reaches
  <1> QED BY <1>1, <1>2, <1>3, <1>4

\* The nodes seen on the way to m: each has a parent further up.
OnPath(links, seen, m) == \A s \in seen : ParentsIn(links, s) \cap (seen \cup {m}) # {}

Tops(links, m) == {r \in Node : ParentsIn(links, r) = {} /\ Reaches(links, m, r)}

LEMMA NotMetAgain ==
  ASSUME NEW links, Links(links), Acyclic(links), NEW seen \in SUBSET Node, NEW m, OnPath(links, seen, m)
  PROVE  m \notin seen
  <1> SUFFICES ASSUME m \in seen PROVE FALSE
    OBVIOUS
  <1>1. \A s \in seen : ParentsIn(links, s) \cap seen # {}
    BY DEF OnPath
  <1>2. seen \in SUBSET {e[1] : e \in links}
    BY <1>1 DEF ParentsIn
  <1> QED BY <1>1, <1>2 DEF Acyclic

LEMMA RootsAreTops ==
  ASSUME NEW links, Links(links), Acyclic(links), NEW n \in Node
  PROVE  Roots(links, n) = Tops(links, n)
  <1>1. PICK g : /\ \A seen \in SUBSET Node, m \in Node : g[seen][m] = Collected(g, links, seen, m)
                 /\ \A r : Roots(links, r) = g[{}][r]
    BY RootsCollected
  <1> DEFINE Left(seen) == Cardinality(Ahead(links, seen))
             Wrong(seen, m) == OnPath(links, seen, m) /\ g[seen][m] # Tops(links, m)
             T == {k \in Nat : \E seen \in SUBSET Node, m \in Node : Left(seen) = k /\ Wrong(seen, m)}
  <1>2. T = {}
    <2> SUFFICES ASSUME T # {} PROVE FALSE
      OBVIOUS
    <2>1. PICK k \in T : \A l \in T : k <= l
      BY Smallest
    <2>2. PICK seen \in SUBSET Node, m \in Node : Left(seen) = k /\ Wrong(seen, m)
      OBVIOUS
    <2>3. g[seen][m] = Collected(g, links, seen, m)
      BY <1>1
    <2>4. m \notin seen
      BY <2>2, NotMetAgain
    <2>5. CASE ParentsIn(links, m) = {}
      <3>1. g[seen][m] = {m}
        BY <2>3, <2>5 DEF Collected
      <3>2. Tops(links, m) = {m}
        BY <2>5, ReachesFacts DEF Tops
      <3> QED BY <2>2, <3>1, <3>2
    <2>6. CASE ParentsIn(links, m) # {}
      <3>1. /\ Left(seen) \in Nat
            /\ Left(seen \cup {m}) \in Nat /\ Left(seen \cup {m}) < Left(seen)
        BY <2>4, <2>6, FewerAhead
      <3>2. ASSUME NEW p \in ParentsIn(links, m)
            PROVE  g[seen \cup {m}][p] = Tops(links, p)
        <4>1. p \in Node
          BY ParentsAreLinked
        <4>2. Left(seen \cup {m}) \notin T
          <5> HIDE DEF T
          <5>1. k \in Nat /\ ~(k <= Left(seen \cup {m}))
            BY <3>1, <2>2
          <5> QED BY <5>1, <2>1
        <4>3. OnPath(links, seen \cup {m}, p)
          <5>1. OnPath(links, seen, m)
            BY <2>2
          <5> QED BY <5>1 DEF OnPath
        <4>4. ~Wrong(seen \cup {m}, p)
          <5> HIDE DEF Wrong, Left
          <5> QED BY <4>1, <4>2, <3>1
        <4> QED BY <4>3, <4>4
      <3>3. g[seen][m] = UNION {g[seen \cup {m}][p] : p \in ParentsIn(links, m)}
        BY <2>3, <2>4, <2>6 DEF Collected
      <3>4. \A r : r \in g[seen][m] <=> \E p \in ParentsIn(links, m) : r \in Tops(links, p)
        <4> HIDE DEF T
        <4> QED BY <3>2, <3>3
      <3>5. \A r : r \in Tops(links, m) <=> \E p \in ParentsIn(links, m) : r \in Tops(links, p)
        <4>1. \A r : r \in Tops(links, m) => r # m
          BY <2>6 DEF Tops
        <4> QED BY <4>1, ReachesFacts DEF Tops
      <3>6. g[seen][m] = Tops(links, m)
        <4>1. \A r : r \in g[seen][m] <=> r \in Tops(links, m)
          BY <3>4, <3>5
        <4>2. Tops(links, m) \subseteq g[seen][m] /\ g[seen][m] \subseteq Tops(links, m)
          BY <4>1
        <4> QED BY <4>2
      <3> QED BY <2>2, <3>6
    <2> QED BY <2>5, <2>6
  <1>3. Left({}) \in Nat
    BY FewerAhead
  <1>4. ~Wrong({}, n)
    <2> HIDE DEF Wrong, Left
    <2> QED BY <1>2, <1>3
  <1>5. OnPath(links, {}, n)
    BY DEF OnPath
  <1> QED BY <1>1, <1>4, <1>5

\* A node has the roots of whatever it goes back to.
LEMMA RootsInherited ==
  ASSUME NEW links, Links(links), Acyclic(links), NEW m \in Node, NEW n \in Node, Reaches(links, m, n)
  PROVE  Roots(links, n) \subseteq Roots(links, m)
  <1>1. Tops(links, n) \subseteq Tops(links, m)
    BY DEF Tops, Reaches
  <1> QED BY <1>1, RootsAreTops

-----------------------------------------------------------------------------
(* The order of publication and the links inferred *)

Story(n) == StoryOf[n[2]]

\* Reports that are alike have one story, and a report has its own.
LEMMA AlikeMeansStory ==
  ASSUME NEW q \in Report, NEW r \in Report
  PROVE  /\ q \in StoryOf[q] /\ Likeness(q, r) \in 0..Same
         /\ Alike(q, r) => StoryOf[q] = StoryOf[r]
  <1> DEFINE Whole(S) == \A s \in S, t \in Report : Alike(s, t) => t \in S
             story(t) == {p \in Report : \A S \in SUBSET Report : t \in S /\ Whole(S) => p \in S}
  <1>1. StoryOf[q] = story(q) /\ StoryOf[r] = story(r)
    BY DEF StoryOf
  <1>2. Likeness(q, r) \in 0..Same /\ Likeness(q, r) = Likeness(r, q)
    BY EvidenceLineageAssumption DEF EvidenceLineageAssumption, Likeness
  <1>3. ASSUME Alike(q, r)
        PROVE  story(q) = story(r)
    <2>1. Alike(r, q)
      BY <1>2, <1>3 DEF Alike
    <2>2. ASSUME NEW S \in SUBSET Report, Whole(S)
          PROVE  q \in S <=> r \in S
      BY <1>3, <2>1, <2>2
    <2> HIDE DEF Whole
    <2> QED BY <2>2
  <1>4. q \in story(q)
    OBVIOUS
  <1> HIDE DEF story
  <1> QED BY <1>1, <1>2, <1>3, <1>4

LEMMA SimilarMeansStory ==
  ASSUME NEW m \in Node, NEW n \in Node
  PROVE  /\ Similarity(m, n) \in 0..Same
         /\ Similarity(m, n) >= Threshold => Story(m) = Story(n)
         /\ Story(m) = Story(n) /\ Clear(Story(n)) => Similarity(m, n) >= Threshold
  <1>1. m[2] \in Report /\ n[2] \in Report
    BY DEF Node
  <1>2. /\ m[2] \in StoryOf[m[2]] /\ n[2] \in StoryOf[n[2]]
        /\ Likeness(m[2], n[2]) \in 0..Same
        /\ Alike(m[2], n[2]) => StoryOf[m[2]] = StoryOf[n[2]]
    BY <1>1, AlikeMeansStory
  <1> QED BY <1>2 DEF Similarity, Alike, Clear, Story

LEMMA PublishedType ==
  ASSUME NEW batch \in Seq(Node), NEW i \in DOMAIN batch
  PROVE  Published[batch[i][2]] \in Nat /\ i \in Nat /\ batch[i] \in Node
  <1>1. batch[i] \in Node /\ i \in Nat
    OBVIOUS
  <1>2. batch[i][2] \in Report
    BY <1>1 DEF Node
  <1> QED BY <1>1, <1>2, EvidenceLineageAssumption DEF EvidenceLineageAssumption

LEMMA Earliest ==
  ASSUME NEW batch \in Seq(Node), NEW I \in SUBSET DOMAIN batch, I # {}
  PROVE  \E e \in I : \A i \in I : ~Before(batch, i, e) /\ (i # e => Before(batch, e, i))
  <1> DEFINE pub(i) == Published[batch[i][2]]
             Pubs == {n \in Nat : \E i \in I : pub(i) = n}
  <1>1. \A i \in I : pub(i) \in Nat /\ i \in Nat
    BY PublishedType
  <1>2. PICK p \in Pubs : \A n \in Pubs : p <= n
    <2>1. Pubs # {} /\ Pubs \in SUBSET Nat
      BY <1>1
    <2> HIDE DEF Pubs
    <2> QED BY <2>1, Smallest
  <1> DEFINE First == {i \in I : pub(i) = p}
  <1>3. PICK e \in First : \A i \in First : e <= i
    <2>1. First # {} /\ First \in SUBSET Nat
      BY <1>1
    <2> HIDE DEF First
    <2> QED BY <2>1, Smallest
  <1>4. ASSUME NEW i \in I
        PROVE  ~Before(batch, i, e) /\ (i # e => Before(batch, e, i))
    <2>1. pub(i) \in Nat /\ p \in Nat /\ i \in Nat /\ e \in Nat /\ p <= pub(i) /\ pub(e) = p
      <3>1. pub(i) \in Pubs
        BY <1>1
      <3> QED BY <3>1, <1>1, <1>2, <1>3
    <2>2. pub(i) = p => e <= i
      BY <1>3
    <2> HIDE DEF pub, Pubs, First
    <2> QED BY <2>1, <2>2 DEF Before, pub
  <1> QED BY <1>3, <1>4

LEMMA InferredLink ==
  ASSUME NEW batch \in Seq(Node), NEW i \in DOMAIN batch, Candidates(batch, i) # {}
  PROVE  \E b \in Candidates(batch, i) : InferredEdge(batch, i) = <<batch[i], batch[b]>>
  <1> DEFINE C == Candidates(batch, i)
             score(j) == Similarity(batch[j], batch[i])
             Best(j) == \A k \in C : score(k) < score(j) \/ (score(k) = score(j) /\ ~Before(batch, k, j))
             Top == {j \in C : \A k \in C : score(k) <= score(j)}
  <1>1. C \in SUBSET DOMAIN batch
    BY DEF Candidates
  <1>2. \A j \in C : score(j) \in 0..Same /\ Same \in Nat
    <2>1. \A j \in DOMAIN batch : batch[j] \in Node
      OBVIOUS
    <2> QED BY <1>1, <2>1, SimilarMeansStory, EvidenceLineageAssumption DEF EvidenceLineageAssumption
  <1>3. Top # {}
    <2> DEFINE Short == {d \in Nat : \E j \in C : Same - score(j) = d}
    <2> HIDE DEF C, score
    <2>1. Short # {} /\ Short \in SUBSET Nat
      <3>1. PICK c \in C : TRUE
        BY DEF C
      <3>2. Same - score(c) \in Nat
        BY <1>2, <3>1
      <3> QED BY <3>1, <3>2
    <2>2. PICK d \in Short : \A e \in Short : d <= e
      <3> HIDE DEF Short
      <3> QED BY <2>1, Smallest
    <2>3. PICK c \in C : Same - score(c) = d
      OBVIOUS
    <2>4. ASSUME NEW k \in C
          PROVE  score(k) <= score(c)
      <3>1. Same - score(k) \in Short
        BY <1>2, <2>4
      <3>2. Same - score(c) <= Same - score(k)
        BY <2>2, <2>3, <3>1
      <3> QED BY <1>2, <2>3, <3>2
    <2> QED BY <2>3, <2>4
  <1>4. PICK b \in Top : \A k \in Top : ~Before(batch, k, b)
    <2>1. Top \in SUBSET DOMAIN batch
      BY <1>1
    <2> HIDE DEF Top
    <2> QED BY <2>1, <1>3, Earliest
  <1>5. b \in C /\ Best(b)
    <2> HIDE DEF C, score
    <2>1. b \in C /\ \A k \in C : score(k) <= score(b)
      OBVIOUS
    <2>2. ASSUME NEW k \in C
          PROVE  score(k) < score(b) \/ (score(k) = score(b) /\ ~Before(batch, k, b))
      <3>1. CASE score(k) = score(b)
        BY <3>1, <2>1, <1>4
      <3>2. CASE score(k) # score(b)
        BY <3>2, <2>1, <1>2
      <3> QED BY <3>1, <3>2
    <2> QED BY <2>1, <2>2
  <1>6. InferredEdge(batch, i) = <<batch[i], batch[CHOOSE j \in C : Best(j)]>>
    BY DEF InferredEdge
  <1> HIDE DEF Best, C
  <1>7. (CHOOSE j \in C : Best(j)) \in C
    BY <1>5
  <1> QED BY <1>6, <1>7 DEF C

\* All links of a batch are in edges: then copies go back to a common node.
Linked(batch, links, I) == \A i \in I : Candidates(batch, i) # {} => InferredEdge(batch, i) \in links

LEMMA CopiesMeet ==
  ASSUME NEW links, Links(links), NEW batch \in Seq(Node), Linked(batch, links, DOMAIN batch),
         NEW i \in DOMAIN batch, Clear(Story(batch[i]))
  PROVE  \E e \in DOMAIN batch :
           \A j \in DOMAIN batch : Story(batch[j]) = Story(batch[i]) => Reaches(links, batch[j], batch[e])
  <1> DEFINE Copies == {j \in DOMAIN batch : Story(batch[j]) = Story(batch[i])}
  <1>1. PICK e \in Copies : \A j \in Copies : j # e => Before(batch, e, j)
    <2>1. Copies # {} /\ Copies \in SUBSET DOMAIN batch
      OBVIOUS
    <2> HIDE DEF Copies
    <2> QED BY <2>1, Earliest
  <1> DEFINE Astray == {j \in Copies : ~Reaches(links, batch[j], batch[e])}
  <1>2. Astray = {}
    <2> SUFFICES ASSUME Astray # {} PROVE FALSE
      OBVIOUS
    <2>1. PICK a \in Astray : \A j \in Astray : ~Before(batch, j, a)
      <3>1. Astray \in SUBSET DOMAIN batch
        OBVIOUS
      <3> HIDE DEF Astray
      <3> QED BY <3>1, Earliest
    <2>2. a \in DOMAIN batch /\ batch[a] \in Node /\ Story(batch[a]) = Story(batch[i])
      BY PublishedType
    <2>3. batch[e] # batch[a]
      <3>1. Reaches(links, batch[a], batch[a])
        BY <2>2, ReachesFacts
      <3> QED BY <3>1
    <2>4. e \in Candidates(batch, a)
      <3>1. Before(batch, e, a)
        BY <1>1, <2>3
      <3>2. Similarity(batch[e], batch[a]) >= Threshold
        <4>1. batch[e] \in Node /\ Story(batch[e]) = Story(batch[i])
          BY <1>1
        <4> QED BY <2>2, <4>1, SimilarMeansStory
      <3> QED BY <3>1, <3>2, <2>3 DEF Candidates
    <2>5. PICK b \in Candidates(batch, a) : InferredEdge(batch, a) = <<batch[a], batch[b]>>
      BY <2>2, <2>4, InferredLink
    <2>6. batch[b] \in ParentsIn(links, batch[a])
      <3>1. <<batch[a], batch[b]>> \in links
        BY <2>2, <2>4, <2>5 DEF Linked
      <3> QED BY <3>1, ParentsAreLinked
    <2>7. b \in Copies /\ Before(batch, b, a)
      <3>1. b \in DOMAIN batch /\ Before(batch, b, a) /\ Similarity(batch[b], batch[a]) >= Threshold
        BY <2>5 DEF Candidates
      <3>2. Story(batch[b]) = Story(batch[a])
        BY <2>2, <3>1, SimilarMeansStory
      <3> QED BY <3>1, <3>2, <2>2
    <2>8. Reaches(links, batch[b], batch[e])
      BY <2>1, <2>7
    <2> QED BY <2>2, <2>6, <2>8, ReachesFacts
  <1> QED BY <1>2

\* Hence they have a root in common.
LEMMA CopiesShareRoots ==
  ASSUME NEW links, Links(links), Acyclic(links), NEW batch \in Seq(Node), Linked(batch, links, DOMAIN batch),
         NEW i \in DOMAIN batch, NEW j \in DOMAIN batch, Story(batch[i]) = Story(batch[j]), Clear(Story(batch[i]))
  PROVE  Roots(links, batch[i]) \cap Roots(links, batch[j]) # {}
  <1>1. PICK e \in DOMAIN batch :
          \A k \in DOMAIN batch : Story(batch[k]) = Story(batch[i]) => Reaches(links, batch[k], batch[e])
    BY CopiesMeet
  <1>2. batch[e] \in Node /\ batch[i] \in Node /\ batch[j] \in Node
    OBVIOUS
  <1>3. Closed(links, Node)
    BY ParentsAreLinked DEF Closed
  <1>4. Roots(links, batch[e]) # {}
    BY <1>2, <1>3, RootsWithin
  <1>5. /\ Roots(links, batch[e]) \subseteq Roots(links, batch[i])
        /\ Roots(links, batch[e]) \subseteq Roots(links, batch[j])
    BY <1>1, <1>2, RootsInherited
  <1> QED BY <1>4, <1>5

-----------------------------------------------------------------------------
(* Lineages *)

\* Edges between nodes on record, of one story each.
Recorded(links, stored) ==
  /\ Links(links)
  /\ stored \in SUBSET Node
  /\ links \subseteq stored \X stored
  /\ \A e \in links : Story(e[1]) = Story(e[2])

LEMMA RootsOfStory ==
  ASSUME NEW links, NEW stored, Recorded(links, stored), NEW n \in stored
  PROVE  /\ Roots(links, n) \subseteq stored /\ Roots(links, n) # {}
         /\ \A r \in Roots(links, n) : Story(r) = Story(n)
  <1> DEFINE S == {m \in stored : Story(m) = Story(n)}
  <1>1. Closed(links, S)
    <2> SUFFICES ASSUME NEW m \in S, NEW p \in ParentsIn(links, m) PROVE p \in S
      BY DEF Closed
    <2>1. <<m, p>> \in links
      BY ParentsAreLinked DEF Recorded
    <2> QED BY <2>1 DEF Recorded
  <1>2. S \in SUBSET Node /\ n \in S /\ Links(links)
    BY DEF Recorded
  <1> HIDE DEF S
  <1>3. Roots(links, n) \subseteq S /\ Roots(links, n) # {}
    BY <1>1, <1>2, RootsWithin
  <1> QED BY <1>3 DEF S

Group(stored) == [roots: SUBSET stored, members: SUBSET stored]

\* The node joins a group that shares a root, or a new one.
Joined(groups, joined, n, roots) ==
  \/ /\ \A i \in 1..Len(groups) : groups[i].roots \cap roots = {}
     /\ joined = Append(groups, [roots |-> roots, members |-> {n}])
  \/ \E i \in 1..Len(groups) :
       /\ groups[i].roots \cap roots # {}
       /\ joined = [groups EXCEPT ![i].roots = @ \cup roots, ![i].members = @ \cup {n}]

LEMMA JoinsOne ==
  ASSUME NEW groups, NEW n, NEW roots
  PROVE  Joined(groups, JoinGroup(groups, n, roots), n, roots)
  <1> DEFINE I == {i \in 1..Len(groups) : groups[i].roots \cap roots # {}}
             at == IF I # {} THEN Min(I) ELSE 0
  <1>1. SelectInSeq(groups, LAMBDA g : g.roots \cap roots # {}) = at
    BY Zenon DEF SelectInSeq
  <1>2. JoinGroup(groups, n, roots) =
          IF at = 0 THEN Append(groups, [roots |-> roots, members |-> {n}])
          ELSE [groups EXCEPT ![at].roots = @ \cup roots, ![at].members = @ \cup {n}]
    BY <1>1, Zenon DEF JoinGroup
  <1>3. CASE I = {}
    <2>1. at = 0
      BY <1>3
    <2> HIDE DEF at
    <2> QED BY <1>2, <1>3, <2>1 DEF Joined
  <1>4. CASE I # {}
    <2>1. Min(I) \in I
      <3>1. I \in SUBSET Nat
        OBVIOUS
      <3> HIDE DEF I
      <3> QED BY <3>1, <1>4, Smallest DEF Min
    <2>2. at \in I /\ at # 0
      BY <1>4, <2>1
    <2> HIDE DEF at
    <2> QED BY <1>2, <2>2 DEF Joined
  <1> QED BY <1>3, <1>4

\* Groups of the first k nodes: each is about one story and has the roots of
\* one of them, every node that counts is in one, and if copies share roots no
\* two are of one clear story.
Grouped(groups, batch, links, stored, k) ==
  /\ groups \in Seq(Group(stored))
  /\ \A i \in 1..Len(groups) :
       \E j \in 1..k :
         /\ Roots(links, batch[j]) \subseteq groups[i].roots
         /\ \A n \in groups[i].roots \cup groups[i].members : Story(n) = Story(batch[j])
  /\ \A j \in 1..k : Counted(batch, j) => \E i \in 1..Len(groups) : batch[j] \in groups[i].members

CopiesShare(batch, links) ==
  \A i, j \in DOMAIN batch :
    Story(batch[i]) = Story(batch[j]) /\ Clear(Story(batch[i])) => Roots(links, batch[i]) \cap Roots(links, batch[j]) # {}

OneGroupPerStory(groups) ==
  \A i, j \in 1..Len(groups) : \A m \in groups[i].roots, n \in groups[j].roots :
    Story(m) = Story(n) /\ Clear(Story(m)) => i = j

LEMMA GroupedStep ==
  ASSUME NEW links, NEW stored, Recorded(links, stored), NEW batch \in Seq(stored),
         NEW k \in 1..Len(batch), NEW groups, Grouped(groups, batch, links, stored, k - 1)
  PROVE  LET joined == JoinGroup(groups, batch[k], Roots(links, batch[k])) IN
         /\ Grouped(joined, batch, links, stored, k)
         /\ CopiesShare(batch, links) /\ OneGroupPerStory(groups) => OneGroupPerStory(joined)
  <1> DEFINE n == batch[k]
             roots == Roots(links, n)
             joined == JoinGroup(groups, n, roots)
  <1>1. n \in stored /\ k \in Nat /\ k - 1 \in Nat /\ Len(batch) \in Nat /\ DOMAIN batch = 1..Len(batch)
    OBVIOUS
  <1>2. roots \in SUBSET stored /\ roots # {} /\ \A r \in roots : Story(r) = Story(n)
    BY <1>1, RootsOfStory
  <1>3. /\ groups \in Seq(Group(stored)) /\ Len(groups) \in Nat
        /\ \A i \in 1..Len(groups) : groups[i] \in Group(stored)
    BY DEF Grouped
  <1>4. \A i \in 1..Len(groups) :
          \E j \in 1..k - 1 :
            /\ Roots(links, batch[j]) \subseteq groups[i].roots
            /\ \A m \in groups[i].roots \cup groups[i].members : Story(m) = Story(batch[j])
    BY DEF Grouped
  <1>5. \A j \in 1..k - 1 : Counted(batch, j) => \E i \in 1..Len(groups) : batch[j] \in groups[i].members
    BY DEF Grouped
  <1>6. \A j \in 1..k : j \in 1..k - 1 \/ j = k
    BY <1>1
  <1>7. 1..k - 1 \subseteq 1..k /\ k \in 1..k
    BY <1>1
  <1>n. batch[k] = n /\ Roots(links, batch[k]) = roots
    OBVIOUS
  <1>8. JoinGroup(groups, batch[k], Roots(links, batch[k])) = joined
    OBVIOUS
  <1> HIDE DEF n, roots
  <1>9. CASE /\ \A i \in 1..Len(groups) : groups[i].roots \cap roots = {}
             /\ joined = Append(groups, [roots |-> roots, members |-> {n}])
    <2> DEFINE new == [roots |-> roots, members |-> {n}]
    <2>1. /\ joined \in Seq(Group(stored)) /\ Len(joined) = Len(groups) + 1
          /\ joined[Len(groups) + 1] = new
          /\ \A i \in 1..Len(groups) : joined[i] = groups[i]
      <3>1. new \in Group(stored)
        BY <1>1, <1>2 DEF Group
      <3> HIDE DEF new
      <3> QED BY <3>1, <1>3, <1>9 DEF new
    <2>2. \A i \in 1..Len(joined) : i \in 1..Len(groups) \/ i = Len(groups) + 1
      BY <2>1, <1>3
    <2>3. new.roots = roots /\ new.members = {n}
      OBVIOUS
    <2> HIDE DEF joined, new
    <2>4. ASSUME NEW i \in 1..Len(joined)
          PROVE  \E j \in 1..k :
                   /\ Roots(links, batch[j]) \subseteq joined[i].roots
                   /\ \A m \in joined[i].roots \cup joined[i].members : Story(m) = Story(batch[j])
      <3>1. CASE i \in 1..Len(groups)
        <4>1. joined[i] = groups[i]
          BY <3>1, <2>1
        <4>2. PICK j \in 1..k - 1 :
                /\ Roots(links, batch[j]) \subseteq groups[i].roots
                /\ \A m \in groups[i].roots \cup groups[i].members : Story(m) = Story(batch[j])
          BY <3>1, <1>4
        <4> QED BY <4>1, <4>2, <1>7
      <3>2. CASE i = Len(groups) + 1
        <4>1. joined[i].roots = roots /\ joined[i].members = {n}
          BY <3>2, <2>1, <2>3
        <4>2. \A m \in joined[i].roots \cup joined[i].members : Story(m) = Story(n)
          BY <4>1, <1>2
        <4>3. Roots(links, batch[k]) \subseteq joined[i].roots
          BY <4>1, <1>n
        <4> QED BY <4>2, <4>3, <1>7, <1>n
      <3> QED BY <2>2, <3>1, <3>2
    <2>5. ASSUME NEW j \in 1..k, Counted(batch, j)
          PROVE  \E i \in 1..Len(joined) : batch[j] \in joined[i].members
      <3>1. CASE j \in 1..k - 1
        BY <3>1, <1>3, <1>5, <2>1, <2>5
      <3>2. CASE j = k
        <4>1. Len(groups) + 1 \in 1..Len(joined)
          BY <2>1, <1>3
        <4> QED BY <3>2, <4>1, <2>1, <2>3, <1>n
      <3> QED BY <1>6, <3>1, <3>2
    <2>6. ASSUME CopiesShare(batch, links), OneGroupPerStory(groups)
          PROVE  OneGroupPerStory(joined)
      <3>1. ASSUME NEW i \in 1..Len(groups), NEW m \in groups[i].roots, Clear(Story(m))
            PROVE  Story(m) # Story(n)
        <4>1. PICK j \in 1..k - 1 :
                /\ Roots(links, batch[j]) \subseteq groups[i].roots
                /\ \A l \in groups[i].roots \cup groups[i].members : Story(l) = Story(batch[j])
          BY <1>4
        <4>2. Story(m) = Story(batch[j])
          BY <4>1
        <4>3. j \in DOMAIN batch /\ k \in DOMAIN batch
          BY <1>1
        <4>4. Story(batch[j]) = Story(batch[k]) /\ Clear(Story(batch[j])) => Roots(links, batch[j]) \cap Roots(links, batch[k]) # {}
          BY <4>3, <2>6 DEF CopiesShare
        <4> QED BY <3>1, <4>1, <4>2, <4>4, <1>9, <1>n
      <3>2. \A r \in joined[Len(groups) + 1].roots : Story(r) = Story(n)
        BY <2>1, <2>3, <1>2
      <3> SUFFICES ASSUME NEW i \in 1..Len(joined), NEW j \in 1..Len(joined),
                          NEW m \in joined[i].roots, NEW l \in joined[j].roots, Story(m) = Story(l), Clear(Story(m))
                   PROVE  i = j
        BY DEF OneGroupPerStory
      <3>3. CASE i \in 1..Len(groups) /\ j \in 1..Len(groups)
        BY <3>3, <2>1, <2>6 DEF OneGroupPerStory
      <3>4. CASE i \in 1..Len(groups) /\ j = Len(groups) + 1
        BY <3>4, <3>1, <3>2, <2>1
      <3>5. CASE i = Len(groups) + 1 /\ j \in 1..Len(groups)
        BY <3>5, <3>1, <3>2, <2>1
      <3> QED BY <2>2, <3>3, <3>4, <3>5
    <2> QED BY <2>1, <2>4, <2>5, <2>6, <1>8 DEF Grouped
  <1>10. CASE \E at \in 1..Len(groups) :
                /\ groups[at].roots \cap roots # {}
                /\ joined = [groups EXCEPT ![at].roots = @ \cup roots, ![at].members = @ \cup {n}]
    <2>1. PICK at \in 1..Len(groups) :
                /\ groups[at].roots \cap roots # {}
                /\ joined = [groups EXCEPT ![at].roots = @ \cup roots, ![at].members = @ \cup {n}]
      BY <1>10
    <2> DEFINE grown == [groups[at] EXCEPT !.roots = @ \cup roots, !.members = @ \cup {n}]
    <2>2. grown.roots = groups[at].roots \cup roots /\ grown.members = groups[at].members \cup {n}
          /\ grown \in Group(stored)
      BY <1>1, <1>2, <1>3 DEF Group
    <2>3. /\ joined \in Seq(Group(stored)) /\ Len(joined) = Len(groups)
          /\ joined[at] = grown
          /\ \A i \in 1..Len(groups) : i # at => joined[i] = groups[i]
      <3>1. joined = [groups EXCEPT ![at] = grown]
        BY <2>1, <1>3 DEF Group
      <3> HIDE DEF grown, joined
      <3> QED BY <3>1, <2>2, <1>3
    <2> HIDE DEF joined, grown
    <2>4. PICK j \in 1..k - 1 :
                /\ Roots(links, batch[j]) \subseteq groups[at].roots
                /\ \A m \in groups[at].roots \cup groups[at].members : Story(m) = Story(batch[j])
      BY <1>4
    <2>5. Story(batch[j]) = Story(n)
      BY <2>1, <2>4, <1>2
    <2>6. \A m \in joined[at].roots \cup joined[at].members : Story(m) = Story(batch[j])
      BY <2>2, <2>3, <2>4, <2>5, <1>2
    <2>7. ASSUME NEW i \in 1..Len(joined)
          PROVE  \E l \in 1..k :
                   /\ Roots(links, batch[l]) \subseteq joined[i].roots
                   /\ \A m \in joined[i].roots \cup joined[i].members : Story(m) = Story(batch[l])
      <3>1. CASE i # at
        <4>1. joined[i] = groups[i] /\ i \in 1..Len(groups)
          BY <3>1, <2>3
        <4>2. PICK l \in 1..k - 1 :
                /\ Roots(links, batch[l]) \subseteq groups[i].roots
                /\ \A m \in groups[i].roots \cup groups[i].members : Story(m) = Story(batch[l])
          BY <4>1, <1>4
        <4> QED BY <4>1, <4>2, <1>7
      <3>2. CASE i = at
        BY <3>2, <2>2, <2>3, <2>4, <2>6, <1>7
      <3> QED BY <3>1, <3>2
    <2>8. ASSUME NEW l \in 1..k, Counted(batch, l)
          PROVE  \E i \in 1..Len(joined) : batch[l] \in joined[i].members
      <3>1. CASE l \in 1..k - 1
        <4>1. PICK i \in 1..Len(groups) : batch[l] \in groups[i].members
          BY <3>1, <1>5, <2>8
        <4> QED BY <4>1, <2>2, <2>3
      <3>2. CASE l = k
        BY <3>2, <2>2, <2>3, <1>n
      <3> QED BY <1>6, <3>1, <3>2
    <2>9. ASSUME OneGroupPerStory(groups)
          PROVE  OneGroupPerStory(joined)
      <3> SUFFICES ASSUME NEW i \in 1..Len(joined), NEW l \in 1..Len(joined),
                          NEW m \in joined[i].roots, NEW q \in joined[l].roots, Story(m) = Story(q), Clear(Story(m))
                   PROVE  i = l
        BY DEF OneGroupPerStory
      <3>1. PICK r : r \in groups[at].roots
        BY <2>1
      <3>2. Story(r) = Story(batch[j])
        BY <2>4, <3>1
      <3>3. i # at => m \in groups[i].roots
        BY <2>3
      <3>4. l # at => q \in groups[l].roots
        BY <2>3
      <3>5. i = at => Story(m) = Story(r)
        BY <2>6, <3>2
      <3>6. l = at => Story(q) = Story(r)
        BY <2>6, <3>2
      <3> QED BY <2>3, <2>9, <3>1, <3>3, <3>4, <3>5, <3>6 DEF OneGroupPerStory
    <2> QED BY <2>3, <2>7, <2>8, <2>9, <1>8 DEF Grouped
  <1>11. Joined(groups, joined, n, roots)
    BY JoinsOne
  <1> QED
    BY <1>9, <1>10, <1>11 DEF Joined

\* A node that does not count changes nothing.
LEMMA UncountedStep ==
  ASSUME NEW links, NEW stored, NEW batch, NEW k \in Nat \ {0}, ~Counted(batch, k),
         NEW groups, Grouped(groups, batch, links, stored, k - 1)
  PROVE  Grouped(groups, batch, links, stored, k)
  <1>1. 1..k - 1 \subseteq 1..k /\ \A j \in 1..k : j \in 1..k - 1 \/ j = k
    OBVIOUS
  <1> QED BY <1>1 DEF Grouped

NextGroups(groups, batch, links, k) ==
  IF Counted(batch, k) THEN JoinGroup(groups, batch[k], Roots(links, batch[k])) ELSE groups

GroupsOf(f, batch, links) ==
  f = [k \in 0..Len(batch) |-> IF k = 0 THEN <<>> ELSE NextGroups(f[k - 1], batch, links, k)]

\* The recursive function of Lineages exists.
LEMMA GroupsDefined ==
  ASSUME NEW batch, NEW links, NEW n \in Nat
  PROVE  \E f : f = [k \in 0..n |-> IF k = 0 THEN <<>> ELSE NextGroups(f[k - 1], batch, links, k)]
  <1> DEFINE Up(f, m) == f = [k \in 0..m |-> IF k = 0 THEN <<>> ELSE NextGroups(f[k - 1], batch, links, k)]
             T == {m \in Nat : ~\E f : Up(f, m)}
  <1> SUFFICES ASSUME T # {} PROVE FALSE
    OBVIOUS
  <1>1. PICK m \in T : \A l \in T : m <= l
    BY Smallest
  <1>2. m \in Nat /\ ~\E f : Up(f, m)
    OBVIOUS
  <1>3. CASE m = 0
    <2> DEFINE f == [k \in 0..0 |-> <<>>]
    <2>1. \A k \in 0..0 : k = 0
      OBVIOUS
    <2>2. f = [k \in 0..0 |-> IF k = 0 THEN <<>> ELSE NextGroups(f[k - 1], batch, links, k)]
      BY <2>1
    <2> HIDE DEF f, T
    <2> QED BY <1>2, <1>3, <2>2
  <1>4. CASE m # 0
    <2>1. m - 1 \in Nat /\ m - 1 \notin T
      <3> HIDE DEF T
      <3>1. m - 1 \in Nat /\ ~(m <= m - 1)
        BY <1>2, <1>4
      <3> QED BY <3>1, <1>1
    <2>2. PICK f : Up(f, m - 1)
      BY <2>1
    <2> DEFINE h == [k \in 0..m |-> IF k = m THEN NextGroups(f[m - 1], batch, links, m) ELSE f[k]]
    <2>3. ASSUME NEW k \in 0..m
          PROVE  h[k] = IF k = 0 THEN <<>> ELSE NextGroups(h[k - 1], batch, links, k)
      <3>1. CASE k = m
        <4>1. m \in 0..m /\ m - 1 \in 0..m /\ m - 1 # m
          BY <1>2, <1>4
        <4>2. h[m] = NextGroups(f[m - 1], batch, links, m) /\ h[m - 1] = f[m - 1]
          BY <4>1
        <4> HIDE DEF h
        <4> QED BY <4>2, <3>1, <1>4
      <3>2. CASE k # m /\ k = 0
        <4>1. 0 \in 0..m - 1 /\ h[0] = f[0]
          BY <1>2, <3>2
        <4>2. f[0] = <<>>
          BY <4>1, <2>2
        <4> HIDE DEF h
        <4> QED BY <4>1, <4>2, <3>2
      <3>3. CASE k # m /\ k # 0
        <4>1. k \in 0..m - 1 /\ k - 1 \in 0..m /\ k - 1 # m
          BY <1>2, <3>3
        <4>2. f[k] = NextGroups(f[k - 1], batch, links, k)
          BY <4>1, <2>2, <3>3
        <4>3. h[k] = f[k] /\ h[k - 1] = f[k - 1]
          BY <4>1, <3>3
        <4> HIDE DEF h
        <4> QED BY <3>3, <4>2, <4>3
      <3> HIDE DEF h
      <3> QED BY <3>1, <3>2, <3>3
    <2>4. Up(h, m)
      BY <2>3
    <2> HIDE DEF h, Up
    <2> QED BY <2>4, <1>2
  <1> QED BY <1>3, <1>4

LEMMA LineagesGrouped ==
  ASSUME NEW links, NEW stored, Recorded(links, stored), NEW batch \in Seq(stored)
  PROVE  /\ Grouped(Lineages(batch, links), batch, links, stored, Len(batch))
         /\ CopiesShare(batch, links) => OneGroupPerStory(Lineages(batch, links))
  <1> DEFINE f == CHOOSE g : GroupsOf(g, batch, links)
  <1>0. Len(batch) \in Nat
    OBVIOUS
  <1>1. GroupsOf(f, batch, links)
    BY <1>0, GroupsDefined DEF GroupsOf
  <1>2. Lineages(batch, links) = f[Len(batch)]
    BY Zenon DEF Lineages, GroupsOf, NextGroups
  <1> HIDE DEF f
  <1>3. /\ f[0] = <<>>
        /\ \A k \in 1..Len(batch) : f[k] = NextGroups(f[k - 1], batch, links, k)
    BY <1>0, <1>1 DEF GroupsOf
  <1> DEFINE Right(k) == /\ Grouped(f[k], batch, links, stored, k)
                         /\ CopiesShare(batch, links) => OneGroupPerStory(f[k])
             T == {k \in 0..Len(batch) : ~Right(k)}
  <1>4. T = {}
    <2> SUFFICES ASSUME T # {} PROVE FALSE
      OBVIOUS
    <2>1. PICK k \in T : \A l \in T : k <= l
      <3>1. T \in SUBSET Nat
        BY <1>0
      <3> HIDE DEF T
      <3> QED BY <3>1, Smallest
    <2>2. k \in 0..Len(batch) /\ ~Right(k)
      OBVIOUS
    <2>3. CASE k = 0
      <3>1. f[k] = <<>>
        BY <1>3, <2>3
      <3>2. Right(k)
        BY <3>1, <2>3 DEF Grouped, OneGroupPerStory
      <3> QED BY <2>2, <3>2
    <2>4. CASE k # 0
      <3>1. k \in 1..Len(batch) /\ k - 1 \in 0..Len(batch) /\ ~(k <= k - 1)
        BY <1>0, <2>2, <2>4
      <3>2. Right(k - 1)
        <4>1. k - 1 \notin T
          <5> HIDE DEF T
          <5> QED BY <3>1, <2>1
        <4> HIDE DEF Right
        <4> QED BY <3>1, <4>1
      <3>3. Right(k)
        <4>1. CASE Counted(batch, k)
          BY <1>3, <3>1, <3>2, <4>1, GroupedStep DEF NextGroups
        <4>2. CASE ~Counted(batch, k)
          <5>1. f[k] = f[k - 1] /\ k \in Nat \ {0}
            BY <1>3, <3>1, <4>2 DEF NextGroups
          <5> QED BY <3>2, <4>2, <5>1, UncountedStep
        <4> QED BY <4>1, <4>2
      <3> QED BY <2>2, <3>3
    <2> QED BY <2>3, <2>4
  <1>5. Right(Len(batch))
    <2>1. Len(batch) \in 0..Len(batch)
      BY <1>0
    <2> HIDE DEF Right
    <2> QED BY <1>4, <2>1
  <1> QED BY <1>2, <1>5

\* What one sequence lists is finite.
LEMMA ListedFinite ==
  ASSUME NEW S, NEW seq \in Seq(S)
  PROVE  IsFiniteSet(ToSet(seq))
  <1>1. seq \in Seq(ToSet(seq)) /\ \A s \in ToSet(seq) : \E n \in 1..Len(seq) : seq[n] = s
    BY DEF ToSet
  <1> QED BY <1>1 DEF IsFiniteSet

\* Within the limit every node is in a group: its first place in the batch
\* counts.
LEMMA InSomeGroup ==
  ASSUME NEW links, NEW stored, NEW batch \in Seq(stored), Cardinality(ToSet(batch)) <= NodeLimit,
         NEW groups, Grouped(groups, batch, links, stored, Len(batch)), NEW i \in DOMAIN batch
  PROVE  \E g \in 1..Len(groups) : batch[i] \in groups[g].members
  <1>1. Len(batch) \in Nat /\ DOMAIN batch = 1..Len(batch)
    OBVIOUS
  <1> DEFINE Places == {k \in 1..Len(batch) : batch[k] = batch[i]}
  <1>2. PICK k \in Places : \A l \in Places : k <= l
    <2>1. Places # {} /\ Places \in SUBSET Nat
      BY <1>1
    <2> HIDE DEF Places
    <2> QED BY <2>1, Smallest
  <1>3. k \in 1..Len(batch) /\ batch[k] = batch[i]
    OBVIOUS
  <1> DEFINE earlier == {batch[j] : j \in 1..k - 1}
  <1>4. batch[k] \notin earlier
    <2> SUFFICES ASSUME NEW j \in 1..k - 1, batch[j] = batch[k] PROVE FALSE
      OBVIOUS
    <2>1. j \in Places /\ ~(k <= j)
      BY <1>1, <1>3
    <2> QED BY <1>2, <2>1
  <1>5. earlier \subseteq ToSet(batch) \ {batch[k]} /\ batch[k] \in ToSet(batch)
    BY <1>1, <1>3, <1>4 DEF ToSet
  <1>6. IsFiniteSet(ToSet(batch))
    BY <1>1, ListedFinite
  <1> HIDE DEF earlier
  <1>7. /\ Cardinality(ToSet(batch)) \in Nat
        /\ Cardinality(ToSet(batch) \ {batch[k]}) = Cardinality(ToSet(batch)) - 1
        /\ IsFiniteSet(ToSet(batch) \ {batch[k]})
    BY <1>5, <1>6, FS_RemoveElement, FS_CardinalityType
  <1>8. Cardinality(earlier) \in Nat /\ Cardinality(earlier) <= Cardinality(ToSet(batch) \ {batch[k]})
    BY <1>5, <1>7, FS_Subset, FS_CardinalityType
  <1>9. Cardinality(earlier) < NodeLimit
    BY <1>7, <1>8, EvidenceLineageAssumption DEF EvidenceLineageAssumption
  <1>10. Counted(batch, k)
    BY <1>4, <1>9 DEF Counted, earlier
  <1> QED BY <1>3, <1>10 DEF Grouped

\* The lineage of a node is about its story; if copies share roots and all
\* nodes count, copies of a clear story have one lineage.
LEMMA LineageOfStory ==
  ASSUME NEW links, NEW stored, Recorded(links, stored), NEW batch \in Seq(stored), NEW i \in DOMAIN batch
  PROVE  LET lineage == LineageOf(batch, links, i) IN
         /\ lineage \in [kind: {"roots", "node"}, of: SUBSET stored] /\ lineage.of # {}
         /\ \A n \in lineage.of : Story(n) = Story(batch[i])
         /\ CopiesShare(batch, links) /\ Cardinality(ToSet(batch)) <= NodeLimit =>
              \A j \in DOMAIN batch :
                Story(batch[j]) = Story(batch[i]) /\ Clear(Story(batch[j])) => LineageOf(batch, links, j) = lineage
  <1> DEFINE groups == Lineages(batch, links)
             Holding(k) == {g \in 1..Len(groups) : batch[k] \in groups[g].members}
             at(k) == IF Holding(k) # {} THEN Min(Holding(k)) ELSE 0
  <1>1. /\ Grouped(groups, batch, links, stored, Len(batch))
        /\ CopiesShare(batch, links) => OneGroupPerStory(groups)
    BY LineagesGrouped
  <1>2. ASSUME NEW k \in DOMAIN batch
        PROVE  LineageOf(batch, links, k) =
                 IF at(k) = 0 THEN [kind |-> "node", of |-> {batch[k]}] ELSE [kind |-> "roots", of |-> groups[at(k)].roots]
    <2>1. SelectInSeq(groups, LAMBDA g : batch[k] \in g.members) = at(k)
      BY Zenon DEF SelectInSeq
    <2> QED BY <2>1, Zenon DEF LineageOf
  <1>3. DOMAIN batch = 1..Len(batch)
    OBVIOUS
  <1> HIDE DEF groups
  <1>4. ASSUME NEW k \in DOMAIN batch, Holding(k) # {}
        PROVE  at(k) \in 1..Len(groups) /\ at(k) # 0 /\ batch[k] \in groups[at(k)].members
    <2>2. Min(Holding(k)) \in Holding(k)
      <3>1. Holding(k) \in SUBSET Nat
        OBVIOUS
      <3> HIDE DEF Holding
      <3> QED BY <3>1, <1>4, Smallest DEF Min
    <2>3. at(k) \in Holding(k)
      <3> HIDE DEF Holding
      <3> QED BY <1>4, <2>2
    <2> HIDE DEF at
    <2> QED BY <2>3
  <1>n. ASSUME NEW k \in DOMAIN batch, Holding(k) = {}
        PROVE  at(k) = 0
    BY <1>n
  <1> HIDE DEF at
  <1>5. ASSUME NEW k \in DOMAIN batch, Holding(k) # {}
        PROVE  /\ groups[at(k)].roots \subseteq stored /\ groups[at(k)].roots # {}
               /\ \A n \in groups[at(k)].roots : Story(n) = Story(batch[k])
    <2>0. at(k) \in 1..Len(groups) /\ batch[k] \in groups[at(k)].members
      BY <1>4, <1>5
    <2> HIDE DEF Holding
    <2>1. groups[at(k)] \in Group(stored)
      BY <1>1, <2>0 DEF Grouped
    <2>2. PICK j \in 1..Len(batch) :
            /\ Roots(links, batch[j]) \subseteq groups[at(k)].roots
            /\ \A n \in groups[at(k)].roots \cup groups[at(k)].members : Story(n) = Story(batch[j])
      BY <1>1, <2>0 DEF Grouped
    <2>3. Roots(links, batch[j]) # {}
      BY <1>3, RootsOfStory
    <2> QED BY <2>0, <2>1, <2>2, <2>3 DEF Group
  <1>6. ASSUME CopiesShare(batch, links), Cardinality(ToSet(batch)) <= NodeLimit,
               NEW j \in DOMAIN batch, Story(batch[j]) = Story(batch[i]), Clear(Story(batch[j]))
        PROVE  at(j) = at(i) /\ at(i) # 0
    <2>1. Holding(i) # {} /\ Holding(j) # {}
      BY <1>1, <1>6, InSomeGroup
    <2>2. at(i) \in 1..Len(groups) /\ at(j) \in 1..Len(groups) /\ at(i) # 0
      BY <1>4, <2>1
    <2>3. PICK m \in groups[at(j)].roots, n \in groups[at(i)].roots : Story(m) = Story(n) /\ Story(m) = Story(batch[j])
      BY <1>5, <1>6, <2>1
    <2> HIDE DEF Holding
    <2> QED BY <1>1, <1>6, <2>2, <2>3 DEF OneGroupPerStory
  <1>7. CASE Holding(i) = {}
    <2>1. LineageOf(batch, links, i) = [kind |-> "node", of |-> {batch[i]}] /\ batch[i] \in stored
      BY <1>2, <1>7, <1>n
    <2> HIDE DEF Holding
    <2> QED BY <1>2, <1>6, <2>1
  <1>8. CASE Holding(i) # {}
    <2>1. LineageOf(batch, links, i) = [kind |-> "roots", of |-> groups[at(i)].roots]
      BY <1>2, <1>4, <1>8
    <2>2. /\ groups[at(i)].roots \subseteq stored /\ groups[at(i)].roots # {}
          /\ \A n \in groups[at(i)].roots : Story(n) = Story(batch[i])
      BY <1>5, <1>8
    <2> HIDE DEF Holding
    <2> QED BY <1>2, <1>6, <2>1, <2>2
  <1> QED BY <1>7, <1>8

-----------------------------------------------------------------------------
(* The lineages of claims *)

\* A lineage of stored nodes, all about the story of n.
LineageIn(stored, lineage, n) ==
  /\ lineage \in Lineage
  /\ lineage.of # {} /\ lineage.of \subseteq stored
  /\ \A m \in lineage.of : Story(m) = Story(n)

ClaimInv ==
  \A c \in claims : c \in [by: Execution, node: Node, lineage: Lineage] /\ LineageIn(nodes, c.lineage, c.node)

\* What is linked so far, and the lineages that were formed of it.
LinkedOK(x) ==
  /\ exec[x].unlinked \subseteq DOMAIN exec[x].batch
  /\ exec[x].pc \in {"fetched", "promoting"} => exec[x].unlinked = {}
  /\ exec[x].pc = "linking" =>
       /\ exec[x].unlinked \subseteq Linkable(exec[x].batch)
       /\ exec[x].clean => Linked(exec[x].batch, edges, DOMAIN exec[x].batch \ exec[x].unlinked)
  /\ exec[x].pc = "claiming" =>
       /\ DOMAIN exec[x].lineages = DOMAIN exec[x].batch
       /\ exec[x].lineages \in [DOMAIN exec[x].batch -> Lineage]
       /\ \A i \in DOMAIN exec[x].batch : LineageIn(nodes, exec[x].lineages[i], exec[x].batch[i])

RecordsBy(x) == {r \in records : r[1] = x}

Few(x) == Cardinality(RecordsBy(x)) <= NodeLimit

\* Copies of an execution without a swallowed failure have one lineage.
CopiesOK(x) ==
  exec[x].clean /\ Acyclic(edges) /\ Few(x) =>
    /\ exec[x].pc = "claiming" =>
         /\ \A i, j \in DOMAIN exec[x].batch :
              Story(exec[x].batch[i]) = Story(exec[x].batch[j]) /\ Clear(Story(exec[x].batch[i])) =>
                exec[x].lineages[i] = exec[x].lineages[j]
         /\ \A c \in Own(x) : \E i \in DOMAIN exec[x].batch :
              c.node = exec[x].batch[i] /\ c.lineage = exec[x].lineages[i]
    /\ exec[x].pc # "failed" =>
         \A c, d \in Own(x) : Story(c.node) = Story(d.node) /\ Clear(Story(c.node)) => c.lineage = d.lineage

LineageInv ==
  /\ Recorded(edges, nodes)
  /\ ClaimInv
  /\ \A x \in Execution : LinkedOK(x) /\ CopiesOK(x)

LEMMA FewerCycles ==
  ASSUME NEW more, Acyclic(more), NEW edges0 \in SUBSET more
  PROVE  Acyclic(edges0)
  <1> SUFFICES ASSUME NEW cycle \in SUBSET {e[1] : e \in edges0}, cycle # {}
               PROVE  \E n \in cycle : ParentsIn(edges0, n) \cap cycle = {}
    BY DEF Acyclic
  <1>1. cycle \in SUBSET {e[1] : e \in more}
    OBVIOUS
  <1>2. PICK n \in cycle : ParentsIn(more, n) \cap cycle = {}
    BY <1>1 DEF Acyclic
  <1>3. ParentsIn(edges0, n) \subseteq ParentsIn(more, n)
    BY DEF ParentsIn
  <1> QED BY <1>2, <1>3

\* What a step of x leaves alone.
LineageFrame(x) ==
  /\ \A y \in Execution \ {x} : exec'[y] = exec[y] /\ RecordsBy(y)' = RecordsBy(y)
  /\ nodes \subseteq nodes' /\ edges \subseteq edges' /\ claims \subseteq claims'
  /\ \A c \in claims' \ claims : c.by = x

LEMMA OthersLineageKept ==
  ASSUME LineageInv, NEW x \in Execution, LineageFrame(x), NEW y \in Execution \ {x}
  PROVE  LinkedOK(y)' /\ CopiesOK(y)'
  <1>1. exec'[y] = exec[y] /\ LinkedOK(y) /\ CopiesOK(y) /\ Own(y)' = Own(y) /\ Few(y)' = Few(y)
    BY DEF LineageInv, LineageFrame, Own, Few
  <1>2. LinkedOK(y)'
    BY <1>1 DEF LinkedOK, LineageFrame, Linked, LineageIn
  <1>3. Acyclic(edges') => Acyclic(edges)
    BY FewerCycles DEF LineageFrame
  <1>4. CopiesOK(y)'
    BY <1>1, <1>3 DEF CopiesOK
  <1> QED BY <1>2, <1>4

LEMMA LineageStep ==
  ASSUME LineageInv, NEW x \in Execution, LineageFrame(x), Recorded(edges', nodes'),
         \A c \in claims' \ claims :
           c \in [by: Execution, node: Node, lineage: Lineage] /\ LineageIn(nodes', c.lineage, c.node),
         LinkedOK(x)', CopiesOK(x)'
  PROVE  LineageInv'
  <1>1. ClaimInv'
    BY DEF LineageInv, ClaimInv, LineageFrame, LineageIn
  <1>2. \A y \in Execution : LinkedOK(y)' /\ CopiesOK(y)'
    BY OthersLineageKept
  <1> QED BY <1>1, <1>2 DEF LineageInv

LEMMA MoreNodes ==
  ASSUME LineageInv, nodes \subseteq nodes', nodes' \subseteq Node, UNCHANGED edges
  PROVE  Recorded(edges', nodes')
  BY DEF LineageInv, Recorded

\* A step that links and claims nothing.
LEMMA QuietLineageStep ==
  ASSUME LineageInv, NEW x \in Execution,
         \A y \in Execution \ {x} : exec'[y] = exec[y] /\ RecordsBy(y)' = RecordsBy(y),
         nodes \subseteq nodes', nodes' \subseteq Node, UNCHANGED <<edges, claims>>,
         exec'[x].pc \notin {"linking", "claiming"},
         exec'[x].unlinked \subseteq DOMAIN exec'[x].batch,
         exec'[x].pc \in {"fetched", "promoting"} => exec'[x].unlinked = {},
         \/ Own(x) = {}
         \/ exec'[x].pc = "failed"
         \/ exec[x].pc # "failed" /\ (exec'[x].clean => exec[x].clean) /\ RecordsBy(x)' = RecordsBy(x)
  PROVE  LineageInv'
  <1>1. LineageFrame(x)
    BY DEF LineageFrame
  <1>2. LinkedOK(x)'
    BY DEF LinkedOK
  <1>3. CopiesOK(x)'
    <2>1. Own(x)' = Own(x) /\ CopiesOK(x)
      BY DEF Own, LineageInv
    <2> QED BY <2>1 DEF CopiesOK, Few
  <1> QED BY <1>1, <1>2, <1>3, LineageStep, MoreNodes

-----------------------------------------------------------------------------
(* Steps, and the lineages *)

LEMMA RunJobsLineage ==
  ASSUME IInv, LineageInv, NEW x \in Execution, NEW item, NEW sources, NEW results,
         RunJobs(x, item, sources, results)
  PROVE  LineageInv'
  <1>1. exec[x].pc = "idle" /\ DOMAIN exec = Execution /\ AssessedOK(x)
    BY DEF RunJobs, IInv, ExecInv
  <1>2. /\ exec'[x].pc = "fetched" /\ exec'[x].unlinked = {}
        /\ \A y \in Execution \ {x} : exec'[y] = exec[y] /\ RecordsBy(y)' = RecordsBy(y)
    BY <1>1 DEF RunJobs, Idle, RecordsBy, stores
  <1>3. UNCHANGED <<nodes, edges, claims>>
    BY DEF RunJobs, stores
  <1>4. Own(x) = {}
    BY <1>1 DEF AssessedOK
  <1>5. nodes \subseteq Node
    BY DEF LineageInv, Recorded
  <1> QED
    BY <1>2, <1>3, <1>4, <1>5, QuietLineageStep

LEMMA PersistLineage ==
  ASSUME IInv, LineageInv, NEW x \in Execution, PersistToPostgres(x) \/ PersistFails(x)
  PROVE  LineageInv'
  <1>1. /\ exec[x].pc = "fetched" /\ DOMAIN exec[x] = Fields /\ DOMAIN exec = Execution /\ AssessedOK(x)
    BY DEF PersistToPostgres, PersistFails, IInv, ExecInv, FormOK
  <1>2. /\ exec'[x].pc \in {"promoting", "closing", "failed"}
        /\ exec'[x].unlinked = exec[x].unlinked /\ exec'[x].batch = exec[x].batch
        /\ \A y \in Execution \ {x} : exec'[y] = exec[y]
    BY <1>1 DEF PersistToPostgres, PersistFails, Fields
  <1>3. UNCHANGED <<nodes, edges, claims>> /\ (UNCHANGED records \/ records' = records \cup RecordsOf(x))
    BY DEF PersistToPostgres, PersistFails, Commits
  <1>4. Own(x) = {}
    BY <1>1 DEF AssessedOK
  <1>5. nodes \subseteq Node /\ exec[x].unlinked = {}
    BY <1>1 DEF LineageInv, Recorded, LinkedOK
  <1>6. \A y \in Execution \ {x} : RecordsBy(y)' = RecordsBy(y)
    BY <1>3 DEF RecordsBy, RecordsOf
  <1> QED
    BY <1>2, <1>3, <1>4, <1>5, <1>6, QuietLineageStep

LEMMA RecordNodesLineage ==
  ASSUME IInv, LineageInv, NEW x \in Execution, RecordEvidenceLineageNodes(x)
  PROVE  LineageInv'
  <1>1. /\ exec[x].pc = "promoting" /\ DOMAIN exec[x] = Fields /\ DOMAIN exec = Execution
        /\ AssessedOK(x) /\ BatchOK(x)
    BY DEF RecordEvidenceLineageNodes, IInv, ExecInv, FormOK
  <1>2. UNCHANGED <<records, edges, claims>>
    BY DEF RecordEvidenceLineageNodes
  <1>3. Own(x) = {} /\ Own(x)' = {}
    BY <1>1, <1>2 DEF AssessedOK, Own
  <1>4. /\ exec'[x].pc = "linking" /\ exec'[x].unlinked = Linkable(exec'[x].batch)
        /\ \A y \in Execution \ {x} : exec'[y] = exec[y]
    BY <1>1 DEF RecordEvidenceLineageNodes, Fields
  <1>5. nodes \subseteq nodes' /\ nodes' \subseteq Node
    <2>1. nodes \subseteq Node
      BY DEF LineageInv, Recorded
    <2>2. ToSet(exec[x].batch) \subseteq Node
      BY <1>1 DEF BatchOK, ToSet
    <2> QED BY <2>1, <2>2 DEF RecordEvidenceLineageNodes
  <1>6. LineageFrame(x)
    BY <1>2, <1>4, <1>5 DEF LineageFrame, RecordsBy
  <1>7. LinkedOK(x)'
    BY <1>4 DEF LinkedOK, Linkable, Linked
  <1>8. CopiesOK(x)'
    BY <1>3, <1>4 DEF CopiesOK
  <1> QED
    BY <1>2, <1>5, <1>6, <1>7, <1>8, MoreNodes, LineageStep

LEMMA NodeFailsLineage ==
  ASSUME IInv, LineageInv, NEW x \in Execution, NEW i \in DOMAIN exec[x].batch, NodeFails(x, i)
  PROVE  LineageInv'
  <1>1. /\ exec[x].pc = "promoting" /\ DOMAIN exec[x] = Fields /\ DOMAIN exec = Execution
        /\ AssessedOK(x) /\ BatchOK(x) /\ LinkedOK(x)
    BY DEF NodeFails, IInv, ExecInv, FormOK, LineageInv
  <1>2. /\ exec'[x].pc = "promoting" /\ exec'[x].unlinked = {}
        /\ \A y \in Execution \ {x} : exec'[y] = exec[y]
    BY <1>1 DEF NodeFails, Fields, LinkedOK
  <1>3. UNCHANGED <<records, edges, claims>> /\ Own(x) = {}
    BY <1>1 DEF NodeFails, AssessedOK
  <1>4. nodes \subseteq nodes' /\ nodes' \subseteq Node
    <2>1. exec[x].batch[i] \in Node /\ nodes \subseteq Node
      BY <1>1 DEF BatchOK, LineageInv, Recorded
    <2> QED BY <2>1 DEF NodeFails
  <1> QED
    BY <1>2, <1>3, <1>4, QuietLineageStep DEF RecordsBy

LEMMA LinkLineage ==
  ASSUME IInv, LineageInv, NEW x \in Execution, NEW i, LinkEvidenceLineage(x, i) \/ LinkFails(x, i)
  PROVE  LineageInv'
  <1> DEFINE batch == exec[x].batch
             edge == InferredEdge(batch, i)
  <1>1. /\ exec[x].pc = "linking" /\ i \in exec[x].unlinked /\ DOMAIN exec[x] = Fields /\ DOMAIN exec = Execution
        /\ AssessedOK(x) /\ BatchOK(x) /\ StoredOK(x) /\ LinkedOK(x)
    BY DEF LinkEvidenceLineage, LinkFails, Linking, IInv, ExecInv, FormOK, LineageInv
  <1>2. /\ batch \in Seq(Node) /\ ToSet(batch) \subseteq nodes
        /\ i \in DOMAIN batch /\ Candidates(batch, i) # {} /\ exec[x].unlinked \subseteq Linkable(batch)
    BY <1>1 DEF BatchOK, StoredOK, LinkedOK, Linkable, AfterCommit
  <1>3. UNCHANGED <<records, nodes, claims>> /\ (edges' = edges \/ edges' = edges \cup {edge})
    BY DEF LinkEvidenceLineage, LinkFails
  <1>4. PICK b \in Candidates(batch, i) : edge = <<batch[i], batch[b]>>
    BY <1>2, InferredLink
  <1>5. /\ batch[i] \in nodes /\ batch[b] \in nodes /\ Story(batch[b]) = Story(batch[i])
    <2>1. b \in DOMAIN batch /\ Similarity(batch[b], batch[i]) >= Threshold /\ batch[b] \in Node /\ batch[i] \in Node
      BY <1>2, <1>4 DEF Candidates
    <2>2. Story(batch[b]) = Story(batch[i])
      BY <2>1, SimilarMeansStory
    <2>3. batch[b] \in ToSet(batch) /\ batch[i] \in ToSet(batch)
      BY <1>2, <2>1 DEF ToSet
    <2> QED BY <1>2, <2>2, <2>3
  <1>6. Recorded(edges', nodes')
    <2>1. edge \in nodes \X nodes /\ Story(edge[1]) = Story(edge[2])
      BY <1>4, <1>5
    <2>2. Recorded(edges, nodes)
      BY DEF LineageInv
    <2>3. IsFiniteSet(edges \cup {edge})
      BY <2>2, FS_AddElement DEF Recorded, Links
    <2> HIDE DEF edge
    <2>4. Recorded(edges \cup {edge}, nodes)
      BY <2>1, <2>2, <2>3 DEF Recorded, Links
    <2> QED BY <1>3, <2>2, <2>4
  <1>7. Own(x)' = {}
    BY <1>1, <1>3 DEF AssessedOK, Own
  <1> HIDE DEF edge
  <1>8. /\ exec'[x].pc = "linking" /\ exec'[x].batch = batch
        /\ \/ exec'[x].unlinked = exec[x].unlinked \ {i} /\ exec'[x].clean = exec[x].clean /\ edges' = edges \cup {edge}
           \/ exec'[x].unlinked = {} /\ exec'[x].clean = FALSE
        /\ \A y \in Execution \ {x} : exec'[y] = exec[y]
    BY <1>1 DEF LinkEvidenceLineage, LinkFails, Fields, edge
  <1>9. LineageFrame(x)
    BY <1>3, <1>8 DEF LineageFrame, RecordsBy
  <1>10. LinkedOK(x)'
    <2>1. exec[x].clean => Linked(batch, edges, DOMAIN batch \ exec[x].unlinked)
      BY <1>1 DEF LinkedOK
    <2>2. Linked(batch, edges, DOMAIN batch \ exec[x].unlinked) /\ edges' = edges \cup {edge} =>
            Linked(batch, edges', DOMAIN batch \ (exec[x].unlinked \ {i}))
      BY DEF Linked, edge
    <2>3. exec'[x].unlinked \subseteq Linkable(exec'[x].batch) /\ Linkable(exec'[x].batch) \subseteq DOMAIN exec'[x].batch
      BY <1>2, <1>8 DEF Linkable
    <2>4. exec'[x].clean => Linked(exec'[x].batch, edges', DOMAIN exec'[x].batch \ exec'[x].unlinked)
      BY <1>8, <2>1, <2>2
    <2> QED BY <1>8, <2>3, <2>4 DEF LinkedOK
  <1>11. CopiesOK(x)'
    BY <1>7, <1>8 DEF CopiesOK
  <1> QED
    BY <1>3, <1>6, <1>9, <1>10, <1>11, LineageStep

\* Analysis forms the lineages of the batch.
LEMMA AnalysisLineage ==
  ASSUME IInv, LineageInv, IsFiniteSet(records), NEW x \in Execution, AnalyzeEvidenceIndependence(x) \/ AnalysisFails(x)
  PROVE  LineageInv'
  <1> DEFINE batch == exec[x].batch
             found(i) == LineageOf(batch, edges, i)
             analysed == [i \in DOMAIN batch |-> found(i)]
             alone == [i \in DOMAIN batch |-> [kind |-> "node", of |-> {batch[i]}]]
  <1>1. /\ exec[x].pc = "linking" /\ exec[x].unlinked = {} /\ DOMAIN exec[x] = Fields /\ DOMAIN exec = Execution
        /\ AssessedOK(x) /\ BatchOK(x) /\ StoredOK(x) /\ LinkedOK(x)
    BY DEF AnalyzeEvidenceIndependence, AnalysisFails, IInv, ExecInv, FormOK, LineageInv
  <1>2. UNCHANGED <<records, nodes, edges, claims>>
    BY DEF AnalyzeEvidenceIndependence, AnalysisFails, stores
  <1>3. batch \in Seq(nodes) /\ batch \in Seq(Node) /\ nodes \subseteq Node /\ Recorded(edges, nodes)
    <2>1. batch \in Seq(Node) /\ ToSet(batch) \subseteq nodes
      BY <1>1 DEF BatchOK, StoredOK, AfterCommit
    <2>2. \A i \in 1..Len(batch) : batch[i] \in nodes
      BY <2>1 DEF ToSet
    <2>3. batch = [i \in 1..Len(batch) |-> batch[i]] /\ Len(batch) \in Nat
      BY <2>1
    <2>4. batch \in Seq(nodes)
      <3> HIDE DEF batch
      <3> QED BY <2>2, <2>3
    <2> QED BY <2>1, <2>4 DEF LineageInv, Recorded
  <1>4. Own(x)' = {}
    BY <1>1, <1>2 DEF AssessedOK, Own
  <1>5. \A i \in DOMAIN batch : LineageIn(nodes, analysed[i], batch[i])
    <2> SUFFICES ASSUME NEW i \in DOMAIN batch PROVE LineageIn(nodes, analysed[i], batch[i])
      OBVIOUS
    <2>1. /\ found(i) \in [kind: {"roots", "node"}, of: SUBSET nodes] /\ found(i).of # {}
          /\ \A n \in found(i).of : Story(n) = Story(batch[i])
      BY <1>3, LineageOfStory
    <2>2. analysed[i] = found(i)
      OBVIOUS
    <2> HIDE DEF found, analysed, batch
    <2> QED BY <1>3, <2>1, <2>2 DEF LineageIn, Lineage
  <1>6. \A i \in DOMAIN batch : LineageIn(nodes, alone[i], batch[i])
    <2> SUFFICES ASSUME NEW i \in DOMAIN batch PROVE LineageIn(nodes, alone[i], batch[i])
      OBVIOUS
    <2>1. batch[i] \in nodes /\ batch[i] \in Node
      BY <1>3
    <2>2. alone[i] = [kind |-> "node", of |-> {batch[i]}]
      OBVIOUS
    <2> HIDE DEF batch, alone
    <2> QED BY <2>1, <2>2 DEF LineageIn, Lineage
  <1>7. exec[x].clean /\ Acyclic(edges) /\ Few(x) =>
          \A i, j \in DOMAIN batch :
            Story(batch[i]) = Story(batch[j]) /\ Clear(Story(batch[i])) => analysed[i] = analysed[j]
    <2> SUFFICES ASSUME exec[x].clean, Acyclic(edges), Few(x)
                 PROVE  \A i, j \in DOMAIN batch :
                          Story(batch[i]) = Story(batch[j]) /\ Clear(Story(batch[i])) => analysed[i] = analysed[j]
      OBVIOUS
    <2>0. Cardinality(ToSet(batch)) <= NodeLimit
      <3>1. RecordsOf(x) \subseteq RecordsBy(x) /\ IsFiniteSet(RecordsBy(x))
        <4>1. RecordsOf(x) \subseteq RecordsBy(x) /\ RecordsBy(x) \subseteq records
          BY <1>1 DEF RecordsOf, RecordsBy, StoredOK, AfterCommit
        <4> QED BY <4>1, FS_Subset
      <3>2. /\ [n \in ToSet(batch) |-> <<x, n>>] \in Injection(ToSet(batch), RecordsBy(x))
        BY <3>1 DEF RecordsOf, Injection, IsInjective
      <3> HIDE DEF batch
      <3>3. Cardinality(ToSet(batch)) <= Cardinality(RecordsBy(x)) /\ IsFiniteSet(ToSet(batch))
        BY <3>1, <3>2, FS_Injection
      <3>4. Cardinality(ToSet(batch)) \in Nat /\ Cardinality(RecordsBy(x)) \in Nat
        BY <3>1, <3>3, FS_CardinalityType
      <3> QED BY <3>3, <3>4, EvidenceLineageAssumption DEF Few, EvidenceLineageAssumption
    <2>1. Linked(batch, edges, DOMAIN batch)
      BY <1>1 DEF LinkedOK, Linked
    <2>2. CopiesShare(batch, edges)
      BY <1>3, <2>1, CopiesShareRoots DEF CopiesShare, Recorded
    <2>3. \A i, j \in DOMAIN batch :
            Story(batch[j]) = Story(batch[i]) /\ Clear(Story(batch[j])) => found(j) = found(i)
      BY <1>3, <2>0, <2>2, LineageOfStory
    <2> HIDE DEF found, batch
    <2> QED BY <2>3
  <1> DEFINE to == IF batch = <<>> THEN "closing" ELSE "claiming"
  <1>8. ASSUME NEW lineages
        PROVE  /\ DOMAIN Analysed(x, lineages) = Fields
               /\ Analysed(x, lineages).pc = to /\ Analysed(x, lineages).lineages = lineages
               /\ \A f \in Fields \ {"pc", "lineages"} : Analysed(x, lineages)[f] = exec[x][f]
    BY <1>1 DEF Analysed, Fields
  <1>9. \/ exec' = [exec EXCEPT ![x] = Analysed(x, analysed)]
        \/ exec' = [exec EXCEPT ![x] = [Analysed(x, alone) EXCEPT !.clean = FALSE]]
    BY Zenon DEF AnalyzeEvidenceIndependence, AnalysisFails
  <1> HIDE DEF analysed, alone, to, found
  <1>10. /\ exec'[x].pc = to /\ exec'[x].batch = batch /\ exec'[x].unlinked = {}
         /\ \/ exec'[x].lineages = analysed /\ exec'[x].clean = exec[x].clean
            \/ exec'[x].lineages = alone /\ exec'[x].clean = FALSE
         /\ \A y \in Execution \ {x} : exec'[y] = exec[y]
    BY <1>1, <1>8, <1>9 DEF Fields
  <1>11. /\ analysed \in [DOMAIN batch -> Lineage] /\ DOMAIN analysed = DOMAIN batch
         /\ alone \in [DOMAIN batch -> Lineage] /\ DOMAIN alone = DOMAIN batch
    BY <1>5, <1>6 DEF analysed, alone, LineageIn
  <1>12. LineageFrame(x)
    BY <1>2, <1>10 DEF LineageFrame, RecordsBy
  <1>13. LinkedOK(x)'
    <2>1. \A i \in DOMAIN batch : LineageIn(nodes', exec'[x].lineages[i], exec'[x].batch[i])
      BY <1>2, <1>5, <1>6, <1>10
    <2>2. exec'[x].pc # "linking"
      BY <1>10 DEF to
    <2> QED BY <1>10, <1>11, <2>1, <2>2 DEF LinkedOK
  <1>14. CopiesOK(x)'
    <2> SUFFICES ASSUME exec'[x].clean, Acyclic(edges'), Few(x)'
                 PROVE  \A i, j \in DOMAIN batch : Story(batch[i]) = Story(batch[j]) /\ Clear(Story(batch[i])) =>
                          exec'[x].lineages[i] = exec'[x].lineages[j]
      BY <1>4, <1>10 DEF CopiesOK
    <2>1. exec'[x].lineages = analysed /\ exec[x].clean /\ Acyclic(edges) /\ Few(x)
      BY <1>2, <1>10 DEF Few, RecordsBy
    <2> HIDE DEF batch
    <2> QED BY <1>7, <2>1
  <1> QED
    BY <1>2, <1>3, <1>12, <1>13, <1>14, LineageStep

LEMMA ClaimLineage ==
  ASSUME IInv, LineageInv, NEW x \in Execution, PersistEvidenceClaim(x) \/ ClaimFails(x)
  PROVE  LineageInv'
  <1> DEFINE batch == exec[x].batch
             n == exec[x].next
             claim == NextClaim(x)
             to(affected) == CASE exec[x].next < Len(exec[x].batch) -> "claiming"
                               [] exec[x].next >= Len(exec[x].batch) /\ affected -> "assessing"
                               [] OTHER -> "closing"
  <1>1. /\ exec[x].pc = "claiming" /\ DOMAIN exec[x] = Fields /\ DOMAIN exec = Execution
        /\ FormOK(x) /\ BatchOK(x) /\ LinkedOK(x) /\ CopiesOK(x)
    BY DEF PersistEvidenceClaim, ClaimFails, IInv, ExecInv, FormOK, LineageInv
  <1>2. n \in DOMAIN batch /\ batch \in Seq(Node)
    BY <1>1 DEF FormOK, BatchOK
  <1>3. /\ claims' = claims \/ claims' = claims \cup {claim}
        /\ UNCHANGED <<records, nodes, edges>>
    BY DEF PersistEvidenceClaim, ClaimFails
  <1>4. claim = [by |-> x, node |-> batch[n], lineage |-> exec[x].lineages[n]]
    BY DEF NextClaim
  <1>5. claim \in [by: Execution, node: Node, lineage: Lineage] /\ LineageIn(nodes, claim.lineage, claim.node)
    <2>1. LineageIn(nodes, exec[x].lineages[n], batch[n]) /\ batch[n] \in Node
      BY <1>1, <1>2 DEF LinkedOK
    <2> QED BY <1>4, <2>1 DEF LineageIn
  <1>6. ASSUME NEW affected
        PROVE  /\ DOMAIN Claimed(x, affected) = Fields
               /\ Claimed(x, affected).pc = to(affected)
               /\ \A f \in Fields \ {"pc", "next", "affected"} : Claimed(x, affected)[f] = exec[x][f]
    BY <1>1 DEF Claimed, Fields
  <1>7. PICK affected :
          \/ exec' = [exec EXCEPT ![x] = Claimed(x, affected)]
          \/ exec' = [exec EXCEPT ![x] = [Claimed(x, affected) EXCEPT !.clean = FALSE]]
    <2>1. CASE PersistEvidenceClaim(x)
      BY <2>1, Zenon DEF PersistEvidenceClaim
    <2>2. CASE ClaimFails(x)
      BY <2>2, Zenon DEF ClaimFails
    <2> QED BY <2>1, <2>2
  <1>8. to(affected) \notin {"linking", "failed", "fetched", "promoting"}
    <2>1. to(affected) \in {"claiming", "assessing", "closing"}
      <3>1. n \in Nat /\ Len(batch) \in Nat
        BY <1>2
      <3> QED BY <3>1
    <2> QED BY <2>1
  <1> HIDE DEF to, claim
  <1>9. /\ exec'[x].pc \notin {"linking", "failed", "fetched", "promoting"}
        /\ exec'[x].batch = batch /\ exec'[x].unlinked = exec[x].unlinked /\ exec'[x].lineages = exec[x].lineages
        /\ exec'[x].clean => exec[x].clean
        /\ \A y \in Execution \ {x} : exec'[y] = exec[y]
    BY <1>1, <1>6, <1>7, <1>8 DEF Fields
  <1>10. LineageFrame(x)
    BY <1>3, <1>4, <1>9 DEF LineageFrame, RecordsBy
  <1>11. LinkedOK(x)'
    BY <1>1, <1>3, <1>9 DEF LinkedOK, LineageIn
  <1>12. CopiesOK(x)'
    <2> SUFFICES ASSUME exec[x].clean, Acyclic(edges), Few(x)
                 PROVE  CopiesOK(x)'
      BY <1>3, <1>9 DEF CopiesOK, Few, RecordsBy
    <2>1. \A i, j \in DOMAIN batch :
            Story(batch[i]) = Story(batch[j]) /\ Clear(Story(batch[i])) => exec[x].lineages[i] = exec[x].lineages[j]
      BY <1>1 DEF CopiesOK
    <2>2. \A c \in Own(x)' : \E i \in DOMAIN batch : c.node = batch[i] /\ c.lineage = exec[x].lineages[i]
      <3>1. \A c \in Own(x) : \E i \in DOMAIN batch : c.node = batch[i] /\ c.lineage = exec[x].lineages[i]
        BY <1>1 DEF CopiesOK
      <3>2. claim.node = batch[n] /\ claim.lineage = exec[x].lineages[n]
        BY <1>4
      <3>3. Own(x)' \subseteq Own(x) \cup {claim}
        BY <1>3 DEF Own
      <3> QED BY <1>2, <3>1, <3>2, <3>3
    <2>3. \A c, d \in Own(x)' : Story(c.node) = Story(d.node) /\ Clear(Story(c.node)) => c.lineage = d.lineage
      BY <2>1, <2>2
    <2> HIDE DEF batch
    <2> QED BY <1>9, <2>1, <2>2, <2>3 DEF CopiesOK
  <1>13. Recorded(edges', nodes')
    BY <1>3 DEF LineageInv
  <1>14. \A c \in claims' \ claims : c = claim
    BY <1>3
  <1>15. LineageIn(nodes', claim.lineage, claim.node)
    BY <1>3, <1>5
  <1> QED
    BY <1>5, <1>10, <1>11, <1>12, <1>13, <1>14, <1>15, LineageStep

LEMMA ClosingLineage ==
  ASSUME IInv, LineageInv, NEW x \in Execution,
         RecomputeClaimHypotheses(x) \/ RecordChangeImpact(x) \/ AssessmentFails(x) \/ Ends(x)
  PROVE  LineageInv'
  <1>1. /\ exec[x].pc \in {"assessing", "assessed", "closing"} /\ DOMAIN exec[x] = Fields /\ DOMAIN exec = Execution
        /\ LinkedOK(x)
    BY DEF RecomputeClaimHypotheses, RecordChangeImpact, AssessmentFails, Ends, IInv, ExecInv, FormOK, LineageInv
  <1>2. UNCHANGED <<records, nodes, edges, claims>>
    BY DEF RecomputeClaimHypotheses, RecordChangeImpact, AssessmentFails, Ends, stores
  <1>3. /\ exec'[x].pc \notin {"linking", "claiming", "fetched", "promoting"}
        /\ exec'[x].unlinked = {} \/ (exec'[x].unlinked = exec[x].unlinked /\ exec'[x].batch = exec[x].batch)
        /\ exec'[x].clean => exec[x].clean
        /\ \A y \in Execution \ {x} : exec'[y] = exec[y]
    <2>1. CASE RecomputeClaimHypotheses(x)
      <3>1. PICK seen : exec' = [exec EXCEPT ![x].pc = "assessed", ![x].seen = seen]
        BY <2>1, Zenon DEF RecomputeClaimHypotheses
      <3> QED BY <1>1, <3>1 DEF Fields
    <2>2. CASE RecordChangeImpact(x)
      BY <1>1, <2>2 DEF RecordChangeImpact, Fields
    <2>3. CASE AssessmentFails(x)
      BY <1>1, <2>3 DEF AssessmentFails, Fields
    <2>4. CASE Ends(x)
      BY <1>1, <2>4 DEF Ends, Idle
    <2> QED BY <2>1, <2>2, <2>3, <2>4
  <1>4. nodes \subseteq Node /\ exec[x].unlinked \subseteq DOMAIN exec[x].batch
    BY <1>1 DEF LineageInv, Recorded, LinkedOK
  <1> QED
    BY <1>1, <1>2, <1>3, <1>4, QuietLineageStep DEF RecordsBy

LEMMA DiesLineage ==
  ASSUME IInv, LineageInv, NEW x \in Execution, Dies(x)
  PROVE  LineageInv'
  <1>1. DOMAIN exec = Execution /\ BatchOK(x)
    BY DEF IInv, ExecInv
  <1>2. UNCHANGED <<records, edges, claims>>
    BY DEF Dies
  <1>3. /\ exec'[x].pc = "failed" /\ exec'[x].unlinked = {}
        /\ \A y \in Execution \ {x} : exec'[y] = exec[y]
    BY <1>1 DEF Dies, Idle
  <1>4. nodes \subseteq nodes' /\ nodes' \subseteq Node
    <2>1. nodes \subseteq Node
      BY DEF LineageInv, Recorded
    <2>2. CASE exec[x].pc = "promoting"
      <3>1. PICK k \in 0..Len(exec[x].batch) : nodes' = nodes \cup ToSet(SubSeq(exec[x].batch, 1, k))
        BY <2>2 DEF Dies
      <3>2. SubSeq(exec[x].batch, 1, k) \in Seq(Node)
        BY <1>1 DEF BatchOK
      <3> QED BY <2>1, <3>1, <3>2 DEF ToSet
    <2>3. CASE exec[x].pc # "promoting"
      BY <2>1, <2>3 DEF Dies
    <2> QED BY <2>2, <2>3
  <1> QED
    BY <1>2, <1>3, <1>4, QuietLineageStep DEF RecordsBy

LEMMA InitLineage == Init => LineageInv
  <1> SUFFICES ASSUME Init PROVE LineageInv
    OBVIOUS
  <1>1. nodes = {} /\ edges = {} /\ claims = {} /\ \A x \in Execution : exec[x] = Idle
    BY DEF Init
  <1>2. Recorded(edges, nodes)
    BY <1>1, FS_EmptySet DEF Recorded, Links
  <1>3. ASSUME NEW x \in Execution PROVE LinkedOK(x) /\ CopiesOK(x)
    BY <1>1 DEF LinkedOK, CopiesOK, Own, Idle
  <1> QED BY <1>1, <1>2, <1>3 DEF LineageInv, ClaimInv

LEMMA NextLineage == IInv /\ LineageInv /\ IsFiniteSet(records) /\ [Next]_vars => LineageInv'
  <1> SUFFICES ASSUME IInv, LineageInv, IsFiniteSet(records), [Next]_vars PROVE LineageInv'
    OBVIOUS
  <1>1. ASSUME UNCHANGED <<records, nodes, edges, claims, exec>> PROVE LineageInv'
    <2>1. ClaimInv' /\ Recorded(edges', nodes')
      BY <1>1 DEF LineageInv, ClaimInv
    <2>2. ASSUME NEW x \in Execution PROVE LinkedOK(x)' /\ CopiesOK(x)'
      <3>1. LinkedOK(x) /\ CopiesOK(x)
        BY DEF LineageInv
      <3>2. LinkedOK(x)'
        BY <1>1, <3>1 DEF LinkedOK
      <3>3. CopiesOK(x)'
        BY <1>1, <3>1 DEF CopiesOK, Own, Few, RecordsBy
      <3> QED BY <3>2, <3>3
    <2> QED BY <2>1, <2>2 DEF LineageInv
  <1>2. CASE UNCHANGED vars
    BY <1>1, <1>2 DEF vars, stores
  <1>3. ASSUME NEW s \in Scheduled, Schedules(s) PROVE LineageInv'
    BY <1>1, <1>3 DEF Schedules, UpsertDynamicSourcePolicy, RunDueSourceJobs, stores
  <1>4. ASSUME NEW item \in WorkItem, Settle(item) PROVE LineageInv'
    BY <1>1, <1>4 DEF Settle, stores
  <1>5. ASSUME NEW x \in Execution, Starts(x) PROVE LineageInv'
    <2>1. \E item, sources, results : RunJobs(x, item, sources, results)
      BY <1>5 DEF Starts, ExecuteItem, CallIngestion
    <2> QED BY <2>1, RunJobsLineage
  <1>6. ASSUME NEW x \in Execution, Promotes(x) PROVE LineageInv'
    <2>1. ASSUME NEW i \in DOMAIN exec[x].batch, NodeFails(x, i) \/ LinkEvidenceLineage(x, i) \/ LinkFails(x, i)
          PROVE  LineageInv'
      BY <2>1, NodeFailsLineage, LinkLineage
    <2> QED
      BY <1>6, <2>1, RecordNodesLineage, AnalysisLineage, ClaimLineage, ClosingLineage DEF Promotes
  <1>7. ASSUME NEW x \in Execution, Executes(x) PROVE LineageInv'
    BY <1>5, <1>6, <1>7, PersistLineage, ClosingLineage, DiesLineage DEF Executes
  <1> QED
    BY <1>2, <1>3, <1>4, <1>7 DEF Next

-----------------------------------------------------------------------------
(* The types of the rest of the state *)

ExecTypes(x) ==
  /\ exec[x].status \in Seq(Source \X RunStatus)
  /\ exec[x].seen \subseteq claims

StateTypes ==
  /\ policy \in [Scheduled -> [enabled: BOOLEAN, next: 0..MaxSlot]]
  /\ sourceRuns \subseteq [by: Execution, source: Source, status: RunStatus]
  /\ records \subseteq Execution \X Node /\ IsFiniteSet(records)
  /\ impacts \subseteq [by: Execution, of: SUBSET claims]
  /\ \A x \in Execution : ExecTypes(x)
  /\ phase \in [WorkItem -> {"absent", "open", "completed", "dead"}]
  /\ tried \in [WorkItem -> SUBSET Queue!Outcome]
  /\ edits \in 0..MaxEdits
  /\ faults \in 0..MaxFaults

LEMMA FaultsBounded ==
  ASSUME StateTypes, UNCHANGED faults \/ Faults
  PROVE  faults' \in 0..MaxFaults
  BY SourceIngestionAssumption DEF StateTypes, Faults, SourceIngestionAssumption

\* A step of one execution keeps the types if it keeps its own.
LEMMA TypesStep ==
  ASSUME IInv, StateTypes, NEW x \in Execution,
         \A y \in Execution \ {x} : exec'[y] = exec[y],
         claims \subseteq claims',
         exec'[x].status \in Seq(Source \X RunStatus),
         exec'[x].seen \subseteq claims',
         UNCHANGED <<sourceRuns, records>> \/ Commits(x),
         UNCHANGED impacts \/ impacts' = impacts \cup {ImpactOf(x)},
         UNCHANGED <<phase, tried>> \/ \E outcome \in Queue!Outcome : EndsWith(x, outcome),
         UNCHANGED <<policy, edits>>,
         UNCHANGED faults \/ Faults
  PROVE  StateTypes'
  <1>1. ExecTypes(x) /\ BatchOK(x) /\ FormOK(x)
    BY DEF IInv, ExecInv, StateTypes
  <1>2. sourceRuns' \subseteq [by: Execution, source: Source, status: RunStatus]
    <2>1. SourceRunsOf(x) \subseteq [by: Execution, source: Source, status: RunStatus]
      BY <1>1 DEF SourceRunsOf, ExecTypes, ToSet
    <2> QED BY <2>1 DEF StateTypes, Commits
  <1>3. records' \subseteq Execution \X Node /\ IsFiniteSet(records')
    <2>1. RecordsOf(x) \subseteq Execution \X Node
      BY <1>1 DEF RecordsOf, BatchOK, ToSet
    <2>2. IsFiniteSet(RecordsOf(x))
      <3> DEFINE pairs == [j \in 1..Len(exec[x].batch) |-> <<x, exec[x].batch[j]>>]
      <3>1. Len(exec[x].batch) \in Nat /\ DOMAIN exec[x].batch = 1..Len(exec[x].batch)
        BY <1>1 DEF BatchOK
      <3>2. Len(pairs) = Len(exec[x].batch) /\ DOMAIN pairs = 1..Len(exec[x].batch)
        BY <3>1
      <3>3. pairs \in Seq(RecordsOf(x))
        BY <3>1 DEF RecordsOf, ToSet
      <3>4. \A r \in RecordsOf(x) : \E n \in 1..Len(pairs) : pairs[n] = r
        BY <3>1, <3>2 DEF RecordsOf, ToSet
      <3> HIDE DEF pairs
      <3> QED BY <3>3, <3>4 DEF IsFiniteSet
    <2>3. IsFiniteSet(records \cup RecordsOf(x))
      BY <2>2, FS_Union DEF StateTypes
    <2> QED BY <2>1, <2>3 DEF StateTypes, Commits
  <1>4. impacts' \subseteq [by: Execution, of: SUBSET claims']
    <2>1. impacts \subseteq [by: Execution, of: SUBSET claims']
      BY DEF StateTypes
    <2>2. ImpactOf(x) \in [by: Execution, of: SUBSET claims']
      BY <1>1 DEF ImpactOf, ExecTypes
    <2> QED BY <2>1, <2>2
  <1>5. ASSUME NEW y \in Execution PROVE ExecTypes(y)'
    BY DEF StateTypes, ExecTypes
  <1>6. phase' \in [WorkItem -> {"absent", "open", "completed", "dead"}] /\ tried' \in [WorkItem -> SUBSET Queue!Outcome]
    <2>1. CASE UNCHANGED <<phase, tried>>
      BY <2>1 DEF StateTypes
    <2>2. ASSUME NEW outcome \in Queue!Outcome, Queue!RunEnds(exec[x].item, outcome)
          PROVE  phase' = phase /\ tried' \in [WorkItem -> SUBSET Queue!Outcome]
      BY <2>2 DEF StateTypes, Queue!RunEnds
    <2> QED BY <2>1, <2>2 DEF StateTypes, EndsWith
  <1>7. policy' \in [Scheduled -> [enabled: BOOLEAN, next: 0..MaxSlot]] /\ edits' \in 0..MaxEdits
    BY DEF StateTypes
  <1>8. faults' \in 0..MaxFaults
    BY FaultsBounded
  <1> QED BY <1>2, <1>3, <1>4, <1>5, <1>6, <1>7, <1>8 DEF StateTypes

LEMMA RunJobsTypes ==
  ASSUME IInv, StateTypes, NEW x \in Execution, NEW item, NEW sources \in Seq(Source),
         NEW results \in Results(sources),
         RunJobs(x, item, sources, results)
  PROVE  StateTypes'
  <1> DEFINE status == [i \in DOMAIN sources |-> <<sources[i], results[i].status>>]
  <1>1. status \in Seq(Source \X RunStatus)
    <2>1. \A i \in 1..Len(sources) : status[i] \in Source \X RunStatus
      <3> SUFFICES ASSUME NEW i \in DOMAIN sources PROVE results[i].status \in RunStatus
        OBVIOUS
      <3>1. results[i] \in Result(sources[i])
        BY DEF Results
      <3>2. Unfailed(sources[i]) \subseteq RunStatus
        <4>1. sources[i] \in Source
          OBVIOUS
        <4>2. Plan[sources[i]] \in {"ready", "no_parser", "no_endpoint", "auth_required", "blocked"}
          BY <4>1, SourceIngestionAssumption DEF SourceIngestionAssumption
        <4> QED BY <4>2 DEF Unfailed, RunStatus
      <3> QED BY <3>1, <3>2 DEF Result, RunStatus
    <2>2. status = [i \in 1..Len(sources) |-> status[i]] /\ Len(sources) \in Nat
      OBVIOUS
    <2> HIDE DEF status
    <2>3. ASSUME NEW T, NEW seq, NEW k \in Nat, seq = [i \in 1..k |-> seq[i]], \A i \in 1..k : seq[i] \in T
          PROVE  seq \in Seq(T)
      BY <2>3
    <2> QED BY <2>1, <2>2, <2>3
  <1>2. /\ exec'[x].status = status /\ exec'[x].seen = {}
        /\ \A y \in Execution \ {x} : exec'[y] = exec[y]
    BY DEF RunJobs, IInv, Idle
  <1>3. UNCHANGED <<policy, sourceRuns, records, impacts, claims, phase, tried, edits, faults>>
    BY DEF RunJobs, stores
  <1> HIDE DEF status
  <1> QED BY <1>1, <1>2, <1>3, TypesStep

LEMMA PersistTypes ==
  ASSUME IInv, StateTypes, NEW x \in Execution, PersistToPostgres(x) \/ PersistFails(x)
  PROVE  StateTypes'
  <1>1. DOMAIN exec[x] = Fields /\ DOMAIN exec = Execution /\ ExecTypes(x)
    BY DEF IInv, ExecInv, FormOK, StateTypes
  <1>2. /\ exec'[x].status = exec[x].status /\ exec'[x].seen = exec[x].seen
        /\ \A y \in Execution \ {x} : exec'[y] = exec[y]
    BY <1>1 DEF PersistToPostgres, PersistFails, Fields
  <1>3. /\ UNCHANGED <<policy, impacts, claims, edits>>
        /\ UNCHANGED <<sourceRuns, records>> \/ Commits(x)
        /\ UNCHANGED faults \/ Faults
    BY DEF PersistToPostgres, PersistFails
  <1>4. UNCHANGED <<phase, tried>> \/ \E outcome \in Queue!Outcome : EndsWith(x, outcome)
    BY DEF PersistToPostgres, PersistFails, Queue!Outcome
  <1> QED BY <1>1, <1>2, <1>3, <1>4, TypesStep DEF ExecTypes

LEMMA PromotionTypes ==
  ASSUME IInv, StateTypes, NEW x \in Execution, Promotes(x)
  PROVE  StateTypes'
  <1>1. DOMAIN exec[x] = Fields /\ DOMAIN exec = Execution /\ ExecTypes(x)
    BY DEF IInv, ExecInv, FormOK, StateTypes
  <1>2. UNCHANGED <<policy, sourceRuns, records, phase, tried, edits>> /\ (UNCHANGED faults \/ Faults)
    BY DEF Promotes, RecordEvidenceLineageNodes, NodeFails, LinkEvidenceLineage, LinkFails,
           AnalyzeEvidenceIndependence, AnalysisFails, PersistEvidenceClaim, ClaimFails,
           RecomputeClaimHypotheses, RecordChangeImpact, AssessmentFails, stores
  <1>3. claims \subseteq claims' /\ (UNCHANGED impacts \/ impacts' = impacts \cup {ImpactOf(x)})
    BY DEF Promotes, RecordEvidenceLineageNodes, NodeFails, LinkEvidenceLineage, LinkFails,
           AnalyzeEvidenceIndependence, AnalysisFails, PersistEvidenceClaim, ClaimFails,
           RecomputeClaimHypotheses, RecordChangeImpact, AssessmentFails, stores
  <1> DEFINE Kept == /\ exec'[x].status = exec[x].status /\ exec'[x].seen \in {exec[x].seen, {}} \cup SUBSET claims
                     /\ \A y \in Execution \ {x} : exec'[y] = exec[y]
  <1>4. Kept
    <2>1. CASE RecordEvidenceLineageNodes(x)
      BY <1>1, <2>1 DEF RecordEvidenceLineageNodes, Fields
    <2>2. ASSUME NEW i \in DOMAIN exec[x].batch, NodeFails(x, i) \/ LinkEvidenceLineage(x, i) \/ LinkFails(x, i)
          PROVE  Kept
      BY <1>1, <2>2 DEF NodeFails, LinkEvidenceLineage, LinkFails, Fields
    <2>3. ASSUME NEW lineages
          PROVE  /\ DOMAIN Analysed(x, lineages) = Fields
                 /\ Analysed(x, lineages).status = exec[x].status /\ Analysed(x, lineages).seen = exec[x].seen
      BY <1>1 DEF Analysed, Fields
    <2>4. CASE AnalyzeEvidenceIndependence(x)
      BY <1>1, <2>3, <2>4 DEF AnalyzeEvidenceIndependence, Fields
    <2>5. CASE AnalysisFails(x)
      BY <1>1, <2>3, <2>5 DEF AnalysisFails, Fields
    <2>6. ASSUME NEW affected
          PROVE  /\ DOMAIN Claimed(x, affected) = Fields
                 /\ Claimed(x, affected).status = exec[x].status /\ Claimed(x, affected).seen = exec[x].seen
      BY <1>1 DEF Claimed, Fields
    <2>7. CASE PersistEvidenceClaim(x) \/ ClaimFails(x)
      <3>1. PICK affected :
              \/ exec' = [exec EXCEPT ![x] = Claimed(x, affected)]
              \/ exec' = [exec EXCEPT ![x] = [Claimed(x, affected) EXCEPT !.clean = FALSE]]
        <4>1. CASE PersistEvidenceClaim(x)
          BY <4>1, Zenon DEF PersistEvidenceClaim
        <4>2. CASE ClaimFails(x)
          BY <4>2, Zenon DEF ClaimFails
        <4> QED BY <2>7, <4>1, <4>2
      <3> QED BY <1>1, <2>6, <3>1 DEF Fields
    <2>8. CASE RecomputeClaimHypotheses(x)
      BY <1>1, <2>8 DEF RecomputeClaimHypotheses, Loaded, kSubset, Fields
    <2>9. CASE RecordChangeImpact(x)
      BY <1>1, <2>9 DEF RecordChangeImpact, Fields
    <2>10. CASE AssessmentFails(x)
      BY <1>1, <2>10 DEF AssessmentFails, Fields
    <2> HIDE DEF Kept
    <2> QED BY <2>1, <2>2, <2>4, <2>5, <2>7, <2>8, <2>9, <2>10 DEF Promotes
  <1>5. exec'[x].status \in Seq(Source \X RunStatus) /\ exec'[x].seen \subseteq claims'
    BY <1>1, <1>3, <1>4 DEF ExecTypes
  <1> QED BY <1>2, <1>3, <1>4, <1>5, TypesStep

LEMMA EndTypes ==
  ASSUME IInv, StateTypes, NEW x \in Execution, Ends(x) \/ Dies(x)
  PROVE  StateTypes'
  <1>1. DOMAIN exec = Execution
    BY DEF IInv
  <1>2. /\ exec'[x].status = <<>> /\ exec'[x].seen = {}
        /\ \A y \in Execution \ {x} : exec'[y] = exec[y]
    BY <1>1 DEF Ends, Dies, Idle
  <1>3. /\ UNCHANGED <<policy, sourceRuns, records, impacts, claims, edits>>
        /\ UNCHANGED faults \/ Faults
        /\ UNCHANGED <<phase, tried>> \/ \E outcome \in Queue!Outcome : EndsWith(x, outcome)
    BY DEF Ends, Dies, Outcome, Queue!Outcome, stores
  <1>4. exec'[x].status \in Seq(Source \X RunStatus) /\ exec'[x].seen \subseteq claims'
    BY <1>2
  <1> QED BY <1>2, <1>3, <1>4, TypesStep

LEMMA ScheduleTypes ==
  ASSUME StateTypes, NEW s \in Scheduled, Schedules(s)
  PROVE  StateTypes'
  <1>1. UNCHANGED <<stores, exec, faults>>
    BY DEF Schedules, UpsertDynamicSourcePolicy, RunDueSourceJobs
  <1>2. policy' \in [Scheduled -> [enabled: BOOLEAN, next: 0..MaxSlot]]
    <2>1. policy \in [Scheduled -> [enabled: BOOLEAN, next: 0..MaxSlot]]
      BY DEF StateTypes
    <2>2. ASSUME NEW patch \in Patch, UpsertDynamicSourcePolicy(s, patch)
          PROVE  policy' \in [Scheduled -> [enabled: BOOLEAN, next: 0..MaxSlot]]
      BY <2>1, <2>2, SourceIngestionAssumption DEF UpsertDynamicSourcePolicy, SourceIngestionAssumption
    <2>3. CASE RunDueSourceJobs(s)
      <3>1. policy[s].next + 1 \in 0..MaxSlot
        BY <2>1, <2>3, SourceIngestionAssumption DEF RunDueSourceJobs, SourceIngestionAssumption
      <3>2. [policy[s] EXCEPT !.next = policy[s].next + 1] \in [enabled: BOOLEAN, next: 0..MaxSlot]
        BY <2>1, <3>1
      <3>3. policy' = [policy EXCEPT ![s] = [policy[s] EXCEPT !.next = policy[s].next + 1]]
        BY <2>1, <2>3 DEF RunDueSourceJobs
      <3> QED BY <2>1, <3>2, <3>3
    <2> QED BY <2>2, <2>3 DEF Schedules
  <1>3. edits' \in 0..MaxEdits
    BY SourceIngestionAssumption
       DEF Schedules, UpsertDynamicSourcePolicy, RunDueSourceJobs, StateTypes, SourceIngestionAssumption
  <1>4. phase' \in [WorkItem -> {"absent", "open", "completed", "dead"}] /\ tried' = tried
    BY DEF Schedules, UpsertDynamicSourcePolicy, RunDueSourceJobs, StateTypes, Queue!Submit
  <1> QED BY <1>1, <1>2, <1>3, <1>4 DEF StateTypes, ExecTypes, stores

LEMMA SettleTypes ==
  ASSUME StateTypes, NEW item \in WorkItem, Settle(item)
  PROVE  StateTypes'
  <1>1. UNCHANGED <<policy, stores, exec, edits, faults, tried>>
    BY DEF Settle, Queue!SettleCompleted, Queue!GiveUp
  <1>2. phase' \in [WorkItem -> {"absent", "open", "completed", "dead"}]
    BY DEF Settle, Queue!SettleCompleted, Queue!GiveUp, StateTypes
  <1> QED BY <1>1, <1>2 DEF StateTypes, ExecTypes, stores

LEMMA InitTypes == Init => StateTypes
  <1> SUFFICES ASSUME Init PROVE StateTypes
    OBVIOUS
  <1>1. exec = [x \in Execution |-> Idle] /\ sourceRuns = {} /\ records = {} /\ impacts = {}
    BY DEF Init
  <1>2. edits \in 0..MaxEdits /\ faults \in 0..MaxFaults /\ policy \in [Scheduled -> [enabled: BOOLEAN, next: 0..MaxSlot]]
    BY SourceIngestionAssumption DEF Init, SourceIngestionAssumption
  <1>3. phase \in [WorkItem -> {"absent", "open", "completed", "dead"}] /\ tried \in [WorkItem -> SUBSET Queue!Outcome]
    BY DEF Init, Queue!Init
  <1>4. ASSUME NEW x \in Execution PROVE ExecTypes(x)
    <2>1. exec[x].status = <<>> /\ exec[x].seen = {}
      BY <1>1 DEF Idle
    <2> QED BY <2>1 DEF ExecTypes
  <1> QED BY <1>1, <1>2, <1>3, <1>4, FS_EmptySet DEF StateTypes

LEMMA NextTypes == IInv /\ StateTypes /\ [Next]_vars => StateTypes'
  <1> SUFFICES ASSUME IInv, StateTypes, [Next]_vars PROVE StateTypes'
    OBVIOUS
  <1>1. CASE UNCHANGED vars
    BY <1>1 DEF vars, stores, StateTypes, ExecTypes
  <1>2. ASSUME NEW x \in Execution, Starts(x) PROVE StateTypes'
    <2>1. ASSUME NEW item \in WorkItem, NEW result \in Result(item[1]), ExecuteItem(x, item, result)
          PROVE  StateTypes'
      <3>1. <<item[1]>> \in Seq(Source)
        BY SourceIngestionAssumption DEF SourceIngestionAssumption, WorkItem
      <3> QED BY <2>1, <3>1, OneResult, RunJobsTypes DEF ExecuteItem
    <2>2. ASSUME NEW sources \in Batch, NEW results \in Results(sources), CallIngestion(x, sources, results) PROVE StateTypes'
      <3>1. sources \in Seq(Source)
        BY SourceIngestionAssumption DEF SourceIngestionAssumption
      <3> QED BY <2>2, <3>1, RunJobsTypes DEF CallIngestion
    <2> QED BY <1>2, <2>1, <2>2 DEF Starts
  <1>3. ASSUME NEW x \in Execution, Executes(x) PROVE StateTypes'
    BY <1>2, <1>3, PersistTypes, PromotionTypes, EndTypes DEF Executes
  <1> QED
    BY <1>1, <1>3, ScheduleTypes, SettleTypes DEF Next

-----------------------------------------------------------------------------
(* The theorems *)

\* The inductive invariant of ingestion: what an execution works on is on
\* record and its claims are assessed as far as its control has come.
THEOREM InductiveInvariant == Spec => []IInv
  BY InitIInv, NextIInv, PTL DEF Spec

\* A claim's record, the completed run of its source and its lineage node are
\* always on record (promoteRunsToIntelligence).
THEOREM ClaimsAreTraceable == Spec => []ClaimsTraceable
  <1>1. IInv => ClaimsTraceable
    BY DEF IInv
  <1> QED
    BY <1>1, InductiveInvariant, PTL

\* The claims of an execution that ended cleanly have been assessed together.
THEOREM CleanClaimsAssessed == Spec => []ClaimsAssessed
  <1>1. IInv => ClaimsAssessed
    BY DEF IInv, ExecInv, AssessedOK, Covers, Own, ClaimsAssessed
  <1> QED
    BY <1>1, InductiveInvariant, PTL

\* A completed work item has a run of its source that did not fail: the source
\* has answered, unless its plan allows no request (runJob, execute).
THEOREM CompletionMeansFetched == Spec => []CompletedItemFetched
  <1>1. IInv => CompletedItemFetched
    BY DEF IInv, SuccessFetched, Fetched, CompletedItemFetched
  <1> QED
    BY <1>1, InductiveInvariant, PTL

\* The lineages formed so far are about one story each, and those of copies agree.
LEMMA LineagesInvariant == Spec => [](IInv /\ LineageInv /\ StateTypes)
  <1>1. IInv /\ LineageInv /\ StateTypes /\ [Next]_vars => IInv' /\ LineageInv' /\ StateTypes'
    BY NextIInv, NextLineage, NextTypes DEF StateTypes
  <1> QED
    BY <1>1, InitIInv, InitLineage, InitTypes, PTL DEF Spec

\* Claims of one lineage are of reports that a chain of likeness connects.
StoriesApart ==
  \A c, d \in claims : c.lineage = d.lineage => StoryOf[c.node[2]] = StoryOf[d.node[2]]

\* A lineage never has reports that no chain of like contents or nearly equal
\* titles connects, across all executions, failures and cycles
\* (inferAndLinkLineage, analyzeEvidenceIndependence); a chain may collapse
\* what its ends do not have in common.
THEOREM StoriesNeverCollapse == Spec => []StoriesApart
  <1>1. LineageInv => StoriesApart
    BY DEF LineageInv, ClaimInv, LineageIn, StoriesApart, Story
  <1> QED
    BY <1>1, LineagesInvariant, PTL

\* Copies of one clear story have one lineage within an execution, as long as no
\* failure was swallowed, no node goes back to itself and the analysis looks at
\* all records (inferAndLinkLineage, analyzeEvidenceIndependence).
THEOREM CopiesCountOnce == Spec => []CopiesShareLineage
  <1>1. LineageInv => CopiesShareLineage
    BY DEF LineageInv, CopiesOK, Own, Few, RecordsBy, CopiesShareLineage, Story
  <1> QED
    BY <1>1, LineagesInvariant, PTL

\* Type correctness: what executions work on, the edges, the lineages and the
\* assessments are of nodes and claims on record, in every state.
THEOREM TypeCorrect == Spec => []TypeOK
  <1>1. IInv /\ LineageInv /\ StateTypes => TypeOK
    <2> SUFFICES ASSUME IInv, LineageInv, StateTypes PROVE TypeOK
      OBVIOUS
    <2>1. nodes \subseteq Node /\ edges \subseteq nodes \X nodes
      BY DEF LineageInv, Recorded
    <2>2. claims \subseteq [by: Execution, node: Node, lineage: [kind: {"roots", "node"}, of: SUBSET nodes]]
      BY DEF LineageInv, ClaimInv, LineageIn, Lineage
    <2>3. ASSUME NEW x \in Execution PROVE ExecutionOK(exec[x])
      <3>1. FormOK(x) /\ BatchOK(x) /\ LinkedOK(x) /\ ExecTypes(x)
        BY DEF IInv, ExecInv, LineageInv, StateTypes
      <3> QED BY <3>1 DEF FormOK, BatchOK, LinkedOK, ExecTypes, ExecutionOK, RunStatus
    <2> QED BY <2>1, <2>2, <2>3 DEF TypeOK, StateTypes, RunStatus
  <1> QED
    BY <1>1, LineagesInvariant, PTL

-----------------------------------------------------------------------------
(* Ingestion and the queue *)

\* What a step of an execution is to the queue, and to the item it works on.
LEMMA QueueStep ==
  ASSUME IInv, NEW x \in Execution, Executes(x)
  PROVE  /\ \A y \in Execution \ {x} : exec'[y] = exec[y]
         /\ phase' = phase
         /\ \/ exec'[x].item = exec[x].item
            \/ exec'[x].item = NoItem
            \/ phase[exec'[x].item] # "absent"
         /\ \/ tried' = tried
            \/ \E item \in WorkItem, outcome \in Queue!Outcome : Queue!RunEnds(item, outcome)
  <1>1. DOMAIN exec = Execution /\ DOMAIN exec[x] = Fields /\ exec[x].item \in WorkItem \cup {NoItem}
    BY DEF IInv, ExecInv, FormOK
  <1>2. "item" \in DOMAIN exec[x] /\ "item" \in DOMAIN Idle
    BY <1>1 DEF Fields, Idle
  <1>3. ASSUME NEW outcome \in Queue!Outcome, EndsWith(x, outcome)
        PROVE  /\ phase' = phase
               /\ \/ tried' = tried
                  \/ \E item \in WorkItem, o \in Queue!Outcome : Queue!RunEnds(item, o)
    BY <1>1, <1>3 DEF EndsWith, Queue!RunEnds
  <1>4. CASE Starts(x)
    <2>1. ASSUME NEW item, NEW sources, NEW results, RunJobs(x, item, sources, results)
          PROVE  /\ exec'[x].item = item /\ \A y \in Execution \ {x} : exec'[y] = exec[y]
                 /\ UNCHANGED <<phase, tried>>
      BY <1>1, <1>2, <2>1 DEF RunJobs, Idle
    <2> QED
      BY <1>4, <2>1 DEF Starts, ExecuteItem, CallIngestion
  <1>5. CASE PersistToPostgres(x)
    BY <1>1, <1>2, <1>5 DEF PersistToPostgres
  <1>6. CASE PersistFails(x)
    BY <1>1, <1>2, <1>3, <1>6 DEF PersistFails, Queue!Outcome
  <1>7. CASE Promotes(x)
    <2> SUFFICES /\ \A y \in Execution \ {x} : exec'[y] = exec[y]
                 /\ exec'[x].item = exec[x].item
                 /\ UNCHANGED <<phase, tried>>
      OBVIOUS
    <2>1. CASE RecordEvidenceLineageNodes(x)
      BY <1>1, <1>2, <2>1 DEF RecordEvidenceLineageNodes
    <2>2. ASSUME NEW i \in DOMAIN exec[x].batch, NodeFails(x, i) \/ LinkEvidenceLineage(x, i) \/ LinkFails(x, i)
          PROVE  /\ \A y \in Execution \ {x} : exec'[y] = exec[y]
                 /\ exec'[x].item = exec[x].item
                 /\ UNCHANGED <<phase, tried>>
      BY <1>1, <1>2, <2>2 DEF NodeFails, LinkEvidenceLineage, LinkFails
    <2>3. CASE AnalyzeEvidenceIndependence(x) \/ AnalysisFails(x)
      BY <1>1, <1>2, <2>3 DEF AnalyzeEvidenceIndependence, AnalysisFails, Analysed
    <2>4. CASE PersistEvidenceClaim(x) \/ ClaimFails(x)
      BY <1>1, <1>2, <2>4 DEF PersistEvidenceClaim, ClaimFails, Claimed
    <2>5. CASE RecomputeClaimHypotheses(x) \/ RecordChangeImpact(x) \/ AssessmentFails(x)
      BY <1>1, <1>2, <2>5 DEF RecomputeClaimHypotheses, RecordChangeImpact, AssessmentFails
    <2> QED
      BY <1>7, <2>1, <2>2, <2>3, <2>4, <2>5 DEF Promotes
  <1>8. CASE Ends(x)
    <2>1. Outcome(x) \in Queue!Outcome
      BY DEF Outcome, Queue!Outcome
    <2> QED
      BY <1>1, <1>2, <1>3, <1>8, <2>1 DEF Ends, Idle
  <1>9. CASE Dies(x)
    BY <1>1, <1>2, <1>9 DEF Dies, Idle
  <1> QED
    BY <1>4, <1>5, <1>6, <1>7, <1>8, <1>9 DEF Executes

\* The queue has the item of every execution that has begun.
ItemsKnown == \A x \in Execution : exec[x].item # NoItem => phase[exec[x].item] # "absent"

\* The queue never refuses the end of an execution, so the abstraction blocks
\* no step of the code (workflow-executor.ts, runScheduledSourceIngestion).
THEOREM QueueTakesEveryEnd == Spec => []ItemsKnown
  <1>1. Init => ItemsKnown
    BY DEF Init, ItemsKnown, Idle
  <1>2. IInv /\ ItemsKnown /\ [Next]_vars => ItemsKnown'
    <2> SUFFICES ASSUME IInv, ItemsKnown, [Next]_vars PROVE ItemsKnown'
      OBVIOUS
    <2>1. \A x \in Execution : exec[x].item \in WorkItem \cup {NoItem}
      BY DEF IInv, ExecInv, FormOK
    <2>2. CASE UNCHANGED vars
      BY <2>2 DEF vars, ItemsKnown
    <2>3. ASSUME NEW x \in Execution, Executes(x) PROVE ItemsKnown'
      BY <2>3, QueueStep DEF ItemsKnown
    <2>4. ASSUME UNCHANGED exec, \A item \in WorkItem : phase[item] # "absent" => phase'[item] # "absent"
          PROVE  ItemsKnown'
      BY <2>1, <2>4 DEF ItemsKnown
    <2>5. ASSUME NEW s \in Scheduled, Schedules(s) PROVE ItemsKnown'
      BY <2>4, <2>5 DEF Schedules, UpsertDynamicSourcePolicy, RunDueSourceJobs, Queue!Submit, IInv, QueueOK
    <2>6. ASSUME NEW item \in WorkItem, Settle(item) PROVE ItemsKnown'
      BY <2>4, <2>6 DEF Settle, Queue!SettleCompleted, Queue!GiveUp, IInv, QueueOK
    <2> QED
      BY <2>2, <2>3, <2>5, <2>6 DEF Next
  <1> QED
    BY <1>1, <1>2, InductiveInvariant, PTL DEF Spec

\* Scheduler and executions use the queue within its promise: what they see of
\* it is a behaviour of AtLeastOnce, which WorkQueue implements.
THEOREM IngestionKeepsToPromise == Spec => Queue!Spec
  <1>1. Init => Queue!Init
    BY DEF Init
  <1>2. IInv /\ StateTypes /\ [Next]_vars => [Queue!Next]_(Queue!abstractVars)
    <2> SUFFICES ASSUME IInv, StateTypes, [Next]_vars, ~UNCHANGED <<phase, tried>>
                 PROVE  Queue!Next
      BY DEF Queue!abstractVars
    <2>1. ASSUME NEW x \in Execution, Executes(x) PROVE Queue!Next
      BY <2>1, QueueStep DEF Queue!Next
    <2>2. ASSUME NEW s \in Scheduled, Schedules(s) PROVE Queue!Next
      <3>1. RunDueSourceJobs(s)
        BY <2>2 DEF Schedules, UpsertDynamicSourcePolicy
      <3>2. policy[s].next \in 0..(MaxSlot - 1)
        BY <3>1, SourceIngestionAssumption DEF RunDueSourceJobs, StateTypes, SourceIngestionAssumption
      <3>3. <<s, policy[s].next>> \in WorkItem
        BY <3>2 DEF WorkItem
      <3> QED
        BY <3>1, <3>3 DEF RunDueSourceJobs, Queue!Next
    <2>3. ASSUME NEW item \in WorkItem, Settle(item) PROVE Queue!Next
      BY <2>3 DEF Settle, Queue!Next
    <2> QED
      BY <2>1, <2>2, <2>3 DEF Next, vars
  <1>3. Spec => []StateTypes
    <2>1. IInv /\ StateTypes /\ [Next]_vars => StateTypes'
      BY NextTypes
    <2> QED
      BY <2>1, InitTypes, InductiveInvariant, PTL DEF Spec
  <1> QED
    BY <1>1, <1>2, <1>3, InductiveInvariant, PTL DEF Spec, Queue!Spec
=============================================================================
