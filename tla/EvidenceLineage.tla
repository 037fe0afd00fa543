--------------------------- MODULE EvidenceLineage ---------------------------
(***************************************************************************)
(* Which pieces of evidence are derived from one another                   *)
(* (evidence-lineage.ts): the link inferred for each new node of a batch,  *)
(* the roots a node goes back to and the grouping of nodes into lineages.  *)
(*                                                                         *)
(* A node is a report of a source.  Reports of equal contents have the      *)
(* score 1, others one by their titles: the share of common words, times   *)
(* 0.85.  Titles that agree or nearly agree link, so that likeness is no   *)
(* equivalence: a chain of reports, each like the next, may join what has  *)
(* nothing in common.  Only the order of the scores and of the threshold   *)
(* matters; they are natural numbers here.                                 *)
(***************************************************************************)
EXTENDS Integers, Sequences, FiniteSets, SequencesExt

CONSTANTS
  Source,
  Report,     \* contents: title and fields
  TitleScore, \* TitleScore[<<r, q>>]: how like two different contents are by their titles
  Same,       \* the score of equal contents
  Threshold,  \* the score from which on a link is made (0.78)
  NodeLimit,  \* nodes an analysis looks at (500)
  Published   \* Published[r]: a late time of its own for reports without a date

\* The bonus of equal source hashes is left out: records of equal hash have
\* equal contents.
ASSUME EvidenceLineageAssumption ==
  /\ Published \in [Report -> Nat]
  /\ Same \in Nat /\ Threshold \in 1..Same
  /\ TitleScore \in [Report \X Report -> 0..Same]
  /\ \A q, r \in Report : TitleScore[<<q, r>>] = TitleScore[<<r, q>>]
  /\ NodeLimit \in Nat \ {0}

Node == Source \X Report

Likeness(q, r) == IF q = r THEN Same ELSE TitleScore[<<q, r>>]

Similarity(m, n) == Likeness(m[2], n[2])

Alike(q, r) == Likeness(q, r) >= Threshold

\* What a report is about, as far as likeness tells: the reports that a chain
\* of likeness leads to.
StoryOf ==
  [r \in Report |->
    {q \in Report : \A S \in SUBSET Report :
                      r \in S /\ (\A s \in S, t \in Report : Alike(s, t) => t \in S) => q \in S}]

\* A story all of whose reports are like each other.
Clear(story) == \A q, r \in story : Alike(q, r)

\* The order of a stable sort by time: nodes without a publication time were
\* observed after every publication, in the order of the batch.
Before(nodes, i, j) ==
  \/ Published[nodes[i][2]] < Published[nodes[j][2]]
  \/ Published[nodes[i][2]] = Published[nodes[j][2]] /\ i < j

Candidates(nodes, i) ==
  {j \in DOMAIN nodes :
     Before(nodes, j, i) /\ nodes[j] # nodes[i] /\ Similarity(nodes[j], nodes[i]) >= Threshold}

\* The most similar earlier node, the earliest among equals.
InferredEdge(nodes, i) ==
  LET score(j) == Similarity(nodes[j], nodes[i])
      best == CHOOSE j \in Candidates(nodes, i) :
                \A k \in Candidates(nodes, i) :
                  score(k) < score(j) \/ (score(k) = score(j) /\ ~Before(nodes, k, j))
  IN  <<nodes[i], nodes[best]>>

ParentsIn(edges, n) == {e[2] : e \in {f \in edges : f[1] = n}}

\* collectRoots: a node met again on its own path counts as a root.
Roots(edges, n) ==
  LET collect[seen \in SUBSET Node] ==
        [m \in Node |->
          IF m \in seen \/ ParentsIn(edges, m) = {}
          THEN {m}
          ELSE UNION {collect[seen \cup {m}][p] : p \in ParentsIn(edges, m)}]
  IN  collect[{}][n]

\* Mutant of JoinGroup: nodes belong together only if all their roots agree.
JoinGroupExact(groups, n, roots) ==
  LET i == SelectInSeq(groups, LAMBDA g : g.roots = roots)
  IN  IF i = 0
      THEN Append(groups, [roots |-> roots, members |-> {n}])
      ELSE [groups EXCEPT ![i].members = @ \cup {n}]

\* The first group that shares a root takes the node and its roots; groups
\* that come to share one later stay apart.
JoinGroup(groups, n, roots) ==
  LET i == SelectInSeq(groups, LAMBDA g : g.roots \cap roots # {})
  IN  IF i = 0
      THEN Append(groups, [roots |-> roots, members |-> {n}])
      ELSE [groups EXCEPT ![i].roots = @ \cup roots, ![i].members = @ \cup {n}]

\* Each node counts once, and only as long as the limit is not reached.
Counted(nodes, k) ==
  LET earlier == {nodes[j] : j \in 1..k - 1}
  IN  nodes[k] \notin earlier /\ Cardinality(earlier) < NodeLimit

\* analyzeEvidenceIndependence
Lineages(nodes, edges) ==
  LET groups[k \in 0..Len(nodes)] ==
        IF k = 0 THEN <<>>
        ELSE IF Counted(nodes, k) THEN JoinGroup(groups[k - 1], nodes[k], Roots(edges, nodes[k]))
        ELSE groups[k - 1]
  IN  groups[Len(nodes)]

\* The lineage id of the i-th node is a hash of its group's roots, and its own
\* id if no group has it.
LineageOf(nodes, edges, i) ==
  LET groups == Lineages(nodes, edges)
      g == SelectInSeq(groups, LAMBDA h : nodes[i] \in h.members)
  IN  IF g = 0 THEN [kind |-> "node", of |-> {nodes[i]}] ELSE [kind |-> "roots", of |-> groups[g].roots]

\* No node goes back to itself: among the nodes of a cycle, each would have a
\* parent.
Acyclic(edges) ==
  \A cycle \in SUBSET {e[1] : e \in edges} :
    cycle # {} => \E n \in cycle : ParentsIn(edges, n) \cap cycle = {}
=============================================================================
