------------------------ MODULE EntityResolutionProofs ------------------------
(***************************************************************************)
(* Proofs about EntityResolution, for every number of calls, candidates,   *)
(* names and identifiers, and every policy.                                *)
(***************************************************************************)
EXTENDS EntityResolution, FiniteSetTheorems, WellFoundedInduction, TLAPS

-----------------------------------------------------------------------------
(* Scores *)

LEMMA HasLargest ==
  ASSUME NEW n \in Nat, NEW S \in SUBSET (0..n), S # {}
  PROVE  \E m \in S : \A y \in S : m >= y
  <1> DEFINE R == {ss \in Nat \X Nat : ss[1] < ss[2]}
             T == {k \in Nat : n - k \in S}
  <1>1. IsWellFoundedOn(R, Nat)
    BY NatLessThanWellFounded DEF OpToRel
  <1>2. T # {}
    <2>1. PICK y \in S : TRUE
      OBVIOUS
    <2>2. n - y \in Nat /\ n - (n - y) = y
      OBVIOUS
    <2> QED BY <2>1, <2>2
  <1>3. PICK k \in T : \A j \in T : ~(<<j, k>> \in R)
    BY <1>1, <1>2, WFMin
  <1>4. ASSUME NEW y \in S
        PROVE  n - k >= y
    <2>1. n - y \in Nat /\ n - (n - y) = y
      OBVIOUS
    <2>2. n - y \in T
      BY <2>1
    <2>3. ~(n - y < k)
      BY <1>3, <2>1, <2>2
    <2> QED BY <2>1, <2>3
  <1> QED BY <1>4

LEMMA NameScoreRange ==
  ASSUME NEW left \in SUBSET Name, NEW right \in SUBSET Name
  PROVE  NameScore(left, right) \in 0..100
  <1> DEFINE S == {NameSimilarity[m][n] : m \in left, n \in right} \cup {0}
  <1>1. S \in SUBSET (0..100) /\ S # {} /\ 100 \in Nat
    <2>1. \A m \in left, n \in right : NameSimilarity[m][n] \in 0..100
      BY NamesAssumption
    <2> QED BY <2>1
  <1>2. NameScore(left, right) = Max(S)
    BY DEF NameScore
  <1> HIDE DEF S
  <1>3. \E m \in S : \A y \in S : m >= y
    BY <1>1, HasLargest
  <1>4. Max(S) \in S
    BY <1>3, Zenon DEF Max
  <1> QED BY <1>1, <1>2, <1>4

LEMMA Quotient ==
  ASSUME NEW m \in Nat, NEW n \in Nat, m <= n, n # 0
  PROVE  (100 * m) \div n \in 0..100
  OBVIOUS

LEMMA AttributeScoreRange ==
  ASSUME NEW left, NEW right
  PROVE  AttributeScore(left, right) \in 0..100
  <1>1. IsFiniteSet(Comparable(left, right)) /\ Agreeing(left, right) \subseteq Comparable(left, right)
    BY CandidateAssumption, FS_Subset DEF Comparable, Agreeing
  <1>2. /\ Cardinality(Comparable(left, right)) \in Nat
        /\ Cardinality(Agreeing(left, right)) \in Nat
        /\ Cardinality(Agreeing(left, right)) <= Cardinality(Comparable(left, right))
    BY <1>1, FS_Subset, FS_CardinalityType
  <1>3. Comparable(left, right) # {} => Cardinality(Comparable(left, right)) # 0
    BY <1>1, FS_EmptySet
  <1> QED BY <1>2, <1>3, Quotient DEF AttributeScore

LEMMA PolicyFacts ==
  ASSUME NEW policy \in Policy
  PROVE  policy.auto \in Int /\ policy.review \in Int /\ policy.delta \in Int
  <1> DEFINE A == 7500..9990
             R == 4000..9500
             D == 100..2500
  <1>1. A \subseteq Int /\ R \subseteq Int /\ D \subseteq Int
    OBVIOUS
  <1>2. Thresholds = [auto: A, review: R, delta: D, limit: Nat \ {0}]
    BY DEF Thresholds
  <1>3. policy \in Thresholds
    BY PolicyAssumption
  <1> HIDE DEF A, R, D
  <1>4. policy.auto \in A /\ policy.review \in R /\ policy.delta \in D
    BY <1>2, <1>3
  <1> QED BY <1>1, <1>4

LEMMA CandidateFacts ==
  ASSUME NEW candidate \in Candidate
  PROVE  /\ candidate.type \in EntityType /\ candidate.name \in Name
         /\ candidate.ids \in Seq(Identifier) /\ candidate.attributes \in Attributes
         /\ Names(candidate) \in SUBSET Name /\ candidate.name \in Names(candidate)
         /\ candidate # Plain
         /\ \A decision : CanonicalKey(candidate, decision) \in Entity
                          /\ CanonicalKey(candidate, decision).name = candidate.name
  BY CandidateAssumption DEF Names, CanonicalKey, Entity

LEMMA MatchingCount ==
  ASSUME NEW candidate \in Candidate, NEW held
  PROVE  /\ Cardinality(Matching(candidate, held)) \in Nat
         /\ Cardinality(Matching(candidate, held)) = 0 <=> Matching(candidate, held) = {}
         /\ Cardinality(Matching(candidate, held)) <= Len(candidate.ids)
         /\ Cardinality(Matching(candidate, held)) = Len(candidate.ids) =>
              \A n \in DOMAIN candidate.ids : candidate.ids[n] \in held
  <1>1. /\ Len(candidate.ids) \in Nat /\ DOMAIN candidate.ids = 1..Len(candidate.ids)
    BY CandidateFacts
  <1>2. IsFiniteSet(1..Len(candidate.ids)) /\ Cardinality(1..Len(candidate.ids)) = Len(candidate.ids)
    BY <1>1, FS_Interval
  <1>3. Matching(candidate, held) \subseteq 1..Len(candidate.ids)
    BY <1>1 DEF Matching
  <1>4. /\ IsFiniteSet(Matching(candidate, held))
        /\ Cardinality(Matching(candidate, held)) <= Cardinality(1..Len(candidate.ids))
        /\ Cardinality(Matching(candidate, held)) = Cardinality(1..Len(candidate.ids)) =>
             Matching(candidate, held) = 1..Len(candidate.ids)
    BY <1>2, <1>3, FS_Subset
  <1>5. Cardinality(Matching(candidate, held)) \in Nat
    BY <1>4, FS_CardinalityType
  <1>6. Cardinality(Matching(candidate, held)) = 0 <=> Matching(candidate, held) = {}
    BY <1>4, FS_EmptySet
  <1> QED BY <1>1, <1>2, <1>4, <1>5, <1>6 DEF Matching

\* What a score says about the identifiers and names that led to it.
LEMMA ScoreFacts ==
  ASSUME NEW candidate \in Candidate, NEW row \in Row, NEW held
  PROVE  /\ Score(candidate, row, held) \in Int
         /\ Matching(candidate, held) # {} => Score(candidate, row, held) >= 9400
         /\ ExactName(candidate, row) => Score(candidate, row, held) >= 8600
         /\ Score(candidate, row, held) > 9900 => Cardinality(Matching(candidate, held)) >= 2
  <1> DEFINE k == Cardinality(Matching(candidate, held))
             name == NameScore(Names(candidate), row.names)
             attribute == AttributeScore(candidate.attributes, row.attributes)
             base == IF ExactName(candidate, row) THEN 8600 ELSE 74 * name
  <1>1. k \in Nat /\ (k = 0 <=> Matching(candidate, held) = {})
    BY MatchingCount
  <1>2. name \in 0..100
    BY CandidateFacts, NameScoreRange DEF Row
  <1>3. attribute \in 0..100
    BY AttributeScoreRange
  <1>4. Score(candidate, row, held) =
          IF k > 0 THEN Capped(AtLeast(9400, 9200 + 300 * (k - 1)) + 3 * name + 2 * attribute)
          ELSE Capped(base + 12 * attribute)
    BY DEF Score
  <1>5. base \in 0..8600 /\ (ExactName(candidate, row) => base = 8600)
    <2>1. (ExactName(candidate, row) => base = 8600) /\ (~ExactName(candidate, row) => base = 74 * name)
      OBVIOUS
    <2> HIDE DEF base, name
    <2>2. 8600 \in 0..8600 /\ 74 * name \in 0..8600
      BY <1>2
    <2> QED BY <2>1, <2>2
  <1> DEFINE with == AtLeast(9400, 9200 + 300 * (k - 1)) + 3 * name + 2 * attribute
             without == base + 12 * attribute
             score == Score(candidate, row, held)
  <1>6. k > 0 => with \in Nat /\ with >= 9400 /\ (k < 2 => with <= 9900)
    <2> HIDE DEF k, name, attribute, base, score
    <2> QED BY <1>1, <1>2, <1>3 DEF AtLeast
  <1>7. without \in Nat /\ without <= 9800 /\ without >= base
    <2> HIDE DEF k, name, attribute, base, score
    <2> QED BY <1>3, <1>5
  <1>8. (k > 0 => score = Capped(with)) /\ (k = 0 => score = Capped(without))
    <2> HIDE DEF name, attribute, base
    <2> QED BY <1>1, <1>4
  <1> HIDE DEF k, name, attribute, base, with, without, score
  <1>9. ASSUME k > 0
        PROVE  score \in Int /\ score >= 9400 /\ (score > 9900 => k >= 2)
    <2>1. score = Capped(with)
      BY <1>8, <1>9
    <2>2. score \in Nat /\ score >= 9400 /\ (k < 2 => score <= 9900)
      BY <1>6, <1>9, <2>1 DEF Capped
    <2> QED BY <1>1, <2>2
  <1>10. ASSUME k = 0
         PROVE  score \in Int /\ (ExactName(candidate, row) => score >= 8600) /\ ~(score > 9900)
    <2>1. score = Capped(without)
      BY <1>8, <1>10
    <2>2. score = without
      BY <1>7, <2>1 DEF Capped
    <2> QED BY <1>5, <1>7, <2>2
  <1>11. k > 0 \/ k = 0
    BY <1>1
  <1>12. score \in Int /\ (score >= 9400 => score >= 8600)
    BY <1>9, <1>10, <1>11
  <1>13. Matching(candidate, held) # {} => score >= 9400
    BY <1>1, <1>9, <1>11
  <1>14. ExactName(candidate, row) => score >= 8600
    BY <1>9, <1>10, <1>11, <1>12
  <1>15. score > 9900 => k >= 2
    BY <1>9, <1>10, <1>11
  <1> QED BY <1>12, <1>13, <1>14, <1>15 DEF k, score

-----------------------------------------------------------------------------
(* Decisions *)

LEMMA ScoreIs ==
  ASSUME NEW c, c.candidate \in Candidate, NEW entity, c.rows[entity] \in Row
  PROVE  /\ ScoreOf(c, entity) \in Int
         /\ Matching(c.candidate, c.held[entity]) # {} => ScoreOf(c, entity) >= 9400
         /\ ExactName(c.candidate, c.rows[entity]) => ScoreOf(c, entity) >= 8600
         /\ ScoreOf(c, entity) > 9900 => Cardinality(Matching(c.candidate, c.held[entity])) >= 2
  <1>1. /\ Score(c.candidate, c.rows[entity], c.held[entity]) \in Int
        /\ Matching(c.candidate, c.held[entity]) # {} =>
             Score(c.candidate, c.rows[entity], c.held[entity]) >= 9400
        /\ ExactName(c.candidate, c.rows[entity]) =>
             Score(c.candidate, c.rows[entity], c.held[entity]) >= 8600
        /\ Score(c.candidate, c.rows[entity], c.held[entity]) > 9900 =>
             Cardinality(Matching(c.candidate, c.held[entity])) >= 2
    BY ScoreFacts
  <1> QED BY <1>1 DEF ScoreOf

LEMMA SharedIdentifierScores ==
  ASSUME NEW c, c.candidate \in Candidate, NEW entity, c.rows[entity] \in Row,
         Matching(c.candidate, c.held[entity]) # {}
  PROVE  ScoreOf(c, entity) >= 9400
  BY ScoreIs

\* A candidate is taken for new only if it shares neither name nor identifier
\* with an entity it was compared with.
LEMMA NewSharesNothing ==
  ASSUME NEW c, CallOK(c), Careful(c.policy), NEW best \in DOMAIN c.rows, Best(c, best),
         Decision(c, best) = "new", NEW entity \in DOMAIN c.rows
  PROVE  Matching(c.candidate, c.held[entity]) = {} /\ ~ExactName(c.candidate, c.rows[entity])
  <1>1. c.candidate \in Candidate /\ c.rows[best] \in Row /\ c.rows[entity] \in Row
    BY DEF CallOK, PartialFunction
  <1>2. ScoreOf(c, best) < c.policy.review /\ c.policy.review <= 8600 /\ c.policy.review \in Int
    <2>1. c.policy \in Policy /\ c.policy.review \in Int
      BY PolicyFacts DEF CallOK
    <2>2. ScoreOf(c, best) \in Int
      BY <1>1, ScoreIs
    <2> QED BY <2>1, <2>2 DEF Decision, Careful
  <1>3. ScoreOf(c, entity) \in Int /\ ScoreOf(c, best) \in Int
    BY <1>1, ScoreIs
  <1>4. ScoreOf(c, entity) <= ScoreOf(c, best)
    BY <1>3 DEF Best
  <1>5. ScoreOf(c, entity) < 8600
    BY <1>2, <1>3, <1>4
  <1> QED BY <1>1, <1>3, <1>5, ScoreIs

\* Of two entities with an identifier of the candidate, none is matched, unless
\* it has all of them.
LEMMA MatchedSharesAlone ==
  ASSUME NEW c, CallOK(c), Careful(c.policy), NEW best \in DOMAIN c.rows, Best(c, best),
         Decision(c, best) = "matched", Len(c.candidate.ids) <= 2,
         NEW entity \in DOMAIN c.rows, Matching(c.candidate, c.held[entity]) # {}, entity # best
  PROVE  \A n \in DOMAIN c.candidate.ids : c.candidate.ids[n] \in c.held[best]
  <1>1. c.candidate \in Candidate /\ c.rows[best] \in Row /\ c.rows[entity] \in Row
    BY DEF CallOK, PartialFunction
  <1>2. ScoreOf(c, entity) >= 9400 /\ ScoreOf(c, entity) \in Int /\ ScoreOf(c, best) \in Int
    <2>1. ScoreOf(c, entity) >= 9400
      <3>1. Matching(c.candidate, c.held[entity]) # {}
        OBVIOUS
      <3> QED BY ONLY <1>1, <3>1, SharedIdentifierScores
    <2>2. ScoreOf(c, entity) \in Int
      BY <1>1, ScoreIs
    <2>3. ScoreOf(c, best) \in Int
      BY <1>1, ScoreIs
    <2> QED BY <2>1, <2>2, <2>3
  <1>3. ScoreOf(c, best) >= ScoreOf(c, entity)
    BY <1>2 DEF Best
  <1>4. c.policy.review \in Int /\ c.policy.delta \in Int /\ c.policy.review <= 8600 /\ c.policy.delta > 500
    <2>1. c.policy \in Policy
      BY DEF CallOK
    <2> QED BY <2>1, PolicyFacts DEF Careful
  <1>5. ~Ambiguous(c, best)
    BY DEF Decision
  <1>6. ScoreOf(c, best) - ScoreOf(c, entity) >= c.policy.delta
    BY <1>2, <1>3, <1>4, <1>5 DEF Ambiguous
  <1>7. ScoreOf(c, best) > 9900
    BY <1>2, <1>4, <1>6
  <1>8. Cardinality(Matching(c.candidate, c.held[best])) >= 2
    BY <1>1, <1>7, ScoreIs
  <1>9. Len(c.candidate.ids) \in Nat
    BY <1>1, CandidateFacts
  <1> QED BY <1>1, <1>8, <1>9, MatchingCount
-----------------------------------------------------------------------------
(* The inductive invariant *)

Holds(I, entity, id) == \E k \in DOMAIN I : I[k].entity = entity /\ I[k].id = id

\* The k-th identifier was there when the call began and is the n-th of its
\* candidate.
Shares(c, I, k, n) == k <= c.begun /\ I[k].id = c.candidate.ids[n]

\* Rows that were read are of entities that are there, with the identifiers
\* they had when the call began at least.
ReadOK(c, E, I) ==
  /\ \A entity \in DOMAIN c.rows : entity \in DOMAIN E /\ entity.name \in c.rows[entity].names
  /\ DOMAIN c.held \subseteq DOMAIN c.rows
  /\ \A entity \in DOMAIN c.held :
       /\ \A id \in c.held[entity] : Holds(I, entity, id)
       /\ \A k \in DOMAIN I : k <= c.begun /\ I[k].entity = entity => I[k].id \in c.held[entity]

\* The holders of the identifiers looked up so far were read.
LookedUpOK(c, I) ==
  c.pc \in {"finding", "scoring"} =>
    /\ c.decision = "none"
    /\ c.pc = "scoring" => c.n = Len(c.candidate.ids)
    /\ \A k \in DOMAIN I : \A n \in DOMAIN c.candidate.ids :
         Shares(c, I, k, n) /\ n <= c.n => I[k].entity \in DOMAIN c.rows

\* What a decision says of the entities that had an identifier of the
\* candidate when the call began.
DecidedOK(c, E, I) ==
  /\ c.pc \in {"reading", "writing", "identifying"} => c.decision # "none"
  /\ c.decision = "new" /\ Careful(c.policy) =>
       /\ c.target \notin c.seen
       /\ \A k \in DOMAIN I : \A n \in DOMAIN c.candidate.ids : ~Shares(c, I, k, n)
  /\ c.decision = "matched" => c.target \in DOMAIN E
  /\ c.decision = "matched" /\ Careful(c.policy) /\ Len(c.candidate.ids) <= 2 =>
       \A k \in DOMAIN I : \A n \in DOMAIN c.candidate.ids :
         Shares(c, I, k, n) => Holds(I, c.target, c.candidate.ids[n])
  /\ c.decision \notin {"none", "matched"} => c.target = CanonicalKey(c.candidate, c.decision)

\* What has been written of the candidate.
WrittenOK(c, E, I) ==
  /\ c.pc \in {"reading", "writing"} => c.n = 0
  /\ c.pc = "writing" /\ c.decision = "matched" => c.target.name \in c.existing.names
  /\ c.pc = "identifying" =>
       /\ c.target \in DOMAIN E
       /\ \A n \in DOMAIN c.candidate.ids : n <= c.n => Holds(I, c.target, c.candidate.ids[n])

CallInv(c, E, I) ==
  /\ CallOK(c)
  /\ c.begun <= Len(I)
  /\ ReadOK(c, E, I)
  /\ LookedUpOK(c, I)
  /\ DecidedOK(c, E, I)
  /\ WrittenOK(c, E, I)

\* Whoever wrote an identifier had decided.
RowsOK ==
  \A k \in DOMAIN identifiers :
    /\ identifiers[k].entity \in DOMAIN entities
    /\ calls[identifiers[k].by] # Idle
    /\ calls[identifiers[k].by].decision # "none"

IInv ==
  /\ TypeOK
  /\ \A x \in Call : calls[x] = Idle \/ CallInv(calls[x], entities, identifiers)
  /\ RowsOK
  /\ KeyNameKept
  /\ SharedIdentifiersExplained
  /\ PutAsideReviewed
-----------------------------------------------------------------------------
(* Steps that keep it *)

\* Entities and identifiers are only added.
Grows(E, I, F, J) ==
  /\ DOMAIN E \subseteq DOMAIN F
  /\ Len(I) \in Nat /\ Len(J) \in Nat /\ Len(I) <= Len(J)
  /\ DOMAIN I = 1..Len(I) /\ DOMAIN J = 1..Len(J)
  /\ \A k \in DOMAIN I : J[k] = I[k]

LEMMA HoldsStays ==
  ASSUME NEW E, NEW I, NEW F, NEW J, Grows(E, I, F, J), NEW entity, NEW id, Holds(I, entity, id)
  PROVE  Holds(J, entity, id)
  <1>1. PICK k \in DOMAIN I : I[k].entity = entity /\ I[k].id = id
    BY DEF Holds
  <1>2. k \in DOMAIN J /\ J[k] = I[k]
    BY DEF Grows
  <1> QED BY <1>1, <1>2 DEF Holds

LEMMA CallKept ==
  ASSUME NEW c, NEW E, NEW I, NEW F, NEW J, Grows(E, I, F, J), CallInv(c, E, I)
  PROVE  CallInv(c, F, J)
  <1>1. c.begun \in Nat /\ c.begun <= Len(I) /\ Len(I) \in Nat /\ Len(J) \in Nat /\ Len(I) <= Len(J)
    BY DEF CallInv, CallOK, Grows
  <1>2. c.begun <= Len(J)
    BY <1>1
  <1>3. ASSUME NEW k \in DOMAIN J, k <= c.begun
        PROVE  k \in DOMAIN I /\ J[k] = I[k]
    BY <1>1, <1>3 DEF Grows
  <1>4. ReadOK(c, E, I) /\ LookedUpOK(c, I) /\ DecidedOK(c, E, I) /\ WrittenOK(c, E, I) /\ DOMAIN E \subseteq DOMAIN F
    BY DEF CallInv, Grows
  <1>5. ReadOK(c, F, J)
    BY <1>3, <1>4, HoldsStays DEF ReadOK
  <1>6. LookedUpOK(c, J)
    BY <1>3, <1>4 DEF LookedUpOK, Shares
  <1>7. DecidedOK(c, F, J)
    BY <1>3, <1>4, HoldsStays DEF DecidedOK, Shares
  <1>8. WrittenOK(c, F, J)
    BY <1>4, HoldsStays DEF WrittenOK
  <1> QED BY <1>2, <1>5, <1>6, <1>7, <1>8 DEF CallInv

\* The decision of a call, once made, stands.
Steady(c, d) ==
  c # Idle /\ c.decision # "none" =>
    d.decision = c.decision /\ d.begun = c.begun /\ d.candidate = c.candidate /\ d.policy = c.policy

Explains(c, k) ==
  \/ c.decision \in Uncertain \cup {"upsert"}
  \/ c.begun < k
  \/ Len(c.candidate.ids) > 2
  \/ ~Careful(c.policy)

Vouches(c, entity) ==
  /\ c.pc \in {"identifying", "unreviewed", "failed"}
  /\ c.candidate = entity.discriminator
  /\ c.decision \in Uncertain

LEMMA ExplainedIs ==
  SharedIdentifiersExplained <=>
    \A k, l \in DOMAIN identifiers :
      k < l /\ identifiers[k].id = identifiers[l].id => Explains(calls[identifiers[l].by], k)
  BY DEF SharedIdentifiersExplained, Explains

\* The part of PutAsideReviewed about reviews, and the one about entities.
ReviewOK(candidate, E, I) ==
  LET entity == CanonicalKey(candidate, "ambiguous") IN
  entity \in DOMAIN E /\ \A n \in DOMAIN candidate.ids : Holds(I, entity, candidate.ids[n])

LEMMA PutAsideIs ==
  PutAsideReviewed <=>
    /\ \A candidate \in reviews : ReviewOK(candidate, entities, identifiers)
    /\ \A entity \in DOMAIN entities :
         entity.discriminator \in {Plain} \cup reviews \/ \E x \in Call : Vouches(calls[x], entity)
  <1>1. \A entity, id : id \in HeldBy(entity) <=> Holds(identifiers, entity, id)
    BY DEF HeldBy, Holds
  <1> QED BY <1>1, Zenon DEF PutAsideReviewed, ReviewOK, Vouches

LEMMA IdentifierFacts ==
  ASSUME IInv, NEW k \in DOMAIN identifiers
  PROVE  /\ identifiers[k].entity \in DOMAIN entities /\ identifiers[k].entity \in Entity
         /\ identifiers[k].id \in Identifier /\ identifiers[k].by \in Call
  <1> DEFINE T == [entity: Entity, id: Identifier, by: Call]
  <1>1. identifiers \in Seq(T)
    BY DEF IInv, TypeOK
  <1>2. identifiers[k] \in T
    <2> HIDE DEF T
    <2> QED BY <1>1
  <1> QED BY <1>2 DEF IInv, RowsOK

LEMMA StepKeeps ==
  ASSUME IInv, NEW x \in Call, NEW c,
         calls' = [calls EXCEPT ![x] = c], CallInv(c, entities', identifiers'), Steady(calls[x], c),
         Grows(entities, identifiers, entities', identifiers'),
         PartialFunction(entities', Entity, Row),
         identifiers' \in Seq([entity: Entity, id: Identifier, by: Call]),
         PartialFunction(decisions', Candidate, Decided),
         reviews' \subseteq Candidate,
         faults' \in 0..MaxFaults,
         KeyNameKept',
         \A l \in DOMAIN identifiers' : l > Len(identifiers) =>
           /\ identifiers'[l].by = x
           /\ identifiers'[l].entity \in DOMAIN entities'
           /\ c.decision # "none"
           /\ \A k \in DOMAIN identifiers' :
                k < l /\ identifiers'[k].id = identifiers'[l].id => Explains(c, k),
         reviews \subseteq reviews',
         \A candidate \in reviews' \ reviews : ReviewOK(candidate, entities', identifiers'),
         \A entity \in DOMAIN entities' \ DOMAIN entities :
           entity.discriminator \in {Plain} \cup reviews' \/ Vouches(c, entity),
         \A entity : Vouches(calls[x], entity) => Vouches(c, entity) \/ entity.discriminator \in reviews'
  PROVE  IInv'
  <1>1. /\ CallOK(c) /\ c # Idle
        /\ DOMAIN calls' = Call /\ calls'[x] = c
        /\ \A y \in Call : y # x => calls'[y] = calls[y]
    <2>1. CallOK(c) /\ c.pc # "idle"
      BY DEF CallInv, CallOK
    <2>2. c # Idle
      BY <2>1 DEF Idle
    <2> QED BY <2>1, <2>2 DEF IInv, TypeOK
  <1>2. TypeOK'
    BY <1>1 DEF IInv, TypeOK
  <1>3. ASSUME NEW y \in Call
        PROVE  calls'[y] = Idle \/ CallInv(calls'[y], entities', identifiers')
    <2>1. CASE y = x
      BY <1>1, <2>1
    <2>2. CASE y # x
      <3>1. calls[y] = Idle \/ CallInv(calls[y], entities, identifiers)
        BY DEF IInv
      <3>2. calls'[y] = calls[y]
        BY <1>1, <2>2
      <3>3. CallInv(calls[y], entities, identifiers) => CallInv(calls[y], entities', identifiers')
        BY CallKept
      <3> QED BY <3>1, <3>2, <3>3
    <2> QED BY <2>1, <2>2
  <1>4. ASSUME NEW l \in DOMAIN identifiers', ~(l > Len(identifiers))
        PROVE  /\ l \in DOMAIN identifiers /\ identifiers'[l] = identifiers[l]
               /\ identifiers[l].by \in Call
               /\ calls[identifiers[l].by] # Idle /\ calls[identifiers[l].by].decision # "none"
    <2>1. l \in DOMAIN identifiers /\ identifiers'[l] = identifiers[l]
      BY <1>4 DEF Grows
    <2>2. identifiers[l].by \in Call
      BY <2>1, IdentifierFacts
    <2> QED BY <2>1, <2>2 DEF IInv, RowsOK
  <1>5. RowsOK'
    <2> SUFFICES ASSUME NEW l \in DOMAIN identifiers'
                 PROVE  /\ identifiers'[l].entity \in DOMAIN entities'
                        /\ calls'[identifiers'[l].by] # Idle
                        /\ calls'[identifiers'[l].by].decision # "none"
      BY DEF RowsOK
    <2>1. CASE l > Len(identifiers)
      BY <1>1, <2>1
    <2>2. CASE ~(l > Len(identifiers))
      <3>1. identifiers[l].entity \in DOMAIN entities /\ DOMAIN entities \subseteq DOMAIN entities'
        BY <1>4, <2>2 DEF IInv, RowsOK, Grows
      <3>2. CASE identifiers[l].by = x
        BY <1>1, <1>4, <2>2, <3>1, <3>2 DEF Steady
      <3>3. CASE identifiers[l].by # x
        BY <1>1, <1>4, <2>2, <3>1, <3>3
      <3> QED BY <3>2, <3>3
    <2> QED BY <2>1, <2>2
  <1>6. SharedIdentifiersExplained'
    <2> SUFFICES ASSUME NEW k \in DOMAIN identifiers', NEW l \in DOMAIN identifiers',
                        k < l, identifiers'[k].id = identifiers'[l].id
                 PROVE  Explains(calls'[identifiers'[l].by], k)
      BY DEF SharedIdentifiersExplained, Explains
    <2>1. CASE l > Len(identifiers)
      BY <1>1, <2>1
    <2>2. CASE ~(l > Len(identifiers))
      <3>1. ~(k > Len(identifiers))
        BY <2>2 DEF Grows
      <3>2. k \in DOMAIN identifiers /\ identifiers'[k] = identifiers[k]
        BY <1>4, <3>1
      <3>3. l \in DOMAIN identifiers /\ identifiers'[l] = identifiers[l]
        BY <1>4, <2>2
      <3>4. Explains(calls[identifiers[l].by], k)
        BY <3>2, <3>3, ExplainedIs DEF IInv
      <3>5. CASE identifiers[l].by = x
        BY <1>1, <1>4, <2>2, <3>3, <3>4, <3>5 DEF Steady, Explains
      <3>6. CASE identifiers[l].by # x
        BY <1>1, <1>4, <2>2, <3>3, <3>4, <3>6
      <3> QED BY <3>5, <3>6
    <2> QED BY <2>1, <2>2
  <1>7. PutAsideReviewed'
    <2>1. \A entity, id : id \in HeldBy(entity)' <=> Holds(identifiers', entity, id)
      BY DEF HeldBy, Holds
    <2>2. ASSUME NEW candidate \in reviews'
          PROVE  ReviewOK(candidate, entities', identifiers')
      <3>1. CASE candidate \in reviews
        <4>1. ReviewOK(candidate, entities, identifiers)
          BY <3>1, PutAsideIs DEF IInv
        <4>2. DOMAIN entities \subseteq DOMAIN entities'
          BY DEF Grows
        <4> QED BY <4>1, <4>2, HoldsStays DEF ReviewOK
      <3> QED BY <3>1
    <2>3. ASSUME NEW entity \in DOMAIN entities'
          PROVE  entity.discriminator \in {Plain} \cup reviews' \/ \E y \in Call : Vouches(calls'[y], entity)
      <3>1. CASE entity \in DOMAIN entities
        <4>1. entity.discriminator \in {Plain} \cup reviews \/ \E y \in Call : Vouches(calls[y], entity)
          BY <3>1, PutAsideIs DEF IInv
        <4>2. CASE entity.discriminator \in {Plain} \cup reviews
          BY <4>2
        <4>3. ASSUME NEW y \in Call, Vouches(calls[y], entity)
              PROVE  entity.discriminator \in reviews' \/ Vouches(calls'[y], entity)
          <5>1. CASE y = x
            BY <1>1, <4>3, <5>1
          <5>2. CASE y # x
            BY <1>1, <4>3, <5>2
          <5> QED BY <5>1, <5>2
        <4> QED BY <4>1, <4>2, <4>3
      <3>2. CASE entity \notin DOMAIN entities
        BY <1>1, <3>2
      <3> QED BY <3>1, <3>2
    <2> QED BY <2>1, <2>2, <2>3, Zenon DEF PutAsideReviewed, ReviewOK, Vouches
  <1> QED BY <1>2, <1>3, <1>5, <1>6, <1>7 DEF IInv

LEMMA GrowsNone ==
  IInv => Grows(entities, identifiers, entities, identifiers)
  BY DEF IInv, TypeOK, Grows

\* A step that writes only its call, decisions and faults.
LEMMA QuietKeeps ==
  ASSUME IInv, NEW x \in Call, NEW c,
         calls' = [calls EXCEPT ![x] = c], CallInv(c, entities, identifiers), Steady(calls[x], c),
         UNCHANGED <<entities, identifiers, reviews>>,
         PartialFunction(decisions', Candidate, Decided),
         faults' \in 0..MaxFaults,
         \A entity : Vouches(calls[x], entity) => Vouches(c, entity)
  PROVE  IInv'
  <1>1. entities' = entities /\ identifiers' = identifiers /\ reviews' = reviews
    OBVIOUS
  <1>2. /\ PartialFunction(entities', Entity, Row)
        /\ identifiers' \in Seq([entity: Entity, id: Identifier, by: Call])
        /\ reviews' \subseteq Candidate
        /\ KeyNameKept'
    BY <1>1 DEF IInv, TypeOK, KeyNameKept
  <1>3. Grows(entities, identifiers, entities', identifiers') /\ CallInv(c, entities', identifiers')
    BY <1>1, GrowsNone
  <1>4. \A l \in DOMAIN identifiers' : ~(l > Len(identifiers))
    BY <1>1 DEF IInv, TypeOK
  <1>5. reviews \subseteq reviews' /\ reviews' \ reviews = {} /\ DOMAIN entities' \ DOMAIN entities = {}
    BY <1>1
  <1> QED BY <1>2, <1>3, <1>4, <1>5, StepKeeps
-----------------------------------------------------------------------------
(* The actions *)

LEMMA CallFacts ==
  ASSUME IInv, NEW x \in Call, calls[x].pc # "idle"
  PROVE  CallInv(calls[x], entities, identifiers) /\ CallOK(calls[x]) /\ calls[x] # Idle
  BY DEF IInv, CallInv, Idle

LEMMA StateFacts ==
  ASSUME IInv
  PROVE  /\ PartialFunction(entities, Entity, Row)
         /\ PartialFunction(decisions, Candidate, Decided)
         /\ faults \in 0..MaxFaults
         /\ \A entity \in DOMAIN entities : entity.name \in entities[entity].names
         /\ DOMAIN calls = Call
         /\ Len(identifiers) \in Nat /\ DOMAIN identifiers = 1..Len(identifiers)
  BY DEF IInv, TypeOK, KeyNameKept

LEMMA EmptyFunction ==
  ASSUME NEW S, NEW T
  PROVE  PartialFunction(<<>>, S, T) /\ DOMAIN <<>> = {}
  BY DEF PartialFunction

LEMMA NoRowType == NoRow \in Row
  BY DEF NoRow, Row, Attributes

LEMMA MergeFacts ==
  ASSUME NEW row \in Row, NEW candidate \in Candidate
  PROVE  /\ Merge(row, candidate) \in Row
         /\ row.names \cup {candidate.name} \subseteq Merge(row, candidate).names
  BY CandidateFacts DEF Merge, Row, Attributes

LEMMA ReadingFacts ==
  ASSUME IInv, NEW f, PartialFunction(f, Entity, Row), NEW read \in SUBSET DOMAIN entities,
         \A entity \in DOMAIN f : entity \in DOMAIN entities /\ entity.name \in f[entity].names
  PROVE  /\ PartialFunction(Reading(f, read), Entity, Row)
         /\ DOMAIN Reading(f, read) = DOMAIN f \cup read
         /\ \A entity \in DOMAIN f \cup read :
              entity \in DOMAIN entities /\ entity.name \in Reading(f, read)[entity].names
  <1>1. DOMAIN entities \subseteq Entity /\ \A entity \in DOMAIN entities : entities[entity] \in Row
    BY StateFacts DEF PartialFunction
  <1>2. DOMAIN f \subseteq Entity /\ \A entity \in DOMAIN f : f[entity] \in Row
    BY DEF PartialFunction
  <1> QED BY <1>1, <1>2, StateFacts DEF Reading, PartialFunction

LEMMA BeginKeeps ==
  ASSUME IInv, NEW x \in Call, NEW request \in Request, NEW policy \in Policy,
         Begin(x, request[1], request[2], policy)
  PROVE  IInv'
  <1>1. request[1] \in {"resolve", "commit", "upsert"} /\ request[2] \in Candidate
    BY CallsAssumption
  <1> DEFINE kind == request[1]
             candidate == request[2]
             d == [pc |-> IF kind = "upsert" THEN "reading" ELSE "finding",
                   kind |-> kind, candidate |-> candidate, policy |-> policy, begun |-> Len(identifiers), n |-> 0,
                   rows |-> <<>>, held |-> <<>>, seen |-> {},
                   decision |-> IF kind = "upsert" THEN "upsert" ELSE "none",
                   target |-> CanonicalKey(candidate, "upsert"), existing |-> NoRow]
  <1>2. calls' = [calls EXCEPT ![x] = d] /\ UNCHANGED <<entities, identifiers, decisions, reviews, faults>>
    BY DEF Begin
  <1>3. Len(identifiers) \in Nat /\ Len(candidate.ids) \in Nat /\ DOMAIN candidate.ids = 1..Len(candidate.ids)
        /\ CanonicalKey(candidate, "upsert") \in Entity
    BY <1>1, StateFacts, CandidateFacts
  <1>4. CallOK(d)
    BY <1>1, <1>3, EmptyFunction, NoRowType DEF CallOK
  <1>5. CallInv(d, entities, identifiers)
    BY <1>3, <1>4, EmptyFunction DEF CallInv, ReadOK, LookedUpOK, DecidedOK, WrittenOK
  <1>6. Steady(calls[x], d) /\ \A entity : ~Vouches(calls[x], entity)
    <2>1. calls[x].pc = "idle"
      BY DEF Begin
    <2>2. calls[x] = Idle
      BY <2>1 DEF IInv, CallInv, CallOK
    <2> QED BY <2>1, <2>2 DEF Steady, Vouches
  <1> HIDE DEF d
  <1> QED BY <1>2, <1>5, <1>6, QuietKeeps, StateFacts

LEMMA FindKeeps ==
  ASSUME IInv, NEW x \in Call, FindEntitiesByIdentifier(x)
  PROVE  IInv'
  <1> DEFINE c == calls[x]
             read == Holders(c.candidate.ids[c.n + 1])
             d == [c EXCEPT !.n = @ + 1, !.rows = Reading(@, read)]
  <1>1. c.pc = "finding" /\ c.n < Len(c.candidate.ids)
    BY DEF FindEntitiesByIdentifier
  <1>2. CallInv(c, entities, identifiers) /\ CallOK(c)
    BY <1>1, CallFacts
  <1>3. calls' = [calls EXCEPT ![x] = d] /\ UNCHANGED <<entities, identifiers, decisions, reviews, faults>>
    BY StateFacts DEF FindEntitiesByIdentifier
  <1>4. read \in SUBSET DOMAIN entities
    BY IdentifierFacts DEF Holders
  <1>5. /\ PartialFunction(Reading(c.rows, read), Entity, Row)
        /\ DOMAIN Reading(c.rows, read) = DOMAIN c.rows \cup read
        /\ \A entity \in DOMAIN c.rows \cup read :
             entity \in DOMAIN entities /\ entity.name \in Reading(c.rows, read)[entity].names
    BY <1>2, <1>4, ReadingFacts DEF CallInv, ReadOK, CallOK
  <1>6. /\ d = [c EXCEPT !.n = c.n + 1, !.rows = Reading(c.rows, read)]
        /\ DOMAIN d = DOMAIN c /\ d.n = c.n + 1 /\ d.rows = Reading(c.rows, read)
        /\ d.pc = c.pc /\ d.kind = c.kind /\ d.candidate = c.candidate /\ d.policy = c.policy /\ d.begun = c.begun
        /\ d.held = c.held /\ d.seen = c.seen /\ d.decision = c.decision /\ d.target = c.target
        /\ d.existing = c.existing
    BY <1>2 DEF CallOK
  <1> HIDE DEF d
  <1>7. CallOK(d)
    <2>1. c.candidate \in Candidate
      BY <1>2 DEF CallOK
    <2>2. Len(c.candidate.ids) \in Nat
      BY <2>1, CandidateFacts
    <2>3. c.n + 1 \in 0..Len(c.candidate.ids)
      BY <1>1, <1>2, <2>2 DEF CallOK
    <2> QED BY <1>2, <1>5, <1>6, <2>3 DEF CallOK
  <1>8. LookedUpOK(d, identifiers)
    <2> SUFFICES ASSUME NEW k \in DOMAIN identifiers, NEW n \in DOMAIN c.candidate.ids,
                        Shares(d, identifiers, k, n), n <= c.n + 1
                 PROVE  identifiers[k].entity \in DOMAIN c.rows \cup read
      BY <1>1, <1>2, <1>5, <1>6 DEF LookedUpOK, CallInv
    <2>1. c.candidate \in Candidate /\ c.n \in Nat
      BY <1>2 DEF CallOK
    <2>2. n \in Nat
      BY <2>1, CandidateFacts
    <2>3. CASE n <= c.n
      BY <1>1, <1>2, <1>6, <2>3 DEF CallInv, LookedUpOK, Shares
    <2>4. CASE ~(n <= c.n)
      <3>1. n = c.n + 1
        BY <2>1, <2>2, <2>4
      <3> QED BY <1>6, <3>1 DEF Shares, Holders
    <2> QED BY <2>3, <2>4
  <1>9. ReadOK(d, entities, identifiers)
    BY <1>2, <1>5, <1>6 DEF CallInv, ReadOK
  <1>10. DecidedOK(d, entities, identifiers) /\ WrittenOK(d, entities, identifiers)
    BY <1>1, <1>2, <1>6 DEF CallInv, LookedUpOK, DecidedOK, WrittenOK
  <1>11. CallInv(d, entities, identifiers)
    BY <1>2, <1>6, <1>7, <1>8, <1>9, <1>10 DEF CallInv
  <1>12. Steady(c, d) /\ \A entity : Vouches(c, entity) => Vouches(d, entity)
    BY <1>6 DEF Steady, Vouches
  <1> QED BY <1>3, <1>11, <1>12, QuietKeeps, StateFacts

LEMMA ListKeeps ==
  ASSUME IInv, NEW x \in Call, ListIntelligenceEntitiesByType(x)
  PROVE  IInv'
  <1> DEFINE c == calls[x]
  <1>1. c.pc = "finding" /\ c.n = Len(c.candidate.ids)
    BY DEF ListIntelligenceEntitiesByType
  <1>2. CallInv(c, entities, identifiers) /\ CallOK(c)
    BY <1>1, CallFacts
  <1>3. PICK listed \in SUBSET DOMAIN entities :
          /\ calls' = [calls EXCEPT ![x].pc = "scoring", ![x].rows = Reading(@, listed)]
          /\ UNCHANGED <<entities, identifiers, decisions, reviews, faults>>
    BY DEF ListIntelligenceEntitiesByType
  <1> DEFINE d == [c EXCEPT !.pc = "scoring", !.rows = Reading(@, listed)]
  <1>4. calls' = [calls EXCEPT ![x] = d]
    BY <1>3, StateFacts
  <1>5. /\ PartialFunction(Reading(c.rows, listed), Entity, Row)
        /\ DOMAIN Reading(c.rows, listed) = DOMAIN c.rows \cup listed
        /\ \A entity \in DOMAIN c.rows \cup listed :
             entity \in DOMAIN entities /\ entity.name \in Reading(c.rows, listed)[entity].names
    BY <1>2, <1>3, ReadingFacts DEF CallInv, ReadOK, CallOK
  <1>6. /\ DOMAIN d = DOMAIN c /\ d.pc = "scoring" /\ d.rows = Reading(c.rows, listed)
        /\ d.n = c.n /\ d.kind = c.kind /\ d.candidate = c.candidate /\ d.policy = c.policy /\ d.begun = c.begun
        /\ d.held = c.held /\ d.seen = c.seen /\ d.decision = c.decision /\ d.target = c.target
        /\ d.existing = c.existing
    BY <1>2 DEF CallOK
  <1> HIDE DEF d
  <1>7. CallOK(d)
    BY <1>2, <1>5, <1>6 DEF CallOK
  <1>8. LookedUpOK(d, identifiers)
    BY <1>1, <1>2, <1>5, <1>6 DEF CallInv, LookedUpOK, Shares
  <1>9. ReadOK(d, entities, identifiers)
    BY <1>2, <1>5, <1>6 DEF CallInv, ReadOK
  <1>10. DecidedOK(d, entities, identifiers) /\ WrittenOK(d, entities, identifiers)
    BY <1>1, <1>2, <1>6 DEF CallInv, LookedUpOK, DecidedOK, WrittenOK
  <1>11. CallInv(d, entities, identifiers)
    BY <1>2, <1>6, <1>7, <1>8, <1>9, <1>10 DEF CallInv
  <1>12. Steady(c, d) /\ \A entity : ~Vouches(c, entity)
    BY <1>1, <1>6 DEF Steady, Vouches
  <1> QED BY <1>3, <1>4, <1>11, <1>12, QuietKeeps, StateFacts
LEMMA ListIdentifiersKeeps ==
  ASSUME IInv, NEW x \in Call, NEW entity, ListEntityIdentifiers(x, entity)
  PROVE  IInv'
  <1> DEFINE c == calls[x]
             held == [other \in DOMAIN c.held \cup {entity} |->
                        IF other = entity THEN HeldBy(entity) ELSE c.held[other]]
             d == [c EXCEPT !.held = held]
  <1>1. c.pc = "scoring" /\ entity \in DOMAIN c.rows
    BY DEF ListEntityIdentifiers
  <1>2. CallInv(c, entities, identifiers) /\ CallOK(c)
    BY <1>1, CallFacts
  <1>3. calls' = [calls EXCEPT ![x] = d] /\ UNCHANGED <<entities, identifiers, decisions, reviews, faults>>
    BY StateFacts DEF ListEntityIdentifiers
  <1>4. /\ HeldBy(entity) \subseteq Identifier
        /\ \A id \in HeldBy(entity) : Holds(identifiers, entity, id)
        /\ \A k \in DOMAIN identifiers : identifiers[k].entity = entity => identifiers[k].id \in HeldBy(entity)
    BY IdentifierFacts DEF HeldBy, Holds
  <1>5. /\ DOMAIN d = DOMAIN c /\ d.held = held /\ d.pc = c.pc /\ d.rows = c.rows /\ d.n = c.n
        /\ d.kind = c.kind /\ d.candidate = c.candidate /\ d.policy = c.policy /\ d.begun = c.begun
        /\ d.seen = c.seen /\ d.decision = c.decision /\ d.target = c.target /\ d.existing = c.existing
    BY <1>2 DEF CallOK
  <1> HIDE DEF d
  <1>6. /\ DOMAIN held = DOMAIN c.held \cup {entity} /\ held[entity] = HeldBy(entity)
        /\ \A other \in DOMAIN c.held : other # entity => held[other] = c.held[other]
    OBVIOUS
  <1>7. PartialFunction(held, Entity, SUBSET Identifier)
    BY <1>1, <1>2, <1>4 DEF CallOK, PartialFunction
  <1> HIDE DEF held
  <1>8. CallOK(d)
    BY <1>2, <1>5, <1>7 DEF CallOK
  <1>9. ReadOK(d, entities, identifiers)
    BY <1>1, <1>2, <1>4, <1>5, <1>6 DEF CallInv, ReadOK
  <1>10. LookedUpOK(d, identifiers) /\ DecidedOK(d, entities, identifiers) /\ WrittenOK(d, entities, identifiers)
    BY <1>2, <1>5 DEF CallInv, LookedUpOK, DecidedOK, WrittenOK, Shares
  <1>11. CallInv(d, entities, identifiers)
    BY <1>2, <1>5, <1>8, <1>9, <1>10 DEF CallInv
  <1>12. Steady(c, d) /\ \A other : ~Vouches(c, other)
    BY <1>1, <1>5 DEF Steady, Vouches
  <1> QED BY <1>3, <1>11, <1>12, QuietKeeps, StateFacts

\* A decision is about the holders of the identifiers of the candidate.
LEMMA HoldersCompared ==
  ASSUME NEW c, CallInv(c, entities, identifiers), c.pc = "scoring", DOMAIN c.held = DOMAIN c.rows,
         NEW k \in DOMAIN identifiers, NEW n \in DOMAIN c.candidate.ids, Shares(c, identifiers, k, n)
  PROVE  /\ identifiers[k].entity \in DOMAIN c.rows
         /\ n \in Matching(c.candidate, c.held[identifiers[k].entity])
  <1>1. c.candidate \in Candidate
    BY DEF CallInv, CallOK
  <1>2. n \in Nat /\ n <= Len(c.candidate.ids)
    BY <1>1, CandidateFacts
  <1>3. identifiers[k].entity \in DOMAIN c.rows
    BY <1>2 DEF CallInv, LookedUpOK
  <1>4. identifiers[k].id \in c.held[identifiers[k].entity] /\ identifiers[k].id = c.candidate.ids[n]
    BY <1>3 DEF CallInv, ReadOK, Shares
  <1> QED BY <1>3, <1>4 DEF Matching

\* A call that has decided.
DecidedCall(c, decision, target) ==
  [c EXCEPT !.pc = IF c.kind = "resolve" THEN "done" ELSE "reading",
            !.decision = decision, !.target = target, !.seen = DOMAIN c.rows,
            !.rows = <<>>, !.held = <<>>, !.n = 0]

LEMMA DecisionKeeps ==
  ASSUME IInv, NEW x \in Call, calls[x].pc = "scoring",
         NEW decision \in Decided, NEW target \in Entity,
         PersistResolutionDecision(x, decision, target),
         UNCHANGED <<entities, identifiers, reviews, faults>>,
         DecidedOK(DecidedCall(calls[x], decision, target), entities, identifiers)
  PROVE  IInv'
  <1> DEFINE c == calls[x]
             d == DecidedCall(c, decision, target)
  <1>1. CallInv(c, entities, identifiers) /\ CallOK(c)
    BY CallFacts
  <1>2. calls' = [calls EXCEPT ![x] = d]
    BY DEF PersistResolutionDecision, DecidedCall
  <1>3. /\ DOMAIN d = DOMAIN c /\ d.pc = (IF c.kind = "resolve" THEN "done" ELSE "reading")
        /\ d.decision = decision /\ d.target = target /\ d.seen = DOMAIN c.rows
        /\ d.rows = <<>> /\ d.held = <<>> /\ d.n = 0 /\ d.existing = c.existing
        /\ d.kind = c.kind /\ d.candidate = c.candidate /\ d.policy = c.policy /\ d.begun = c.begun
    BY <1>1 DEF CallOK, DecidedCall
  <1> HIDE DEF d
  <1>4. CallOK(d)
    <2>1. c.candidate \in Candidate
      BY <1>1 DEF CallOK
    <2>2. 0 \in 0..Len(c.candidate.ids)
      BY <2>1, CandidateFacts
    <2>3. DOMAIN c.rows \subseteq Entity
      BY <1>1 DEF CallOK, PartialFunction
    <2> QED BY <1>1, <1>3, <2>2, <2>3, EmptyFunction DEF CallOK
  <1>5. ReadOK(d, entities, identifiers) /\ LookedUpOK(d, identifiers) /\ WrittenOK(d, entities, identifiers)
    BY <1>3, EmptyFunction DEF ReadOK, LookedUpOK, WrittenOK
  <1>6. CallInv(d, entities, identifiers)
    BY <1>1, <1>3, <1>4, <1>5 DEF CallInv, d
  <1>7. Steady(c, d) /\ \A entity : ~Vouches(c, entity)
    BY <1>1 DEF Steady, Vouches, CallInv, LookedUpOK
  <1>8. PartialFunction(decisions', Candidate, Decided)
    <2>1. c.candidate \in Candidate
      BY <1>1 DEF CallOK
    <2> QED BY <2>1, StateFacts DEF PersistResolutionDecision, PartialFunction
  <1> QED BY <1>2, <1>6, <1>7, <1>8, QuietKeeps, StateFacts

LEMMA ResolveKeeps ==
  ASSUME IInv, NEW x \in Call, ResolveEntity(x)
  PROVE  IInv'
  <1> DEFINE c == calls[x]
  <1>1. c.pc = "scoring" /\ DOMAIN c.held = DOMAIN c.rows /\ UNCHANGED <<entities, identifiers, reviews, faults>>
    BY DEF ResolveEntity
  <1>2. CallInv(c, entities, identifiers) /\ CallOK(c) /\ c.candidate \in Candidate
    BY <1>1, CallFacts DEF CallOK
  <1>3. ASSUME NEW decision, NEW target
        PROVE  LET d == DecidedCall(c, decision, target) IN
               /\ d.decision = decision /\ d.target = target /\ d.seen = DOMAIN c.rows
               /\ d.candidate = c.candidate /\ d.policy = c.policy /\ d.begun = c.begun
    BY <1>2 DEF CallOK, DecidedCall
  <1>4. CASE DOMAIN c.rows = {} /\ PersistResolutionDecision(x, "new", CanonicalKey(c.candidate, "new"))
    <2> DEFINE target == CanonicalKey(c.candidate, "new")
               d == DecidedCall(c, "new", target)
    <2>1. \A k \in DOMAIN identifiers : \A n \in DOMAIN c.candidate.ids : ~Shares(c, identifiers, k, n)
      BY <1>1, <1>2, <1>4, HoldersCompared
    <2>2. d.decision = "new" /\ d.target = target /\ d.seen = {}
          /\ d.candidate = c.candidate /\ d.policy = c.policy /\ d.begun = c.begun
      BY <1>3, <1>4
    <2>3. "new" \in Decided /\ target \in Entity
      BY <1>2, CandidateFacts DEF Decided
    <2> HIDE DEF d
    <2>4. DecidedOK(d, entities, identifiers)
      <3> HIDE DEF target
      <3> QED BY <2>1, <2>2 DEF DecidedOK, Shares, target
    <2> QED BY <1>1, <1>4, <2>3, <2>4, DecisionKeeps DEF d
  <1>5. ASSUME NEW best \in DOMAIN c.rows, Best(c, best),
               PersistResolutionDecision(x, Decision(c, best),
                 IF Decision(c, best) = "matched" THEN best ELSE CanonicalKey(c.candidate, Decision(c, best)))
        PROVE  IInv'
    <2> DEFINE decision == Decision(c, best)
               target == IF decision = "matched" THEN best ELSE CanonicalKey(c.candidate, decision)
               d == DecidedCall(c, decision, target)
    <2>1. decision \in Decided
      BY DEF Decision, Decided, Uncertain
    <2>2. best \in DOMAIN entities /\ best \in Entity
      BY <1>2, StateFacts DEF CallInv, ReadOK, PartialFunction
    <2>3. target \in Entity
      BY <1>2, <2>2, CandidateFacts
    <2>4. /\ d.decision = decision /\ d.target = target /\ d.seen = DOMAIN c.rows
          /\ d.candidate = c.candidate /\ d.policy = c.policy /\ d.begun = c.begun
      BY <1>3
    <2>5. ASSUME decision = "new", Careful(c.policy)
          PROVE  /\ target \notin DOMAIN c.rows
                 /\ \A k \in DOMAIN identifiers : \A n \in DOMAIN c.candidate.ids : ~Shares(c, identifiers, k, n)
      <3>1. \A entity \in DOMAIN c.rows :
              Matching(c.candidate, c.held[entity]) = {} /\ ~ExactName(c.candidate, c.rows[entity])
        BY <1>2, <1>5, <2>5, NewSharesNothing
      <3>2. target.name = c.candidate.name /\ c.candidate.name \in Names(c.candidate)
        BY <1>2, <2>5, CandidateFacts
      <3>3. target \in DOMAIN c.rows => target.name \in c.rows[target].names
        BY <1>2 DEF CallInv, ReadOK
      <3> HIDE DEF target
      <3>4. target \notin DOMAIN c.rows
        BY <3>1, <3>2, <3>3 DEF ExactName
      <3> QED BY <1>1, <1>2, <3>1, <3>4, HoldersCompared
    <2>6. ASSUME decision = "matched", Careful(c.policy), Len(c.candidate.ids) <= 2,
                 NEW k \in DOMAIN identifiers, NEW n \in DOMAIN c.candidate.ids, Shares(c, identifiers, k, n)
          PROVE  Holds(identifiers, best, c.candidate.ids[n])
      <3> DEFINE entity == identifiers[k].entity
      <3>1. entity \in DOMAIN c.rows /\ n \in Matching(c.candidate, c.held[entity])
        BY <1>1, <1>2, <2>6, HoldersCompared
      <3>2. c.candidate.ids[n] \in c.held[best]
        <4>1. CASE entity = best
          BY <3>1, <4>1 DEF Matching
        <4>2. CASE entity # best
          <5> HIDE DEF entity
          <5>1. Matching(c.candidate, c.held[entity]) # {}
            BY <3>1
          <5> QED BY <1>2, <1>5, <2>6, <3>1, <4>2, <5>1, MatchedSharesAlone
        <4> QED BY <4>1, <4>2
      <3> QED BY <1>1, <1>2, <3>2 DEF CallInv, ReadOK
    <2>7. target = IF decision = "matched" THEN best ELSE CanonicalKey(c.candidate, decision)
      OBVIOUS
    <2> HIDE DEF d, decision, target
    <2>8. DecidedOK(d, entities, identifiers)
      <3>1. d.decision = "new" /\ Careful(d.policy) =>
              /\ d.target \notin d.seen
              /\ \A k \in DOMAIN identifiers : \A n \in DOMAIN d.candidate.ids : ~Shares(d, identifiers, k, n)
        BY <2>4, <2>5 DEF Shares
      <3>2. d.decision = "matched" => d.target \in DOMAIN entities
        BY <2>2, <2>4, <2>7
      <3>3. d.decision = "matched" /\ Careful(d.policy) /\ Len(d.candidate.ids) <= 2 =>
              \A k \in DOMAIN identifiers : \A n \in DOMAIN d.candidate.ids :
                Shares(d, identifiers, k, n) => Holds(identifiers, d.target, d.candidate.ids[n])
        BY <2>4, <2>6, <2>7 DEF Shares
      <3>4. d.decision # "none" /\ (d.decision # "matched" => d.target = CanonicalKey(d.candidate, d.decision))
        BY <2>1, <2>4, <2>7 DEF Decided, Uncertain
      <3> QED BY <3>1, <3>2, <3>3, <3>4 DEF DecidedOK
    <2>9. PersistResolutionDecision(x, decision, target)
      BY <1>5 DEF decision, target
    <2> QED BY <1>1, <2>1, <2>3, <2>8, <2>9, DecisionKeeps DEF d
  <1> QED BY <1>4, <1>5 DEF ResolveEntity
LEMMA GetKeeps ==
  ASSUME IInv, NEW x \in Call, GetIntelligenceEntity(x)
  PROVE  IInv'
  <1> DEFINE c == calls[x]
             row == IF c.target \in DOMAIN entities THEN entities[c.target] ELSE NoRow
             d == [c EXCEPT !.pc = "writing", !.existing = row]
  <1>1. c.pc = "reading"
    BY DEF GetIntelligenceEntity
  <1>2. CallInv(c, entities, identifiers) /\ CallOK(c)
    BY <1>1, CallFacts
  <1>3. calls' = [calls EXCEPT ![x] = d] /\ UNCHANGED <<entities, identifiers, decisions, reviews, faults>>
    BY StateFacts DEF GetIntelligenceEntity
  <1>4. row \in Row /\ (c.target \in DOMAIN entities => c.target.name \in row.names)
    BY StateFacts, NoRowType DEF PartialFunction
  <1> HIDE DEF row
  <1>5. /\ DOMAIN d = DOMAIN c /\ d.pc = "writing" /\ d.existing = row /\ d.n = c.n
        /\ d.kind = c.kind /\ d.candidate = c.candidate /\ d.policy = c.policy /\ d.begun = c.begun
        /\ d.rows = c.rows /\ d.held = c.held /\ d.seen = c.seen /\ d.decision = c.decision /\ d.target = c.target
    BY <1>2 DEF CallOK
  <1> HIDE DEF d
  <1>6. CallOK(d)
    BY <1>2, <1>4, <1>5 DEF CallOK
  <1>7. ReadOK(d, entities, identifiers) /\ LookedUpOK(d, identifiers)
    BY <1>2, <1>5 DEF CallInv, ReadOK, LookedUpOK
  <1>8. DecidedOK(d, entities, identifiers)
    BY <1>1, <1>2, <1>5 DEF CallInv, DecidedOK, Shares
  <1>9. WrittenOK(d, entities, identifiers)
    BY <1>1, <1>2, <1>4, <1>5 DEF CallInv, DecidedOK, WrittenOK
  <1>10. CallInv(d, entities, identifiers)
    BY <1>2, <1>5, <1>6, <1>7, <1>8, <1>9 DEF CallInv
  <1>11. Steady(c, d) /\ \A entity : ~Vouches(c, entity)
    BY <1>1, <1>5 DEF Steady, Vouches
  <1> QED BY <1>3, <1>10, <1>11, QuietKeeps, StateFacts

LEMMA PersistKeeps ==
  ASSUME IInv, NEW x \in Call, PersistEntity(x)
  PROVE  IInv'
  <1> DEFINE c == calls[x]
             row == Merge(c.existing, c.candidate)
             d == [c EXCEPT !.pc = "identifying"]
  <1>1. c.pc = "writing"
    BY DEF PersistEntity
  <1>2. CallInv(c, entities, identifiers) /\ CallOK(c) /\ c.candidate \in Candidate /\ c.target \in Entity
    BY <1>1, CallFacts DEF CallOK
  <1>3. /\ calls' = [calls EXCEPT ![x] = d]
        /\ entities' = [entity \in DOMAIN entities \cup {c.target} |->
                          IF entity = c.target THEN row ELSE entities[entity]]
        /\ UNCHANGED <<identifiers, decisions, reviews, faults>>
    BY StateFacts DEF PersistEntity
  <1>4. c.decision # "matched" => c.decision # "none" /\ c.target = CanonicalKey(c.candidate, c.decision)
    BY <1>1, <1>2 DEF CallInv, DecidedOK
  <1>5. row \in Row /\ c.target.name \in row.names
    <2>1. row \in Row /\ c.existing.names \subseteq row.names /\ c.candidate.name \in row.names
      BY <1>2, MergeFacts DEF CallOK
    <2>2. CASE c.decision = "matched"
      BY <1>1, <1>2, <2>1, <2>2 DEF CallInv, WrittenOK
    <2>3. CASE c.decision # "matched"
      <3>1. c.target.name = c.candidate.name
        BY <1>2, <1>4, <2>3, CandidateFacts
      <3> QED BY <2>1, <3>1
    <2> QED BY <2>2, <2>3
  <1> HIDE DEF row
  <1>6. /\ DOMAIN d = DOMAIN c /\ d.pc = "identifying" /\ d.existing = c.existing /\ d.n = c.n
        /\ d.kind = c.kind /\ d.candidate = c.candidate /\ d.policy = c.policy /\ d.begun = c.begun
        /\ d.rows = c.rows /\ d.held = c.held /\ d.seen = c.seen /\ d.decision = c.decision /\ d.target = c.target
    BY <1>2 DEF CallOK
  <1> HIDE DEF d
  <1>7. /\ DOMAIN entities' = DOMAIN entities \cup {c.target}
        /\ entities'[c.target] = row
        /\ \A entity \in DOMAIN entities : entity # c.target => entities'[entity] = entities[entity]
    BY <1>3
  <1>8. PartialFunction(entities', Entity, Row) /\ KeyNameKept'
    <2>1. DOMAIN entities \subseteq Entity /\ \A entity \in DOMAIN entities : entities[entity] \in Row
      BY StateFacts DEF PartialFunction
    <2>2. \A entity \in DOMAIN entities' :
            entities'[entity] \in Row /\ entity.name \in entities'[entity].names
      BY <1>5, <1>7, <2>1, StateFacts
    <2> QED BY <1>2, <1>3, <1>7, <2>1, <2>2 DEF PartialFunction, KeyNameKept
  <1>9. Grows(entities, identifiers, entities', identifiers')
    BY <1>3, <1>7, StateFacts DEF Grows
  <1>10. CallInv(c, entities', identifiers')
    BY <1>2, <1>9, CallKept
  <1>11. CallInv(d, entities', identifiers')
    <2>1. CallOK(d)
      BY <1>2, <1>6 DEF CallOK
    <2>2. ReadOK(d, entities', identifiers') /\ LookedUpOK(d, identifiers')
      BY <1>6, <1>10 DEF CallInv, ReadOK, LookedUpOK
    <2>3. DecidedOK(d, entities', identifiers')
      BY <1>1, <1>6, <1>10 DEF CallInv, DecidedOK, Shares
    <2>4. WrittenOK(d, entities', identifiers')
      <3>1. d.n = 0
        BY <1>1, <1>2, <1>6 DEF CallInv, WrittenOK
      <3>2. \A n \in DOMAIN d.candidate.ids : ~(n <= d.n)
        BY <1>2, <1>6, <3>1, CandidateFacts
      <3> QED BY <1>6, <1>7, <3>2 DEF WrittenOK
    <2> QED BY <1>6, <1>10, <2>1, <2>2, <2>3, <2>4 DEF CallInv
  <1>12. Steady(c, d) /\ \A entity : ~Vouches(c, entity)
    BY <1>1, <1>6 DEF Steady, Vouches
  <1>13. ASSUME NEW entity \in DOMAIN entities' \ DOMAIN entities
         PROVE  entity.discriminator \in {Plain} \cup reviews' \/ Vouches(d, entity)
    <2>1. entity = c.target
      BY <1>7
    <2>2. c.decision # "matched"
      BY <1>2, <2>1 DEF CallInv, DecidedOK
    <2>3. c.decision \in {"new", "upsert"} \cup Uncertain
      BY <1>2, <1>4, <2>2 DEF CallOK, Decided
    <2>4. c.target.discriminator = IF c.decision \in {"new", "upsert"} THEN Plain ELSE c.candidate
      BY <1>4, <2>2 DEF CanonicalKey
    <2> QED BY <1>6, <2>1, <2>3, <2>4 DEF Vouches
  <1>14. \A l \in DOMAIN identifiers' : ~(l > Len(identifiers))
    BY <1>3, StateFacts
  <1>15. /\ identifiers' \in Seq([entity: Entity, id: Identifier, by: Call])
         /\ PartialFunction(decisions', Candidate, Decided)
         /\ reviews' \subseteq Candidate /\ reviews' = reviews
         /\ faults' \in 0..MaxFaults
    BY <1>3, StateFacts DEF IInv, TypeOK
  <1>16. reviews \subseteq reviews' /\ reviews' \ reviews = {}
    BY <1>15
  <1> QED BY <1>3, <1>8, <1>9, <1>11, <1>12, <1>13, <1>14, <1>15, <1>16, StepKeeps

LEMMA AddKeeps ==
  ASSUME IInv, NEW x \in Call, AddEntityIdentifiers(x)
  PROVE  IInv'
  <1> DEFINE c == calls[x]
             id == c.candidate.ids[c.n + 1]
             row == [entity |-> c.target, id |-> id, by |-> x]
             d == [c EXCEPT !.n = @ + 1]
  <1>1. c.pc = "identifying" /\ c.n < Len(c.candidate.ids)
    BY DEF AddEntityIdentifiers
  <1>2. CallInv(c, entities, identifiers) /\ CallOK(c) /\ c.candidate \in Candidate /\ c.target \in Entity
    BY <1>1, CallFacts DEF CallOK
  <1>3. /\ calls' = [calls EXCEPT ![x] = d]
        /\ identifiers' = IF id \in HeldBy(c.target) THEN identifiers ELSE Append(identifiers, row)
        /\ UNCHANGED <<entities, decisions, reviews, faults>>
    BY StateFacts DEF AddEntityIdentifiers
  <1>4. /\ c.n \in Nat /\ Len(c.candidate.ids) \in Nat /\ DOMAIN c.candidate.ids = 1..Len(c.candidate.ids)
        /\ c.n + 1 \in DOMAIN c.candidate.ids /\ id \in Identifier
    <2>1. c.candidate.ids \in Seq(Identifier)
      BY <1>2, CandidateFacts
    <2>2. c.n \in Nat
      BY <1>2 DEF CallOK
    <2>3. c.n + 1 \in DOMAIN c.candidate.ids
      BY <1>1, <2>1, <2>2
    <2> QED BY <2>1, <2>2, <2>3
  <1>5. /\ DOMAIN d = DOMAIN c /\ d.pc = c.pc /\ d.existing = c.existing /\ d.n = c.n + 1
        /\ d.kind = c.kind /\ d.candidate = c.candidate /\ d.policy = c.policy /\ d.begun = c.begun
        /\ d.rows = c.rows /\ d.held = c.held /\ d.seen = c.seen /\ d.decision = c.decision /\ d.target = c.target
    BY <1>2 DEF CallOK
  <1> HIDE DEF d
  <1>6. /\ row \in [entity: Entity, id: Identifier, by: Call]
        /\ row.entity = c.target /\ row.id = id /\ row.by = x
    BY <1>2, <1>4
  <1> HIDE DEF row
  <1>7. c.target \in DOMAIN entities /\ c.decision # "none"
    BY <1>1, <1>2 DEF CallInv, WrittenOK, DecidedOK
  <1>8. /\ identifiers' \in Seq([entity: Entity, id: Identifier, by: Call])
        /\ Grows(entities, identifiers, entities', identifiers')
        /\ Holds(identifiers', c.target, id)
        /\ \A l \in DOMAIN identifiers' : l > Len(identifiers) =>
             identifiers'[l] = row /\ l = Len(identifiers) + 1 /\ ~Holds(identifiers, c.target, id)
    <2> HIDE DEF id
    <2>1. identifiers \in Seq([entity: Entity, id: Identifier, by: Call])
      BY DEF IInv, TypeOK
    <2>2. CASE id \in HeldBy(c.target)
      <3>1. identifiers' = identifiers /\ Holds(identifiers, c.target, id)
        BY <1>3, <2>2 DEF HeldBy, Holds
      <3>2. \A l \in DOMAIN identifiers : ~(l > Len(identifiers))
        BY StateFacts
      <3> QED BY <1>3, <2>1, <3>1, <3>2, GrowsNone
    <2>3. CASE id \notin HeldBy(c.target)
      <3>1. identifiers' = Append(identifiers, row) /\ ~Holds(identifiers, c.target, id)
        BY <1>3, <2>3 DEF HeldBy, Holds
      <3>2. /\ identifiers' \in Seq([entity: Entity, id: Identifier, by: Call])
            /\ Len(identifiers') = Len(identifiers) + 1
            /\ DOMAIN identifiers' = 1..(Len(identifiers) + 1)
            /\ identifiers'[Len(identifiers) + 1] = row
            /\ \A k \in 1..Len(identifiers) : identifiers'[k] = identifiers[k]
        BY <1>6, <2>1, <3>1
      <3>3. Grows(entities, identifiers, entities', identifiers')
        BY <1>3, <3>2, StateFacts DEF Grows
      <3>4. Holds(identifiers', c.target, id)
        BY <1>6, <3>2, StateFacts DEF Holds
      <3>5. \A l \in DOMAIN identifiers' : l > Len(identifiers) => l = Len(identifiers) + 1
        BY <3>2, StateFacts
      <3> QED BY <3>1, <3>2, <3>3, <3>4, <3>5
    <2> QED BY <2>2, <2>3
  <1>9. CallInv(c, entities', identifiers')
    BY <1>2, <1>8, CallKept
  <1>10. CallInv(d, entities', identifiers')
    <2>1. CallOK(d)
      <3>1. c.n + 1 \in 0..Len(c.candidate.ids)
        BY <1>4
      <3> QED BY <1>2, <1>5, <3>1 DEF CallOK
    <2>2. ReadOK(d, entities', identifiers') /\ LookedUpOK(d, identifiers')
      BY <1>1, <1>5, <1>9 DEF CallInv, ReadOK, LookedUpOK
    <2>3. DecidedOK(d, entities', identifiers')
      BY <1>5, <1>9 DEF CallInv, DecidedOK, Shares
    <2>4. \A n \in DOMAIN c.candidate.ids : n <= c.n + 1 => Holds(identifiers', c.target, c.candidate.ids[n])
      <3> SUFFICES ASSUME NEW n \in DOMAIN c.candidate.ids, n <= c.n + 1
                   PROVE  Holds(identifiers', c.target, c.candidate.ids[n])
        OBVIOUS
      <3>1. CASE n <= c.n
        BY <1>1, <1>9, <3>1 DEF CallInv, WrittenOK
      <3>2. CASE ~(n <= c.n)
        <4>1. n = c.n + 1
          BY <1>4, <3>2
        <4> QED BY <1>8, <4>1
      <3> QED BY <3>1, <3>2
    <2>5. WrittenOK(d, entities', identifiers')
      BY <1>1, <1>3, <1>5, <1>7, <2>4 DEF WrittenOK
    <2> QED BY <1>5, <1>9, <2>1, <2>2, <2>3, <2>5 DEF CallInv
  <1>11. ASSUME NEW l \in DOMAIN identifiers', l > Len(identifiers),
                NEW k \in DOMAIN identifiers', k < l, identifiers'[k].id = identifiers'[l].id
         PROVE  Explains(d, k)
    <2> SUFFICES ASSUME d.decision \notin Uncertain \cup {"upsert"}, ~(d.begun < k),
                        ~(Len(d.candidate.ids) > 2), Careful(d.policy)
                 PROVE  FALSE
      BY DEF Explains
    <2>1. identifiers'[l] = row /\ l = Len(identifiers) + 1 /\ ~Holds(identifiers, c.target, id)
      BY <1>8, <1>11
    <2>2. k \in DOMAIN identifiers /\ identifiers'[k] = identifiers[k]
      BY <1>8, <1>11, <2>1, StateFacts DEF Grows
    <2>3. identifiers[k].id = id
      BY <1>6, <1>11, <2>1, <2>2
    <2>4. k <= c.begun /\ Len(c.candidate.ids) <= 2
      BY <1>2, <1>4, <1>5, <2>2, StateFacts DEF CallOK
    <2>5. Shares(c, identifiers, k, c.n + 1)
      BY <2>3, <2>4 DEF Shares
    <2>6. c.decision \in {"new", "matched"}
      BY <1>2, <1>5, <1>7 DEF CallOK, Decided
    <2>7. CASE c.decision = "new"
      BY <1>2, <1>4, <1>5, <2>2, <2>5, <2>7 DEF CallInv, DecidedOK
    <2>8. CASE c.decision = "matched"
      <3>1. Holds(identifiers, c.target, id)
        BY <1>2, <1>4, <1>5, <2>2, <2>4, <2>5, <2>8 DEF CallInv, DecidedOK
      <3> QED BY <2>1, <3>1
    <2> QED BY <2>6, <2>7, <2>8
  <1>12. \A l \in DOMAIN identifiers' : l > Len(identifiers) =>
           identifiers'[l].by = x /\ identifiers'[l].entity \in DOMAIN entities' /\ d.decision # "none"
    BY <1>3, <1>5, <1>6, <1>7, <1>8
  <1>13. Steady(c, d) /\ \A entity : Vouches(c, entity) => Vouches(d, entity)
    BY <1>5 DEF Steady, Vouches
  <1>14. /\ PartialFunction(entities', Entity, Row)
         /\ PartialFunction(decisions', Candidate, Decided)
         /\ reviews' \subseteq Candidate /\ reviews' = reviews
         /\ faults' \in 0..MaxFaults
         /\ KeyNameKept'
    BY <1>3, StateFacts DEF IInv, TypeOK, KeyNameKept
  <1>15. reviews \subseteq reviews' /\ reviews' \ reviews = {} /\ DOMAIN entities' \ DOMAIN entities = {}
    BY <1>3
  <1>16. calls' = [calls EXCEPT ![x] = d]
    BY <1>3
  <1> HIDE DEF id
  <1> QED BY <1>8, <1>10, <1>11, <1>12, <1>13, <1>14, <1>15, <1>16, StepKeeps
Ended == {"done", "unreviewed", "failed"}

LEMMA EndedCall ==
  ASSUME NEW c, CallInv(c, entities, identifiers), NEW pc \in Ended
  PROVE  LET d == [c EXCEPT !.pc = pc] IN
         /\ CallInv(d, entities, identifiers) /\ Steady(c, d)
         /\ d.pc = pc /\ d.decision = c.decision /\ d.candidate = c.candidate
  <1> DEFINE d == [c EXCEPT !.pc = pc]
  <1>1. CallOK(c)
    BY DEF CallInv
  <1>2. /\ DOMAIN d = DOMAIN c /\ d.pc = pc /\ d.existing = c.existing /\ d.n = c.n
        /\ d.kind = c.kind /\ d.candidate = c.candidate /\ d.policy = c.policy /\ d.begun = c.begun
        /\ d.rows = c.rows /\ d.held = c.held /\ d.seen = c.seen /\ d.decision = c.decision /\ d.target = c.target
    BY <1>1 DEF CallOK
  <1> HIDE DEF d
  <1>3. CallOK(d)
    BY <1>1, <1>2 DEF CallOK, Ended
  <1>4. ReadOK(d, entities, identifiers) /\ LookedUpOK(d, identifiers) /\ WrittenOK(d, entities, identifiers)
    BY <1>2 DEF CallInv, ReadOK, LookedUpOK, WrittenOK, Ended
  <1>5. DecidedOK(d, entities, identifiers)
    BY <1>2 DEF CallInv, DecidedOK, Shares, Ended
  <1>6. CallInv(d, entities, identifiers)
    BY <1>2, <1>3, <1>4, <1>5 DEF CallInv
  <1>7. Steady(c, d)
    BY <1>2 DEF Steady
  <1> QED BY <1>2, <1>6, <1>7 DEF d

LEMMA EndsKeeps ==
  ASSUME IInv, NEW x \in Call, Ends(x)
  PROVE  IInv'
  <1> DEFINE d == [calls[x] EXCEPT !.pc = "done"]
  <1>1. calls[x].pc = "identifying" /\ calls[x].decision \notin Uncertain
    BY DEF Ends, Written
  <1>2. CallInv(calls[x], entities, identifiers)
    BY <1>1, CallFacts
  <1>3. calls' = [calls EXCEPT ![x] = d] /\ UNCHANGED <<entities, identifiers, decisions, reviews, faults>>
    BY StateFacts DEF Ends
  <1>4. CallInv(d, entities, identifiers) /\ Steady(calls[x], d)
    BY <1>2, EndedCall DEF Ended
  <1>5. \A entity : ~Vouches(calls[x], entity)
    BY <1>1 DEF Vouches
  <1> HIDE DEF d
  <1> QED BY <1>3, <1>4, <1>5, QuietKeeps, StateFacts

LEMMA FailsKeeps ==
  ASSUME IInv, NEW x \in Call, Fails(x)
  PROVE  IInv'
  <1> DEFINE d == [calls[x] EXCEPT !.pc = "failed"]
  <1>1. calls[x].pc # "idle"
    BY DEF Fails, Active
  <1>2. CallInv(calls[x], entities, identifiers)
    BY <1>1, CallFacts
  <1>3. calls' = [calls EXCEPT ![x] = d] /\ UNCHANGED <<entities, identifiers, decisions, reviews>>
    BY StateFacts DEF Fails
  <1>4. CallInv(d, entities, identifiers) /\ Steady(calls[x], d) /\ d.pc = "failed"
        /\ d.decision = calls[x].decision /\ d.candidate = calls[x].candidate
    BY <1>2, EndedCall DEF Ended
  <1> HIDE DEF d
  <1>5. \A entity : Vouches(calls[x], entity) => Vouches(d, entity)
    BY <1>4 DEF Vouches
  <1>6. faults' \in 0..MaxFaults
    <2>1. MaxFaults \in Nat /\ faults \in 0..MaxFaults /\ faults < MaxFaults /\ faults' = faults + 1
      BY StateFacts, CallsAssumption DEF Fails, Faults
    <2> QED BY ONLY <2>1
  <1> QED BY <1>3, <1>4, <1>5, <1>6, QuietKeeps, StateFacts

\* The review of a candidate, stored or not.
LEMMA ReviewKeeps ==
  ASSUME IInv, NEW x \in Call, Written(x), calls[x].decision \in Uncertain,
         NEW pc \in {"done", "unreviewed"},
         calls' = [calls EXCEPT ![x].pc = pc],
         reviews' \in {reviews, reviews \cup {calls[x].candidate}},
         pc = "done" => reviews' = reviews \cup {calls[x].candidate},
         UNCHANGED <<entities, identifiers, decisions>>,
         faults' \in 0..MaxFaults
  PROVE  IInv'
  <1> DEFINE c == calls[x]
             d == [c EXCEPT !.pc = pc]
  <1>1. c.pc = "identifying" /\ c.n = Len(c.candidate.ids)
    BY DEF Written
  <1>2. CallInv(c, entities, identifiers) /\ CallOK(c) /\ c.candidate \in Candidate
    BY <1>1, CallFacts DEF CallOK
  <1>3. calls' = [calls EXCEPT ![x] = d]
    BY StateFacts
  <1>p. pc \in Ended
    BY DEF Ended
  <1>4. CallInv(d, entities, identifiers) /\ Steady(c, d) /\ d.pc = pc
        /\ d.decision = c.decision /\ d.candidate = c.candidate
    BY ONLY <1>2, <1>p, EndedCall
  <1> HIDE DEF d
  <1>5. ReviewOK(c.candidate, entities, identifiers)
    <2>1. c.target = CanonicalKey(c.candidate, c.decision)
      BY <1>2 DEF CallInv, DecidedOK, Uncertain
    <2>2. c.target = CanonicalKey(c.candidate, "ambiguous")
      BY <2>1 DEF CanonicalKey, Uncertain
    <2>3. c.target \in DOMAIN entities
      BY <1>1, <1>2 DEF CallInv, WrittenOK
    <2>4. ASSUME NEW n \in DOMAIN c.candidate.ids
          PROVE  Holds(identifiers, c.target, c.candidate.ids[n])
      <3>1. n <= c.n
        BY <1>1, <1>2, CandidateFacts
      <3> QED BY <1>1, <1>2, <3>1 DEF CallInv, WrittenOK
    <2> QED BY <2>2, <2>3, <2>4 DEF ReviewOK
  <1>6. /\ entities' = entities /\ identifiers' = identifiers /\ decisions' = decisions
        /\ Grows(entities, identifiers, entities', identifiers')
        /\ CallInv(d, entities', identifiers')
    BY <1>4, GrowsNone
  <1>7. \A candidate \in reviews' \ reviews : ReviewOK(candidate, entities', identifiers')
    BY <1>5, <1>6
  <1>8. \A entity : Vouches(c, entity) => Vouches(d, entity) \/ entity.discriminator \in reviews'
    BY <1>4 DEF Vouches
  <1>9. \A l \in DOMAIN identifiers' : ~(l > Len(identifiers))
    BY <1>6, StateFacts
  <1>10. /\ PartialFunction(entities', Entity, Row)
         /\ identifiers' \in Seq([entity: Entity, id: Identifier, by: Call])
         /\ PartialFunction(decisions', Candidate, Decided)
         /\ reviews' \subseteq Candidate
         /\ KeyNameKept'
    BY <1>2, <1>6 DEF IInv, TypeOK, KeyNameKept
  <1>11. reviews \subseteq reviews' /\ DOMAIN entities' \ DOMAIN entities = {}
    BY <1>6
  <1> QED BY <1>3, <1>4, <1>6, <1>7, <1>8, <1>9, <1>10, <1>11, StepKeeps

LEMMA EnqueueKeeps ==
  ASSUME IInv, NEW x \in Call, EnqueueAnalystReview(x)
  PROVE  IInv'
  <1>1. faults' \in 0..MaxFaults
    BY StateFacts DEF EnqueueAnalystReview
  <1> QED BY <1>1, ReviewKeeps DEF EnqueueAnalystReview

LEMMA ReviewFailsKeeps ==
  ASSUME IInv, NEW x \in Call, ReviewFails(x)
  PROVE  IInv'
  <1>1. faults' \in 0..MaxFaults
    <2>1. MaxFaults \in Nat /\ faults \in 0..MaxFaults /\ faults < MaxFaults /\ faults' = faults + 1
      BY StateFacts, CallsAssumption DEF ReviewFails, Faults
    <2> QED BY ONLY <2>1
  <1> QED BY <1>1, ReviewKeeps DEF ReviewFails

LEMMA InitIInv == Init => IInv
  <1> SUFFICES ASSUME Init PROVE IInv
    OBVIOUS
  <1>1. /\ entities = <<>> /\ identifiers = <<>> /\ decisions = <<>> /\ reviews = {} /\ faults = 0
        /\ calls = [x \in Call |-> Idle]
    BY DEF Init
  <1>2. DOMAIN entities = {} /\ DOMAIN identifiers = {}
    BY <1>1
  <1>3. TypeOK
    BY <1>1, EmptyFunction, CallsAssumption DEF TypeOK
  <1>4. RowsOK /\ KeyNameKept /\ SharedIdentifiersExplained /\ PutAsideReviewed
    BY <1>1, <1>2 DEF RowsOK, KeyNameKept, SharedIdentifiersExplained, PutAsideReviewed
  <1> QED BY <1>1, <1>3, <1>4 DEF IInv

LEMMA NextIInv == IInv /\ [Next]_vars => IInv'
  <1> SUFFICES ASSUME IInv, [Next]_vars PROVE IInv'
    OBVIOUS
  <1>1. ASSUME NEW x \in Call, Steps(x)
        PROVE  IInv'
    BY <1>1, BeginKeeps, FindKeeps, ListKeeps, ListIdentifiersKeeps, ResolveKeeps, GetKeeps, PersistKeeps,
       AddKeeps, EndsKeeps, EnqueueKeeps, ReviewFailsKeeps, FailsKeeps
       DEF Steps
  <1>2. CASE UNCHANGED vars
    <2>1. /\ entities' = entities /\ identifiers' = identifiers /\ decisions' = decisions
          /\ reviews' = reviews /\ calls' = calls /\ faults' = faults
      BY <1>2 DEF vars
    <2> QED BY <2>1 DEF IInv, TypeOK, RowsOK, KeyNameKept, SharedIdentifiersExplained, PutAsideReviewed, HeldBy
  <1> QED BY <1>1, <1>2 DEF Next

-----------------------------------------------------------------------------
(* Theorems *)

\* Every step of a call, wherever the others are and whatever dies, keeps the
\* invariant.
THEOREM InductiveInvariant == Spec => []IInv
  BY InitIInv, NextIInv, PTL DEF Spec

\* The types of the tables and of the calls.
THEOREM TypeCorrectness == Spec => []TypeOK
  <1>1. IInv => TypeOK
    BY DEF IInv
  <1> QED BY <1>1, InductiveInvariant, PTL

\* Whatever updates of an entity get lost in overlapping calls, it keeps the
\* name it was created under.
THEOREM KeyNamesAreKept == Spec => []KeyNameKept
  <1>1. IInv => KeyNameKept
    BY DEF IInv
  <1> QED BY <1>1, InductiveInvariant, PTL

\* Under careful thresholds, a candidate taken for new is never merged into an
\* entity that it was compared with (resolveAndUpsertEntity).
THEOREM NewMergesOnlyUnseen == Spec => []NewMergesUnseen
  <1>1. IInv => NewMergesUnseen
    BY DEF IInv, CallInv, DecidedOK, NewMergesUnseen
  <1> QED BY <1>1, InductiveInvariant, PTL

\* The bearer of an identifier that is on record is never taken for new.
THEOREM IdentifiersAreRecognised == Spec => []IdentifiersRecognised
  <1>1. IInv => IdentifiersRecognised
    BY DEF IInv, CallInv, DecidedOK, Shares, IdentifiersRecognised
  <1> QED BY <1>1, InductiveInvariant, PTL

\* Two entities get to share an identifier in the listed ways only.
THEOREM SharedIdentifiersAreExplained == Spec => []SharedIdentifiersExplained
  <1>1. IInv => SharedIdentifiersExplained
    BY DEF IInv
  <1> QED BY <1>1, InductiveInvariant, PTL

\* Entities put aside and the reviews about them agree.
THEOREM PutAsideIsReviewed == Spec => []PutAsideReviewed
  <1>1. IInv => PutAsideReviewed
    BY DEF IInv
  <1> QED BY <1>1, InductiveInvariant, PTL
=============================================================================
