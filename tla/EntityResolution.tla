--------------------------- MODULE EntityResolution ---------------------------
(***************************************************************************)
(* Entity resolution (entity-resolution.ts) over the intelligence graph's  *)
(* entities and identifiers (intelligence-graph.ts): calls that compare a  *)
(* candidate with the entities there are, decide whether it is one of      *)
(* them, and write it to the graph.  API requests and ingestion run such   *)
(* calls at the same time, and nothing they do is in a transaction: every  *)
(* query of a call is a step of its own, and a call that dies or whose     *)
(* statement throws leaves behind what it has written.                     *)
(*                                                                         *)
(* Names are normalised; that a row keeps at most 100 aliases is left out. *)
(* Scores are in ten-thousandths.  An entity is its canonical key, of      *)
(* which its id is the hash; entities are never deleted.                   *)
(***************************************************************************)
EXTENDS Integers, Sequences, FiniteSets, FiniteSetsExt

CONSTANTS
  Name,           \* normalised names
  NameSimilarity, \* NameSimilarity[m][n]: tokenSimilarity, in hundredths
  EntityType,     \* normalised types
  Identifier,     \* namespaces with normalised values
  StableKey,      \* the attributes that are compared
  Value,          \* their values
  NoValue,        \* an attribute that is absent
  Candidate,      \* candidates that calls may bring
  Plain,          \* the discriminator of a key without one
  Policy,         \* thresholds the runtime configuration may give
  Request,        \* kinds of calls with their candidates
  Call,           \* calls
  Workers,        \* bound: calls that overlap
  MaxFaults       \* bound: calls that throw or die

Attributes == [StableKey -> Value \cup {NoValue}]

ASSUME NamesAssumption == NameSimilarity \in [Name -> [Name -> 0..100]]

ASSUME CandidateAssumption ==
  /\ NoValue \notin Value
  /\ IsFiniteSet(StableKey)
  /\ Candidate \subseteq [type: EntityType, name: Name, aliases: SUBSET Name,
                          ids: Seq(Identifier), attributes: Attributes, observedAt: Nat]
  /\ Plain \notin Candidate

\* What getEntityResolutionPolicy makes of any configuration.
Thresholds == [auto: 7500..9990, review: 4000..9500, delta: 100..2500, limit: Nat \ {0}]

ASSUME PolicyAssumption == Policy \subseteq Thresholds

ASSUME CallsAssumption ==
  /\ Request \subseteq {"resolve", "commit", "upsert"} \X Candidate
  /\ Workers \in Nat \ {0}
  /\ MaxFaults \in Nat

VARIABLES
  entities,    \* intelligence_entities: rows by key
  identifiers, \* intelligence_entity_identifiers, in the order of insertion
  decisions,   \* entity_resolution_decisions: by candidate, whose hash is the id
  reviews,     \* candidates with a review, whose dedupe key is the decision id
  calls,       \* calls[x]: control state and locals of a call
  faults       \* faults so far (bounded by MaxFaults)

vars == <<entities, identifiers, decisions, reviews, calls, faults>>

Entity == [type: EntityType, name: Name, discriminator: Candidate \cup {Plain}]

\* Where a candidate that matches nothing is put: one that may be an entity
\* there is gets a key of its own.
CanonicalKey(candidate, decision) ==
  [type |-> candidate.type, name |-> candidate.name,
   discriminator |-> IF decision \in {"new", "upsert"} THEN Plain ELSE candidate]

Names(candidate) == {candidate.name} \cup candidate.aliases

NoRow == [names |-> {}, attributes |-> [key \in StableKey |-> NoValue]]

\* A row keeps its aliases, its display name among them.
Merge(row, candidate) ==
  [names |-> row.names \cup Names(candidate),
   attributes |-> [key \in StableKey |-> IF candidate.attributes[key] # NoValue
                                         THEN candidate.attributes[key] ELSE row.attributes[key]]]

HeldBy(entity) == {identifiers[k].id : k \in {k \in DOMAIN identifiers : identifiers[k].entity = entity}}

Holders(id) == {identifiers[k].entity : k \in {k \in DOMAIN identifiers : identifiers[k].id = id}}

-----------------------------------------------------------------------------
(* scoreEntityMatch *)

Capped(score) == IF score <= 10000 THEN score ELSE 10000

AtLeast(m, n) == IF m >= n THEN m ELSE n

\* In hundredths.
NameScore(left, right) == Max({NameSimilarity[m][n] : m \in left, n \in right} \cup {0})

Comparable(left, right) == {key \in StableKey : left[key] # NoValue /\ right[key] # NoValue}

Agreeing(left, right) == {key \in Comparable(left, right) : left[key] = right[key]}

\* In hundredths, rounded down, where the code keeps a fraction in floating
\* point: of three attributes, two agreeing give 66.
AttributeScore(left, right) ==
  IF Comparable(left, right) = {} THEN 0
  ELSE (100 * Cardinality(Agreeing(left, right))) \div Cardinality(Comparable(left, right))

Matching(candidate, held) == {n \in DOMAIN candidate.ids : candidate.ids[n] \in held}

ExactName(candidate, row) == Names(candidate) \cap row.names # {}

Score(candidate, row, held) ==
  LET matches == Cardinality(Matching(candidate, held))
      name == NameScore(Names(candidate), row.names)
      attribute == AttributeScore(candidate.attributes, row.attributes)
  IN  IF matches > 0
      THEN Capped(AtLeast(9400, 9200 + 300 * (matches - 1)) + 3 * name + 2 * attribute)
      ELSE Capped((IF ExactName(candidate, row) THEN 8600 ELSE 74 * name) + 12 * attribute)

-----------------------------------------------------------------------------
(* resolveEntity *)

\* The score of an entity that was read, with the identifiers it was read with.
ScoreOf(c, entity) == Score(c.candidate, c.rows[entity], c.held[entity])

Shared(c, entity) == Cardinality(Matching(c.candidate, c.held[entity]))

\* First by its score, then by its identifiers, then by chance.
Best(c, entity) ==
  \A other \in DOMAIN c.rows :
    \/ ScoreOf(c, other) < ScoreOf(c, entity)
    \/ ScoreOf(c, other) = ScoreOf(c, entity) /\ Shared(c, other) <= Shared(c, entity)

Ambiguous(c, best) ==
  /\ ScoreOf(c, best) >= c.policy.review
  /\ \E other \in DOMAIN c.rows \ {best} : ScoreOf(c, best) - ScoreOf(c, other) < c.policy.delta

\* The best entity is matched for an identifier or a name it shares.
Matches(c, best) ==
  /\ Matching(c.candidate, c.held[best]) # {} \/ ExactName(c.candidate, c.rows[best])
  /\ ScoreOf(c, best) >= c.policy.auto

Decision(c, best) ==
  IF Ambiguous(c, best) THEN "ambiguous"
  ELSE IF Matches(c, best) THEN "matched"
  ELSE IF ScoreOf(c, best) >= c.policy.review THEN "review_required"
  ELSE "new"

-----------------------------------------------------------------------------
Idle == [pc |-> "idle"]

Init ==
  /\ entities = <<>>
  /\ identifiers = <<>>
  /\ decisions = <<>>
  /\ reviews = {}
  /\ calls = [x \in Call |-> Idle]
  /\ faults = 0

Active == {x \in Call : calls[x].pc \notin {"idle", "done", "unreviewed", "failed"}}

\* resolveEntity, resolveAndUpsertEntity, or an upsert without a resolution
\* (the graph API, promoted observations that bring no id of their own).  The
\* policy is read once.
Begin(x, kind, candidate, policy) ==
  /\ calls[x].pc = "idle"
  /\ Cardinality(Active) < Workers
  /\ calls' = [calls EXCEPT ![x] =
       [pc |-> IF kind = "upsert" THEN "reading" ELSE "finding",
        kind |-> kind, candidate |-> candidate, policy |-> policy, begun |-> Len(identifiers), n |-> 0,
        rows |-> <<>>, held |-> <<>>, seen |-> {},
        decision |-> IF kind = "upsert" THEN "upsert" ELSE "none",
        target |-> CanonicalKey(candidate, "upsert"), existing |-> NoRow]]
  /\ UNCHANGED <<entities, identifiers, decisions, reviews, faults>>

\* f with the rows of the given entities as they are now.
Reading(f, read) == [entity \in DOMAIN f \cup read |-> IF entity \in read THEN entities[entity] ELSE f[entity]]

\* Mutant of FindEntitiesByIdentifier: identifiers are not looked up.
FindNoEntities(x) ==
  LET c == calls[x] IN
  /\ c.pc = "finding"
  /\ c.n < Len(c.candidate.ids)
  /\ calls' = [calls EXCEPT ![x].n = @ + 1]
  /\ UNCHANGED <<entities, identifiers, decisions, reviews, faults>>

\* One query per identifier, whatever the type of its holders.
FindEntitiesByIdentifier(x) ==
  LET c == calls[x] IN
  /\ c.pc = "finding"
  /\ c.n < Len(c.candidate.ids)
  /\ calls' = [calls EXCEPT ![x].n = @ + 1, ![x].rows = Reading(@, Holders(c.candidate.ids[c.n + 1]))]
  /\ UNCHANGED <<entities, identifiers, decisions, reviews, faults>>

\* The entities of the type that were observed last, up to the limit: the
\* times of observation are the callers', any may be among them.
ListIntelligenceEntitiesByType(x) ==
  LET c == calls[x]
      typed == {entity \in DOMAIN entities : entity.type = c.candidate.type}
  IN
  /\ c.pc = "finding"
  /\ c.n = Len(c.candidate.ids)
  /\ \E listed \in SUBSET typed :
       /\ listed = typed \/ Cardinality(listed) = c.policy.limit
       /\ Cardinality(listed) <= c.policy.limit
       /\ calls' = [calls EXCEPT ![x].pc = "scoring", ![x].rows = Reading(@, listed)]
  /\ UNCHANGED <<entities, identifiers, decisions, reviews, faults>>

\* The identifiers of each entity are read when it is scored.
ListEntityIdentifiers(x, entity) ==
  LET c == calls[x] IN
  /\ c.pc = "scoring"
  /\ entity \in DOMAIN c.rows \ DOMAIN c.held
  /\ calls' = [calls EXCEPT ![x].held =
       [other \in DOMAIN @ \cup {entity} |-> IF other = entity THEN HeldBy(entity) ELSE @[other]]]
  /\ UNCHANGED <<entities, identifiers, decisions, reviews, faults>>

\* The decision replaces one on the same candidate.
PersistResolutionDecision(x, decision, target) ==
  LET c == calls[x] IN
  /\ decisions' = [candidate \in DOMAIN decisions \cup {c.candidate} |->
                     IF candidate = c.candidate THEN decision ELSE decisions[candidate]]
  /\ calls' = [calls EXCEPT ![x] =
       [c EXCEPT !.pc = IF c.kind = "resolve" THEN "done" ELSE "reading",
                 !.decision = decision, !.target = target, !.seen = DOMAIN c.rows,
                 !.rows = <<>>, !.held = <<>>, !.n = 0]]

ResolveEntity(x) ==
  LET c == calls[x] IN
  /\ c.pc = "scoring"
  /\ DOMAIN c.held = DOMAIN c.rows
  /\ \/ /\ DOMAIN c.rows = {}
        /\ PersistResolutionDecision(x, "new", CanonicalKey(c.candidate, "new"))
     \/ \E best \in DOMAIN c.rows :
          LET decision == Decision(c, best) IN
          /\ Best(c, best)
          /\ PersistResolutionDecision(x, decision,
               IF decision = "matched" THEN best ELSE CanonicalKey(c.candidate, decision))
  /\ UNCHANGED <<entities, identifiers, reviews, faults>>

-----------------------------------------------------------------------------
(* enrichIntelligenceEntity of the match, or upsertIntelligenceEntity *)

\* The row is read by its id or key, in a query of its own.
GetIntelligenceEntity(x) ==
  LET c == calls[x] IN
  /\ c.pc = "reading"
  /\ calls' = [calls EXCEPT ![x].pc = "writing",
                            ![x].existing = IF c.target \in DOMAIN entities THEN entities[c.target] ELSE NoRow]
  /\ UNCHANGED <<entities, identifiers, decisions, reviews, faults>>

\* Mutant of PersistEntity: the names of the candidate replace those read.
PersistEntityRenamed(x) ==
  LET c == calls[x]
      row == [Merge(c.existing, c.candidate) EXCEPT !.names = Names(c.candidate)]
  IN
  /\ c.pc = "writing"
  /\ entities' = [entity \in DOMAIN entities \cup {c.target} |-> IF entity = c.target THEN row ELSE entities[entity]]
  /\ calls' = [calls EXCEPT ![x].pc = "identifying"]
  /\ UNCHANGED <<identifiers, decisions, reviews, faults>>

\* What was read is merged and written back whole: of two calls at once, one
\* loses its names and attributes.
PersistEntity(x) ==
  LET c == calls[x]
      row == Merge(c.existing, c.candidate)
  IN
  /\ c.pc = "writing"
  /\ entities' = [entity \in DOMAIN entities \cup {c.target} |-> IF entity = c.target THEN row ELSE entities[entity]]
  /\ calls' = [calls EXCEPT ![x].pc = "identifying"]
  /\ UNCHANGED <<identifiers, decisions, reviews, faults>>

\* on conflict (entity_id, namespace, normalized_value) update: no new row.
AddEntityIdentifiers(x) ==
  LET c == calls[x] IN
  /\ c.pc = "identifying"
  /\ c.n < Len(c.candidate.ids)
  /\ LET id == c.candidate.ids[c.n + 1] IN
     identifiers' = IF id \in HeldBy(c.target) THEN identifiers
                    ELSE Append(identifiers, [entity |-> c.target, id |-> id, by |-> x])
  /\ calls' = [calls EXCEPT ![x].n = @ + 1]
  /\ UNCHANGED <<entities, decisions, reviews, faults>>

Uncertain == {"ambiguous", "review_required"}

Written(x) == calls[x].pc = "identifying" /\ calls[x].n = Len(calls[x].candidate.ids)

\* The events emitted in between change nothing here.
Ends(x) ==
  /\ Written(x)
  /\ calls[x].decision \notin Uncertain
  /\ calls' = [calls EXCEPT ![x].pc = "done"]
  /\ UNCHANGED <<entities, identifiers, decisions, reviews, faults>>

\* Mutant of EnqueueAnalystReview: only ambiguous candidates are reviewed.
EnqueueIfAmbiguous(x) ==
  /\ Written(x)
  /\ calls[x].decision \in Uncertain
  /\ reviews' = IF calls[x].decision = "ambiguous" THEN reviews \cup {calls[x].candidate} ELSE reviews
  /\ calls' = [calls EXCEPT ![x].pc = "done"]
  /\ UNCHANGED <<entities, identifiers, decisions, faults>>

EnqueueAnalystReview(x) ==
  /\ Written(x)
  /\ calls[x].decision \in Uncertain
  /\ reviews' = reviews \cup {calls[x].candidate}
  /\ calls' = [calls EXCEPT ![x].pc = "done"]
  /\ UNCHANGED <<entities, identifiers, decisions, faults>>

Faults ==
  /\ faults < MaxFaults
  /\ faults' = faults + 1

\* A failure to queue the review is caught; the review may have been stored,
\* if only its event failed.
ReviewFails(x) ==
  /\ Faults
  /\ Written(x)
  /\ calls[x].decision \in Uncertain
  /\ reviews' \in {reviews, reviews \cup {calls[x].candidate}}
  /\ calls' = [calls EXCEPT ![x].pc = "unreviewed"]
  /\ UNCHANGED <<entities, identifiers, decisions>>

\* Any other statement throws, or the process dies.
Fails(x) ==
  /\ Faults
  /\ x \in Active
  /\ calls' = [calls EXCEPT ![x].pc = "failed"]
  /\ UNCHANGED <<entities, identifiers, decisions, reviews>>

-----------------------------------------------------------------------------
Steps(x) ==
  \/ \E request \in Request, policy \in Policy : Begin(x, request[1], request[2], policy)
  \/ FindEntitiesByIdentifier(x)
  \/ ListIntelligenceEntitiesByType(x)
  \/ \E entity \in DOMAIN entities : ListEntityIdentifiers(x, entity)
  \/ ResolveEntity(x)
  \/ GetIntelligenceEntity(x)
  \/ PersistEntity(x)
  \/ AddEntityIdentifiers(x)
  \/ Ends(x)
  \/ EnqueueAnalystReview(x)
  \/ ReviewFails(x)
  \/ Fails(x)

Next == \E x \in Call : Steps(x)

Spec == Init /\ [][Next]_vars
-----------------------------------------------------------------------------
(* Properties *)

Row == [names: SUBSET Name, attributes: Attributes]

Decided == {"new", "matched"} \cup Uncertain

PartialFunction(f, S, T) == DOMAIN f \subseteq S /\ f \in [DOMAIN f -> T]

CallOK(c) ==
  /\ DOMAIN c = {"pc", "kind", "candidate", "policy", "begun", "n", "rows", "held", "seen", "decision", "target", "existing"}
  /\ c.pc \in {"finding", "scoring", "reading", "writing", "identifying", "done", "unreviewed", "failed"}
  /\ c.kind \in {"resolve", "commit", "upsert"}
  /\ c.candidate \in Candidate
  /\ c.policy \in Policy
  /\ c.begun \in Nat
  /\ c.n \in 0..Len(c.candidate.ids)
  /\ PartialFunction(c.rows, Entity, Row)
  /\ PartialFunction(c.held, Entity, SUBSET Identifier)
  /\ c.seen \subseteq Entity
  /\ c.decision \in Decided \cup {"none", "upsert"}
  /\ c.target \in Entity
  /\ c.existing \in Row

\* Type invariant.
TypeOK ==
  /\ PartialFunction(entities, Entity, Row)
  /\ identifiers \in Seq([entity: Entity, id: Identifier, by: Call])
  /\ PartialFunction(decisions, Candidate, Decided)
  /\ reviews \subseteq Candidate
  /\ DOMAIN calls = Call /\ \A x \in Call : calls[x] = Idle \/ CallOK(calls[x])
  /\ faults \in 0..MaxFaults

\* Thresholds under which an identifier or an exact name is never below the
\* review threshold, and two entities that share an identifier with the
\* candidate are ambiguous.  The defaults are such; the configuration need not.
Careful(policy) == policy.review <= 8600 /\ policy.delta > 500

\* Whatever updates get lost, an entity keeps the name it was created under.
KeyNameKept == \A entity \in DOMAIN entities : entity.name \in entities[entity].names

\* Under careful thresholds, a candidate taken for new is merged by its name
\* only into an entity that its call has not compared it with: one created
\* meanwhile, or beyond the limit of the list (resolveAndUpsertEntity).
NewMergesUnseen ==
  \A x \in Call :
    LET c == calls[x] IN
    c # Idle /\ c.decision = "new" /\ Careful(c.policy) => c.target \notin c.seen

\* An identifier on record when a call begins is recognised: its bearer is
\* not taken for new, however the reads interleave with other calls.
IdentifiersRecognised ==
  \A x \in Call : \A k \in DOMAIN identifiers :
    LET c == calls[x] IN
    c # Idle /\ k <= c.begun /\ Careful(c.policy)
      /\ (\E n \in DOMAIN c.candidate.ids : c.candidate.ids[n] = identifiers[k].id)
    => c.decision # "new"

\* Two entities share an identifier only through a call that resolved nothing,
\* or was uncertain, or began before the first had it, or whose candidate had
\* more than two identifiers, which outweigh another entity's one.
SharedIdentifiersExplained ==
  \A k, l \in DOMAIN identifiers :
    LET c == calls[identifiers[l].by] IN
    k < l /\ identifiers[k].id = identifiers[l].id =>
      \/ c.decision \in Uncertain \cup {"upsert"}
      \/ c.begun < k
      \/ Len(c.candidate.ids) > 2
      \/ ~Careful(c.policy)

\* Candidates put aside and reviews agree: a review is about an entity that is
\* there with its identifiers, and an entity put aside is under review, unless
\* a call on it is still under way, or failed, or could not queue the review.
PutAsideReviewed ==
  /\ \A candidate \in reviews :
       LET entity == CanonicalKey(candidate, "ambiguous") IN
       /\ entity \in DOMAIN entities
       /\ \A n \in DOMAIN candidate.ids : candidate.ids[n] \in HeldBy(entity)
  /\ \A entity \in DOMAIN entities :
       entity.discriminator \in {Plain} \cup reviews \/
       \E x \in Call :
         /\ calls[x].pc \in {"identifying", "unreviewed", "failed"}
         /\ calls[x].candidate = entity.discriminator
         /\ calls[x].decision \in Uncertain
=============================================================================
