-------------------------- MODULE MCSourceIngestion --------------------------
(* Instances of SourceIngestion for TLC. *)
EXTENDS SourceIngestion

CONSTANTS s1, s2, s3, early, late, other

\* Two reports under one title, published one after the other, and another
\* one whose title has words in common with theirs.
Scores ==
  [p \in Report \X Report |->
    CASE p[1] = p[2] -> 100
      [] {p[1], p[2]} = {early, late} -> 85
      [] OTHER -> 60]
Dates == (early :> 1) @@ (late :> 2) @@ (other :> 2)

Plans == (s1 :> "ready") @@ (s2 :> "ready") @@ (s3 :> "auth_required")
Listings == (s1 :> {<<late>>, <<late, early>>}) @@ (s2 :> {<<early, other>>}) @@ (s3 :> {})
Batches == {<<s2, s1>>}

\* Run again at a used due time.
Patches == {[enabled |-> TRUE, next |-> 0]}

ExecutionSymmetry == Permutations(Execution)
=============================================================================
