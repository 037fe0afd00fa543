-------------------------- MODULE MCEntityResolution --------------------------
(* Instances of EntityResolution for TLC. *)
EXTENDS EntityResolution, TLC

CONSTANTS n1, n2, i, j, company, country, india

\* Calls differ in nothing but their name.
CallSymmetry == Permutations(Call)

Names2 == {n1, n2}

\* The two names share a token of three.
Similar == [m \in Names2 |-> [n \in Names2 |-> IF m = n THEN 100 ELSE 33]]

No == [key \in {country} |-> NoValue]
Yes == [key \in {country} |-> india]

Named(name, ids, attributes) ==
  [type |-> company, name |-> name, aliases |-> {}, ids |-> ids, attributes |-> attributes, observedAt |-> 0]

Acme == Named(n1, <<i>>, No)
AcmeThere == Named(n1, <<>>, Yes)
Renamed == Named(n2, <<i, j>>, No)
Other == Named(n2, <<j>>, Yes)

Candidates == {Acme, AcmeThere, Renamed, Other}

Requests == {<<"commit", Acme>>, <<"commit", AcmeThere>>, <<"commit", Renamed>>, <<"commit", Other>>,
             <<"upsert", Other>>, <<"resolve", Renamed>>}

\* The defaults, with lists of one or two entities instead of 500.
Defaults == {[auto |-> 9200, review |-> 7200, delta |-> 600, limit |-> limit] : limit \in {1, 2}}
=============================================================================
