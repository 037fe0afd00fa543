-------------------------- MODULE MCContinuousWatch --------------------------
(* Instances of ContinuousWatch for TLC. *)
EXTENDS ContinuousWatch

\* Executions differ in nothing but their name.
ExecutionSymmetry == Permutations(Execution)

\* Switch off; switch on; no reviews and another time.  The rest is omitted.
OffOnOrQuiet ==
  {[enabled |-> FALSE, review |-> TRUE, next |-> 0, omits |-> {"review", "next"}],
   [enabled |-> TRUE, review |-> TRUE, next |-> 0, omits |-> {"review", "next"}],
   [enabled |-> TRUE, review |-> FALSE, next |-> 1, omits |-> {"enabled"}]}
=============================================================================
