---------------------------- MODULE MCWorkQueue ----------------------------
(* Instances of WorkQueue for TLC. *)
EXTENDS WorkQueue, TLC

CONSTANTS i1, i2, t1, t2, w1

\* Both ticks under the one configured id.
SharedWorkerId == t1 :> w1 @@ t2 :> w1

\* i1 outranks i2, as osint_watch (260) and intelligence_activation (500+) do.
TwoPriorities == i1 :> 500 @@ i2 :> 260

TwoAttempts == [i \in Item |-> 2]
=============================================================================
