---------------------------- MODULE WholeTokens ----------------------------
(***************************************************************************)
(* Token buckets in whole tokens and without a clock: between two calls a  *)
(* bucket may have gained anything up to a full one.  The gateway of       *)
(* 06-internal-inference-access uses its limiter this way (Gateway), and   *)
(* buckets with a clock and parts of tokens behave like this (RateLimiter, *)
(* whose code is that of UserRateLimiter but for the bound on its table).  *)
(***************************************************************************)
EXTENDS Integers

CONSTANTS Users, Burst

VARIABLE level     \* the whole tokens in each bucket after its last call

FullBuckets == [u \in Users |-> Burst]

\* allow(u) returns True: one of the n tokens the bucket has by now is taken.
Grant(u) ==
  \E n \in 1..Burst :
    /\ n >= level[u]
    /\ level' = [level EXCEPT ![u] = n - 1]

\* allow(u) returns False: the bucket was empty and has gained no whole token.
Refuse(u) == level[u] = 0 /\ UNCHANGED level

=============================================================================
