----------------------------- MODULE MCRateLimit -----------------------------
(* Small instances of RateLimit.                                           *)
EXTENDS RateLimit, TLC

CONSTANTS r1, r2, lead, foll, k1, k2

\* A bucket of one request that takes two ticks to refill.
steady == [rate |-> 1, burst |-> 2]
\* Twice that: another policy for the same key.
bursty == [rate |-> 2, burst |-> 4]

From(n, k, p) == [node |-> n, key |-> k, policy |-> p]

MCPolicy == {steady, bursty}

\* A request at the follower; another for the same key, for a second key
\* under the other policy, or under the other policy at the leader.
MCOrigin ==
    (r1 :> {From(foll, k1, steady)})
    @@ (r2 :> {From(foll, k1, steady), From(foll, k2, bursty),
               From(lead, k1, bursty)})
=============================================================================
