------------------------------ MODULE MCQuota ------------------------------
(***************************************************************************)
(* Small instances of Quota: reputations 0 .. 4 with the bands of          *)
(* getQuotaLimit scaled down (1, 2 and 3 calls a day); u2 has a            *)
(* contribution bonus of two calls from reputation 2 on.                   *)
(***************************************************************************)
EXTENDS Quota, TLC

CONSTANTS u1, u2, r1, r2, r3, r4

Band(p) == IF p >= 3 THEN 3 ELSE IF p = 2 THEN 2 ELSE 1

ScaledBase == [p \in Reps |-> Band(p)]

ScaledLimit ==
    [u \in {u1, u2} |-> [p \in Reps |->
        [calls  |-> Band(p) + (IF u = u2 /\ p >= 2 THEN 2 ELSE 0),
         tokens |-> 2 * Band(p)]]]

\* One user.
LimitU1 == [u \in {u1} |-> ScaledLimit[u]]
UserOfU1 == [r \in Requests |-> u1]

\* r1, r2 and r3 belong to u1, r4 to u2.
UserOfBoth == [r \in Requests |-> IF r = r4 THEN u2 ELSE u1]

ScaledPenalty == [k \in Kinds |-> IF k = "limit_hit" THEN 2
                                  ELSE IF k = "malicious" THEN 3 ELSE 1]

RequestSymmetry == Permutations({r1, r2, r3})
=============================================================================
