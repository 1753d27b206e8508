------------------------------- MODULE Limits -------------------------------
(***************************************************************************)
(* The pure functions of src/config.ts that turn a user's reputation,      *)
(* contribution and age into a daily allowance, with the default numbers   *)
(* of the code (an unset environment variable falls back to them).         *)
(***************************************************************************)
EXTENDS Integers

MaxReputation == 100
Reputations == 0 .. MaxReputation
Tiers == 0 .. 4

\* A value for each band of reputation.
ByBand(rep, from80, from60, from40, from20, below) ==
    IF rep >= 80 THEN from80
    ELSE IF rep >= 60 THEN from60
    ELSE IF rep >= 40 THEN from40
    ELSE IF rep >= 20 THEN from20
    ELSE below

\* getQuotaLimit: the base allowance of a reputation.
GetQuotaLimit(rep) ==
    [calls  |-> ByBand(rep, 100, 40, 25, 10, 3),
     tokens |-> ByBand(rep, 300000, 150000, 100000, 40000, 10000)]

\* newUserQuota, the cap during a user's first seven days.
NewUserQuota == [calls |-> 50, tokens |-> 150000]

\* tierForCr: calls by others in the last week to a contribution tier.
TierForCr(cr) ==
    IF cr >= 500 THEN 4
    ELSE IF cr >= 200 THEN 3
    ELSE IF cr >= 50 THEN 2
    ELSE IF cr >= 1 THEN 1
    ELSE 0

\* tierBonus: extra calls a day.
TierBonus(tier) ==
    IF tier = 4 THEN 100
    ELSE IF tier = 3 THEN 60
    ELSE IF tier = 2 THEN 30
    ELSE IF tier = 1 THEN 10
    ELSE 0

Smaller(a, b) == IF a <= b THEN a ELSE b

\* Slips of the code, which the runs must notice, stand before the definition
\* they would replace.
EffectiveLimitsFlatForNew(rep, tier, isNew) ==
    LET base  == IF isNew THEN NewUserQuota ELSE GetQuotaLimit(rep)
        bonus == IF rep >= 60 THEN TierBonus(tier) ELSE 0
    IN  [calls |-> base.calls + bonus, tokens |-> base.tokens]

\* getUserEffectiveLimits.
EffectiveLimits(rep, tier, isNew) ==
    LET base  == GetQuotaLimit(rep)
        bonus == IF rep >= 60 THEN TierBonus(tier) ELSE 0
    IN  [calls  |-> (IF isNew THEN Smaller(base.calls, NewUserQuota.calls)
                     ELSE base.calls) + bonus,
         tokens |-> IF isNew THEN Smaller(base.tokens, NewUserQuota.tokens)
                    ELSE base.tokens]

----------------------------------------------------------------------------
(* A user moving through all reputations, contribution counts and ages.    *)
VARIABLES rep, cr, isNew

CrSamples == {0, 1, 49, 50, 199, 200, 499, 500, 1000}

Limit == EffectiveLimits(rep, TierForCr(cr), isNew)

Init == rep = MaxReputation /\ cr = 0 /\ isNew = TRUE

\* A penalty, or a reward, of one point.
RepMoves ==
    /\ rep' \in {rep - 1, rep + 1} \cap Reputations
    /\ UNCHANGED <<cr, isNew>>

CrMoves == cr' \in CrSamples /\ UNCHANGED <<rep, isNew>>

Ages == isNew /\ isNew' = FALSE /\ UNCHANGED <<rep, cr>>

Next == RepMoves \/ CrMoves \/ Ages

Spec == Init /\ [][Next]_<<rep, cr, isNew>>

\* The allowance never falls to zero and never exceeds the best band plus the
\* best bonus.
NeverZero ==
    /\ 3 <= Limit.calls /\ Limit.calls <= 200
    /\ 10000 <= Limit.tokens /\ Limit.tokens <= 300000

\* Allowance follows merit: a step that does not lower reputation or
\* contribution, and does not make the user newer, lowers no allowance.
MeritPays ==
    [][rep' >= rep /\ cr' >= cr
          => Limit'.calls >= Limit.calls /\ Limit'.tokens >= Limit.tokens
      ]_<<rep, cr, isNew>>
=============================================================================
