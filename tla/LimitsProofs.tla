---------------------------- MODULE LimitsProofs ----------------------------
(***************************************************************************)
(* The allowance with the real numbers of config.ts: it is bounded on both *)
(* sides and follows merit.  MoreReputationNoLess discharges the part of   *)
(* the assumption AllowanceAssumption of module Quota that depends on the  *)
(* code, for every tier and age.                                           *)
(***************************************************************************)
EXTENDS Limits, TLAPS

InRange == rep \in Reputations /\ cr \in CrSamples /\ isNew \in BOOLEAN

\* getQuotaLimit: the base allowance is bounded and grows with reputation.
LEMMA BaseLimits ==
    ASSUME NEW p \in Int, NEW q \in Int, p <= q
    PROVE  /\ GetQuotaLimit(p).calls \in Int
           /\ GetQuotaLimit(p).calls >= 3
           /\ GetQuotaLimit(p).calls <= 100
           /\ GetQuotaLimit(p).calls <= GetQuotaLimit(q).calls
           /\ GetQuotaLimit(p).tokens \in Int
           /\ GetQuotaLimit(p).tokens >= 10000
           /\ GetQuotaLimit(p).tokens <= 300000
           /\ GetQuotaLimit(p).tokens <= GetQuotaLimit(q).tokens
<1>1. \A x \in Int :
         /\ GetQuotaLimit(x).calls = ByBand(x, 100, 40, 25, 10, 3)
         /\ GetQuotaLimit(x).tokens
               = ByBand(x, 300000, 150000, 100000, 40000, 10000)
  BY DEF GetQuotaLimit
<1>2. /\ ByBand(p, 100, 40, 25, 10, 3) \in Int
      /\ ByBand(p, 100, 40, 25, 10, 3) >= 3
      /\ ByBand(p, 100, 40, 25, 10, 3) <= 100
  BY DEF ByBand
<1>3. ByBand(p, 100, 40, 25, 10, 3)
         <= ByBand(q, 100, 40, 25, 10, 3)
  BY DEF ByBand
<1>4. /\ ByBand(p, 300000, 150000, 100000, 40000, 10000) \in Int
      /\ ByBand(p, 300000, 150000, 100000, 40000, 10000) >= 10000
      /\ ByBand(p, 300000, 150000, 100000, 40000, 10000) <= 300000
  BY DEF ByBand
<1>5. ByBand(p, 300000, 150000, 100000, 40000, 10000)
         <= ByBand(q, 300000, 150000, 100000, 40000, 10000)
  BY DEF ByBand
<1>6. QED
  BY <1>1, <1>2, <1>3, <1>4, <1>5

\* tierForCr and tierBonus: more contribution, no smaller bonus.
LEMMA BonusRange ==
    ASSUME NEW t \in Int
    PROVE  TierBonus(t) \in Int /\ TierBonus(t) >= 0 /\ TierBonus(t) <= 100
BY DEF TierBonus

LEMMA BonusInOrder ==
    ASSUME NEW t \in Int, NEW u \in Int, 0 <= t, t <= u, u <= 4
    PROVE  TierBonus(t) <= TierBonus(u)
BY DEF TierBonus

LEMMA TiersInOrder ==
    ASSUME NEW a \in Int, NEW b \in Int, a <= b
    PROVE  /\ TierForCr(a) \in Int
           /\ 0 <= TierForCr(a)
           /\ TierForCr(a) <= 4
           /\ TierForCr(a) <= TierForCr(b)
<1>1. TierForCr(a) \in Int /\ 0 <= TierForCr(a) /\ TierForCr(a) <= 4
  BY DEF TierForCr
<1>2. TierForCr(a) <= TierForCr(b)
  BY DEF TierForCr
<1>3. QED
  BY <1>1, <1>2

\* getUserEffectiveLimits as a sum of the capped base and the bonus.
LEMMA LimitsMonotone ==
    ASSUME NEW p \in Int, NEW q \in Int, p <= q,
           NEW t \in Int, NEW u \in Int, 0 <= t, t <= u, u <= 4,
           NEW m \in BOOLEAN, NEW n \in BOOLEAN, n => m
    PROVE  /\ EffectiveLimits(p, t, m).calls \in Int
           /\ EffectiveLimits(p, t, m).calls >= 3
           /\ EffectiveLimits(p, t, m).calls <= 200
           /\ EffectiveLimits(p, t, m).calls <= EffectiveLimits(q, u, n).calls
           /\ EffectiveLimits(p, t, m).tokens \in Int
           /\ EffectiveLimits(p, t, m).tokens >= 10000
           /\ EffectiveLimits(p, t, m).tokens <= 300000
           /\ EffectiveLimits(p, t, m).tokens
                 <= EffectiveLimits(q, u, n).tokens
<1> DEFINE Calls(x, tier, new) ==
              (IF new THEN Smaller(GetQuotaLimit(x).calls, 50)
               ELSE GetQuotaLimit(x).calls)
              + (IF x >= 60 THEN TierBonus(tier) ELSE 0)
           Tokens(x, new) ==
              IF new THEN Smaller(GetQuotaLimit(x).tokens, 150000)
              ELSE GetQuotaLimit(x).tokens
<1>1. \A x, tier, new : /\ EffectiveLimits(x, tier, new).calls
                              = Calls(x, tier, new)
                        /\ EffectiveLimits(x, tier, new).tokens = Tokens(x, new)
  BY DEF EffectiveLimits, NewUserQuota
<1>2. /\ TierBonus(t) \in Int /\ 0 <= TierBonus(t) /\ TierBonus(t) <= 100
      /\ TierBonus(u) \in Int /\ 0 <= TierBonus(u) /\ TierBonus(t) <= TierBonus(u)
  BY BonusRange, BonusInOrder
<1>3. /\ GetQuotaLimit(p).calls \in Int /\ GetQuotaLimit(q).calls \in Int
      /\ 3 <= GetQuotaLimit(p).calls /\ GetQuotaLimit(p).calls <= 100
      /\ GetQuotaLimit(p).calls <= GetQuotaLimit(q).calls
  BY BaseLimits
<1>4. /\ GetQuotaLimit(p).tokens \in Int /\ GetQuotaLimit(q).tokens \in Int
      /\ 10000 <= GetQuotaLimit(p).tokens /\ GetQuotaLimit(p).tokens <= 300000
      /\ GetQuotaLimit(p).tokens <= GetQuotaLimit(q).tokens
  BY BaseLimits
<1>5. /\ Calls(p, t, m) \in Int /\ Calls(p, t, m) >= 3
      /\ Calls(p, t, m) <= 200 /\ Calls(p, t, m) <= Calls(q, u, n)
  BY <1>2, <1>3 DEF Smaller
<1>6. /\ Tokens(p, m) \in Int /\ Tokens(p, m) >= 10000
      /\ Tokens(p, m) <= 300000 /\ Tokens(p, m) <= Tokens(q, n)
  BY <1>4 DEF Smaller
<1> HIDE DEF Calls, Tokens
<1>7. QED
  BY <1>1, <1>5, <1>6

\* getUserEffectiveLimits: for one tier and one age, a user of more reputation
\* is allowed no less, and nobody is left without any call.
THEOREM MoreReputationNoLess ==
    ASSUME NEW p \in Reputations, NEW q \in Reputations, p <= q,
           NEW t \in Tiers, NEW n \in BOOLEAN
    PROVE  /\ EffectiveLimits(p, t, n).calls > 0
           /\ EffectiveLimits(p, t, n).calls <= EffectiveLimits(q, t, n).calls
           /\ EffectiveLimits(p, t, n).tokens <= EffectiveLimits(q, t, n).tokens
<1>1. p \in Int /\ q \in Int /\ t \in Int /\ 0 <= t /\ t <= 4
  BY DEF Reputations, MaxReputation, Tiers
<1>2. QED
  BY <1>1, LimitsMonotone

LEMMA RangeInvariant == Spec => []InRange
<1>1. Init => InRange
  BY DEF Init, InRange, CrSamples, Reputations, MaxReputation
<1>2. InRange /\ [Next]_<<rep, cr, isNew>> => InRange'
  BY DEF InRange, Next, RepMoves, CrMoves, Ages
<1>3. QED
  BY <1>1, <1>2, PTL DEF Spec

LEMMA InRangeNumbers ==
    ASSUME InRange
    PROVE  rep \in Int /\ cr \in Int /\ isNew \in BOOLEAN
BY DEF InRange, Reputations, MaxReputation, CrSamples

\* The allowance of a user never falls to zero, whatever the penalties, and
\* never exceeds the best band plus the best bonus.
THEOREM AllowanceBounds == Spec => []NeverZero
<1>1. ASSUME InRange PROVE NeverZero
  <2>1. rep \in Int /\ cr \in Int /\ isNew \in BOOLEAN
    BY <1>1, InRangeNumbers
  <2>2. /\ TierForCr(cr) \in Int
        /\ 0 <= TierForCr(cr) /\ TierForCr(cr) <= 4
    BY <2>1, TiersInOrder
  <2>3. /\ Limit.calls \in Int /\ Limit.calls >= 3 /\ Limit.calls <= 200
        /\ Limit.tokens \in Int
        /\ Limit.tokens >= 10000 /\ Limit.tokens <= 300000
    BY <2>1, <2>2, LimitsMonotone DEF Limit
  <2>4. QED
    BY <2>3 DEF NeverZero
<1>2. QED
  BY <1>1, RangeInvariant, PTL

\* No step that keeps or raises reputation and contribution lowers the
\* allowance of a user.
THEOREM AllowanceFollowsMerit == Spec => MeritPays
<1> DEFINE Merit == rep' >= rep /\ cr' >= cr
               => Limit'.calls >= Limit.calls /\ Limit'.tokens >= Limit.tokens
<1>1. ASSUME InRange, InRange', Next
      PROVE  Merit
  <2>1. SUFFICES ASSUME rep' >= rep, cr' >= cr
                 PROVE  /\ Limit'.calls >= Limit.calls
                        /\ Limit'.tokens >= Limit.tokens
    OBVIOUS
  <2>2. /\ rep \in Int /\ cr \in Int /\ isNew \in BOOLEAN
        /\ rep' \in Int /\ cr' \in Int /\ isNew' \in BOOLEAN
    BY <1>1 DEF InRange, Reputations, MaxReputation, CrSamples
  <2>3. isNew' => isNew
    BY <1>1 DEF Next, RepMoves, CrMoves, Ages
  <2>4. /\ TierForCr(cr) \in Int /\ TierForCr(cr') \in Int
        /\ 0 <= TierForCr(cr) /\ TierForCr(cr') <= 4
        /\ TierForCr(cr) <= TierForCr(cr')
    BY <2>1, <2>2, TiersInOrder
  <2>5. \A t \in Int, u \in Int :
           0 <= t /\ t <= u /\ u <= 4 =>
             /\ EffectiveLimits(rep, t, isNew).calls
                   <= EffectiveLimits(rep', u, isNew').calls
             /\ EffectiveLimits(rep, t, isNew).tokens
                   <= EffectiveLimits(rep', u, isNew').tokens
             /\ EffectiveLimits(rep, t, isNew).calls \in Int
             /\ EffectiveLimits(rep', u, isNew').calls \in Int
             /\ EffectiveLimits(rep, t, isNew).tokens \in Int
             /\ EffectiveLimits(rep', u, isNew').tokens \in Int
    <3>1. SUFFICES ASSUME NEW t \in Int, NEW u \in Int,
                          0 <= t, t <= u, u <= 4
                   PROVE  /\ EffectiveLimits(rep, t, isNew).calls
                                <= EffectiveLimits(rep', u, isNew').calls
                          /\ EffectiveLimits(rep, t, isNew).tokens
                                <= EffectiveLimits(rep', u, isNew').tokens
                          /\ EffectiveLimits(rep, t, isNew).calls \in Int
                          /\ EffectiveLimits(rep', u, isNew').calls \in Int
                          /\ EffectiveLimits(rep, t, isNew).tokens \in Int
                          /\ EffectiveLimits(rep', u, isNew').tokens \in Int
      OBVIOUS
    <3>2. /\ EffectiveLimits(rep', u, isNew').calls \in Int
          /\ EffectiveLimits(rep', u, isNew').tokens \in Int
      <4>1. rep' <= rep' /\ 0 <= u /\ u <= u
        BY <2>2, <3>1
      <4>2. QED
        BY <2>2, <3>1, <4>1, LimitsMonotone
    <3>3. QED
      BY <2>1, <2>2, <2>3, <3>1, <3>2, LimitsMonotone
  <2>6. /\ EffectiveLimits(rep, TierForCr(cr), isNew).calls
              <= EffectiveLimits(rep', TierForCr(cr'), isNew').calls
        /\ EffectiveLimits(rep, TierForCr(cr), isNew).tokens
              <= EffectiveLimits(rep', TierForCr(cr'), isNew').tokens
        /\ EffectiveLimits(rep, TierForCr(cr), isNew).calls \in Int
        /\ EffectiveLimits(rep', TierForCr(cr'), isNew').calls \in Int
        /\ EffectiveLimits(rep, TierForCr(cr), isNew).tokens \in Int
        /\ EffectiveLimits(rep', TierForCr(cr'), isNew').tokens \in Int
    BY <2>4, <2>5
  <2>7. QED
    BY <2>6 DEF Limit
<1>2. QED
  BY <1>1, RangeInvariant, PTL DEF Spec, MeritPays
=============================================================================
