------------------------------- MODULE Quota -------------------------------
(***************************************************************************)
(* The daily allowance of the users: the quota guard in front of           *)
(* POST /v1/chat/completions (middleware/quota.ts, spendCall and addTokens *)
(* of db/index.ts), the penalties (utils/audit.ts), and the cron's part    *)
(* (purgeOldQuotas, refreshReputations of routes/cron.ts).                 *)
(*                                                                         *)
(* Each request works on the reputation it read when its token was checked *)
(* and on the date it computes at each statement; days pass, requests and  *)
(* cron runs interleave, and a request may end anywhere (an exception or a *)
(* restart of the process).  The numbers of config.ts are constants here;  *)
(* module Limits has their real values.                                    *)
(***************************************************************************)
EXTENDS Integers, FiniteSets

CONSTANTS
    Users, Requests, Crons,
    UserOf,         \* [Requests -> Users]
    Submits,        \* requests that submit a channel and are turned down for
                    \* its key or domain; the others are gateway calls
    RepMax,         \* 100
    Limit,          \* [Users -> [0 .. RepMax -> [calls, tokens]]],
                    \*   getUserEffectiveLimits
    BaseCalls,      \* [0 .. RepMax -> calls], getQuotaLimit
    Penalty,        \* [kinds -> points], penaltyValue
    TokenUse,       \* possible token totals of an upstream answer: the code
                    \*   takes any number, a negative or broken one too
    Daily, GoodBonus, GoodRep, GoodDays,   \* 2, 5, 80 and 3 of J.4
    KeepDays,       \* 7, the age purgeOldQuotas keeps
    InitRep,        \* reputation the users start with
    MaxDay, MaxAborts       \* bounds: days observed, failing cron runs

Kinds == {"limit_hit", "burst", "invalid_key", "malicious"}
Days  == 0 .. MaxDay
Reps  == 0 .. RepMax

ASSUME QuotaAssumption ==
    /\ IsFiniteSet(Requests)
    /\ UserOf \in [Requests -> Users]
    /\ Submits \subseteq Requests
    /\ RepMax \in Nat /\ MaxDay \in Nat /\ MaxAborts \in Nat
    /\ Limit \in [Users -> [Reps -> [calls : Nat, tokens : Nat]]]
    /\ BaseCalls \in [Reps -> Nat]
    /\ Penalty \in [Kinds -> Nat]
    /\ TokenUse \subseteq Int
    /\ Daily \in Nat /\ GoodBonus \in Nat /\ GoodDays \in Nat
    /\ GoodRep \in Reps /\ InitRep \in Reps
    /\ KeepDays \in Nat \ {0}

\* Reputation never takes the allowance away, and more of it gives no less
\* (theorems about Limits establish it for the real numbers).
ASSUME AllowanceAssumption ==
    \A u \in Users, p, q \in Reps :
        /\ Limit[u][p].calls > 0
        /\ p <= q => Limit[u][p].calls <= Limit[u][q].calls
                     /\ Limit[u][p].tokens <= Limit[u][q].tokens

VARIABLES
    reputation,     \* users.reputation
    quota,          \* the table user_quotas
    penlog,         \* the penalty rows in usage_logs
    day,            \* the UTC date
    pc, seen, on, kind,     \* per request: control, the reputation and the
                            \* date it works with, the penalty it incurs
    cpc, good, aborts       \* per cron run: control, the users selected for
                            \* the bonus; runs that failed

quotaVars == <<reputation, quota, penlog>>
reqVars   == <<pc, seen, on, kind>>
cronVars  == <<cpc, good, aborts>>
vars == <<reputation, quota, penlog, day, pc, seen, on, kind, cpc, good, aborts>>

NoRow == [exists |-> FALSE, calls |-> 0, tokens |-> 0]
QuotaRow == [exists : BOOLEAN, calls : Nat, tokens : Int]

\* Slips of the code, which the runs must notice, stand before the definition
\* they would replace.
AtMostUncapped(n, cap) == n

Clamp(n) == IF n < 0 THEN 0 ELSE IF n > RepMax THEN RepMax ELSE n
AtMost(n, cap) == IF n <= cap THEN n ELSE cap

Goto(r, p) == pc' = [pc EXCEPT ![r] = p]

----------------------------------------------------------------------------
(* The handler. *)

\* requireBearerToken loads the user row the whole request works with.
Authenticate(r) ==
    /\ pc[r] = "start"
    /\ r \notin Submits
    /\ seen' = [seen EXCEPT ![r] = reputation[UserOf[r]]]
    /\ Goto(r, "insert")
    /\ UNCHANGED <<quotaVars, day, on, kind, cronVars>>

InsertRowOrReplace(r) ==
    /\ pc[r] = "insert"
    /\ on' = [on EXCEPT ![r] = day]
    /\ quota' = [quota EXCEPT ![<<UserOf[r], day>>] =
                    [exists |-> TRUE, calls |-> 0, tokens |-> 0]]
    /\ Goto(r, "spend")
    /\ UNCHANGED <<reputation, penlog, day, seen, kind, cronVars>>

\* spendCall: INSERT OR IGNORE of today's row ...
InsertRow(r) ==
    /\ pc[r] = "insert"
    /\ on' = [on EXCEPT ![r] = day]
    /\ quota' = [quota EXCEPT ![<<UserOf[r], day>>].exists = TRUE]
    /\ Goto(r, "spend")
    /\ UNCHANGED <<reputation, penlog, day, seen, kind, cronVars>>

MaySpendOneMore(u, d, rep) ==
    quota[u, d].exists /\ quota[u, d].calls <= Limit[u][rep].calls

MaySpendOneLess(u, d, rep) ==
    quota[u, d].exists /\ quota[u, d].calls + 1 < Limit[u][rep].calls

\* ... and the UPDATE with its condition calls < limit.
MaySpend(u, d, rep) ==
    quota[u, d].exists /\ quota[u, d].calls < Limit[u][rep].calls

Spend(r) ==
    /\ pc[r] = "spend"
    /\ MaySpend(UserOf[r], on[r], seen[r])
    /\ quota' = [quota EXCEPT ![<<UserOf[r], on[r]>>].calls = @ + 1]
    /\ Goto(r, "admitted")
    /\ UNCHANGED <<reputation, penlog, day, seen, on, kind, cronVars>>

Refuse(r) ==
    /\ pc[r] = "spend"
    /\ ~MaySpend(UserOf[r], on[r], seen[r])
    /\ Goto(r, "classify")
    /\ UNCHANGED <<quotaVars, day, seen, on, kind, cronVars>>

\* The guard reads the counter again, of the date it is now.
RefusalKind(u, d, rep) ==
    IF quota[u, d].calls >= BaseCalls[rep] * 3 THEN "burst" ELSE "limit_hit"

Classify(r) ==
    /\ pc[r] = "classify"
    /\ kind' = [kind EXCEPT ![r] = RefusalKind(UserOf[r], day, seen[r])]
    /\ Goto(r, "penalize")
    /\ UNCHANGED <<quotaVars, day, seen, on, cronVars>>

\* POST /api/channels turns a submission down.
RejectSubmit(r) ==
    /\ pc[r] = "start"
    /\ r \in Submits
    /\ \E k \in {"invalid_key", "malicious"} : kind' = [kind EXCEPT ![r] = k]
    /\ Goto(r, "penalize")
    /\ UNCHANGED <<quotaVars, day, seen, on, cronVars>>

\* penalize: updateReputation ...
Penalize(r) ==
    /\ pc[r] = "penalize"
    /\ reputation' =
          [reputation EXCEPT ![UserOf[r]] = Clamp(@ - Penalty[kind[r]])]
    /\ Goto(r, "penlog")
    /\ UNCHANGED <<quota, penlog, day, seen, on, kind, cronVars>>

\* ... then the audit row the cron looks for.
LogPenalty(r) ==
    /\ pc[r] = "penlog"
    /\ penlog' = penlog \cup {[req |-> r, date |-> day]}
    /\ Goto(r, "refused")
    /\ UNCHANGED <<reputation, quota, day, seen, on, kind, cronVars>>

\* The proxy ends, with or without a successful upstream answer (413 and 400
\* included), or dies: nothing is given back.
EndCall(r) ==
    /\ pc[r] = "admitted"
    /\ Goto(r, "done")
    /\ UNCHANGED <<quotaVars, day, seen, on, kind, cronVars>>

\* addTokens: an UPDATE of today's row that is skipped when the row is missing
\* or the total would pass the limit; the proxy ignores what it returns.  A
\* database failure behind it makes the proxy repeat the attempt, so a call
\* may get here again.
TokensFit(u, d, rep, n) ==
    quota[u, d].exists /\ quota[u, d].tokens + n <= Limit[u][rep].tokens

AddTokens(r) ==
    /\ pc[r] = "admitted"
    /\ \E n \in TokenUse :
          quota' = IF TokensFit(UserOf[r], day, seen[r], n)
                   THEN [quota EXCEPT ![<<UserOf[r], day>>].tokens = @ + n]
                   ELSE quota
    /\ UNCHANGED <<reputation, penlog, day, reqVars, cronVars>>

\* An exception or a restart ends the request between two statements.
Dies(r) ==
    /\ pc[r] \in {"insert", "spend", "classify", "penalize", "penlog"}
    /\ Goto(r, "dead")
    /\ UNCHANGED <<quotaVars, day, seen, on, kind, cronVars>>

----------------------------------------------------------------------------
(* The cron and the clock. *)

\* purgeOldQuotas(7).
Purged(u, d) == d < day - KeepDays

CronPurge(k) ==
    /\ cpc[k] = "idle"
    /\ quota' = [x \in Users \X Days |->
                    IF Purged(x[1], x[2]) THEN NoRow ELSE quota[x]]
    /\ cpc' = [cpc EXCEPT ![k] = "daily"]
    /\ UNCHANGED <<reputation, penlog, day, reqVars, good, aborts>>

CronDailyBelowGood(k) ==
    /\ cpc[k] = "daily"
    /\ reputation' = [u \in Users |-> IF reputation[u] < GoodRep
                                      THEN AtMost(reputation[u] + Daily, RepMax)
                                      ELSE reputation[u]]
    /\ cpc' = [cpc EXCEPT ![k] = "select"]
    /\ UNCHANGED <<quota, penlog, day, reqVars, good, aborts>>

\* refreshReputations: +Daily for everybody ...
CronDaily(k) ==
    /\ cpc[k] = "daily"
    /\ reputation' = [u \in Users |-> AtMost(reputation[u] + Daily, RepMax)]
    /\ cpc' = [cpc EXCEPT ![k] = "select"]
    /\ UNCHANGED <<quota, penlog, day, reqVars, good, aborts>>

\* ... a SELECT of the users below GoodRep without a recent penalty row.  The
\* text dates compare such that the row's day must lie after day - GoodDays.
GoodStandingAll ==
    {u \in Users :
        \A p \in penlog : UserOf[p.req] = u => p.date <= day - GoodDays}

GoodStanding ==
    {u \in Users :
        /\ reputation[u] < GoodRep
        /\ \A p \in penlog : UserOf[p.req] = u => p.date <= day - GoodDays}

CronSelect(k) ==
    /\ cpc[k] = "select"
    /\ good' = [good EXCEPT ![k] = GoodStanding]
    /\ cpc' = [cpc EXCEPT ![k] = "bonus"]
    /\ UNCHANGED <<quotaVars, day, reqVars, aborts>>

\* ... and one UPDATE for each of them.
CronBonus(k) ==
    /\ cpc[k] = "bonus"
    /\ \E u \in good[k] :
          /\ reputation' =
                [reputation EXCEPT ![u] = AtMost(@ + GoodBonus, GoodRep)]
          /\ good' = [good EXCEPT ![k] = @ \ {u}]
    /\ UNCHANGED <<quota, penlog, day, reqVars, cpc, aborts>>

CronEnds(k) ==
    /\ cpc[k] = "bonus"
    /\ good[k] = {}
    /\ cpc' = [cpc EXCEPT ![k] = "idle"]
    /\ UNCHANGED <<quotaVars, day, reqVars, good, aborts>>

\* One task throws and the rest of the run is skipped.
CronAborts(k) ==
    /\ aborts < MaxAborts
    /\ cpc[k] # "idle"
    /\ aborts' = aborts + 1
    /\ cpc' = [cpc EXCEPT ![k] = "idle"]
    /\ good' = [good EXCEPT ![k] = {}]
    /\ UNCHANGED <<quotaVars, day, reqVars>>

\* Midnight UTC.  The two statements of spendCall do not straddle KeepDays
\* days (assumption SpendFitsInDays).
SpendFitsInDays == \A r \in Requests : pc[r] = "spend" => day < on[r] + KeepDays

NextDay ==
    /\ day < MaxDay
    /\ SpendFitsInDays
    /\ day' = day + 1
    /\ UNCHANGED <<quotaVars, reqVars, cronVars>>

----------------------------------------------------------------------------
Init ==
    /\ reputation = [u \in Users |-> InitRep]
    /\ quota = [x \in Users \X Days |-> NoRow]
    /\ penlog = {}
    /\ day = 0
    /\ pc = [r \in Requests |-> "start"]
    /\ seen = [r \in Requests |-> 0]
    /\ on = [r \in Requests |-> 0]
    /\ kind = [r \in Requests |-> "none"]
    /\ cpc = [k \in Crons |-> "idle"]
    /\ good = [k \in Crons |-> {}]
    /\ aborts = 0

Handle(r) ==
    \/ Authenticate(r) \/ InsertRow(r) \/ Spend(r) \/ Refuse(r)
    \/ Classify(r) \/ RejectSubmit(r) \/ Penalize(r) \/ LogPenalty(r)
    \/ AddTokens(r) \/ EndCall(r)

CronWorks(k) ==
    CronPurge(k) \/ CronDaily(k) \/ CronSelect(k) \/ CronBonus(k) \/ CronEnds(k)

Next ==
    \/ \E r \in Requests : Handle(r) \/ Dies(r)
    \/ \E k \in Crons : CronWorks(k) \/ CronAborts(k)
    \/ NextDay

Spec == Init /\ [][Next]_vars

\* The scheduler starts the cron again and again.  Nothing is asked of the
\* requests, which may wait for the upstream or the database for ever.
FairSpec == Spec /\ \A k \in Crons : WF_vars(CronWorks(k))

----------------------------------------------------------------------------
Ended == {"done", "refused", "dead"}

TypeOK ==
    /\ reputation \in [Users -> Reps]
    /\ quota \in [Users \X Days -> QuotaRow]
    /\ penlog \subseteq [req : Requests, date : Days]
    /\ day \in Days
    /\ pc \in [Requests -> {"start", "insert", "spend", "admitted", "classify",
                            "penalize", "penlog"} \cup Ended]
    /\ seen \in [Requests -> Reps]
    /\ on \in [Requests -> Days]
    /\ kind \in [Requests -> Kinds \cup {"none"}]
    /\ \A r \in Requests : pc[r] = "penalize" => kind[r] \in Kinds
    /\ cpc \in [Crons -> {"idle", "daily", "select", "bonus"}]
    /\ good \in [Crons -> SUBSET Users]
    /\ aborts \in 0 .. MaxAborts

\* The calls of user u that passed the guard on day d.
Charged(u, d) ==
    {r \in Requests :
        UserOf[r] = u /\ on[r] = d /\ pc[r] \in {"admitted", "done"}}

\* Each admitted call is charged once, to the day it was admitted on, however
\* concurrent calls, midnight, the purge and dying requests interleave.
CallsMatchCharges ==
    \A u \in Users, d \in Days :
        quota[u, d].exists => quota[u, d].calls = Cardinality(Charged(u, d))

\* The users' side of the bargain: a call is refused only if that user has
\* spent the whole allowance of that day before (stale reputations included).
Turned == {"classify", "penalize", "penlog", "refused"}
RefusedOnlyWhenSpent ==
    \A r \in Requests \ Submits : pc[r] \in Turned =>
        Cardinality(Charged(UserOf[r], on[r])) >= Limit[UserOf[r]][seen[r]].calls

\* The gateway's side: nobody is served more calls a day than the best
\* reputation would allow, with any number of calls in flight at once.
NobodyOverspends ==
    \A u \in Users, d \in Days :
        Cardinality(Charged(u, d)) <= Limit[u][RepMax].calls

\* The tokens recorded for a day stay within the allowance.
TokensWithinLimit ==
    \A u \in Users, d \in Days : quota[u, d].tokens <= Limit[u][RepMax].tokens

\* With one cron run at a time only a penalty takes reputation away.
OnlyPenaltiesCost ==
    [][\A u \in Users : reputation'[u] < reputation[u]
          => \E r \in Requests : UserOf[r] = u /\ Penalize(r)]_vars

\* The two statements of spendCall, with the purge, midnight, concurrent calls
\* and requests that die between them, are as good as one indivisible decision
\* against a ledger that nothing is ever taken out of.
GatewayCalls == Requests \ Submits
StageOf(p) ==
    CASE p = "start"              -> "new"
      [] p = "insert"             -> "entered"
      [] p = "spend"              -> "dated"
      [] p \in {"admitted", "done"} -> "admitted"
      [] p \in Turned             -> "refused"
      [] p = "dead"               -> "gone"
Guard == INSTANCE CallGuard WITH
            Requests <- GatewayCalls,
            Calls    <- [u \in Users |-> [p \in Reps |-> Limit[u][p].calls]],
            spent    <- [x \in Users \X Days |-> Cardinality(Charged(x[1], x[2]))],
            stage    <- [r \in GatewayCalls |-> StageOf(pc[r])],
            rep      <- [r \in GatewayCalls |-> seen[r]],
            date     <- [r \in GatewayCalls |-> on[r]]
ImplementsGuard == Guard!Spec

\* Penalties are forgiven: reputation returns to its maximum for good, at
\* whatever step the requests in flight stop, and whatever cron runs fail.
ReputationRecovers == \A u \in Users : <>[](reputation[u] = RepMax)
=============================================================================
