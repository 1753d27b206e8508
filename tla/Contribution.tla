---------------------------- MODULE Contribution ----------------------------
(***************************************************************************)
(* The contribution bonus (routes/cron.ts, refreshContributionTiers and    *)
(* purgeOldLogs, over the log that insertUsageLog of db/index.ts writes):  *)
(* the successful calls others made to a user's channels within a week     *)
(* become the cached tier of the user.  A refresh selects the counts,      *)
(* writes them user by user and clears the rest, a statement at a time,    *)
(* while calls, deletions, midnight and a second run interleave.  Calls    *)
(* reach the channels through the draw of the scheduler.                   *)
(*                                                                         *)
(* Ages are in days.  created_at is text, "2026-01-31 10:00:00", and is    *)
(* compared with the text of an ISO time, "2026-01-24T12:00:00.000Z": a    *)
(* space sorts before T, so a row of the cutoff's day is older than the    *)
(* cutoff whatever its hour, and only whole days count.                    *)
(***************************************************************************)
EXTENDS Scheduler

CONSTANTS
    Users, Channels, Crons,
    Owner,          \* [Channels -> Users]
    Serves,         \* [Channels -> names of models or "*"]
    Models,         \* models that are asked for
    Weight, Rates,  \* [Channels -> tenths]; possible success rates
    WeekDays,       \* 7
    KeepDays,       \* 30, purgeOldLogs
    Threshold,      \* [1 .. 4 -> calls], CONTRIBUTION_TIER_*_CR
    MaxRows,        \* bound: rows in the log at a time
    MaxAborts       \* bound: cron runs cut by an exception

ASSUME ContributionAssumption ==
    /\ IsFiniteSet(Users) /\ IsFiniteSet(Channels)
    /\ Owner \in [Channels -> Users]
    /\ Weight \in [Channels -> Nat] /\ Rates \subseteq Nat /\ Rates # {}
    /\ WeekDays \in Nat \ {0} /\ KeepDays \in Nat /\ WeekDays <= KeepDays
    /\ Threshold \in [1 .. 4 -> Nat \ {0}]
    /\ \A t \in 1 .. 4 : Threshold[t] <= Threshold[4]
    /\ MaxRows \in Nat /\ MaxAborts \in Nat

VARIABLES
    channels,   \* ids in the table channels
    logs,       \* the rows of usage_logs
    tier,       \* users.contribution_tier
    cached,     \* whether users.cr_cache_date is today's
    cron,       \* progress of each cron run
    aborts,     \* runs cut so far
    served      \* ghost: [Users -> successful calls of others, as far as they
                \*   matter for the tiers]

vars == <<channels, logs, tier, cached, cron, aborts, served>>

Tiers == 0 .. 4
Ages  == 0 .. KeepDays
\* n tells equal rows of a day apart.
LogRow == [n : 1 .. MaxRows, user : Users, channel : Channels, ok : BOOLEAN,
           age : Ages]

\* found: the users among the results; todo: the results still to be written;
\* late: midnight has passed since the SELECT.
Idle == [pc |-> "idle", found |-> {}, todo |-> {}, late |-> FALSE]

\* tierForCr: the highest tier whose threshold is reached.
TierOf(cr) ==
    CHOOSE t \in Tiers : /\ t > 0 => cr >= Threshold[t]
                         /\ \A u \in Tiers : u > t => cr < Threshold[u]

\* created_at > weekAgo.
Recent(l) == l.age < WeekDays

\* Slips of the code, which the runs must notice, stand before the definition
\* they would replace.
CountedOwnCalls(l, u) ==
    l.channel \in channels /\ Owner[l.channel] = u /\ l.ok /\ Recent(l)

\* The rows the SELECT counts for a user.
Counted(l, u) ==
    /\ l.channel \in channels /\ Owner[l.channel] = u
    /\ l.user # u /\ l.ok /\ Recent(l)

Cr(u) == Cardinality({l \in logs : Counted(l, u)})

Init ==
    /\ channels = Channels
    /\ logs = {}
    /\ tier = [u \in Users |-> 0]
    /\ cached = [u \in Users |-> FALSE]
    /\ cron = [k \in Crons |-> Idle]
    /\ aborts = 0
    /\ served = [u \in Users |-> 0]

----------------------------------------------------------------------------
\* Module ChannelPool moves the counts of requests and the success rates; any
\* of them may be met here.  listCandidateChannels: each channel once, in any
\* order (ORDER BY total_requests) ...
Listings == SetToSeqs(channels)

\* ... as the scheduler sees them.
Pool(listing, rate) ==
    [i \in DOMAIN listing |->
        [id |-> listing[i], models |-> Serves[listing[i]],
         weight |-> Weight[listing[i]], rate |-> rate[listing[i]]]]

\* The numbers that draw channel c.
Draws(c, listing, rate, model) ==
    {n \in 1 .. Total(Pool(listing, rate), model) :
        PickChannel(Pool(listing, rate), model, n).id = c}

\* The channels some draw gives.
Drawn(model) ==
    {c \in channels : \E listing \in Listings, rate \in [Channels -> Rates] :
        Draws(c, listing, rate, model) # {}}

\* insertUsageLog, for a call of any user.
Call(u, model) ==
    /\ Cardinality(logs) < MaxRows
    /\ \E c \in Drawn(model), ok \in BOOLEAN :
        LET equal == {l \in logs : /\ l.user = u /\ l.channel = c
                                   /\ l.ok = ok /\ l.age = 0}
            row   == [n |-> Cardinality(equal) + 1, user |-> u, channel |-> c,
                      ok |-> ok, age |-> 0]
        IN  /\ logs' = logs \cup {row}
            /\ served' = IF /\ ok /\ u # Owner[c]
                            /\ served[Owner[c]] < Threshold[4]
                         THEN [served EXCEPT ![Owner[c]] = @ + 1] ELSE served
    /\ UNCHANGED <<channels, tier, cached, cron, aborts>>

\* deleteChannel; the log keeps its rows.
DeleteChannel(c) ==
    /\ c \in channels
    /\ channels' = channels \ {c}
    /\ UNCHANGED <<logs, tier, cached, cron, aborts, served>>

\* refreshContributionTiers: the SELECT over the last week.
CronSelect(k) ==
    LET contributors == {u \in Users : Cr(u) > 0}
    IN  /\ cron[k].pc = "idle"
        /\ cron' = [cron EXCEPT ![k] =
                      [pc |-> "write", found |-> contributors, late |-> FALSE,
                       todo |-> {<<u, TierOf(Cr(u))>> : u \in contributors}]]
        /\ UNCHANGED <<channels, logs, tier, cached, aborts, served>>

CronWriteNoDate(k) ==
    /\ cron[k].pc = "write"
    /\ \E r \in cron[k].todo :
        /\ tier' = [tier EXCEPT ![r[1]] = r[2]]
        /\ cron' = [cron EXCEPT ![k].todo = @ \ {r}]
    /\ UNCHANGED <<channels, logs, cached, aborts, served>>

\* One UPDATE per result, dated at that moment.
CronWrite(k) ==
    /\ cron[k].pc = "write"
    /\ \E r \in cron[k].todo :
        /\ tier' = [tier EXCEPT ![r[1]] = r[2]]
        /\ cached' = [cached EXCEPT ![r[1]] = TRUE]
        /\ cron' = [cron EXCEPT ![k].todo = @ \ {r}]
    /\ UNCHANGED <<channels, logs, aborts, served>>

ClearedNone(u) == FALSE

\* Whom the reset clears: tiers cached before today.
Cleared(u) == tier[u] > 0 /\ ~cached[u]

\* The reset of the others, when there were results.
CronReset(k) ==
    /\ cron[k].pc = "write" /\ cron[k].todo = {}
    /\ tier' = [u \in Users |->
                  IF cron[k].found # {} /\ Cleared(u) THEN 0 ELSE tier[u]]
    /\ cron' = [cron EXCEPT ![k].pc = "purge"]
    /\ UNCHANGED <<channels, logs, cached, aborts, served>>

\* purgeOldLogs: whole days again.
Purged(l) == l.age >= KeepDays

CronPurge(k) ==
    /\ cron[k].pc = "purge"
    /\ logs' = {l \in logs : ~Purged(l)}
    /\ cron' = [cron EXCEPT ![k] = Idle]
    /\ UNCHANGED <<channels, tier, cached, aborts, served>>

\* An exception of a statement or of a task in between ends the run.
CronAborts(k) ==
    /\ cron[k].pc # "idle" /\ aborts < MaxAborts
    /\ aborts' = aborts + 1
    /\ cron' = [cron EXCEPT ![k] = Idle]
    /\ UNCHANGED <<channels, logs, tier, cached, served>>

Older(age) == IF age < KeepDays THEN age + 1 ELSE age

NextDay ==
    /\ logs' = {[l EXCEPT !.age = Older(@)] : l \in logs}
    /\ cached' = [u \in Users |-> FALSE]
    /\ cron' = [k \in Crons |->
                  IF cron[k].pc = "write" THEN [cron[k] EXCEPT !.late = TRUE]
                  ELSE cron[k]]
    /\ UNCHANGED <<channels, tier, aborts, served>>

CronRefresh(k) == CronSelect(k) \/ CronWrite(k) \/ CronReset(k) \/ CronPurge(k)

Next ==
    \/ \E u \in Users, model \in Models : Call(u, model)
    \/ \E c \in Channels : DeleteChannel(c)
    \/ \E k \in Crons : CronRefresh(k) \/ CronAborts(k)
    \/ NextDay

\* Days pass and the runs of the scheduler proceed.
Spec == /\ Init /\ [][Next]_vars
        /\ WF_vars(NextDay) /\ \A k \in Crons : WF_vars(CronRefresh(k))

----------------------------------------------------------------------------
TypeOK ==
    /\ channels \subseteq Channels
    /\ logs \subseteq LogRow
    /\ tier \in [Users -> Tiers]
    /\ cached \in [Users -> BOOLEAN]
    /\ cron \in [Crons -> [pc : {"idle", "write", "purge"}, found : SUBSET Users,
                          todo : SUBSET (Users \X Tiers), late : BOOLEAN]]
    /\ aborts \in 0 .. MaxAborts
    /\ served \in [Users -> 0 .. Threshold[4]]

\* The draw is fair in every pool: in whatever order the channels are listed, one
\* that serves the model is drawn in proportion to its weight and success rate,
\* the others never; one whose success rate has fallen to zero keeps a share, so
\* that it can recover.
DrawProportional ==
    \A model \in Models, c \in channels :
        \A listing \in Listings, rate \in [Channels -> Rates] :
            Cardinality(Draws(c, listing, rate, model)) =
                IF model \in Serves[c] \/ "*" \in Serves[c]
                THEN Floor(Weight[c], 1) * Floor(rate[c], 1) ELSE 0

\* A tier is earned: others called the user's channels with success at least
\* as often as the tier asks for.
TierEarned ==
    \A u \in Users : tier[u] > 0 => served[u] >= Threshold[tier[u]]

\* A run clears only users it has not counted, unless midnight passes between
\* its SELECT and its reset.
ContributorsKeepTier ==
    [][\A k \in Crons, u \in Users :
         /\ cron[k].pc = "write" /\ cron'[k].pc = "purge"
         /\ ~cron[k].late /\ u \in cron[k].found
         => tier'[u] = tier[u]]_vars

\* A user whose contribution is over loses the bonus for good, as long as
\* somebody else contributes.
BonusFades ==
    \A u \in Users :
        <>[](Cr(u) = 0 /\ \E v \in Users : Cr(v) > 0) => <>[](tier[u] = 0)
=============================================================================
