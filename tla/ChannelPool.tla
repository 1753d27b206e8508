---------------------------- MODULE ChannelPool ----------------------------
(***************************************************************************)
(* The shared pool of upstream channels and everybody who changes it:      *)
(*   - the calls to POST /v1/chat/completions (routes/proxy.ts), each the  *)
(*     failover loop of one client request, interleaved at every await;    *)
(*   - the owners of the channels (routes/channels.tsx);                   *)
(*   - the daily cron (routes/cron.ts), possibly two runs at once, since   *)
(*     node/entry.ts starts one at boot and POST /cron/run starts others.  *)
(*                                                                         *)
(* A request starts behind the quota guard (module Quota).  The model an   *)
(* API call names is abstracted to the set of channels that serve it.      *)
(***************************************************************************)
EXTENDS ChannelRow, FiniteSets

CONSTANTS
    Channels,           \* channel ids, one per submission
    Requests,           \* client calls
    Crons,              \* runs of runDailyTasks that may overlap
    NoChannel,
    Serves,             \* [Requests -> SUBSET Channels], modelsMatch
    Undecryptable,      \* channels whose key decryptSecret rejects
    Replies,            \* what the upstreams may answer
    MaxRetries,         \* MAX_PROXY_RETRIES
    BatchSize,          \* the 50 of validateChannelsBatch
    MaxDbErrors         \* bound: how often a database call fails

ASSUME PoolAssumption ==
    /\ IsFiniteSet(Requests)
    /\ NoChannel \notin Channels
    /\ Serves \in [Requests -> SUBSET Channels]
    /\ Undecryptable \subseteq Channels
    /\ MaxRetries \in Nat
    /\ BatchSize \in Nat
    /\ MaxDbErrors \in Nat

VARIABLES
    row,        \* the table channels
    logs,       \* the rows proxy.ts inserts into usage_logs
    pc,         \* where each request is in the handler
    on,         \* the channel of its current attempt
    attempt,    \* its loop counter
    outcome,    \* what the upstream answered in the current attempt
    cpc, todo,  \* the cron runs and the channels each has still to probe
    dbErrors    \* database calls that failed so far

reqVars  == <<pc, on, attempt, outcome>>
cronVars == <<cpc, todo>>
vars     == <<row, logs, pc, on, attempt, outcome, cpc, todo, dbErrors>>

Answered  == {"served", "failed", "error"}   \* upstream status, 502, 500
Successes == {"ok", "empty"}                 \* 2xx; empty: 204 and 205
Statuses  == Successes \cup {"client", "server"}         \* ... 4xx, 5xx
Outcomes  == Statuses \cup {"none", "thrown"}

ASSUME RepliesAssumption == Replies \subseteq Statuses

CallState == {"list", "decrypt", "call", "body", "record", "log", "touch",
              "check", "trip", "catch"} \cup Answered

LogRow == [req : Requests, retry : 0 .. MaxRetries, channel : Channels,
           status : Statuses]

Pool == {c \in Channels : InPool(row[c])}

Candidates(r) == {c \in Serves[r] : InPool(row[c])}

\* UPDATE ... WHERE id = c: no effect once the row is gone.
Write(c, w) == row' = IF Stored(row[c]) THEN [row EXCEPT ![c] = w] ELSE row

Goto(r, p) == pc' = [pc EXCEPT ![r] = p]

----------------------------------------------------------------------------
(* One pass of the failover loop. *)

\* The next iteration of the loop, or the 502 behind it.
NextAttempt(r) ==
    /\ on' = [on EXCEPT ![r] = NoChannel]
    /\ outcome' = [outcome EXCEPT ![r] = "none"]
    /\ IF attempt[r] < MaxRetries
       THEN Goto(r, "list") /\ attempt' = [attempt EXCEPT ![r] = @ + 1]
       ELSE Goto(r, "failed") /\ UNCHANGED attempt

\* break: a 4xx is the client's own fault and is not tried elsewhere.
GiveUp(r) ==
    /\ on' = [on EXCEPT ![r] = NoChannel]
    /\ outcome' = [outcome EXCEPT ![r] = "none"]
    /\ Goto(r, "failed")
    /\ UNCHANGED attempt

\* Slips of the code, which the runs must notice, stand before the definition
\* they would replace.
AfterFailureRetry(r) == NextAttempt(r)

AfterFailure(r) == IF outcome[r] = "client" THEN GiveUp(r) ELSE NextAttempt(r)

PoolEmptyPolls(r) ==
    /\ pc[r] = "list"
    /\ Candidates(r) = {}
    /\ UNCHANGED vars

\* listCandidateChannels finds nothing.
PoolEmpty(r) ==
    /\ pc[r] = "list"
    /\ Candidates(r) = {}
    /\ GiveUp(r)
    /\ UNCHANGED <<row, logs, cronVars, dbErrors>>

\* pickChannel may return any candidate (module Scheduler), also the one that
\* has just failed; then its key is decrypted.
Pick(r) ==
    /\ pc[r] = "list"
    /\ \E c \in Candidates(r) :
          /\ on' = [on EXCEPT ![r] = c]
          /\ Goto(r, IF c \in Undecryptable THEN "decrypt" ELSE "call")
    /\ UNCHANGED <<row, logs, attempt, outcome, cronVars, dbErrors>>

\* The key does not decrypt: record a failure and continue.
DecryptFails(r) ==
    /\ pc[r] = "decrypt"
    /\ Write(on[r], Recorded(row[on[r]], FALSE))
    /\ NextAttempt(r)
    /\ UNCHANGED <<logs, cronVars, dbErrors>>

\* The response headers arrive: fetch resolves and the timer is cleared.
HeadersArrive(r) ==
    /\ pc[r] = "call"
    /\ \E o \in Replies : outcome' = [outcome EXCEPT ![r] = o]
    /\ Goto(r, "body")
    /\ UNCHANGED <<row, logs, on, attempt, cronVars, dbErrors>>

\* The 30 s timer aborts the fetch, or the connection fails.
CallFails(r) ==
    /\ pc[r] = "call"
    /\ outcome' = [outcome EXCEPT ![r] = "thrown"]
    /\ Goto(r, "catch")
    /\ UNCHANGED <<row, logs, on, attempt, cronVars, dbErrors>>

\* resp.arrayBuffer() resolves ...
BodyArrives(r) ==
    /\ pc[r] = "body"
    /\ Goto(r, "record")
    /\ UNCHANGED <<row, logs, on, attempt, outcome, cronVars, dbErrors>>

\* ... or rejects.
BodyFails(r) ==
    /\ pc[r] = "body"
    /\ outcome' = [outcome EXCEPT ![r] = "thrown"]
    /\ Goto(r, "catch")
    /\ UNCHANGED <<row, logs, on, attempt, cronVars, dbErrors>>

RecordResultAnyReply(r) ==
    /\ pc[r] = "record"
    /\ Write(on[r], Recorded(row[on[r]], TRUE))
    /\ Goto(r, "log")
    /\ UNCHANGED <<logs, on, attempt, outcome, cronVars, dbErrors>>

RecordResult(r) ==
    /\ pc[r] = "record"
    /\ Write(on[r], Recorded(row[on[r]], outcome[r] \in Successes))
    /\ Goto(r, "log")
    /\ UNCHANGED <<logs, on, attempt, outcome, cronVars, dbErrors>>

InsertLog(r) ==
    /\ pc[r] = "log"
    /\ logs' = logs \cup {[req |-> r, retry |-> attempt[r],
                           channel |-> on[r], status |-> outcome[r]]}
    /\ Goto(r, IF outcome[r] \in Successes THEN "touch" ELSE "check")
    /\ UNCHANGED <<row, on, attempt, outcome, cronVars, dbErrors>>

\* touchToken, then the upstream's answer goes to the client ...
Serve(r) ==
    /\ pc[r] = "touch"
    /\ outcome[r] = "ok"
    /\ Goto(r, "served")
    /\ on' = [on EXCEPT ![r] = NoChannel]
    /\ outcome' = [outcome EXCEPT ![r] = "none"]
    /\ UNCHANGED <<row, logs, attempt, cronVars, dbErrors>>

\* ... unless its status allows no body: c.body passes on a buffer, if an empty
\* one, and the Response constructor throws, inside the try block.
AnswerThrows(r) ==
    /\ pc[r] = "touch"
    /\ outcome[r] = "empty"
    /\ outcome' = [outcome EXCEPT ![r] = "thrown"]
    /\ Goto(r, "catch")
    /\ UNCHANGED <<row, logs, on, attempt, cronVars, dbErrors>>

\* The catch block records the failure before it evaluates the breaker.
CatchRecord(r) ==
    /\ pc[r] = "catch"
    /\ Write(on[r], Recorded(row[on[r]], FALSE))
    /\ Goto(r, "check")
    /\ UNCHANGED <<logs, on, attempt, outcome, cronVars, dbErrors>>

\* maybeCircuitBreak reads the counters ...
CheckPasses(r) ==
    /\ pc[r] = "check"
    /\ ~BelowThreshold(row[on[r]])
    /\ AfterFailure(r)
    /\ UNCHANGED <<row, logs, cronVars, dbErrors>>

CheckFails(r) ==
    /\ pc[r] = "check"
    /\ BelowThreshold(row[on[r]])
    /\ Goto(r, "trip")
    /\ UNCHANGED <<row, logs, on, attempt, outcome, cronVars, dbErrors>>

\* ... and trips the breaker in a second statement.
Trip(r) ==
    /\ pc[r] = "trip"
    /\ Write(on[r], Tripped(row[on[r]]))
    /\ AfterFailure(r)
    /\ UNCHANGED <<logs, cronVars, dbErrors>>

\* A database call throws, without effect.  Inside the try block the catch
\* block takes over (and counts a failure, whatever the upstream had answered);
\* elsewhere the exception leaves the handler and app.onError answers 500.
InTry(r) ==
    \/ pc[r] \in {"record", "log", "touch"}
    \/ pc[r] \in {"check", "trip"} /\ outcome[r] # "thrown"

Exception(r) ==
    \/ /\ InTry(r)
       /\ outcome' = [outcome EXCEPT ![r] = "thrown"]
       /\ Goto(r, "catch")
       /\ UNCHANGED on
    \/ /\ ~InTry(r)
       /\ outcome' = [outcome EXCEPT ![r] = "none"]
       /\ on' = [on EXCEPT ![r] = NoChannel]
       /\ Goto(r, "error")

DbThrows(r) ==
    /\ dbErrors < MaxDbErrors
    /\ pc[r] \notin {"call", "body"} \cup Answered
    /\ dbErrors' = dbErrors + 1
    /\ Exception(r)
    /\ UNCHANGED <<row, logs, attempt, cronVars>>

\* circuitBreakChannel writes a note into an inactive channel it has tripped;
\* when that statement throws, the mark stays.
NoteFails(r) ==
    /\ dbErrors < MaxDbErrors
    /\ pc[r] = "trip"
    /\ Stored(row[on[r]]) /\ ~Tripped(row[on[r]]).active
    /\ Write(on[r], Tripped(row[on[r]]))
    /\ dbErrors' = dbErrors + 1
    /\ Exception(r)
    /\ UNCHANGED <<logs, attempt, cronVars>>

----------------------------------------------------------------------------
(* The owners.  POST /:id/validate reads the row, probes the upstream and  *)
(* then writes constants chosen by the probe alone, so it is one step at   *)
(* the time of the write: what it read (url, key, owner) never changes.    *)

Submit(c) ==
    /\ row[c].state = "new"
    /\ \E ok \in BOOLEAN : row' = [row EXCEPT ![c] = Inserted(ok)]
    /\ UNCHANGED <<logs, reqVars, cronVars, dbErrors>>

Revalidate(c) ==
    /\ Stored(row[c])
    /\ \E ok \in BOOLEAN : row' = [row EXCEPT ![c] = Revalidated(row[c], ok)]
    /\ UNCHANGED <<logs, reqVars, cronVars, dbErrors>>

Reactivate(c) ==
    /\ Stored(row[c])
    /\ row' = [row EXCEPT ![c] = Reactivated(row[c])]
    /\ UNCHANGED <<logs, reqVars, cronVars, dbErrors>>

Delete(c) ==
    /\ Stored(row[c])
    /\ row' = [row EXCEPT ![c] = Removed]
    /\ UNCHANGED <<logs, reqVars, cronVars, dbErrors>>

\* The clock passes circuit_until.
CooldownEnds(c) ==
    /\ row[c].until = "running"
    /\ row' = [row EXCEPT ![c].until = "over"]
    /\ UNCHANGED <<logs, reqVars, cronVars, dbErrors>>

----------------------------------------------------------------------------
(* runDailyTasks, the steps that touch channels, in the code's order. *)

ActiveRows == {c \in Channels : Stored(row[c]) /\ row[c].active}

\* The SELECT has no ORDER BY: any BatchSize of the active rows.
CronStart(k) ==
    /\ cpc[k] = "idle"
    /\ \E S \in SUBSET ActiveRows :
          /\ Cardinality(S) <= BatchSize
          /\ S # ActiveRows => Cardinality(S) = BatchSize
          /\ todo' = [todo EXCEPT ![k] = S]
    /\ cpc' = [cpc EXCEPT ![k] = "probe"]
    /\ UNCHANGED <<row, logs, reqVars, dbErrors>>

CronProbe(k) ==
    /\ cpc[k] = "probe"
    /\ \E c \in todo[k] :
          /\ todo' = [todo EXCEPT ![k] = @ \ {c}]
          /\ IF c \in Undecryptable
             THEN UNCHANGED row
             ELSE \E ok \in BOOLEAN : Write(c, Probed(row[c], ok))
    /\ UNCHANGED <<cpc, logs, reqVars, dbErrors>>

CronRecover(k) ==
    /\ cpc[k] = "probe"
    /\ todo[k] = {}
    /\ row' = [c \in Channels |-> IF Recoverable(row[c])
                                  THEN Recovered(row[c]) ELSE row[c]]
    /\ cpc' = [cpc EXCEPT ![k] = "decay"]
    /\ UNCHANGED <<todo, logs, reqVars, dbErrors>>

CronDecay(k) ==
    /\ cpc[k] = "decay"
    /\ row' = [c \in Channels |-> Decayed(row[c])]
    /\ cpc' = [cpc EXCEPT ![k] = "idle"]
    /\ UNCHANGED <<todo, logs, reqVars, dbErrors>>

\* An exception in any task skips all the later ones.
CronAborts(k) ==
    /\ dbErrors < MaxDbErrors
    /\ cpc[k] # "idle"
    /\ dbErrors' = dbErrors + 1
    /\ cpc' = [cpc EXCEPT ![k] = "idle"]
    /\ todo' = [todo EXCEPT ![k] = {}]
    /\ UNCHANGED <<row, logs, reqVars>>

----------------------------------------------------------------------------
Init ==
    /\ row = [c \in Channels |-> Blank]
    /\ logs = {}
    /\ pc = [r \in Requests |-> "list"]
    /\ on = [r \in Requests |-> NoChannel]
    /\ attempt = [r \in Requests |-> 0]
    /\ outcome = [r \in Requests |-> "none"]
    /\ cpc = [k \in Crons |-> "idle"]
    /\ todo = [k \in Crons |-> {}]
    /\ dbErrors = 0

\* What the gateway does of its own accord, the abort timer included.
Gateway(r) ==
    \/ PoolEmpty(r) \/ Pick(r) \/ DecryptFails(r) \/ CallFails(r)
    \/ RecordResult(r) \/ InsertLog(r) \/ Serve(r) \/ AnswerThrows(r)
    \/ CatchRecord(r) \/ CheckPasses(r) \/ CheckFails(r) \/ Trip(r)

\* What the upstream does.
Upstream(r) == HeadersArrive(r) \/ BodyArrives(r) \/ BodyFails(r)

Call(r) == Gateway(r) \/ Upstream(r) \/ DbThrows(r) \/ NoteFails(r)

Owner(c) == Submit(c) \/ Revalidate(c) \/ Reactivate(c) \/ Delete(c)

CronWorks(k) == CronStart(k) \/ CronRecover(k) \/ CronDecay(k)

Cron(k) == CronWorks(k) \/ CronProbe(k) \/ CronAborts(k)

Next ==
    \/ \E r \in Requests : Call(r)
    \/ \E c \in Channels : Owner(c) \/ CooldownEnds(c)
    \/ \E k \in Crons : Cron(k)

Spec == Init /\ [][Next]_vars

\* The event loop runs every ready continuation and fires every timer, the
\* clock advances, and the scheduler starts the cron again and again.  Nothing
\* is promised of the upstreams.
GatewaySpec ==
    /\ Spec
    /\ \A r \in Requests : WF_vars(Gateway(r))
    /\ \A c \in Channels : WF_vars(CooldownEnds(c))
    /\ \A k \in Crons : WF_vars(CronWorks(k))

\* In addition an upstream that has sent its headers ends the body or drops
\* the connection, and the probes of the cron, which have no timer, return.
FairSpec ==
    /\ GatewaySpec
    /\ \A r \in Requests : WF_vars(BodyArrives(r) \/ BodyFails(r))
    /\ \A k \in Crons : WF_vars(CronProbe(k))

----------------------------------------------------------------------------
\* A request holds a channel exactly while an attempt is under way, and an
\* answer of the upstream exactly from the headers on.
AttemptOK(r) ==
    /\ (on[r] = NoChannel) <=> (pc[r] \in {"list"} \cup Answered)
    /\ pc[r] \in {"body", "record", "log", "touch"}
          => outcome[r] \in Statuses
    /\ pc[r] = "touch" => outcome[r] \in Successes

TypeOK ==
    /\ row \in [Channels -> Row]
    /\ logs \subseteq LogRow
    /\ pc \in [Requests -> CallState]
    /\ on \in [Requests -> Channels \cup {NoChannel}]
    /\ attempt \in [Requests -> 0 .. MaxRetries]
    /\ outcome \in [Requests -> Outcomes]
    /\ \A r \in Requests : AttemptOK(r)
    /\ cpc \in [Crons -> {"idle", "probe", "decay"}]
    /\ todo \in [Crons -> SUBSET Channels]
    /\ dbErrors \in 0 .. MaxDbErrors

\* A retired channel (DeactivateCount marks) gets no traffic, whatever the
\* cron, late answers and re-validation do: retirement closes the circuit for
\* good and only reactivateChannel opens it again.
RetiredGetsNoTraffic == \A c \in Channels : Retired(row[c]) => ~InPool(row[c])

\* Requests that are still going to evaluate, and maybe trip, channel c.
Holders(c) ==
    {r \in Requests : on[r] = c /\ pc[r] # "decrypt"}

\* A channel collects marks beyond its retirement only from calls that were
\* in flight on it when it retired, never more than there are calls at once,
\* and from failing database calls, which can make an attempt count twice.
MarksBounded ==
    \A c \in Channels :
        row[c].count + Cardinality(Holders(c))
            <= DeactivateCount - 1 + Cardinality(Requests) + dbErrors

\* success_rate is a share, and no channel has more failures than results, so
\* the weights of pickChannel stay positive and the dashboards stay sane.
StatsConsistent ==
    \A c \in Channels :
        /\ row[c].failed <= row[c].total
        /\ row[c].rate.num <= row[c].rate.den

\* The ledger of channel successes agrees with the audit log: the successes
\* counted on a channel are those logged, those about to be logged, and at
\* most one more per database failure.
Succeeded(c) == row[c].total - row[c].failed
OkLogs(c) == {l \in logs : l.channel = c /\ l.status \in Successes}
OkUnlogged(c) ==
    {r \in Requests : pc[r] = "log" /\ on[r] = c /\ outcome[r] \in Successes}
SuccessesMatchLogs ==
    \A c \in Channels : Stored(row[c]) =>
        LET known == Cardinality(OkLogs(c)) + Cardinality(OkUnlogged(c))
        IN  known <= Succeeded(c) /\ Succeeded(c) <= known + dbErrors

\* A call goes upstream again only after an upstream failure: a 2xx that can be
\* passed on and a 4xx are final, except that each failing database call may
\* cost one repetition.  A 204 or 205 is not final: AnswerThrows repeats it,
\* although it is logged and counted as a success.
Final == {"ok", "client"}
FinalAnswers ==
    {l \in logs : l.status \in Final
                  /\ (attempt[l.req] > l.retry
                      \/ \E m \in logs : m.req = l.req /\ m.retry > l.retry)}
RetriesOnlyAfterFailure == Cardinality(FinalAnswers) <= dbErrors

\* Traffic can only shrink the pool: no step of a client call puts a channel
\* back that its owner or the cron took out.
TrafficOnlyShrinksPool == [][pc' # pc => Pool' \subseteq Pool]_vars

\* A circuit's marks survive its recovery: only the owner's reactivation (or
\* the deletion) takes marks off a channel, so repeated circuits add up.
MarksOnlyCleared ==
    [][\A c \in Channels : row'[c].count < row[c].count
          => Reactivate(c) \/ Delete(c)]_vars

\* Every call is answered, also while channels come, fail and go.
CallsAnswered == \A r \in Requests : <>(pc[r] \in Answered)

\* A circuit of a channel that is not retired does not stay open forever.
Cooling(c) == Stored(row[c]) /\ row[c].circuited /\ ~Retired(row[c])
CircuitsEnd == \A c \in Channels : Cooling(c) ~> ~Cooling(c)
\* The pool implements the life cycle of its channels: whatever concurrent
\* calls, owners and cron runs do, one channel only makes the moves of
\* ChannelLifecycle.
StatusOf(w) ==
    CASE w.state = "new"                          -> "unlisted"
      [] w.state = "deleted"                      -> "deleted"
      [] Stored(w) /\ Retired(w)                  -> "retired"
      [] Stored(w) /\ ~Retired(w) /\ w.circuited  -> "cooling"
      [] Stored(w) /\ ~Retired(w) /\ ~w.circuited ->
            IF w.active /\ w.valid THEN "serving" ELSE "offline"
Lifecycle == INSTANCE ChannelLifecycle
                WITH status <- [c \in Channels |-> StatusOf(row[c])]
ImplementsLifecycle == Lifecycle!Spec
=============================================================================
