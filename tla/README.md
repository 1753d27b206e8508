# freeaiGW: models, model checks and proofs

freeaiGW is a gateway in front of contributed LLM API keys. Users put their
own upstream accounts ("channels") into a shared pool, and in return they and
everybody else call `POST /v1/chat/completions` with a gateway token; the
gateway draws a channel, forwards the call, keeps statistics, opens circuits,
charges a daily quota and keeps a reputation for every user. It runs on Node
with SQLite and a file store, or on Workers with D1 and KV; a daily cron does
the housekeeping.

This directory holds TLA+ models of it, the TLC configurations that check them
and proofs that TLAPS checks. Paths below are relative to the repository's
root, unless they name a module.

## 1. Inventory

| Part | Code | State | Operations | Model |
|---|---|---|---|---|
| Failover loop | `src/routes/proxy.ts` | locals of the handler | list, pick, decrypt, fetch, record, log, trip, retry, answer | `ChannelPool` |
| Channel rows | `src/db/index.ts`, `migrations/001_init.sql` | table `channels` | insert, record result, trip, recover, reactivate, delete | `ChannelRow` |
| Owner routes | `src/routes/channels.tsx` | - | submit, validate, reactivate, delete | `ChannelPool`, penalties in `Quota` |
| Draw of a channel | `src/scheduler/pickChannel.ts` | - | weighted draw | `Scheduler` |
| Daily quota and reputation | `src/middleware/quota.ts`, `src/utils/audit.ts`, `src/config.ts` | tables `user_quotas`, `users.reputation`, penalty rows of `usage_logs` | spend a call, add tokens, penalize, reward | `Limits`, `Quota` |
| Contribution tiers | `src/routes/cron.ts`, `src/config.ts` | `usage_logs`, `users.contribution_tier` | log a call, count the week, write, reset, purge | `Contribution` |
| Daily cron | `src/routes/cron.ts`, started in `src/node/entry.ts` | - | eight tasks in sequence | each task in the module of the state it writes |
| Budget gate | `src/middleware/budget.ts` | sampled counter and pause flag in the KV | sample, pause, recover | `Budget` |
| File store | `src/platform/node.ts` | one file per key | get, put, delete, expire | `KvStore`, `KvMap` |
| Accounts and sessions | `src/routes/auth.tsx`, `account.tsx`, `tokens.tsx`, `src/middleware/auth.ts` | tables `users`, `user_tokens`, `ip_register_log`, sessions in the KV | register, log in and out, change the password, reset the token | `Accounts` |
| Rate limits, proof of work | `src/middleware/rate-limit.ts`, `src/utils/pow.ts` | counters, locks, challenges in the KV | count, lock, forget; issue, verify | `Accounts` |
| Pages and languages | `src/middleware/seo.ts`, `i18n.ts`, `src/routes/pages.tsx`, `lang.tsx`, `seo.ts`, `src/views/layout.tsx` | cookie `ln`, what browsers keep of 301s | redirect, show, switch language | `Site` |
| Start and migrations | `src/node/entry.ts`, `src/platform/node.ts` | `_migrations`, the schema, the port | migrate, listen, fail | `Boot` |
| Service script | `scripts/service.sh` | pid file | start, stop, restart | `Service` |
| Crypto, validators, dictionaries, markup | `src/utils/crypto.ts`, `src/validators/`, `src/i18n.ts`, `src/views/` | - | pure functions | - |

How they interact. There is one process and one event loop; a handler runs
until its next `await`, and then any other handler may run. Handlers share
nothing but the database and the KV, and almost none of them uses a
transaction: a handler is a *series* of single statements, each atomic. So the
unit of interleaving is the statement (or the KV call), and what a handler has
read is stale at its next statement. Cron runs may overlap as well: one starts
at boot, one on schedule, and `POST /cron/run` starts more. A request passes
the budget gate, the language middleware, authentication and the quota before
it reaches a handler.

What is hard to get right, and hard to test:

* the breaker (`proxy.ts` 38-49) reads counters and trips in a second
  statement, while other calls, owners and the cron write to the same row, and
  a call's late answer may meet a row tripped, retired or deleted meanwhile;
* exceptions of the database inside the `try` of an attempt are taken for
  failures of the upstream;
* `spendCall` is two statements; midnight, the purge and other calls of the
  user come in between; the limit depends on a reputation read earlier;
* the cron works on selections that are stale when it gets to them, and an
  exception skips all its later tasks;
* counters in the KV are read, incremented and written back; entries expire
  lazily; a write is not atomic when the process dies;
* sessions carry a fingerprint of the password hash and are written back by
  requests that may have been overtaken by a logout or by another change;
* redirects of several kinds (prefix, slash, language, sign-in, switch), kept in
  four files, call one another;
* migrations are not transactional, their failure is only logged, and several
  processes may run them at once;
* liveness depends on timers: the abort timer stops at the headers, the probes
  of the cron have none.

`PROJECT.json` lists every hazard at its line with the properties that cover it.

What makes each part correct: a retired channel gets no traffic; traffic never
puts a channel into the pool; marks and counters are what the history of calls
says; every call is answered and every circuit of a healthy channel ends; a
final answer is not requested twice; an admitted call is charged once and to
its day; a call is refused only when the allowance is spent; reputation stays
in its range, only penalties lower it, and it recovers; the allowance grows
with merit; a tier is earned, kept while it is, and lost after; the draw is
proportional; a pause rests on samples and ends; a key of the store is a
register with a deadline; a changed password ends what the old one opened, an
ended session does not come back, a challenge passes once, a lock is earned;
redirects end, the switch switches, and what a pause leaves open stays open; a
recorded migration is whole, and no server is lost by the script.

## 2. Modules

| Module | Models |
|---|---|
| `ChannelRow` | one row of `channels` and one operator per SQL statement, old row to new row |
| `ChannelPool` | the failover loop, the owner routes and the channel tasks of the cron, interleaved over the rows |
| `ChannelLifecycle` | what the pool promises about one channel: the abstract life cycle |
| `Limits` | the pure functions of `config.ts` with their real numbers |
| `Quota` | quota guard, token booking, penalties, purge and reputation tasks of the cron |
| `CallGuard` | what the quota guard promises about the calls of a day: one indivisible decision |
| `Scheduler` | `pickChannel` in whole numbers |
| `Contribution` | the audit log, the weekly count, the cached tiers; calls reach channels through `Scheduler` |
| `KvStore`, `KvMap` | one key of the file store; the register with a deadline it stands for |
| `Budget` | the budget gate over `KvStore` |
| `Accounts` | registration, sessions, passwords, tokens, failure counters, challenges |
| `Site` | middleware chain, routes, links, and a browser with tabs, a cookie and a redirect cache |
| `Boot`, `Service` | processes with their migrations; the commands of the service script over them |
| `ChannelPoolProofs`, `LimitsProofs`, `QuotaProofs`, `BudgetProofs`, `ServiceProofs`, `AccountsProofs`, `ContributionProofs`, `SiteProofs` | theorems |
| `MCChannelPool`, `MCQuota`, `MCBudget`, `MCContribution`, `MCAccounts`, `MCSite`, `MCService` | small instances for TLC |

An operator whose name extends that of a definition below it (`RecordedHeals`
before `Recorded`) is a slip the code might have had. No specification uses
it; put in place of the definition, it must make the property fail that
`PROJECT.json` names under `mutants`.

### ChannelPool

`row` is the table `channels`, `logs` the rows the proxy inserts into
`usage_logs`. A request `r` has a program counter `pc[r]` with one value for
each place where `proxy.ts` awaits: `list`, `decrypt`, `call` (fetch), `body`
(arrayBuffer), `record`, `log`, `touch`, `check` and `trip` (the two halves of
`maybeCircuitBreak`), `catch`, and the answers `served`, `failed` (the upstream
error or 502) and `error` (500 from `app.onError`). `on[r]` is the channel
of the attempt, `attempt[r]` the loop counter, `outcome[r]` what the upstream
said: `ok` is a 2xx that can be passed on, `empty` a 204 or 205. The handler
builds its answer inside the `try`, and with these two statuses the `Response`
constructor takes no body, not even an empty one, and throws
(`AnswerThrows`): what has been recorded and logged as a success is then
counted as a failure and tried again. The owner's `validate` probes and then writes constants that depend on
the probe alone, so it is one step at its write. A cron run `k` has `cpc[k]`
and the batch `todo[k]` it selected.

A database call may fail, without effect, at most `MaxDbErrors` times
(`DbThrows`, `CronAborts`). The one statement whose failure leaves an effect
behind has its own action: `circuitBreakChannel` trips first and writes a note
second (`NoteFails`). Columns no property distinguishes are left out;
`circuit_until` is kept as its relation to the clock, which `CooldownEnds`
advances; `success_rate` is an exact fraction, where the code has a float.
The draw is any candidate; what the weights do is in `Scheduler`.

### Quota and Limits

`quota` is the table `user_quotas` with a flag for the existence of the row;
`day` is the UTC date. A request goes `start` -> `insert` -> `spend` ->
`admitted` -> `done`, or `spend` -> `classify` -> `penalize` -> `penlog` ->
`refused`; `seen[r]` is the reputation read by `requireBearerToken`, `on[r]`
the date `spendCall` computed. Submissions that are turned down enter at
`penalize`. `Dies` ends a request between two statements. Tokens are booked on
the date of the moment, and more than once if the proxy repeats an attempt.
The cron purges, pays the daily reward, selects, and pays the bonus user by
user. The numbers of `config.ts` are constants; `Limits` has the real ones, over
a user whose reputation, contribution and age move through all of them.

### Contribution and Scheduler

`logs` is the table `usage_logs`, its rows with an age in days: the code
compares two text formats of a time, in which the row of the cutoff's day
sorts before the cutoff, so whole days count. `Call` draws a channel through
`Scheduler!PickChannel` in any listing and at any success rates and inserts the
row; the running sum of the loop is a recursive function (`UsedUp`), so that it
can be proved about; `CronSelect`
is the `SELECT`, `CronWrite` one `UPDATE` per result, `CronReset` the reset of
users not dated today, `CronPurge` the purge. `cached[u]` says that the date of
the tier is today's, `late` that midnight has passed since the `SELECT`.

### KvStore and Budget

A file is absent, torn or a value with its remaining time; `GetOr` is what a
read returns and `AfterGet` what it leaves behind (an expired file is removed).
`Budget` has the file of the pause and one counter per day; days are counted
back from today, so time goes on for ever, and the unit is half a day. A
request passes the gate (`Guard`), may be sampled (`ReadCount`), writes its
count (`WriteCount`) and judges it (`Judge`), with midnights and other requests
between these; `Dies` leaves the file of the write in progress torn.
`StoreIsMap` shows that the key of the pause implements `KvMap`, whose entry
changes with the clock, by the puts under way (`writing`) and at the death of the
process in one of them, and else never.

### Accounts

A password is its version and a hash its version too, since salts are fresh.
`req[r]` is one request between two statements: `solve`, `spend` (the two calls
of `powVerify`), `find`, `create`, `log`, `token` (registration), `reset`,
`destroy`, `read`, `open` (login; the last two are `createSession`), `fail`,
`note` (the read and the write of a failure counter, in that of the address
and then in that of the name), `update`, `refresh` (password change). `session` is
the KV, `ended` the sessions that ended while no password change worked with
them, `fails` the failures since a counter was last quiet, `raced` whether
registrations overlapped or one was cut short. The system starts with any
accounts the limit allows and with sessions of before the fingerprint (`Legacy`),
which `userFromSid` accepts as they are. Requests end by an exception
at any statement (`Dies`); entries expire at any time.

### Site

A path is a record of language prefixes, page and trailing slash. `Respond` is
the middleware chain of `createApp`: gate, prefixes (`Prefixed`,
`Unprefixed`), routes (`Route`). A tab visits, follows redirects (from the
server, `Fetch`, or from its cache, `FollowCached`), clicks the switch, signs
out. A switch leads back to the page it stood on or home (`WayBack`), since the
Referer may be missing or, behind TLS, of another origin than the `http://` URLs
`toWebRequest` builds. The session and the gate change at any moment.

### Boot and Service

`schema` holds the statements executed, `recorded` the rows of `_migrations`.
A process opens the file and reads what is recorded (`Open`), executes
statement by statement (`Exec`), records (`Insert`) and listens (`Bind`); any
failure of the migrations leads to listening all the same (`Rejected`). The
commands of `service.sh` are read step by step, with the pid file between
them; waits see the event or give up; an operator may interrupt them; another
operator may run a command at the same time.

## 3. Runs

| Run | Shows | Instance |
|---|---|---|
| `pool_race` | `RetiredGetsNoTraffic`, `MarksBounded`, `SuccessesMatchLogs`, `TrafficOnlyShrinksPool`, `MarksOnlyCleared` | 1 channel, 2 calls, 1 retry, 2 overlapping cron runs, 1 failing database call, no 4xx |
| `pool_live` | `StatsConsistent`, `RetriesOnlyAfterFailure`, `CallsAnswered`, `CircuitsEnd`, `ImplementsLifecycle` | 2 channels, one undecryptable, 1 call, 1 retry, 1 cron run, decay above 1 result, 1 failing database call, with fairness |
| `limits` | `MeritPays` | the real numbers, all 101 reputations |
| `quota` | `TypeOK`, `CallsMatchCharges`, `RefusedOnlyWhenSpent`, `OnlyPenaltiesCost`, `ImplementsGuard` | 4 calls of 2 users, 3 days, rows kept 1 day, 1 failing cron run |
| `quota_live` | `ReputationRecovers` | 2 calls and a rejected submission, 2 days, 1 failing cron run, fairness for the cron alone |
| `budget` | `PauseIsEarned`, `PauseEnds`, `StoreIsMap` | 2 requests at once, 1 in 2 sampled, 4 requests a day, 1 midnight within a request, 1 death |
| `contribution` | `TierEarned`, `DrawProportional`, `ContributorsKeepTier`, `BonusFades` | 2 users with a channel each, a week of 2 days, 2 rows of log, 1 cut cron run |
| `accounts` | `LimitHolds`, `OldPasswordsOut`, `EndedStaysEnded`, `SpentIsSpent` | 2 users, 2 requests, 2 sessions, 1 challenge, 1 account per address, 1 failure locks, 3 passwords, accounts and sessions of before the fingerprint |
| `locks` | `LocksAreEarned` | 1 user, 2 requests, the counters of address, name and unknown tokens |
| `site` | `PublicStaysOpen`, `SwitchWorks`, `SitemapIsCanonical`, `VisitsEnd` | 2 tabs, one path of each kind, with and without a usable Referer |
| `service` | `RecordedIsWhole`, `ServesWholeSchema`, `ServerIsNamed`, `MigrationsInOrder`, `CommandsEnd` | 2 operators, 2 launches, migrations of 2 and 1 statements, 1 crash |

**Why the bounds are enough.** Everything the breaker can do to a row takes two
calls and an owner: one that trips and one that is late. `DeactivateCount` = 2
makes a first trip, a recovery and a retirement possible, and one mark beyond
it; a threshold of one half over at least one result lets a single failure trip
and a single success prevent it. Decay starts above `DecayAbove`: 1 where the
run is about it, out of reach (100 against a handful of results) in
`pool_race`, since the halves are rounded and the ledger of successes only
holds before. `Replies` leaves the 4xx to `pool_live`: it does to a row what a
5xx does, and ends its call. In `quota`, one user's three calls compete for one or two and the
other's must not be charged to them; three days with `KeepDays` = 1 let the
purge remove the first day's row while its calls are in flight; `GoodRep` below
`RepMax` separates the daily reward from the bonus. In `budget` two sampled
requests of one day reach the threshold, one alone does not; a lost update, a
straggler over one midnight and a torn write are all in reach. In
`contribution` one or two calls of the other user separate the tiers, a week of
two days lets a row expire between two runs, and one channel names its models
while the other serves all. In `accounts` two requests are what every overlap
of the code needs (registration and registration, change and logout, change and
login, change and change), and with `MaxVersion` 3 a password changes twice
after the first: the refresh of one change may come after the update of the
next; the counters have a run of their own because three counters and two users
are too many together. In `site` the paths contain each kind the redirects tell
apart (canonical, without prefix, slash, two prefixes, each kind of page), and
two tabs disturb each other's cookie. In `service` a migration of two
statements can be half done, and two processes and two operators overlap.

One more run expects a violation, which `PROJECT.json` lists as a finding:

| Run | Statement | What happens instead |
|---|---|---|
| `claim_timeout` | a 30 s abort timer keeps a hanging upstream from holding a connection (`docs/PLAN.md`:416) | the timer is cleared at the headers; nothing of the gateway bounds a stalled body |

### Other divergences

Met while modelling, visible in the models, without a run of their own:

* calls that fail together add a mark each for one outage: the breaker checks
  `is_circuited` in one statement and trips in another (`proxy.ts`:43, against
  `docs/PLAN.md`:467); `MarksBounded` says how many there can be;
* a successful re-validation does not readmit a channel whose circuit is open
  (`channels.tsx`:229, against `docs/PLAN.md`:302); it makes a retired one
  active again, against `docs/PLAN.md`:189, but without traffic;
* an upstream's 204 or 205 is recorded and logged as a success and then, when
  the answer is built inside the `try`, counted as a failure and tried again
  (`proxy.ts`:156, against `docs/PLAN.md`:393-396, which returns what
  succeeded); `RetriesOnlyAfterFailure` speaks of all other answers;
* a retry may draw the channel that has just failed (`proxy.ts`:84, against
  `docs/PLAN.md`:400 and `README.md`:149);
* a key that does not decrypt is recorded as a failure without evaluating the
  breaker (against `docs/PLAN.md`:105);
* spent tokens do not stop calls (`quota.ts`:20, against `docs/PLAN.md`:103);
  a refusal becomes a "burst" at three times the base allowance, without the
  contribution bonus (against the comment at `src/utils/audit.ts`:9);
* every cron run of a day pays the daily reward (against `docs/PLAN.md`:1340),
  and with two overlapping runs the bonus sets a user above 80 back to 80
  (`cron.ts`:114); tiers are only reset when somebody has contributed
  (`cron.ts`:87), so the last contributors keep theirs;
* two submissions that read a challenge before either deletes it both pass it
  (`pow.ts`:34, against `docs/PLAN.md`:766); `SpentIsSpent` is what remains;
* sessions of before the fingerprint survive a change of the password
  (`auth.ts`:107-108, as its comment says, against `docs/PLAN.md`:256, by which
  only the current session is kept); `OldPasswordsOut` exempts them;
* concurrent failures may be counted once, and a late count may overwrite a
  lock (`rate-limit.ts`:68): `LocksAreEarned` is the direction that holds;
  every failure moves the end of its counter's window;
* a public page redirects permanently although the target depends on the
  cookie (`seo.ts`:54): a browser that keeps the redirect sends a later choice
  of language back to the old one, and the switch itself where it leads home
  for want of a Referer of its own origin (`lang.tsx`:15-23; behind TLS that is
  always, `entry.ts`:34), against `docs/PLAN.md`:1462, which has it lead back;
  `SwitchWorks` names this exception; and a paused site refuses `/lang`,
  `/auth/...` and `POST /cron/run`, the recovery on demand among them;
* a migration cut by a crash makes every later start fail on the tables that
  exist; the failure is logged and the server listens (against
  `docs/PLAN.md`:1439, which has a start create the tables).

## 4. Fairness

* `ChannelPool!GatewaySpec`: weak fairness of each request's own continuations
  (the event loop runs what is ready, and the abort timer fires while the fetch
  hangs), of the clock, and of the cron's own statements, its start included (it
  is scheduled every day). Nothing is promised of upstreams; with this alone
  `CallsAnswered` fails (`claim_timeout`). `FairSpec` adds what the code silently
  relies on: that a body which has begun ends or breaks, and that probes return.
  The database may fail `MaxDbErrors` times in all, so it does recover.
* `Quota!FairSpec`: weak fairness of each cron run and of nothing else. A
  request may stop at any statement, as one does whose upstream stalls
  (`claim_timeout`); midnight and death need no fairness either.
* `Budget!Spec`: time passes and requests in progress proceed. None for the
  cron, which an earlier task may cut every day: `PauseEnds` rests on the
  deadline of the entry, and on the closed gate letting in nobody who could
  renew it.
* `Contribution!Spec`: days pass and the runs of the scheduler proceed; they are
  cut `MaxAborts` times at most.
* `Site!Spec`: a tab follows its redirects. Nothing for users, sessions, gate.
* `Service!Spec`: a command that is not interrupted proceeds (its waits are
  bounded in the script) and a signal that was sent is delivered. Nothing
  for the processes themselves: a server may hang in its migrations for ever.
* `Accounts!Spec`: none; its properties are of safety.

## 5. Refinements

`ImplementsLifecycle`: whatever calls, owners and cron runs do, each channel
only makes the moves of `ChannelLifecycle` (unlisted, serving, offline,
cooling, retired, deleted), under the map `StatusOf` from rows to states.
`StoreIsMap`: under the map that takes expired, torn and absent files for "no
entry", every step on the key of the pause is a step of `KvMap`: an entry ages
by one with each unit of the clock and by nothing else, goes at its deadline
and not before, is replaced only by a put that is under way, and every put
under way sets it in the end unless the process dies (`deaths`): then the puts
are lost, and the entry with them. A read changes nothing, though the one
that meets an expired file removes it; a read that removed a live entry, or a
put that vanished, would be no step of `KvMap`. `ImplementsGuard`: the quota guard of the code spreads one decision
over a read by `requireBearerToken`, an `INSERT OR IGNORE` and a conditional
`UPDATE`, on a table whose rows the cron deletes. To its callers it is `CallGuard`: a call is
dated, then admitted or refused in one step against a ledger nothing is taken
out of. The map takes the number of admitted calls of a user and day
(`Charged`) for the ledger, `seen` and `on` for what a call is judged by, and
the program counter for its stage (`StageOf`); the insertion of the row, the
purge, penalties, tokens and the cron are steps it does not see, submissions
are no calls. All three are checked by TLC and proved.

## 6. Proofs

All theorems hold for any number of channels, requests, cron runs, users,
sessions, tabs, processes and days, and any limits and thresholds, under the
named assumptions of the modules: constants are in their types, some sets are
finite, thresholds are positive and, for the quota, more reputation is allowed
no less (`AllowanceAssumption`). `MoreReputationNoLess` of `LimitsProofs`
proves that last one for the numbers of `config.ts`. Each module's type
invariant is proved (`TypeCorrect`); only that of `Quota` is also a run's
property, since it bounds the reputation.

**ChannelPoolProofs.** Every step of the system changes each row by at most one
SQL statement (`RowsMove`), so facts about a row need one case per statement.

* `RetiredIsolation`. Not inductive by itself: the invariant is that a retired
  row has an open circuit. Only `Tripped` retires, and it opens the circuit;
  `Recoverable` leaves retired rows alone; `Reactivated` clears both.
* `StatsInvariant`: failures against totals through integer halves, and the
  rate as a share through the rolling average.
* `MarksAreBounded`: marks plus the calls that can still trip the channel. A
  trip moves one call from the second to the first; a call joins a channel only
  while it is in the pool, so not retired.
* `TrafficShrinksPool`, `OwnersClearMarks`: action properties.
* `FinalAnswersAreFinal`. `LogsOK` says what the log knows of an attempt: one
  entry at most, from `InsertLog` on, with the outcome the handler still has
  unless an exception replaced it. `Final` answers are 4xx and the 2xx that can
  be passed on; a 204 or 205 is neither. `Loose` are the final answers that a later
  attempt has followed or will follow; only a failing database call adds to
  it, and one entry at a time, because an attempt has one entry.
* `SuccessesAreLogged`: results minus failures of a channel against its logged
  successes and those about to be logged. The two sets trade a member at
  `InsertLog` (which `LogsOK` shows to be new), a failing statement loses one,
  and a channel not yet inserted has none (`FreshUnused`). The hypothesis is
  that no row has more results than `emaDecayChannels` leaves alone.
* `PoolImplementsLifecycle`.
* `CallsGetOn`: the measure `StepsLeft` counts the statements a call may still
  execute, eleven a pass of the loop and ten after the last. Each step of the
  call lowers it, no other step touches it, and it is never above
  `11 * MaxRetries + 10`. This is the safety part of `CallsAnswered`: no order
  of errors and retries makes the loop of `proxy.ts` go round for ever.

**QuotaProofs.** The inductive invariant `Ledger` ties three things written in
different steps: the counter of a row, the requests that passed the guard on
its day (`Charged`), and the existence of the row. `CallsMatchCharges` alone is
not inductive, because `INSERT OR IGNORE` would start at zero a row whose calls
had been admitted before: `RowsInPlace` says the row of a charged call exists or
lies in the past, that a missing row counts nothing, and that between the two
statements of `spendCall` the purge has not taken the row. From it follow
`ChargedOnce`, `NobodyOvercharged` (one `UPDATE` with its condition admits,
against a limit no larger than the best one), `RefusalsAreEarned` (charges are
never taken back, so a refusal stays justified) and `TokensBounded`.
`GuardIsAtomic` is the refinement of `CallGuard`. Its one hard step is `Spend`
(with its opposite, `Refuse`): the row the `UPDATE` sees must hold the number of
calls admitted on that day (`RowIsLedger`), which the purge might have reset;
the rest is that each statement is one step of the guard or none.
`NobodyOverspends` follows from that and `CallsMatchCharges`, so no run repeats
it. `OnlyPenaltiesLower` has the hypothesis that cron runs do not overlap:
between selection and bonus nobody outgrows the cap.

**LimitsProofs.** Bands, tiers and bonus are ordered; so `AllowanceBounds` and
`AllowanceFollowsMerit`.

**BudgetProofs.** `CountersAreSamples`: no counter exceeds the samples of its
day, because a request that is going to write carries a number its own sample
justifies (`RequestsCounted`), also across midnight. `PausesAreEarned` adds
that the day which earned a pause in force is still on record (`PauseDated`):
it is as many midnights back, at most, as a request may span and as the
entry has lived. `StoreImplementsMap`: each statement either leaves the puts
under way (`PutsStay`) and the entry alone, or ends one put by setting it, or ages
the entry, or ends the process. `PausesRunOut` is the safety part of
`PauseEnds`: while the gate is closed nobody gets behind it, each request
already there has at most three steps left, only its last one can renew the
pause, and the rest of the time the deadline comes nearer.

**AccountsProofs.** `SpentOnce`: a deleted challenge is not stored while
anybody holds it. `EndedForGood` (`SidInv`): the id a login is about to write is
fresh and its own, and the session a password change works with is not among
the ended. `OldAreOut` (`OldInv`): the fingerprint a login has read is that of
the password it proved, unless a change came between; a session without a
fingerprint is none of a login's. `LimitKept` (`RegInv`): without an overlap at most one
registration is under way, and accounts exceed log entries by one at most, the
one between its two statements. `LocksEarned` (`LockInv`): what is stored plus
the failures still to be noted is at most the failures made, and so is what a
request has read plus the others still to come; a counter is only forgotten at
zero failures when nobody is about to note one.

**ContributionProofs.** `TiersAreEarned`: the rows the count may see never
exceed the calls served (`ServedInv`), so what a run has selected (`TodoInv`)
and what is stored (`TierInv`) is earned. `CountedKeepTheirTier`: before
midnight a user a run has counted is still to be written or is dated today
(`DateInv`). `DrawsAreFair` says of `pickChannel`, in every listing of the
channels: the interval of draws that end at a channel is as long as its share of
the weights. The sums are a recursive function over the listing, so facts about
them (`UsedUp` grows, and by one share at each place) are proved by the least
place at which they would fail. `NobodyStarves`: the floors of weight and rate
leave every channel that serves a model within reach of the draw.

**SiteProofs.** The invariant `Sound` follows a visit along its redirects: a
visit that began at an open page stays on pages the gate leaves open
(`AlwaysOpen`), and a click on the switch is at the other language's page, at
the switch with its way back, or on this way with the cookie set (`OnTheWay`).
The way back is the page or home; a kept redirect is followed on it at home
only (`KeptHome`), where the page may then be in the other language.
`SitemapIsServed` needs no invariant. `VisitsAreShort`: the measure `HopsLeft`
counts the redirects that can still follow a path. A prefix is given up, a
slash dropped, a language added, a visitor without session sent to `/auth`; the
switch leads back to the page its link stood on or home, never to a switch
(`BackToPages`). Each answer or cached redirect lowers the measure, other tabs
leave it alone, and it is at most four: no chain of the redirects in `seo.ts`,
`lang.ts` and the sign-in is a loop, whatever session, gate and cookie do on
the way.

**ServiceProofs.** Migrations are recorded and executed in order, and a process
within them has all earlier ones behind it (`Behind`); hence `RecordsAreWhole`
and `MigratesInOrder`. Not obvious is `ServesSchema`: a `CREATE` that finds its
table sends a process to the port with half a schema. `Led` says why that is
no more than a delay: whatever is half done has a leader, the process at the
first migration not recorded, whose next statement cannot fail, unless a
process has ended within its migrations. `ServersAreNamed` follows, by the
progress of the one command (`Held`), which process the pid file or the
command names. `CommandsGetOn`: the measure `LinesLeft` falls with every line
of a command and with nothing else, from sixteen at a restart and eight at a
start or stop: a restart that turns into a start, a start that fails and a
stop that gives up all end.

Only model-checked: liveness (`CallsAnswered`, `CircuitsEnd`, `ReputationRecovers`,
 `PauseEnds`, `BonusFades`, `VisitsEnd`, `CommandsEnd`),
which needs fairness and ENABLED and is out of the prover's reach. What can be
proved of it is a measure that falls: `CallsGetOn`, `VisitsAreShort`,
`CommandsGetOn` and `PausesRunOut` bound the steps of a call, a visit, a command
and a pause, so that `CallsAnswered`, `VisitsEnd`, `CommandsEnd` and `PauseEnds`
need beside them that these steps are enabled and taken. Every other property
of a run is a theorem.

## 7. Assumptions and limits of the models

* One SQL statement is atomic, and a statement that throws had no effect
  (`NoteFails` apart). A `batch` is atomic, as in D1 and SQLite.
* Fractions instead of floats: a rounding error of `success_rate` is not seen.
* `SpendFitsInDays`: the two statements of `spendCall` are not `KeepDays` days
  (7 in the code) apart. Without it the purge could take the row in between.
* Channel ids are `AUTOINCREMENT`, never reused; a deleted row ignores writes.
  Session ids, challenge ids and salts are drawn without collision; a challenge
  id is drawn again only when nobody has it any more.
* `MaxStraddle` bounds the midnights one request of `Budget` may span.
* A pid is not given twice; a foreign server on the port is a process of the
  model that the pid file does not name.
* `Quota`, `Budget`, `ChannelPool` and `Contribution` are separate: a call
  starts behind the guards in the one, and ends in one step in the others. What
  they share is one row each (a reputation, a log entry), written by one
  statement.
* Tokens are whole numbers, of either sign: the code books whatever number the
  upstream reports (`Number(usage.*) || 0`), fractions included. `TokensBounded`
  is an upper bound and does not depend on it.

Not modelled: the validators and form checks (accept or reject); the bytes of
cryptography; markup, dictionaries and wording, the most of `src/i18n.ts` and
`src/views/`; the one-time message with a new token (`setFlash`), which a visit
to the dashboard consumes whether or not it shows it; a language cookie that does
not decode, at which `parseCookies` throws and the request ends in 500; the request conversion of
`src/platform/node.ts`; `status` and `logs` of the service script, which only
read; the container files. `docker-entrypoint.sh` truncates and rewrites the
key file at every start, so a crash in between loses the key of the stored
channel keys; that is listed as a hazard without a property.

## 8. What is left

A `Gateway` module that composes `Quota`, `ChannelPool` and `Contribution` over
one log, so that a call is charged once however often it is retried and tokens
are compared with logged answers; the one-time message; the container's entry
point with its key file.
