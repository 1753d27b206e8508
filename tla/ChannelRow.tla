----------------------------- MODULE ChannelRow -----------------------------
(***************************************************************************)
(* One row of the table "channels" and the SQL statements that change it   *)
(* (src/db/index.ts, migrations/001_init.sql).  Every statement is one    *)
(* operator from the old row to the new one, because SQLite and D1 execute *)
(* a single UPDATE atomically.                                             *)
(*                                                                         *)
(* Columns that no property tells apart are left out (provider, url, key,  *)
(* models, weight, last_error, the timestamps).  circuit_until is kept as  *)
(* its relation to the clock: "none" (NULL), "running" (in the future) or  *)
(* "over" (in the past).  success_rate is an exact fraction.               *)
(***************************************************************************)
EXTENDS Integers

CONSTANTS
    MinRequests,        \* CIRCUIT_MIN_REQUESTS
    ThresholdNum,       \* CIRCUIT_SUCCESS_RATE_THRESHOLD is the fraction
    ThresholdDen,       \*   ThresholdNum / ThresholdDen
    DeactivateCount,    \* CIRCUIT_DEACTIVATE_COUNT
    DecayAbove          \* the 100 of emaDecayChannels

ASSUME RowAssumption ==
    /\ MinRequests \in Nat \ {0}
    /\ ThresholdNum \in Nat \ {0}
    /\ ThresholdDen \in Nat \ {0}
    /\ DeactivateCount \in Nat \ {0}
    /\ DecayAbove \in Nat

Fraction == [num : Nat, den : Nat \ {0}]

\* A row that was never inserted is "new", a removed one "deleted": ids are
\* AUTOINCREMENT, so a deleted id never names another channel.
Row == [state     : {"new", "stored", "deleted"},
        active    : BOOLEAN,
        valid     : BOOLEAN,
        circuited : BOOLEAN,
        until     : {"none", "running", "over"},
        count     : Nat,
        total     : Nat,
        failed    : Nat,
        rate      : Fraction]

Blank == [state |-> "new", active |-> FALSE, valid |-> FALSE,
          circuited |-> FALSE, until |-> "none", count |-> 0,
          total |-> 0, failed |-> 0, rate |-> [num |-> 1, den |-> 1]]

Stored(w) == w.state = "stored"

Retired(w) == w.count >= DeactivateCount

\* Slips of the code, which the runs must notice: each stands before the
\* definition it would replace (a dropped or wrong condition, column or order).
InPoolOpenCircuits(w) == Stored(w) /\ w.active /\ w.valid

\* The WHERE clause of listCandidateChannels, without the model match.
InPool(w) == Stored(w) /\ w.active /\ w.valid /\ ~w.circuited

\* insertChannel with the values the submit handler binds.
Inserted(ok) == [Blank EXCEPT !.state = "stored", !.active = ok, !.valid = ok]

\* deleteChannel.
Removed == [Blank EXCEPT !.state = "deleted"]

\* success_rate = (total * success_rate + s) / (total + 1), s = 1 on success.
RateAfter(w, ok) ==
    [num |-> w.total * w.rate.num + (IF ok THEN w.rate.den ELSE 0),
     den |-> w.rate.den * (w.total + 1)]

RecordedHeals(w, ok) ==
    [w EXCEPT !.total     = @ + 1,
              !.failed    = IF ok THEN @ ELSE @ + 1,
              !.rate      = RateAfter(w, ok),
              !.circuited = @ /\ ~ok]

\* recordChannelResult.
Recorded(w, ok) ==
    [w EXCEPT !.total  = @ + 1,
              !.failed = IF ok THEN @ ELSE @ + 1,
              !.rate   = RateAfter(w, ok)]

\* The condition maybeCircuitBreak reads before it trips the breaker.
BelowThreshold(w) ==
    /\ Stored(w)
    /\ w.total >= MinRequests
    /\ w.rate.num * ThresholdDen < ThresholdNum * w.rate.den

\* circuitBreakChannel.
Tripped(w) ==
    [w EXCEPT !.circuited = TRUE,
              !.until     = "running",
              !.count     = @ + 1,
              !.active    = @ /\ w.count + 1 < DeactivateCount]

RecoverableMarked(w) == Stored(w) /\ w.circuited /\ w.until = "over"

RecoverableActive(w) ==
    /\ Stored(w) /\ w.active /\ w.circuited
    /\ w.until = "over" /\ w.count < DeactivateCount

\* The WHERE clause and the SET list of recoverExpiredCircuits.
Recoverable(w) ==
    Stored(w) /\ w.circuited /\ w.until = "over" /\ w.count < DeactivateCount

RecoveredClean(w) ==
    [w EXCEPT !.circuited = FALSE, !.until = "none", !.count = 0]

Recovered(w) == [w EXCEPT !.circuited = FALSE, !.until = "none"]

DecayedTotal(w) == IF w.total > DecayAbove THEN [w EXCEPT !.total = @ \div 2] ELSE w

DecayedMarks(w) ==
    IF w.total > DecayAbove
    THEN [w EXCEPT !.total = @ \div 2, !.failed = @ \div 2, !.count = @ \div 2]
    ELSE w

\* emaDecayChannels: integer halves; success_rate stays.
Decayed(w) ==
    IF w.total > DecayAbove
    THEN [w EXCEPT !.total = @ \div 2, !.failed = @ \div 2]
    ELSE w

\* validateChannelsBatch of the cron writes is_valid only ...
Probed(w, ok) == [w EXCEPT !.valid = ok]

\* ... the owner's POST /:id/validate writes is_valid and is_active.
Revalidated(w, ok) == [w EXCEPT !.valid = ok, !.active = ok]

\* reactivateChannel.
Reactivated(w) ==
    [w EXCEPT !.active = TRUE, !.circuited = FALSE, !.until = "none",
              !.count = 0]
=============================================================================
