------------------------------- MODULE Budget -------------------------------
(***************************************************************************)
(* The budget gate (middleware/budget.ts): one request in SampleEvery is   *)
(* counted in the key of its day, and a count over the threshold writes a  *)
(* pause that refuses all dynamic requests until the cron's recovery or    *)
(* the deadline of the entry.  Every key-value call is a step, so samples  *)
(* overlap, requests straddle midnight, and the process may die in a write.*)
(*                                                                         *)
(* Days are counted back from today (0 today, 1 yesterday, ...), so that   *)
(* time never stops; the unit of time is half a day.                       *)
(***************************************************************************)
EXTENDS KvStore

CONSTANTS
    Requests,       \* requests in progress at once
    SampleEvery,    \* 200, the inverse of sampleRate
    DayBudget,      \* 100000 requests a day
    PausePercent,   \* 90, pauseThreshold
    MaxSamples,     \* bound: requests sampled on one day
    MaxStraddle,    \* bound: midnights a request may span
    MaxCrashes      \* bound: deaths of the process

Ttl  == 4           \* expirationTtl: 172800 seconds, two days
Days == 0 .. MaxStraddle        \* whose counters some request can reach
Past == 0 .. MaxStraddle + 2    \* in which a pause still in force was earned

ASSUME BudgetAssumption ==
    /\ SampleEvery \in Nat \ {0} /\ DayBudget \in Nat \ {0}
    /\ PausePercent \in Nat \ {0}
    /\ MaxSamples \in Nat /\ MaxStraddle \in Nat /\ MaxCrashes \in Nat

VARIABLES
    status,     \* the file of gate:status
    counter,    \* [Days -> file of counters:{date}]
    afternoon,  \* the day's first or second half
    req,        \* [Requests -> state of the request]
    cron,       \* progress of budgetDailyRecovery
    crashes,    \* deaths so far
    sampled     \* ghost: [Past -> requests sampled on that day]

vars == <<status, counter, afternoon, req, cron, crashes, sampled>>

\* day: the date computed at the sampling; n: the count it writes.
Idle      == [pc |-> "idle", day |-> 0, n |-> 0]
ReqStates == [pc : {"idle", "sample", "count", "judge"}, day : 0 .. MaxStraddle,
              n : 0 .. MaxSamples]

\* The estimate n / rate against the threshold (the estimate of D1 writes is
\* 0.9 of it, so it never decides).
Over(n) == n * SampleEvery * 100 >= PausePercent * DayBudget

Paused == GetOr(status, "active") = "paused"

Init ==
    /\ status = NoFile
    /\ counter = [d \in Days |-> NoFile]
    /\ afternoon = FALSE
    /\ req = [r \in Requests |-> Idle]
    /\ cron = "idle"
    /\ crashes = 0
    /\ sampled = [d \in Past |-> 0]

----------------------------------------------------------------------------
(* budgetGuard and maybeSample.                                            *)

Gate == /\ status' = AfterGet(status)
        /\ UNCHANGED <<counter, afternoon, cron, crashes, sampled>>

\* Refused with 503, or admitted; an admitted request is rarely sampled.
Guard(r) ==
    /\ req[r].pc = "idle"
    /\ ~Paused
    /\ req' = [req EXCEPT ![r].pc = "sample"]
    /\ Gate

GuardRefuses(r) == req[r].pc = "idle" /\ Paused /\ Gate /\ UNCHANGED req

Unsampled(r) ==
    /\ req[r].pc = "sample"
    /\ req' = [req EXCEPT ![r] = Idle]
    /\ UNCHANGED <<status, counter, afternoon, cron, crashes, sampled>>

\* The date and the read of its counter.
ReadCount(r) ==
    /\ req[r].pc = "sample"
    /\ sampled[0] < MaxSamples
    /\ req' = [req EXCEPT ![r] =
                 [pc |-> "count", day |-> 0, n |-> GetOr(counter[0], 0) + 1]]
    /\ counter' = [counter EXCEPT ![0] = AfterGet(@)]
    /\ sampled' = [sampled EXCEPT ![0] = @ + 1]
    /\ UNCHANGED <<status, afternoon, cron, crashes>>

WriteCountToday(r) ==
    /\ req[r].pc = "count"
    /\ counter' = [counter EXCEPT ![0] = Put(req[r].n, Ttl)]
    /\ req' = [req EXCEPT ![r].pc = "judge"]
    /\ UNCHANGED <<status, afternoon, cron, crashes, sampled>>

WriteCount(r) ==
    /\ req[r].pc = "count"
    /\ counter' = [counter EXCEPT ![req[r].day] = Put(req[r].n, Ttl)]
    /\ req' = [req EXCEPT ![r].pc = "judge"]
    /\ UNCHANGED <<status, afternoon, cron, crashes, sampled>>

\* The pause, when the estimate is over; then the request is served.
Judge(r) ==
    /\ req[r].pc = "judge"
    /\ status' = IF Over(req[r].n) THEN Put("paused", Ttl) ELSE status
    /\ req' = [req EXCEPT ![r] = Idle]
    /\ UNCHANGED <<counter, afternoon, cron, crashes, sampled>>

Handle(r) == Unsampled(r) \/ ReadCount(r) \/ WriteCount(r) \/ Judge(r)

----------------------------------------------------------------------------
(* budgetDailyRecovery.  A run starts at boot, at midnight or on demand;   *)
(* an exception of an earlier task skips the recovery, so nothing makes a  *)
(* run reach it.                                                           *)

CronPurge ==
    /\ cron = "idle"
    /\ counter' = [counter EXCEPT ![1] = NoFile]
    /\ cron' = "check"
    /\ UNCHANGED <<status, afternoon, req, crashes, sampled>>

CronCheck ==
    /\ cron = "check"
    /\ status' = AfterGet(status)
    /\ cron' = IF Paused THEN "lift" ELSE "idle"
    /\ UNCHANGED <<counter, afternoon, req, crashes, sampled>>

CronLift ==
    /\ cron = "lift"
    /\ status' = Put("active", Ttl)
    /\ cron' = "idle"
    /\ UNCHANGED <<counter, afternoon, req, crashes, sampled>>

----------------------------------------------------------------------------
(* Time and failure.                                                       *)

\* A file on each day takes the place of the day before it.
Shifted(f, new) == [d \in DOMAIN f |-> IF d = 0 THEN new ELSE f[d - 1]]

HalfDay ==
    LET aged == [d \in Days |-> Aged(counter[d])]
    IN  /\ afternoon => \A r \in Requests :
                           req[r].pc \in {"count", "judge"} => req[r].day < MaxStraddle
        /\ afternoon' = ~afternoon
        /\ status' = Aged(status)
        /\ counter' = IF afternoon THEN Shifted(aged, NoFile) ELSE aged
        /\ sampled' = IF afternoon THEN Shifted(sampled, 0) ELSE sampled
        /\ req' = [r \in Requests |->
                     IF afternoon /\ req[r].pc \in {"count", "judge"}
                     THEN [req[r] EXCEPT !.day = @ + 1] ELSE req[r]]
        /\ UNCHANGED <<cron, crashes>>

\* writeFileSync is not atomic: the death of the process in a write leaves a
\* file no read can parse.
Dies ==
    /\ crashes < MaxCrashes
    /\ crashes' = crashes + 1
    /\ req' = [r \in Requests |-> Idle]
    /\ cron' = "idle"
    /\ \/ UNCHANGED <<status, counter>>
       \/ \E r \in Requests :
            /\ req[r].pc = "count"
            /\ counter' = [counter EXCEPT ![req[r].day] = Torn]
            /\ UNCHANGED status
       \/ /\ cron = "lift" \/ \E r \in Requests : req[r].pc = "judge" /\ Over(req[r].n)
          /\ status' = Torn
          /\ UNCHANGED counter
    /\ UNCHANGED <<afternoon, sampled>>

Next ==
    \/ \E r \in Requests : Guard(r) \/ GuardRefuses(r) \/ Handle(r)
    \/ CronPurge \/ CronCheck \/ CronLift
    \/ HalfDay \/ Dies

\* Time passes, and the event loop resumes every request; no fairness for
\* the cron.
Spec ==
    /\ Init /\ [][Next]_vars
    /\ WF_vars(HalfDay)
    /\ \A r \in Requests : WF_vars(Handle(r))

----------------------------------------------------------------------------
TypeOK ==
    /\ status \in Files({"active", "paused"}, Ttl)
    /\ counter \in [Days -> Files(0 .. MaxSamples, Ttl)]
    /\ afternoon \in BOOLEAN
    /\ req \in [Requests -> ReqStates]
    /\ cron \in {"idle", "check", "lift"}
    /\ crashes \in 0 .. MaxCrashes
    /\ sampled \in [Past -> 0 .. MaxSamples]

\* A day's counter never exceeds the requests sampled on that day, whatever
\* is lost between the read and the write of a sample or goes over midnight.
CountsAreSamples ==
    \A d \in Days : GetOr(counter[d], 0) <= sampled[d]

\* The gate is closed only if the requests sampled on some recent day reached
\* the threshold: no overlap, straggler or torn file closes it by mistake.
PauseIsEarned == Paused => \E d \in Past : Over(sampled[d])

\* A pause ends, even if no cron run ever reaches the recovery: its entry has
\* a deadline, and only requests admitted before it can renew it.
PauseEnds == Paused ~> ~Paused

\* The key of the pause keeps the promise of the store, lazy expiry, torn
\* writes and racing puts included: an entry ages with the clock alone, holds
\* until its deadline and not a read longer or shorter, is replaced by the puts
\* under way, none of which vanishes, and is lost only when the process dies in
\* one.
Entry == IF Live(status)
         THEN [held |-> TRUE, v |-> status.v, left |-> status.left]
         ELSE [held |-> FALSE]
Lifting == cron = "lift"
Pausing == \E r \in Requests : req[r].pc = "judge" /\ Over(req[r].n)
Writing == {v \in {"active", "paused"} : IF v = "active" THEN Lifting ELSE Pausing}
Store == INSTANCE KvMap WITH Values <- {"active", "paused"}, entry <- Entry,
                             writing <- Writing, clock <- afternoon,
                             deaths <- crashes
StoreIsMap == Store!Spec
=============================================================================
