------------------------- MODULE ChannelPoolProofs -------------------------
(***************************************************************************)
(* Theorems about ChannelPool for all values of its constants.  Every step *)
(* changes each row by at most one of the statements of ChannelRow (lemma  *)
(* RowsMove), so that the facts about single rows need one case per SQL    *)
(* statement and not one per action.                                       *)
(***************************************************************************)
EXTENDS ChannelPool, FiniteSetTheorems, TLAPS

\* One SQL statement, or none, applied to one row.
RowMove(w, v) ==
    \/ v = w
    \/ w.state = "new" /\ \E ok \in BOOLEAN : v = Inserted(ok)
    \/ Stored(w) /\ \E ok \in BOOLEAN : v = Recorded(w, ok)
    \/ Stored(w) /\ v = Tripped(w)
    \/ Stored(w) /\ \E ok \in BOOLEAN : v = Probed(w, ok)
    \/ Stored(w) /\ \E ok \in BOOLEAN : v = Revalidated(w, ok)
    \/ Stored(w) /\ v = Reactivated(w)
    \/ Stored(w) /\ v = Removed
    \/ w.until = "running" /\ v = [w EXCEPT !.until = "over"]
    \/ Recoverable(w) /\ v = Recovered(w)
    \/ v = Decayed(w)

\* Recording a result keeps success_rate a fraction with a positive
\* denominator (recordChannelResult divides by total_requests + 1).
LEMMA RateType ==
    ASSUME NEW w \in Row, NEW ok \in BOOLEAN
    PROVE  RateAfter(w, ok) \in Fraction
<1> DEFINE n == w.rate.num
           d == w.rate.den
           t == w.total
<1>1. n \in Nat /\ d \in Nat /\ d > 0 /\ t \in Nat
  BY DEF Row, Fraction
<1> HIDE DEF n, d, t
<1>2. t * n \in Nat /\ d * (t + 1) \in Nat
  BY <1>1
<1>3. d * (t + 1) > 0
  BY <1>1
<1>4. t * n + (IF ok THEN d ELSE 0) \in Nat
  BY <1>1, <1>2
<1> QED
  BY <1>2, <1>3, <1>4 DEF RateAfter, Fraction, n, d, t

\* A share stays a share when one more result is averaged in.
LEMMA RateShare ==
    ASSUME NEW w \in Row, NEW ok \in BOOLEAN, w.rate.num <= w.rate.den
    PROVE  RateAfter(w, ok).num <= RateAfter(w, ok).den
<1> DEFINE n == w.rate.num
           d == w.rate.den
           t == w.total
<1>1. n \in Nat /\ d \in Nat /\ t \in Nat /\ n <= d
  BY DEF Row, Fraction
<1> HIDE DEF n, d, t
<1>2. t * n <= t * d
  BY <1>1
<1>3. d * (t + 1) = t * d + d
  BY <1>1
<1>4. t * n \in Nat /\ t * d \in Nat
  BY <1>1
<1>5. t * n + (IF ok THEN d ELSE 0) <= d * (t + 1)
  BY <1>1, <1>2, <1>3, <1>4
<1> QED
  BY <1>5 DEF RateAfter, n, d, t

LEMMA BlankType == Blank \in Row /\ Removed \in Row
<1>1. [num |-> 1, den |-> 1] \in Fraction
  BY DEF Fraction
<1>2. Blank \in Row
  BY <1>1 DEF Blank, Row
<1>3. Removed \in Row
  BY <1>2 DEF Removed, Row
<1> QED
  BY <1>2, <1>3

\* Every statement keeps a row well-typed.
LEMMA MoveType ==
    ASSUME NEW w \in Row, NEW v, RowMove(w, v)
    PROVE  v \in Row
<1>1. CASE v = w
  BY <1>1
<1>2. ASSUME NEW ok \in BOOLEAN, v = Inserted(ok)
      PROVE  v \in Row
  BY <1>2, BlankType DEF Inserted, Row
<1>3. ASSUME NEW ok \in BOOLEAN, v = Recorded(w, ok)
      PROVE  v \in Row
  <2>1. RateAfter(w, ok) \in Fraction
    BY RateType
  <2>2. w.total + 1 \in Nat /\ (IF ok THEN w.failed ELSE w.failed + 1) \in Nat
    BY DEF Row
  <2>3. v = [w EXCEPT !.total = w.total + 1,
                      !.failed = IF ok THEN w.failed ELSE w.failed + 1,
                      !.rate = RateAfter(w, ok)]
    BY <1>3 DEF Recorded
  <2> QED
    BY <2>1, <2>2, <2>3 DEF Row
<1>4. CASE v = Tripped(w)
  <2> DEFINE a == w.active /\ w.count + 1 < DeactivateCount
  <2>1. a \in BOOLEAN
    OBVIOUS
  <2>2. w.count + 1 \in Nat
    BY DEF Row
  <2>3. v = [w EXCEPT !.circuited = TRUE, !.until = "running",
                      !.count = w.count + 1, !.active = a]
    BY <1>4 DEF Tripped
  <2> HIDE DEF a
  <2> QED
    BY <2>1, <2>2, <2>3 DEF Row
<1>5. ASSUME NEW ok \in BOOLEAN, v = Probed(w, ok) \/ v = Revalidated(w, ok)
      PROVE  v \in Row
  BY <1>5 DEF Probed, Revalidated, Row
<1>6. CASE v = Reactivated(w)
  BY <1>6 DEF Reactivated, Row
<1>7. CASE v = Removed
  BY <1>7, BlankType
<1>8. CASE v = [w EXCEPT !.until = "over"]
  BY <1>8 DEF Row
<1>9. CASE v = Recovered(w)
  BY <1>9 DEF Recovered, Row
<1>10. CASE v = Decayed(w)
  <2>1. w.total \div 2 \in Nat /\ w.failed \div 2 \in Nat
    BY DEF Row
  <2> QED
    BY <1>10, <2>1 DEF Decayed, Row
<1> QED
  BY <1>1, <1>2, <1>3, <1>4, <1>5, <1>6, <1>7, <1>8, <1>9, <1>10 DEF RowMove

\* UPDATE ... WHERE id = c is a move of row c and of no other row.
LEMMA WriteMoves ==
    ASSUME NEW c \in Channels, NEW w, row \in [Channels -> Row],
           Write(c, w), Stored(row[c]) => RowMove(row[c], w)
    PROVE  row' \in [Channels -> Row]
             /\ \A b \in Channels : RowMove(row[b], row'[b])
<1>1. CASE ~Stored(row[c])
  BY <1>1 DEF Write, RowMove
<1>2. CASE Stored(row[c])
  <2>1. row' = [row EXCEPT ![c] = w]
    BY <1>2 DEF Write
  <2>2. w \in Row
    BY <1>2, MoveType
  <2> QED
    BY <1>2, <2>1, <2>2 DEF RowMove
<1> QED
  BY <1>1, <1>2

\* The statements a client call applies to a row.
CallMove(w, v) ==
    \/ v = w
    \/ Stored(w) /\ \E ok \in BOOLEAN : v = Recorded(w, ok)
    \/ Stored(w) /\ v = Tripped(w)

\* recordChannelResult of an answer, by what the answer was.
LEMMA ResultWritten ==
    ASSUME NEW r \in Requests, RecordResult(r)
    PROVE  \E ok \in BOOLEAN : /\ ok <=> outcome[r] \in Successes
                              /\ Write(on[r], Recorded(row[on[r]], ok))
<1>1. CASE outcome[r] \in Successes
  <2>1. Write(on[r], Recorded(row[on[r]], TRUE))
    BY <1>1 DEF RecordResult, Recorded, RateAfter
  <2> QED
    BY <1>1, <2>1
<1>2. CASE outcome[r] \notin Successes
  <2>1. Write(on[r], Recorded(row[on[r]], FALSE))
    BY <1>2 DEF RecordResult, Recorded, RateAfter
  <2> QED
    BY <1>2, <2>1
<1> QED
  BY <1>1, <1>2

LEMMA CallRows ==
    ASSUME TypeOK, NEW r \in Requests, Call(r)
    PROVE  /\ row' \in [Channels -> Row]
           /\ \A b \in Channels : CallMove(row[b], row'[b])
<1>0. on[r] \in Channels \/ pc[r] \in {"list"} \cup Answered
  BY DEF TypeOK, AttemptOK
<1>1. ASSUME NEW w, on[r] \in Channels, Write(on[r], w),
             Stored(row[on[r]]) => CallMove(row[on[r]], w)
      PROVE  /\ row' \in [Channels -> Row]
             /\ \A b \in Channels : CallMove(row[b], row'[b])
  <2>1. Stored(row[on[r]]) => RowMove(row[on[r]], w)
    BY <1>1 DEF CallMove, RowMove
  <2>2. row' \in [Channels -> Row]
    BY <1>1, <2>1, WriteMoves DEF TypeOK
  <2> QED
    BY <1>1, <2>2 DEF Write, CallMove, TypeOK
<1>2. CASE DecryptFails(r) \/ RecordResult(r) \/ CatchRecord(r)
  <2>1. PICK ok \in BOOLEAN : Write(on[r], Recorded(row[on[r]], ok))
    BY <1>2, ResultWritten DEF DecryptFails, CatchRecord
  <2>2. on[r] \in Channels
    BY <1>0, <1>2 DEF DecryptFails, RecordResult, CatchRecord, Answered
  <2>3. Stored(row[on[r]]) => CallMove(row[on[r]], Recorded(row[on[r]], ok))
    BY DEF CallMove
  <2> QED
    BY <1>1, <2>1, <2>2, <2>3
<1>3. CASE Trip(r) \/ NoteFails(r)
  <2>1. Write(on[r], Tripped(row[on[r]])) /\ on[r] \in Channels
    BY <1>0, <1>3 DEF Trip, NoteFails, Answered
  <2>2. Stored(row[on[r]]) => CallMove(row[on[r]], Tripped(row[on[r]]))
    BY DEF CallMove
  <2> QED
    BY <1>1, <2>1, <2>2
<1>4. CASE \/ PoolEmpty(r) \/ Pick(r) \/ CallFails(r) \/ InsertLog(r)
           \/ Serve(r) \/ AnswerThrows(r) \/ CheckPasses(r) \/ CheckFails(r)
           \/ Upstream(r) \/ DbThrows(r)
  <2>1. UNCHANGED row
    BY <1>4 DEF PoolEmpty, Pick, CallFails, InsertLog, Serve,
                AnswerThrows, CheckPasses, CheckFails, Upstream, HeadersArrive, BodyArrives, BodyFails,
                DbThrows
  <2> QED
    BY <2>1 DEF CallMove, TypeOK
<1> QED
  BY <1>2, <1>3, <1>4 DEF Call, Gateway

Moved == row' \in [Channels -> Row]
           /\ \A b \in Channels : RowMove(row[b], row'[b])

\* Every step of the system moves every row by at most one statement.
LEMMA RowsMove ==
    ASSUME TypeOK, [Next]_vars
    PROVE  Moved
<1>1. CASE UNCHANGED row
  BY <1>1 DEF Moved, RowMove, TypeOK
<1>2. ASSUME NEW r \in Requests, Call(r)
      PROVE  Moved
  <2>1. \A b \in Channels : RowMove(row[b], row'[b])
    BY <1>2, CallRows DEF CallMove, RowMove
  <2> QED
    BY <1>2, <2>1, CallRows DEF Moved
<1>3. ASSUME NEW c \in Channels, Owner(c) \/ CooldownEnds(c)
      PROVE  Moved
  <2>1. PICK v : row' = [row EXCEPT ![c] = v] /\ RowMove(row[c], v)
    BY <1>3 DEF Owner, Submit, Revalidate, Reactivate, Delete, CooldownEnds,
                RowMove
  <2>2. v \in Row
    BY <2>1, MoveType DEF TypeOK
  <2> QED
    BY <2>1, <2>2 DEF Moved, TypeOK, RowMove
<1>4. ASSUME NEW k \in Crons, Cron(k)
      PROVE  Moved
  <2>1. CASE CronProbe(k)
    <3>1. PICK c \in todo[k] : \/ UNCHANGED row
                               \/ \E ok \in BOOLEAN :
                                     Write(c, Probed(row[c], ok))
      BY <2>1 DEF CronProbe
    <3>2. c \in Channels
      BY <3>1 DEF TypeOK
    <3>3. ASSUME NEW ok \in BOOLEAN, Write(c, Probed(row[c], ok))
          PROVE  Moved
      <4>1. Stored(row[c]) => RowMove(row[c], Probed(row[c], ok))
        BY DEF RowMove
      <4> QED
        BY <3>2, <3>3, <4>1, WriteMoves DEF Moved, TypeOK
    <3> QED
      BY <3>1, <3>3, <1>1
  <2>2. CASE CronRecover(k)
    <3>1. \A b \in Channels : RowMove(row[b], row'[b])
      BY <2>2 DEF CronRecover, RowMove
    <3>2. \A b \in Channels : row'[b] \in Row
      BY <3>1, MoveType DEF TypeOK
    <3> QED
      BY <2>2, <3>1, <3>2 DEF CronRecover, Moved
  <2>3. CASE CronDecay(k)
    <3>1. \A b \in Channels : RowMove(row[b], row'[b])
      BY <2>3 DEF CronDecay, RowMove
    <3>2. \A b \in Channels : row'[b] \in Row
      BY <3>1, MoveType DEF TypeOK
    <3> QED
      BY <2>3, <3>1, <3>2 DEF CronDecay, Moved
  <2>4. CASE CronStart(k) \/ CronAborts(k)
    <3>1. UNCHANGED row
      BY <2>4 DEF CronStart, CronAborts
    <3> QED
      BY <3>1, <1>1
  <2> QED
    BY <1>4, <2>1, <2>2, <2>3, <2>4 DEF Cron, CronWorks
<1>5. CASE UNCHANGED vars
  BY <1>5, <1>1 DEF vars
<1> QED
  BY <1>2, <1>3, <1>4, <1>5 DEF Next

\* The control part of TypeOK, everything but the rows.
LEMMA ControlType ==
    ASSUME TypeOK, [Next]_vars
    PROVE  /\ logs' \subseteq LogRow
           /\ pc' \in [Requests -> CallState]
           /\ on' \in [Requests -> Channels \cup {NoChannel}]
           /\ attempt' \in [Requests -> 0 .. MaxRetries]
           /\ outcome' \in [Requests -> Outcomes]
           /\ \A r \in Requests : AttemptOK(r)'
           /\ cpc' \in [Crons -> {"idle", "probe", "decay"}]
           /\ todo' \in [Crons -> SUBSET Channels]
           /\ dbErrors' \in 0 .. MaxDbErrors
<1> USE DEF TypeOK
<1>1. ASSUME NEW r \in Requests, NextAttempt(r) \/ GiveUp(r)
      PROVE  /\ pc' \in [Requests -> CallState]
             /\ on' \in [Requests -> Channels \cup {NoChannel}]
             /\ attempt' \in [Requests -> 0 .. MaxRetries]
             /\ outcome' \in [Requests -> Outcomes]
             /\ \A q \in Requests : AttemptOK(q)'
  BY <1>1, PoolAssumption DEF NextAttempt, GiveUp, Goto, CallState, Answered,
                              Outcomes, AttemptOK
<1>2. ASSUME NEW r \in Requests, Call(r)
      PROVE  /\ logs' \subseteq LogRow
             /\ pc' \in [Requests -> CallState]
             /\ on' \in [Requests -> Channels \cup {NoChannel}]
             /\ attempt' \in [Requests -> 0 .. MaxRetries]
             /\ outcome' \in [Requests -> Outcomes]
             /\ \A q \in Requests : AttemptOK(q)'
             /\ dbErrors' \in 0 .. MaxDbErrors
             /\ UNCHANGED cronVars
  <2>1. CASE PoolEmpty(r) \/ DecryptFails(r) \/ CheckPasses(r) \/ Trip(r)
    <3>1. NextAttempt(r) \/ GiveUp(r)
      BY <2>1 DEF PoolEmpty, DecryptFails, CheckPasses, Trip, AfterFailure
    <3>2. UNCHANGED <<logs, cpc, todo, dbErrors>>
      BY <2>1 DEF PoolEmpty, DecryptFails, CheckPasses, Trip, cronVars
    <3>3. /\ pc' \in [Requests -> CallState]
          /\ on' \in [Requests -> Channels \cup {NoChannel}]
          /\ attempt' \in [Requests -> 0 .. MaxRetries]
          /\ outcome' \in [Requests -> Outcomes]
          /\ \A q \in Requests : AttemptOK(q)'
      BY <3>1, <1>1
    <3> QED
      BY <3>2, <3>3 DEF cronVars
  <2>2. CASE Pick(r)
    <3>1. PICK c \in Channels, p \in {"decrypt", "call"} :
             on' = [on EXCEPT ![r] = c] /\ pc' = [pc EXCEPT ![r] = p]
      BY <2>2, PoolAssumption DEF Pick, Candidates, Goto
    <3>2. UNCHANGED <<logs, attempt, outcome, cpc, todo, dbErrors>>
      BY <2>2 DEF Pick, cronVars
    <3> QED
      BY <3>1, <3>2, PoolAssumption DEF CallState, Answered, AttemptOK, cronVars
  <2>3. CASE Upstream(r) \/ CallFails(r)
    BY <2>3, RepliesAssumption
       DEF Upstream, HeadersArrive, BodyArrives, BodyFails, CallFails, Goto,
           CallState, Answered, Outcomes, Statuses, AttemptOK, cronVars
  <2>4. CASE RecordResult(r) \/ CatchRecord(r) \/ CheckFails(r)
    BY <2>4 DEF RecordResult, CatchRecord, CheckFails, Goto, CallState,
                Answered, AttemptOK, cronVars
  <2>5. CASE InsertLog(r)
    <3>1. pc[r] = "log" /\ AttemptOK(r)
      BY <2>5 DEF InsertLog
    <3>2. on[r] \in Channels /\ outcome[r] \in Statuses
      BY <3>1 DEF AttemptOK, Answered
    <3>3. logs' \subseteq LogRow
      BY <2>5, <3>2 DEF InsertLog, LogRow
    <3> QED
      BY <2>5, <3>2, <3>3 DEF InsertLog, Goto, CallState, Answered, AttemptOK,
                              cronVars
  <2>6. CASE Serve(r) \/ AnswerThrows(r)
    BY <2>6, PoolAssumption DEF Serve, AnswerThrows, Goto, CallState, Answered,
                                Outcomes, AttemptOK, cronVars
  <2>7. CASE DbThrows(r) \/ NoteFails(r)
    <3>1. /\ pc[r] \notin {"call", "body"} \cup Answered
          /\ dbErrors < MaxDbErrors /\ dbErrors' = dbErrors + 1
          /\ Exception(r)
          /\ UNCHANGED <<logs, attempt, cpc, todo>>
      BY <2>7 DEF DbThrows, NoteFails, Answered, cronVars
    <3> QED
      BY <3>1, PoolAssumption DEF Exception, InTry, Goto, CallState, Answered,
                                  Outcomes, AttemptOK, cronVars
  <2> QED
    BY <1>2, <2>1, <2>2, <2>3, <2>4, <2>5, <2>6, <2>7 DEF Call, Gateway
<1>3. ASSUME NEW c \in Channels, Owner(c) \/ CooldownEnds(c)
      PROVE  UNCHANGED <<logs, reqVars, cronVars, dbErrors>>
  BY <1>3 DEF Owner, Submit, Revalidate, Reactivate, Delete, CooldownEnds
<1>4. ASSUME NEW k \in Crons, Cron(k)
      PROVE  /\ UNCHANGED <<logs, reqVars>>
             /\ cpc' \in [Crons -> {"idle", "probe", "decay"}]
             /\ todo' \in [Crons -> SUBSET Channels]
             /\ dbErrors' \in 0 .. MaxDbErrors
  BY <1>4, PoolAssumption DEF Cron, CronWorks, CronStart, CronProbe,
              CronRecover, CronDecay, CronAborts, ActiveRows
<1> QED
  BY <1>2, <1>3, <1>4 DEF Next, vars, reqVars, cronVars, AttemptOK

LEMMA TypeInit == Init => TypeOK
<1> SUFFICES ASSUME Init PROVE TypeOK
  OBVIOUS
<1>1. row \in [Channels -> Row]
  BY BlankType DEF Init
<1> QED
  BY <1>1, PoolAssumption DEF Init, TypeOK, CallState, Outcomes, AttemptOK

LEMMA TypeStep == TypeOK /\ [Next]_vars => TypeOK'
  BY RowsMove, ControlType DEF TypeOK, Moved, AttemptOK

\* The types of the pool's state are invariant; with them a request holds a
\* channel exactly while one of its attempts is under way (routes/proxy.ts).
THEOREM TypeCorrect == Spec => []TypeOK
  BY TypeInit, TypeStep, PTL DEF Spec

----------------------------------------------------------------------------
(* Facts about single rows, and the invariants that follow. *)

\* Every statement keeps the circuit of a retired row open: the WHERE clause of
\* recoverExpiredCircuits skips it and reactivation takes its marks away.
RetiredIsOpen(w) == Retired(w) => w.circuited

LEMMA MoveKeepsRetiredOpen ==
    ASSUME NEW w \in Row, NEW v, RowMove(w, v), RetiredIsOpen(w)
    PROVE  RetiredIsOpen(v)
<1> USE DEF RetiredIsOpen, Retired
<1>1. CASE v.count = w.count /\ v.circuited = w.circuited
  BY <1>1
<1>2. CASE v = Tripped(w)
  BY <1>2 DEF Tripped, Row
<1>3. CASE v.count = 0
  BY <1>3, RowAssumption
<1>4. CASE Recoverable(w) /\ v = Recovered(w)
  BY <1>4, RowAssumption DEF Recoverable, Recovered, Row
<1>5. ASSUME NEW ok \in BOOLEAN,
             \/ v = Recorded(w, ok)
             \/ v = Probed(w, ok)
             \/ v = Revalidated(w, ok)
      PROVE  v.count = w.count /\ v.circuited = w.circuited
  BY <1>5 DEF Recorded, Probed, Revalidated, Row
<1>6. ASSUME \/ v = w
             \/ v = [w EXCEPT !.until = "over"]
             \/ v = Decayed(w)
      PROVE  v.count = w.count /\ v.circuited = w.circuited
  BY <1>6 DEF Decayed, Row
<1>7. ASSUME \/ v = Removed
             \/ v = Reactivated(w)
             \/ \E ok \in BOOLEAN : v = Inserted(ok)
      PROVE  v.count = 0
  BY <1>7 DEF Removed, Reactivated, Inserted, Blank, Row
<1> QED
  BY <1>1, <1>2, <1>3, <1>4, <1>5, <1>6, <1>7 DEF RowMove

RetiredOpen == \A c \in Channels : RetiredIsOpen(row[c])

LEMMA RetiredOpenInit == Init => RetiredOpen
  BY RowAssumption DEF Init, RetiredOpen, RetiredIsOpen, Retired, Blank

LEMMA RetiredOpenStep == TypeOK /\ RetiredOpen /\ [Next]_vars => RetiredOpen'
  BY RowsMove, MoveKeepsRetiredOpen DEF RetiredOpen, Moved, TypeOK

\* A retired channel is out of the pool until its owner reactivates it, however
\* late answers, the cron and re-validations interleave.
THEOREM RetiredIsolation == Spec => []RetiredGetsNoTraffic
<1>1. RetiredOpen => RetiredGetsNoTraffic
  BY DEF RetiredOpen, RetiredIsOpen, RetiredGetsNoTraffic, InPool
<1> QED
  BY <1>1, RetiredOpenInit, RetiredOpenStep, TypeCorrect, PTL DEF Spec

StatsOK(w) == w.failed <= w.total /\ w.rate.num <= w.rate.den

LEMMA MoveKeepsStats ==
    ASSUME NEW w \in Row, NEW v, RowMove(w, v), StatsOK(w)
    PROVE  StatsOK(v)
<1>1. ASSUME NEW ok \in BOOLEAN, v = Recorded(w, ok)
      PROVE  StatsOK(v)
  <2>1. RateAfter(w, ok).num <= RateAfter(w, ok).den
    BY RateShare DEF StatsOK
  <2>2. v.rate = RateAfter(w, ok) /\ v.total = w.total + 1
          /\ v.failed = IF ok THEN w.failed ELSE w.failed + 1
    BY <1>1 DEF Recorded, Row
  <2> QED
    BY <2>1, <2>2 DEF StatsOK, Row
<1>2. CASE v = Decayed(w)
  BY <1>2 DEF StatsOK, Decayed, Row
<1>3. CASE \/ v = Removed
           \/ \E ok \in BOOLEAN : v = Inserted(ok)
  <2>1. v.failed = 0 /\ v.total = 0 /\ v.rate = [num |-> 1, den |-> 1]
    BY <1>3 DEF Removed, Inserted, Blank
  <2> QED
    BY <2>1 DEF StatsOK
<1>4. CASE v.failed = w.failed /\ v.total = w.total /\ v.rate = w.rate
  BY <1>4 DEF StatsOK
<1>5. ASSUME \/ v = w
             \/ v = Tripped(w)
             \/ \E ok \in BOOLEAN : v = Probed(w, ok) \/ v = Revalidated(w, ok)
             \/ v = Reactivated(w)
             \/ v = [w EXCEPT !.until = "over"]
             \/ v = Recovered(w)
      PROVE  v.failed = w.failed /\ v.total = w.total /\ v.rate = w.rate
  BY <1>5 DEF Row, Tripped, Probed, Revalidated, Reactivated, Recovered
<1> QED
  BY <1>1, <1>2, <1>3, <1>4, <1>5 DEF RowMove

\* The counters of every channel stay consistent: no more failures than
\* results, and a success_rate between 0 and 1, decay included.
THEOREM StatsInvariant == Spec => []StatsConsistent
<1>1. Init => StatsConsistent
  BY DEF Init, StatsConsistent, Blank
<1>2. TypeOK /\ StatsConsistent /\ [Next]_vars => StatsConsistent'
  BY RowsMove, MoveKeepsStats DEF StatsConsistent, StatsOK, Moved, TypeOK
<1> QED
  BY <1>1, <1>2, TypeCorrect, PTL DEF Spec

----------------------------------------------------------------------------
(* Traffic and the pool. *)

LEMMA CallMoveLeavesPool ==
    ASSUME NEW w \in Row, NEW v, CallMove(w, v), InPool(v)
    PROVE  InPool(w)
<1>1. ASSUME NEW ok \in BOOLEAN, v = Recorded(w, ok)
      PROVE  InPool(w)
  BY <1>1 DEF InPool, Stored, Recorded, Row
<1>2. CASE v = Tripped(w)
  BY <1>2 DEF InPool, Tripped, Row
<1> QED
  BY <1>1, <1>2 DEF CallMove

\* No step of a client call (routes/proxy.ts) puts a channel into the pool.
THEOREM TrafficShrinksPool == Spec => TrafficOnlyShrinksPool
<1>1. TypeOK /\ [Next]_vars => [pc' # pc => Pool' \subseteq Pool]_vars
  <2> SUFFICES ASSUME TypeOK, Next, pc' # pc
               PROVE  Pool' \subseteq Pool
    OBVIOUS
  <2>1. PICK r \in Requests : Call(r)
    <3>1. ASSUME NEW c \in Channels, Owner(c) \/ CooldownEnds(c)
          PROVE  FALSE
      BY <3>1 DEF Owner, Submit, Revalidate, Reactivate, Delete, CooldownEnds,
                  reqVars
    <3>2. ASSUME NEW k \in Crons, Cron(k)
          PROVE  FALSE
      BY <3>2 DEF Cron, CronWorks, CronStart, CronProbe, CronRecover,
                  CronDecay, CronAborts, reqVars
    <3> QED
      BY <3>1, <3>2 DEF Next
  <2>2. \A b \in Channels : InPool(row'[b]) => InPool(row[b])
    BY <2>1, CallRows, CallMoveLeavesPool DEF TypeOK
  <2> QED
    BY <2>2 DEF Pool
<1> QED
  BY <1>1, TypeCorrect, PTL DEF Spec, TrafficOnlyShrinksPool

----------------------------------------------------------------------------
(* Marks.  A trip takes one request off the holders for the mark it adds,  *)
(* and a request becomes a holder only while the channel is not retired.   *)

\* Apart from Pick, no step of a call makes it a holder, and Trip ends one.
LEMMA HoldersShrink ==
    ASSUME TypeOK, NEW r \in Requests, Call(r), ~Pick(r), NEW c \in Channels
    PROVE  /\ Holders(c)' \subseteq Holders(c)
           /\ Trip(r) => r \notin Holders(c)'
<1> USE DEF Holders, TypeOK, Goto
<1>1. c # NoChannel
  BY PoolAssumption
<1>2. ASSUME NextAttempt(r) \/ GiveUp(r)
      PROVE  Holders(c)' \subseteq Holders(c) /\ r \notin Holders(c)'
  BY <1>1, <1>2 DEF NextAttempt, GiveUp
<1>3. CASE PoolEmpty(r) \/ DecryptFails(r) \/ CheckPasses(r) \/ Trip(r)
  <2>1. NextAttempt(r) \/ GiveUp(r)
    BY <1>3 DEF PoolEmpty, DecryptFails, CheckPasses, Trip, AfterFailure
  <2> QED
    BY <2>1, <1>2
<1>4. CASE Upstream(r) \/ CallFails(r) \/ RecordResult(r) \/ CatchRecord(r)
             \/ CheckFails(r)
  BY <1>4 DEF Upstream, HeadersArrive, BodyArrives, BodyFails, CallFails,
              RecordResult, CatchRecord, CheckFails, Trip
<1>5. CASE InsertLog(r)
  BY <1>5 DEF InsertLog, Trip
<1>6. CASE Serve(r) \/ AnswerThrows(r)
  BY <1>1, <1>6 DEF Serve, AnswerThrows, Trip
<1>7. CASE DbThrows(r) \/ NoteFails(r)
  <2>1. pc[r] \notin {"call", "body"} \cup Answered /\ Exception(r)
    BY <1>7 DEF DbThrows, NoteFails, Answered
  <2>2. Holders(c)' \subseteq Holders(c)
    BY <1>1, <2>1 DEF Exception, InTry
  <2>3. dbErrors' # dbErrors
    BY <1>7, PoolAssumption DEF DbThrows, NoteFails
  <2> QED
    BY <2>2, <2>3 DEF Trip
<1> QED
  BY <1>2, <1>3, <1>4, <1>5, <1>6, <1>7 DEF Call, Gateway

LEMMA HoldersFinite ==
    ASSUME NEW c
    PROVE  /\ IsFiniteSet(Holders(c))
           /\ Cardinality(Holders(c)) \in Nat
           /\ Cardinality(Requests) \in Nat
           /\ Cardinality(Holders(c)) <= Cardinality(Requests)
<1>1. Holders(c) \subseteq Requests
  BY DEF Holders
<1> QED
  BY <1>1, PoolAssumption, FS_Subset, FS_CardinalityType

\* The same, for the holders after the step.
LEMMA HoldersFinitePrime ==
    ASSUME NEW c
    PROVE  /\ IsFiniteSet(Holders(c)')
           /\ Cardinality(Holders(c)') \in Nat
           /\ Cardinality(Holders(c)') <= Cardinality(Requests)
<1>1. Holders(c)' \subseteq Requests
  BY DEF Holders
<1> QED
  BY <1>1, PoolAssumption, FS_Subset, FS_CardinalityType

\* No step takes a database failure back.
LEMMA ErrorsGrow ==
    ASSUME dbErrors \in Nat, [Next]_vars
    PROVE  dbErrors <= dbErrors'
<1>1. ASSUME NEW r \in Requests, Call(r)
      PROVE  dbErrors' \in {dbErrors, dbErrors + 1}
  BY <1>1 DEF Call, Gateway, Upstream, PoolEmpty, Pick, DecryptFails,
       HeadersArrive, CallFails, BodyArrives, BodyFails, RecordResult,
       InsertLog, Serve, AnswerThrows, CatchRecord, CheckPasses, CheckFails,
       Trip, DbThrows, NoteFails
<1>2. ASSUME NEW c \in Channels, Owner(c) \/ CooldownEnds(c)
      PROVE  dbErrors' = dbErrors
  BY <1>2 DEF Owner, Submit, Revalidate, Reactivate, Delete, CooldownEnds
<1>3. ASSUME NEW k \in Crons, Cron(k)
      PROVE  dbErrors' \in {dbErrors, dbErrors + 1}
  BY <1>3 DEF Cron, CronWorks, CronStart, CronProbe, CronRecover, CronDecay,
              CronAborts
<1> QED
  BY <1>1, <1>2, <1>3 DEF Next, vars

LEMMA MarksStep ==
    TypeOK /\ RetiredOpen /\ MarksBounded /\ [Next]_vars => MarksBounded'
<1> SUFFICES ASSUME TypeOK, RetiredOpen, MarksBounded, [Next]_vars,
                    NEW c \in Channels
             PROVE  row'[c].count + Cardinality(Holders(c)')
                      <= DeactivateCount - 1 + Cardinality(Requests)
                           + dbErrors'
  BY DEF MarksBounded
<1> DEFINE h == Cardinality(Holders(c))
           g == Cardinality(Holders(c)')
           n == Cardinality(Requests)
<1>0. /\ h \in Nat /\ g \in Nat /\ n \in Nat /\ g <= n
      /\ row[c].count \in Nat /\ row'[c].count \in Nat
      /\ row[c].count + h <= DeactivateCount - 1 + n + dbErrors
      /\ dbErrors \in Nat /\ dbErrors' \in Nat /\ dbErrors <= dbErrors'
  <2>1. dbErrors \in Nat /\ dbErrors' \in Nat
    BY ControlType, PoolAssumption DEF TypeOK
  <2>2. dbErrors <= dbErrors'
    BY <2>1, ErrorsGrow
  <2> QED
    BY <2>1, <2>2, HoldersFinite, HoldersFinitePrime, RowsMove
       DEF TypeOK, Row, Moved, MarksBounded
<1>1. ASSUME Holders(c)' \subseteq Holders(c)
      PROVE  g <= h
  BY <1>1, HoldersFinite, FS_Subset
<1>2. ASSUME row'[c].count <= row[c].count, Holders(c)' \subseteq Holders(c)
      PROVE  row'[c].count + g <= DeactivateCount - 1 + n + dbErrors'
  <2> HIDE DEF h, g, n
  <2> QED
    BY <1>0, <1>1, <1>2, RowAssumption
<1>3. ASSUME NEW r \in Requests, Call(r)
      PROVE  row'[c].count + g <= DeactivateCount - 1 + n + dbErrors'
  <2>1. CASE Pick(r)
    <3>1. UNCHANGED row
      BY <2>1 DEF Pick
    <3>2. CASE InPool(row[c])
      <4>1. row'[c].count <= DeactivateCount - 1
        BY <3>1, <3>2, <1>0, RowAssumption
           DEF RetiredOpen, RetiredIsOpen, Retired, InPool
      <4> HIDE DEF h, g, n
      <4> QED
        BY <4>1, <1>0, RowAssumption
    <3>3. CASE ~InPool(row[c])
      <4>1. on'[r] # c
        BY <2>1, <3>3 DEF Pick, Candidates, TypeOK
      <4>2. Holders(c)' \subseteq Holders(c)
        BY <2>1, <4>1 DEF Pick, Holders, Goto, TypeOK
      <4> QED
        BY <4>2, <3>1, <1>2, <1>0
    <3> QED
      BY <3>2, <3>3
  <2>2. CASE ~Pick(r) /\ row'[c].count <= row[c].count
    BY <2>2, <1>2, <1>3, HoldersShrink
  <2>3. CASE ~Pick(r) /\ ~(row'[c].count <= row[c].count)
    <3>1. row'[c] = Tripped(row[c]) /\ row'[c].count = row[c].count + 1
      <4>1. ASSUME NEW ok \in BOOLEAN, row'[c] = Recorded(row[c], ok)
            PROVE  row'[c].count = row[c].count
        BY <4>1 DEF Recorded, TypeOK, Row
      <4>2. row'[c] = Tripped(row[c])
        BY <4>1, <2>3, <1>0, <1>3, CallRows DEF CallMove
      <4>3. Tripped(row[c]).count = row[c].count + 1
        BY DEF Tripped, TypeOK, Row
      <4> QED
        BY <4>2, <4>3
    <3>2. (Trip(r) \/ NoteFails(r)) /\ on[r] = c
      <4>1. row'[c] # row[c] /\ \A ok \in BOOLEAN : row'[c] # Recorded(row[c], ok)
        <5>1. \A ok \in BOOLEAN : Recorded(row[c], ok).count = row[c].count
          BY DEF Recorded, TypeOK, Row
        <5> QED
          BY <5>1, <3>1, <1>0
      <4>2. Trip(r) \/ NoteFails(r)
        <5>1. ASSUME NEW ok \in BOOLEAN, Write(on[r], Recorded(row[on[r]], ok))
              PROVE  row'[c] = row[c] \/ row'[c] = Recorded(row[c], ok)
          BY <5>1 DEF Write, TypeOK
        <5>2. ~(DecryptFails(r) \/ RecordResult(r) \/ CatchRecord(r))
          BY <4>1, <5>1, ResultWritten DEF DecryptFails, CatchRecord
        <5>3. row' # row
          BY <4>1
        <5> QED
          BY <1>3, <5>2, <5>3
             DEF Call, Gateway, PoolEmpty, Pick, CallFails, InsertLog, Serve,
                 AnswerThrows, CheckPasses, CheckFails, Upstream, HeadersArrive,
                 BodyArrives, BodyFails, DbThrows
      <4> QED
        BY <4>1, <4>2 DEF Trip, NoteFails, Write, TypeOK
    <3>3. CASE NoteFails(r)
      <4>1. dbErrors' = dbErrors + 1
        BY <3>3 DEF NoteFails
      <4>2. g <= h
        BY <1>1, <1>3, <2>3, HoldersShrink
      <4> HIDE DEF h, g, n
      <4> QED
        BY <3>1, <4>1, <4>2, <1>0, RowAssumption
    <3>4. CASE Trip(r)
      <4>1. r \in Holders(c) /\ r \notin Holders(c)'
        BY <3>2, <3>4, <1>3, <2>3, HoldersShrink DEF Holders, Trip
      <4>2. g < h
        <5>1. Holders(c)' \subseteq Holders(c) \ {r}
          BY <4>1, <1>3, <2>3, HoldersShrink
        <5>2. Cardinality(Holders(c) \ {r}) = h - 1
          BY <4>1, HoldersFinite, FS_RemoveElement
        <5>3. IsFiniteSet(Holders(c) \ {r})
          BY HoldersFinite, FS_RemoveElement
        <5>4. g <= Cardinality(Holders(c) \ {r})
          BY <5>1, <5>3, FS_Subset
        <5> QED
          BY <5>2, <5>4, <1>0
      <4> HIDE DEF h, g, n
      <4> QED
        BY <3>1, <4>2, <1>0, RowAssumption
    <3> QED
      BY <3>2, <3>3, <3>4
  <2> QED
    BY <2>1, <2>2, <2>3
<1>4. ASSUME UNCHANGED reqVars
      PROVE  Holders(c)' \subseteq Holders(c)
  BY <1>4 DEF Holders, reqVars
<1>5. ASSUME NEW d \in Channels, Owner(d) \/ CooldownEnds(d)
      PROVE  UNCHANGED reqVars /\ row'[c].count <= row[c].count
  <2>1. UNCHANGED reqVars
    BY <1>5 DEF Owner, Submit, Revalidate, Reactivate, Delete, CooldownEnds
  <2>2. PICK v : row' = [row EXCEPT ![d] = v] /\ v.count \in {row[d].count, 0}
    <3>1. CASE Submit(d)
      <4>1. PICK ok \in BOOLEAN : row' = [row EXCEPT ![d] = Inserted(ok)]
        BY <3>1 DEF Submit
      <4>2. Inserted(ok).count = 0
        BY DEF Inserted, Blank
      <4> QED
        BY <4>1, <4>2
    <3>5. CASE Delete(d)
      <4>1. Removed.count = 0
        BY DEF Removed, Blank
      <4> QED
        BY <3>5, <4>1 DEF Delete
    <3>2. CASE Revalidate(d)
      BY <3>2 DEF Revalidate, Revalidated, TypeOK, Row
    <3>3. CASE Reactivate(d)
      <4>1. Reactivated(row[d]).count = 0
        BY DEF Reactivated, TypeOK, Row
      <4> QED
        BY <3>3, <4>1 DEF Reactivate
    <3>4. CASE CooldownEnds(d)
      <4>1. [row[d] EXCEPT !.until = "over"].count = row[d].count
        BY DEF TypeOK, Row
      <4>2. row' = [row EXCEPT ![d] = [row[d] EXCEPT !.until = "over"]]
        BY <3>4 DEF CooldownEnds
      <4> QED
        BY <4>1, <4>2
    <3> QED
      BY <1>5, <3>1, <3>2, <3>3, <3>4, <3>5 DEF Owner
  <2>3. row'[c].count \in {row[c].count, 0}
    BY <2>2 DEF TypeOK
  <2> QED
    BY <2>1, <2>3, <1>0
<1>6. ASSUME NEW k \in Crons, Cron(k)
      PROVE  UNCHANGED reqVars /\ row'[c].count <= row[c].count
  <2>1. UNCHANGED reqVars
    BY <1>6 DEF Cron, CronWorks, CronStart, CronProbe, CronRecover, CronDecay,
                CronAborts
  <2>2. row'[c].count = row[c].count
    <3>1. CASE CronProbe(k)
      BY <3>1 DEF CronProbe, Write, Probed, TypeOK, Row
    <3>2. CASE CronRecover(k)
      BY <3>2 DEF CronRecover, Recovered, TypeOK, Row
    <3>3. CASE CronDecay(k)
      BY <3>3 DEF CronDecay, Decayed, TypeOK, Row
    <3>4. CASE CronStart(k) \/ CronAborts(k)
      BY <3>4 DEF CronStart, CronAborts
    <3> QED
      BY <1>6, <3>1, <3>2, <3>3, <3>4 DEF Cron, CronWorks
  <2> QED
    BY <2>1, <2>2, <1>0
<1>7. CASE UNCHANGED vars
  BY <1>7, <1>2, <1>4, <1>0 DEF vars, reqVars
<1> QED
  BY <1>2, <1>3, <1>4, <1>5, <1>6, <1>7 DEF Next

\* However many calls fail at once, a channel never collects more marks than
\* DeactivateCount - 1 plus one for each call that can be in flight.
THEOREM MarksAreBounded == Spec => []MarksBounded
<1>1. Init => MarksBounded
  <2> SUFFICES ASSUME Init, NEW c \in Channels
               PROVE  row[c].count + Cardinality(Holders(c))
                        <= DeactivateCount - 1 + Cardinality(Requests)
                             + dbErrors
    BY DEF MarksBounded
  <2>1. row[c].count = 0
    BY DEF Init, Blank
  <2> QED
    BY <2>1, HoldersFinite, RowAssumption DEF Init
<1> QED
  BY <1>1, MarksStep, RetiredOpenInit, RetiredOpenStep, TypeCorrect, PTL
     DEF Spec

----------------------------------------------------------------------------
(* Marks are only cleared by the owner.                                    *)

\* A row that was never inserted has no marks to lose.
NewIsUnmarked(w) == w.state = "new" => w.count = 0

LEMMA MoveKeepsUnmarked ==
    ASSUME NEW w \in Row, NEW v, RowMove(w, v), NewIsUnmarked(w)
    PROVE  NewIsUnmarked(v)
<1>1. CASE \E ok \in BOOLEAN : v = Inserted(ok)
  BY <1>1 DEF NewIsUnmarked, Inserted, Blank
<1>2. CASE v = Removed
  BY <1>2 DEF NewIsUnmarked, Removed, Blank
<1>3. ASSUME Stored(w),
             \/ \E ok \in BOOLEAN :
                   v = Recorded(w, ok) \/ v = Probed(w, ok) \/ v = Revalidated(w, ok)
             \/ v = Tripped(w) \/ v = Reactivated(w) \/ v = Recovered(w)
      PROVE  v.state # "new"
  BY <1>3 DEF Stored, Recorded, Probed, Revalidated, Tripped, Reactivated,
              Recovered, Row
<1>4. ASSUME v = w \/ v = [w EXCEPT !.until = "over"] \/ v = Decayed(w)
      PROVE  v.state = w.state /\ v.count = w.count
  BY <1>4 DEF Decayed, Row
<1>5. Recoverable(w) => Stored(w)
  BY DEF Recoverable
<1> QED
  BY <1>1, <1>2, <1>3, <1>4, <1>5 DEF RowMove, NewIsUnmarked

Unmarked == \A c \in Channels : NewIsUnmarked(row[c])

\* Whoever lowers the marks of a channel is its owner.
LEMMA MarksLowered ==
    ASSUME TypeOK, Unmarked, [Next]_vars, NEW c \in Channels,
           row'[c].count < row[c].count
    PROVE  Reactivate(c) \/ Delete(c)
<1>0. row[c] \in Row /\ row[c].count \in Nat
  BY DEF TypeOK, Row
<1>1. ASSUME row'[c].count = row[c].count \/ row'[c].count = row[c].count + 1
      PROVE  FALSE
  <2> DEFINE m == row'[c].count
             n == row[c].count
  <2>1. n \in Nat /\ m < n /\ (m = n \/ m = n + 1)
    BY <1>0, <1>1
  <2> HIDE DEF m, n
  <2> QED
    BY <2>1
<1>2. ASSUME NEW r \in Requests, Call(r)
      PROVE  FALSE
  <2>1. CallMove(row[c], row'[c])
    BY <1>2, CallRows
  <2>2. ASSUME NEW ok \in BOOLEAN
        PROVE  Recorded(row[c], ok).count = row[c].count
    BY <1>0 DEF Recorded, Row
  <2>3. Tripped(row[c]).count = row[c].count + 1
    BY <1>0 DEF Tripped, Row
  <2> QED
    BY <1>1, <2>1, <2>2, <2>3 DEF CallMove
<1>3. ASSUME NEW k \in Crons, Cron(k)
      PROVE  FALSE
  <2>1. CASE CronProbe(k)
    <3>1. row'[c].count = row[c].count
      BY <2>1 DEF CronProbe, Write, Probed, TypeOK, Row
    <3> QED
      BY <1>1, <3>1
  <2>2. CASE CronRecover(k)
    <3>1. row'[c].count = row[c].count
      BY <2>2 DEF CronRecover, Recovered, TypeOK, Row
    <3> QED
      BY <1>1, <3>1
  <2>3. CASE CronDecay(k)
    <3>1. row'[c].count = row[c].count
      BY <2>3 DEF CronDecay, Decayed, TypeOK, Row
    <3> QED
      BY <1>1, <3>1
  <2>4. CASE CronStart(k) \/ CronAborts(k)
    BY <2>4, <1>1 DEF CronStart, CronAborts
  <2> QED
    BY <1>3, <2>1, <2>2, <2>3, <2>4 DEF Cron, CronWorks
<1>4. ASSUME NEW d \in Channels, Owner(d) \/ CooldownEnds(d)
      PROVE  Reactivate(c) \/ Delete(c)
  <2>1. CASE d # c
    <3>1. row'[c] = row[c]
      BY <1>4, <2>1 DEF Owner, Submit, Revalidate, Reactivate, Delete,
                        CooldownEnds, TypeOK
    <3> QED
      BY <1>1, <3>1
  <2>2. CASE d = c /\ Submit(c)
    <3>1. row[c].count = 0
      BY <2>2 DEF Submit, Unmarked, NewIsUnmarked
    <3>2. PICK ok \in BOOLEAN : row' = [row EXCEPT ![c] = Inserted(ok)]
      BY <2>2 DEF Submit
    <3>3. row'[c].count = 0
      BY <3>2 DEF Inserted, Blank, TypeOK
    <3> QED
      BY <1>1, <3>1, <3>3
  <2>3. CASE d = c /\ Revalidate(c)
    <3>1. row'[c].count = row[c].count
      BY <2>3, <1>0 DEF Revalidate, Revalidated, TypeOK, Row
    <3> QED
      BY <1>1, <3>1
  <2>4. CASE d = c /\ CooldownEnds(c)
    <3>1. row' = [row EXCEPT ![c] = [row[c] EXCEPT !.until = "over"]]
      BY <2>4 DEF CooldownEnds
    <3>2. row'[c].count = row[c].count
      BY <3>1, <1>0 DEF TypeOK, Row
    <3> QED
      BY <1>1, <3>2
  <2> QED
    BY <1>4, <2>1, <2>2, <2>3, <2>4 DEF Owner
<1>5. CASE UNCHANGED vars
  BY <1>5, <1>1 DEF vars
<1> QED
  BY <1>2, <1>3, <1>4, <1>5 DEF Next

\* Marks add up over repeated circuits: no call and no cron run takes one off,
\* whatever the recovery, the decay and late answers write.
THEOREM OwnersClearMarks == Spec => MarksOnlyCleared
<1>1. Init => Unmarked
  BY DEF Init, Unmarked, NewIsUnmarked, Blank
<1>2. TypeOK /\ Unmarked /\ [Next]_vars => Unmarked'
  BY RowsMove, MoveKeepsUnmarked DEF Unmarked, Moved, TypeOK
<1>3. TypeOK /\ Unmarked /\ [Next]_vars =>
         [\A c \in Channels : row'[c].count < row[c].count
            => Reactivate(c) \/ Delete(c)]_vars
  BY MarksLowered
<1> QED
  BY <1>1, <1>2, <1>3, TypeCorrect, PTL DEF Spec, MarksOnlyCleared

----------------------------------------------------------------------------
(* The audit log of the calls.                                             *)

\* Where a request whose current attempt is logged can be.
Logged == {"touch", "check", "trip", "catch"} \cup Answered

\* What the log says of the attempts: the current one is logged from InsertLog
\* on, with the outcome the handler still knows unless an exception came.
LogOK(l) ==
    /\ l.retry <= attempt[l.req]
    /\ l.retry = attempt[l.req] => pc[l.req] \in Logged
    /\ l.retry = attempt[l.req] /\ pc[l.req] \in {"touch", "check", "trip"}
          => outcome[l.req] \in {l.status, "thrown"}

LogsOK ==
    /\ IsFiniteSet(logs)
    /\ \A l \in logs : LogOK(l)
    /\ \A l, m \in logs : l.req = m.req /\ l.retry = m.retry => l = m
    /\ \A r \in Requests :
          /\ pc[r] = "catch" => outcome[r] = "thrown"
          /\ pc[r] \in {"check", "trip"}
                => outcome[r] \in {"client", "server", "thrown"}

\* Final answers a later attempt has followed, or will.
Astray(l) ==
    /\ l.status \in Final
    /\ \/ l.retry < attempt[l.req]
       \/ pc[l.req] \in {"catch", "check", "trip"} /\ outcome[l.req] = "thrown"

Loose == {l \in logs : Astray(l)}

\* The entry of the current attempt, of which there is one at most.
Current(r) == {l \in logs : l.req = r /\ l.retry = attempt[r]}

\* Steps that do not write the log and leave the calls alone.
LEMMA CallsAlone ==
    ASSUME LogsOK, UNCHANGED <<logs, pc, attempt, outcome>>
    PROVE  LogsOK' /\ Loose' = Loose
BY DEF LogsOK, LogOK, Loose, Astray

\* The next attempt, or none: what a call leaves behind stays as it is.
LEMMA LeavesAttempt ==
    ASSUME TypeOK, LogsOK, NEW r \in Requests, logs' = logs,
           \/ GiveUp(r)
           \/ /\ NextAttempt(r)
              /\ \A l \in logs : l.req = r /\ l.retry = attempt[r] /\ l.status \in Final
                    => Astray(l)
    PROVE  LogsOK' /\ Loose' \subseteq Loose
<1> USE DEF TypeOK, Goto
<1>1. /\ \A q \in Requests \ {r} : /\ pc'[q] = pc[q] /\ attempt'[q] = attempt[q]
                                   /\ outcome'[q] = outcome[q]
      /\ outcome'[r] = "none"
      /\ \/ pc'[r] = "failed" /\ attempt'[r] = attempt[r]
         \/ /\ NextAttempt(r) /\ pc'[r] = "list" /\ attempt'[r] = attempt[r] + 1
  BY DEF GiveUp, NextAttempt
<1>2. \A l \in logs : l.req \in Requests /\ l.retry \in Nat /\ attempt[l.req] \in Nat
  BY PoolAssumption DEF LogRow
<1>3. ASSUME NEW l \in logs PROVE LogOK(l)' /\ (Astray(l)' => Astray(l))
  <2>1. LogOK(l)  BY DEF LogsOK
  <2>2. CASE l.req # r
    <3>1. /\ pc'[l.req] = pc[l.req] /\ attempt'[l.req] = attempt[l.req]
          /\ outcome'[l.req] = outcome[l.req]
      BY <1>1, <1>2, <2>2
    <3> QED
      BY <2>1, <3>1 DEF LogOK, Astray
  <2>3. CASE l.req = r /\ pc'[r] = "failed" /\ attempt'[r] = attempt[r]
    BY <2>1, <2>3 DEF LogOK, Astray, Logged, Answered
  <2>4. CASE l.req = r /\ NextAttempt(r) /\ pc'[r] = "list"
               /\ attempt'[r] = attempt[r] + 1
    <3>1. l.retry < attempt'[r]
      BY <1>2, <2>1, <2>4 DEF LogOK
    <3>2. l.retry < attempt[r] \/ l.retry = attempt[r]
      BY <1>2, <2>1, <2>4 DEF LogOK
    <3>3. LogOK(l)'
      BY <1>2, <2>4, <3>1 DEF LogOK
    <3>4. l.retry < attempt[r] /\ l.status \in Final => Astray(l)
      BY <2>4 DEF Astray
    <3>5. l.retry = attempt[r] /\ l.status \in Final => Astray(l)
      BY <2>4, <1>1 DEF GiveUp
    <3>6. Astray(l)' => l.status \in Final
      BY DEF Astray
    <3> QED
      BY <3>2, <3>3, <3>4, <3>5, <3>6
  <2> QED
    BY <1>1, <2>2, <2>3, <2>4
<1>4. \A q \in Requests :
         /\ pc'[q] = "catch" => outcome'[q] = "thrown"
         /\ pc'[q] \in {"check", "trip"}
               => outcome'[q] \in {"client", "server", "thrown"}
  BY <1>1 DEF LogsOK
<1> QED
  BY <1>3, <1>4 DEF LogsOK, Loose

\* A step within an attempt that does not write the log.
LEMMA StaysInAttempt ==
    ASSUME TypeOK, LogsOK, NEW r \in Requests, logs' = logs, attempt' = attempt,
           NEW p, NEW o,
           pc' = [pc EXCEPT ![r] = p], outcome' = [outcome EXCEPT ![r] = o],
           p = "catch" => o = "thrown",
           p \in {"check", "trip"} => o \in {"client", "server", "thrown"},
           \A l \in Current(r) :
              /\ p \in Logged
              /\ p \in {"touch", "check", "trip"} => o \in {l.status, "thrown"}
    PROVE  /\ LogsOK'
           /\ Loose' \subseteq Loose \cup Current(r)
           /\ (\A l \in Current(r) : l.status \in Final /\ o = "thrown" => Astray(l))
                 => Loose' \subseteq Loose
<1>1. /\ \A q \in Requests \ {r} : pc'[q] = pc[q] /\ outcome'[q] = outcome[q]
      /\ pc'[r] = p /\ outcome'[r] = o
  BY DEF TypeOK
<1>2. \A l \in logs : l.req \in Requests /\ l.retry \in Nat /\ attempt[l.req] \in Nat
  BY PoolAssumption DEF LogRow, TypeOK
<1>3. ASSUME NEW l \in logs
      PROVE  /\ LogOK(l)'
             /\ Astray(l)' => \/ Astray(l)
                              \/ l \in Current(r) /\ o = "thrown" /\ l.status \in Final
  <2>1. LogOK(l)  BY DEF LogsOK
  <2>2. CASE l.req # r
    <3>1. /\ pc'[l.req] = pc[l.req] /\ outcome'[l.req] = outcome[l.req]
          /\ attempt'[l.req] = attempt[l.req]
      BY <1>1, <1>2, <2>2
    <3> QED
      BY <2>1, <3>1 DEF LogOK, Astray
  <2>3. CASE l.req = r /\ l.retry = attempt[r]
    <3>1. l \in Current(r)
      BY <2>3 DEF Current
    <3> QED
      BY <1>1, <1>2, <2>1, <2>3, <3>1 DEF LogOK, Astray
  <2>4. CASE l.req = r /\ l.retry # attempt[r]
    <3>1. l.retry < attempt[r]
      BY <1>2, <2>1, <2>4 DEF LogOK
    <3>2. LogOK(l)'
      BY <2>1, <2>4 DEF LogOK
    <3>3. l.status \in Final => Astray(l)
      BY <2>4, <3>1 DEF Astray
    <3>4. Astray(l)' => l.status \in Final
      BY DEF Astray
    <3> QED
      BY <3>2, <3>3, <3>4
  <2> QED
    BY <2>2, <2>3, <2>4
<1>4. \A q \in Requests :
         /\ pc'[q] = "catch" => outcome'[q] = "thrown"
         /\ pc'[q] \in {"check", "trip"}
               => outcome'[q] \in {"client", "server", "thrown"}
  BY <1>1 DEF LogsOK
<1>5. LogsOK'
  BY <1>3, <1>4 DEF LogsOK
<1>6. Loose' \subseteq Loose \cup Current(r)
  BY <1>3 DEF Loose
<1>7. ASSUME \A l \in Current(r) : l.status \in Final /\ o = "thrown" => Astray(l)
      PROVE  Loose' \subseteq Loose
  BY <1>3, <1>7 DEF Loose
<1> QED
  BY <1>5, <1>6, <1>7

\* InsertLog adds the entry of the current attempt, which had none.
LEMMA InsertKeepsLogs ==
    ASSUME TypeOK, LogsOK, NEW r \in Requests, InsertLog(r)
    PROVE  LogsOK' /\ Loose' \subseteq Loose
<1> PICK e : e = [req |-> r, retry |-> attempt[r], channel |-> on[r],
                  status |-> outcome[r]]
  OBVIOUS
<1>1. /\ pc[r] = "log" /\ logs' = logs \cup {e}
      /\ pc' = [pc EXCEPT ![r] =
                   IF outcome[r] \in Successes THEN "touch" ELSE "check"]
      /\ attempt' = attempt /\ outcome' = outcome
  BY DEF InsertLog, Goto
<1>2. outcome[r] \in Statuses
  BY <1>1 DEF TypeOK, AttemptOK
<1>3. e.req = r /\ e.retry = attempt[r] /\ e.status = outcome[r]
  OBVIOUS
<1>4. \A l \in logs : l.req \in Requests /\ l.retry \in Nat /\ attempt[l.req] \in Nat
  BY PoolAssumption DEF LogRow, TypeOK
<1>5. pc'[r] \in {"touch", "check"} /\ \A q \in Requests \ {r} : pc'[q] = pc[q]
  BY <1>1, <1>2 DEF TypeOK
<1>6. \A l \in logs : l.req = r => l.retry < attempt[r]
  <2> SUFFICES ASSUME NEW l \in logs, l.req = r PROVE l.retry < attempt[r]
    OBVIOUS
  <2>1. LogOK(l)  BY DEF LogsOK
  <2>2. l.retry # attempt[r]
    BY <1>1, <2>1 DEF LogOK, Logged, Answered
  <2> QED
    BY <1>4, <2>1, <2>2 DEF LogOK
<1>7. ASSUME NEW l \in logs PROVE LogOK(l)' /\ (Astray(l)' => Astray(l))
  <2>1. LogOK(l)  BY DEF LogsOK
  <2>2. CASE l.req = r
    <3>1. l.retry < attempt[r]
      BY <1>6, <2>2
    <3>2. LogOK(l)'
      BY <1>1, <1>4, <2>1, <2>2, <3>1 DEF LogOK
    <3> QED
      BY <2>2, <3>1, <3>2 DEF Astray
  <2>3. CASE l.req # r
    <3>1. pc'[l.req] = pc[l.req]
      BY <1>4, <1>5, <2>3
    <3> QED
      BY <1>1, <2>1, <3>1 DEF LogOK, Astray
  <2> QED
    BY <2>2, <2>3
<1>8. LogOK(e)'
  <2>1. e.retry <= attempt'[e.req]
    BY <1>1, <1>3, PoolAssumption DEF TypeOK
  <2>2. pc'[e.req] \in Logged /\ outcome'[e.req] = e.status
    BY <1>1, <1>3, <1>5 DEF Logged
  <2> QED
    BY <2>1, <2>2 DEF LogOK
<1>9. ~Astray(e)'
  <2>1. outcome'[e.req] # "thrown" /\ ~(e.retry < attempt'[e.req])
    BY <1>1, <1>2, <1>3, PoolAssumption DEF TypeOK, Statuses, Successes
  <2> QED
    BY <2>1 DEF Astray
<1>10. IsFiniteSet(logs')
  BY <1>1, FS_AddElement DEF LogsOK
<1>11. ASSUME NEW l \in logs', NEW m \in logs', l.req = m.req, l.retry = m.retry
       PROVE  l = m
  <2>1. CASE l \in logs /\ m \in logs
    BY <1>11, <2>1 DEF LogsOK
  <2>2. ASSUME NEW k \in logs, k.req = e.req, k.retry = e.retry
        PROVE  FALSE
    <3>1. k.retry < attempt[r] /\ k.retry = attempt[r] /\ attempt[r] \in Nat
      BY <1>3, <1>6, <2>2, PoolAssumption DEF TypeOK
    <3> QED
      BY <3>1
  <2> QED
    BY <1>1, <1>11, <2>1, <2>2
<1>12. \A q \in Requests :
          /\ pc'[q] = "catch" => outcome'[q] = "thrown"
          /\ pc'[q] \in {"check", "trip"}
                => outcome'[q] \in {"client", "server", "thrown"}
  <2>1. pc'[r] = "check" => outcome[r] \in {"client", "server"}
    BY <1>1, <1>2 DEF TypeOK, Statuses
  <2> QED
    BY <1>1, <1>5, <2>1 DEF LogsOK
<1>13. LogsOK'
  BY <1>1, <1>7, <1>8, <1>10, <1>11, <1>12 DEF LogsOK
<1>14. Loose' \subseteq Loose
  BY <1>1, <1>7, <1>9 DEF Loose
<1> QED
  BY <1>13, <1>14

\* Only an exception of the database sends a call astray, and one call by one:
\* what AnswerThrows repeats is no final answer.
LEMMA CallLogs ==
    ASSUME TypeOK, LogsOK, NEW r \in Requests, Call(r)
    PROVE  /\ LogsOK'
           /\ \/ Loose' \subseteq Loose
              \/ /\ dbErrors' = dbErrors + 1
                 /\ Loose' \subseteq Loose \cup Current(r)
<1> USE DEF Goto
<1>1. ASSUME pc[r] \notin Logged PROVE Current(r) = {}
  <2> SUFFICES ASSUME NEW l \in Current(r) PROVE FALSE
    OBVIOUS
  <2>1. LogOK(l) /\ l.req = r /\ l.retry = attempt[r]
    BY DEF LogsOK, Current
  <2> QED
    BY <1>1, <2>1 DEF LogOK
<1>2. \A l \in Current(r) : /\ LogOK(l) /\ l \in logs /\ l.req = r
                             /\ l.retry = attempt[r]
                             /\ l.status \in Statuses
  BY DEF LogsOK, Current, TypeOK, LogRow
<1>3. CASE PoolEmpty(r)
  BY <1>3, LeavesAttempt DEF PoolEmpty
<1>4. CASE DecryptFails(r)
  <2>1. Current(r) = {}
    BY <1>1, <1>4 DEF DecryptFails, Logged, Answered
  <2> QED
    BY <1>4, <2>1, LeavesAttempt DEF DecryptFails, Current
<1>5. CASE CheckPasses(r) \/ Trip(r)
  <2>1. pc[r] \in {"check", "trip"} /\ AfterFailure(r) /\ logs' = logs
    BY <1>5 DEF CheckPasses, Trip
  <2>2. CASE outcome[r] = "client"
    BY <2>1, <2>2, LeavesAttempt DEF AfterFailure
  <2>3. CASE outcome[r] # "client"
    <3>1. NextAttempt(r)
      BY <2>1, <2>3 DEF AfterFailure
    <3>2. outcome[r] \in {"server", "thrown"}
      BY <2>1, <2>3 DEF LogsOK
    <3>3. ASSUME NEW l \in logs, l.req = r, l.retry = attempt[r], l.status \in Final
          PROVE  Astray(l)
      <4>1. l \in Current(r)
        BY <3>3 DEF Current
      <4>2. outcome[r] \in {l.status, "thrown"}
        BY <1>2, <2>1, <4>1 DEF LogOK
      <4> QED
        BY <2>1, <3>2, <3>3, <4>2 DEF Astray, Final
    <3> QED
      BY <2>1, <3>1, <3>3, LeavesAttempt
  <2> QED
    BY <2>2, <2>3
<1>6. CASE Pick(r) \/ HeadersArrive(r) \/ BodyArrives(r) \/ RecordResult(r)
  <2>1. Current(r) = {}
    BY <1>1, <1>6 DEF Pick, HeadersArrive, BodyArrives, RecordResult, Logged, Answered
  <2>2. PICK p \in {"decrypt", "call", "body", "record", "log"} :
           pc' = [pc EXCEPT ![r] = p]
    BY <1>6 DEF Pick, HeadersArrive, BodyArrives, RecordResult
  <2>3. \E o : outcome' = [outcome EXCEPT ![r] = o]
    <3>1. outcome = [outcome EXCEPT ![r] = outcome[r]]
      BY DEF TypeOK
    <3> QED
      BY <1>6, <3>1 DEF Pick, HeadersArrive, BodyArrives, RecordResult
  <2>4. logs' = logs /\ attempt' = attempt
    BY <1>6 DEF Pick, HeadersArrive, BodyArrives, RecordResult
  <2> QED
    BY <2>1, <2>2, <2>3, <2>4, StaysInAttempt
<1>7. CASE CallFails(r) \/ BodyFails(r)
  <2>1. Current(r) = {}
    BY <1>1, <1>7 DEF CallFails, BodyFails, Logged, Answered
  <2>2. /\ pc' = [pc EXCEPT ![r] = "catch"]
        /\ outcome' = [outcome EXCEPT ![r] = "thrown"]
        /\ logs' = logs /\ attempt' = attempt
    BY <1>7 DEF CallFails, BodyFails
  <2> QED
    BY <2>1, <2>2, StaysInAttempt
<1>8. CASE InsertLog(r)
  BY <1>8, InsertKeepsLogs
<1>9. CASE Serve(r)
  <2>1. /\ pc' = [pc EXCEPT ![r] = "served"]
        /\ outcome' = [outcome EXCEPT ![r] = "none"]
        /\ logs' = logs /\ attempt' = attempt
    BY <1>9 DEF Serve
  <2>2. "served" \in Logged
    BY DEF Logged, Answered
  <2>3. /\ "served" \notin {"check", "trip"} /\ "served" # "catch"
        /\ "none" # "thrown"
    OBVIOUS
  <2> QED
    BY <2>1, <2>2, <2>3, StaysInAttempt
<1>12. CASE AnswerThrows(r)
  <2>1. /\ pc' = [pc EXCEPT ![r] = "catch"]
        /\ outcome' = [outcome EXCEPT ![r] = "thrown"]
        /\ logs' = logs /\ attempt' = attempt
    BY <1>12 DEF AnswerThrows
  <2>2. \A l \in Current(r) : l.status \notin Final
    BY <1>2, <1>12 DEF AnswerThrows, LogOK, Final, Statuses, Successes
  <2> QED
    BY <2>1, <2>2, StaysInAttempt DEF Logged
<1>10. CASE CatchRecord(r) \/ CheckFails(r)
  <2>1. pc[r] \in {"catch", "check"}
    BY <1>10 DEF CatchRecord, CheckFails
  <2>2. PICK p \in {"check", "trip"} : pc' = [pc EXCEPT ![r] = p]
    BY <1>10 DEF CatchRecord, CheckFails
  <2>3. /\ outcome' = [outcome EXCEPT ![r] = outcome[r]]
        /\ logs' = logs /\ attempt' = attempt
    BY <1>10 DEF CatchRecord, CheckFails, TypeOK
  <2>4. outcome[r] \in {"client", "server", "thrown"}
    BY <2>1 DEF LogsOK
  <2>5. \A l \in Current(r) : outcome[r] \in {l.status, "thrown"}
    BY <1>2, <2>1 DEF LogOK, LogsOK
  <2>6. \A l \in Current(r) : l.status \in Final /\ outcome[r] = "thrown" => Astray(l)
    BY <1>2, <2>1 DEF Astray
  <2> QED
    BY <2>2, <2>3, <2>4, <2>5, <2>6, StaysInAttempt DEF Logged
<1>11. CASE DbThrows(r) \/ NoteFails(r)
  <2>1. /\ Exception(r) /\ logs' = logs /\ attempt' = attempt
        /\ dbErrors' = dbErrors + 1
    BY <1>11 DEF DbThrows, NoteFails
  <2>2. PICK p \in {"catch", "error"}, o \in {"thrown", "none"} :
           /\ pc' = [pc EXCEPT ![r] = p] /\ outcome' = [outcome EXCEPT ![r] = o]
           /\ p = "catch" => o = "thrown"
    BY <2>1 DEF Exception
  <2> QED
    BY <2>1, <2>2, StaysInAttempt DEF Logged, Answered
<1> QED
  BY <1>3, <1>4, <1>5, <1>6, <1>7, <1>8, <1>9, <1>10, <1>11, <1>12
     DEF Call, Gateway, Upstream

\* What the other steps do: nothing to calls and log.
LEMMA OthersLeaveCalls ==
    ASSUME TypeOK, [Next]_vars, \A r \in Requests : ~Call(r)
    PROVE  UNCHANGED <<logs, pc, on, attempt, outcome>>
<1>1. ASSUME NEW c \in Channels, Owner(c) \/ CooldownEnds(c)
      PROVE  UNCHANGED <<logs, pc, on, attempt, outcome>>
  BY <1>1 DEF Owner, Submit, Revalidate, Reactivate, Delete, CooldownEnds, reqVars
<1>2. ASSUME NEW k \in Crons, Cron(k)
      PROVE  UNCHANGED <<logs, pc, on, attempt, outcome>>
  BY <1>2 DEF Cron, CronWorks, CronStart, CronProbe, CronRecover, CronDecay,
              CronAborts, reqVars
<1> QED
  BY <1>1, <1>2 DEF Next, vars

LEMMA LogsStep ==
    ASSUME TypeOK, LogsOK, [Next]_vars
    PROVE  /\ LogsOK'
           /\ \/ Loose' \subseteq Loose
              \/ /\ dbErrors' = dbErrors + 1
                 /\ \E r \in Requests : Loose' \subseteq Loose \cup Current(r)
<1>1. CASE \E r \in Requests : Call(r)
  BY <1>1, CallLogs
<1>2. CASE ~\E r \in Requests : Call(r)
  BY <1>2, OthersLeaveCalls, CallsAlone
<1> QED
  BY <1>1, <1>2

FewLoose == Cardinality(Loose) <= dbErrors

LEMMA FewLooseStep ==
    ASSUME TypeOK, LogsOK, FewLoose, [Next]_vars
    PROVE  FewLoose'
<1>1. IsFiniteSet(Loose) /\ Cardinality(Loose) \in Nat
  BY FS_Subset, FS_CardinalityType DEF LogsOK, Loose
<1>2. dbErrors \in Nat /\ dbErrors' \in Nat /\ dbErrors <= dbErrors'
  <2>1. dbErrors \in Nat /\ dbErrors' \in Nat
    BY ControlType, PoolAssumption DEF TypeOK
  <2> QED
    BY <2>1, ErrorsGrow
<1>3. ASSUME Loose' \subseteq Loose
      PROVE  FewLoose'
  <2>1. IsFiniteSet(Loose') /\ Cardinality(Loose') <= Cardinality(Loose)
    BY <1>1, <1>3, FS_Subset
  <2>2. Cardinality(Loose') \in Nat
    BY <2>1, FS_CardinalityType
  <2>3. Cardinality(Loose') <= dbErrors'
    BY <1>1, <1>2, <2>1, <2>2 DEF FewLoose
  <2> QED
    BY <2>3 DEF FewLoose
<1>4. ASSUME dbErrors' = dbErrors + 1, NEW r \in Requests,
             Loose' \subseteq Loose \cup Current(r)
      PROVE  FewLoose'
  <2>1. CASE Current(r) = {}
    BY <1>3, <1>4, <2>1
  <2>2. CASE Current(r) # {}
    <3>1. PICK e : e \in Current(r)
      BY <2>2
    <3>2. Current(r) \subseteq {e}
      BY <3>1 DEF Current, LogsOK
    <3>3. IsFiniteSet(Loose \cup {e})
            /\ Cardinality(Loose \cup {e}) \in {Cardinality(Loose), Cardinality(Loose) + 1}
      BY <1>1, FS_AddElement
    <3>4. Loose' \subseteq Loose \cup {e}
      BY <1>4, <3>2
    <3>5. IsFiniteSet(Loose') /\ Cardinality(Loose') <= Cardinality(Loose \cup {e})
      BY <3>3, <3>4, FS_Subset
    <3>6. Cardinality(Loose') \in Nat
      BY <3>5, FS_CardinalityType
    <3>7. Cardinality(Loose') <= dbErrors'
      BY <1>1, <1>2, <1>4, <3>3, <3>5, <3>6 DEF FewLoose
    <3> QED
      BY <3>7 DEF FewLoose
  <2> QED
    BY <2>1, <2>2
<1> QED
  BY <1>3, <1>4, LogsStep

LEMMA LogsInit == Init => LogsOK /\ FewLoose
<1> SUFFICES ASSUME Init PROVE LogsOK /\ FewLoose
  OBVIOUS
<1>1. LogsOK
  BY FS_EmptySet DEF Init, LogsOK
<1>2. Loose = {}
  BY DEF Init, Loose
<1>3. Cardinality(Loose) <= dbErrors
  BY <1>2, FS_EmptySet DEF Init
<1> QED
  BY <1>1, <1>3 DEF FewLoose

\* A 2xx that can be passed on (no 204, no 205) or a 4xx ends a call of
\* routes/proxy.ts: it is repeated at most once for each database call that
\* fails, for any number of calls and retries.
THEOREM FinalAnswersAreFinal == Spec => []RetriesOnlyAfterFailure
<1>1. TypeOK /\ LogsOK /\ FewLoose /\ [Next]_vars => LogsOK' /\ FewLoose'
  BY LogsStep, FewLooseStep
<1>2. TypeOK /\ LogsOK /\ FewLoose => RetriesOnlyAfterFailure
  <2> SUFFICES ASSUME TypeOK, LogsOK, FewLoose
               PROVE  Cardinality(FinalAnswers) <= dbErrors
    BY DEF RetriesOnlyAfterFailure
  <2>1. \A l \in logs : l.retry \in Nat /\ attempt[l.req] \in Nat
                        /\ l.retry <= attempt[l.req]
    BY PoolAssumption DEF TypeOK, LogRow, LogsOK, LogOK
  <2>2. \A l \in FinalAnswers : l \in logs /\ l.status \in Final
                                /\ l.retry < attempt[l.req]
    <3> SUFFICES ASSUME NEW l \in FinalAnswers
                 PROVE  l \in logs /\ l.status \in Final /\ l.retry < attempt[l.req]
      OBVIOUS
    <3>1. CASE \E m \in logs : m.req = l.req /\ m.retry > l.retry
      BY <2>1, <3>1 DEF FinalAnswers
    <3>2. CASE attempt[l.req] > l.retry
      BY <2>1, <3>2 DEF FinalAnswers
    <3> QED
      BY <3>1, <3>2 DEF FinalAnswers
  <2>3. FinalAnswers \subseteq Loose
    BY <2>2 DEF Loose, Astray
  <2>4. IsFiniteSet(Loose)
    BY FS_Subset DEF LogsOK, Loose
  <2>5. /\ Cardinality(FinalAnswers) <= Cardinality(Loose)
        /\ Cardinality(FinalAnswers) \in Nat /\ Cardinality(Loose) \in Nat
    BY <2>3, <2>4, FS_Subset, FS_CardinalityType
  <2>6. Cardinality(Loose) <= dbErrors /\ dbErrors \in Nat
    BY PoolAssumption DEF FewLoose, TypeOK
  <2> QED
    BY <2>5, <2>6
<1> QED
  BY <1>1, <1>2, LogsInit, TypeCorrect, PTL DEF Spec

----------------------------------------------------------------------------
(* The ledger of successes.  While no row is old enough for the decay,     *)
(* which halves the counters, every statement but recordChannelResult      *)
(* leaves total - failed alone.                                            *)

\* A channel that was never inserted is in no log and under no attempt.
FreshUnused ==
    \A c \in Channels : row[c].state = "new" =>
        /\ \A l \in logs : l.channel # c
        /\ \A r \in Requests : on[r] # c

Known(c) == Cardinality(OkLogs(c)) + Cardinality(OkUnlogged(c))

\* The balance of one row, from the numbers the ledger is made of.
Balanced(w, n, e) == Stored(w) => n <= w.total - w.failed /\ w.total - w.failed <= n + e

LEMMA SetsFinite ==
    ASSUME LogsOK, NEW c
    PROVE  /\ IsFiniteSet(OkLogs(c)) /\ Cardinality(OkLogs(c)) \in Nat
           /\ IsFiniteSet(OkUnlogged(c)) /\ Cardinality(OkUnlogged(c)) \in Nat
           /\ Known(c) \in Nat
<1>1. IsFiniteSet(OkLogs(c)) /\ Cardinality(OkLogs(c)) \in Nat
  BY FS_Subset, FS_CardinalityType DEF LogsOK, OkLogs
<1>2. IsFiniteSet(OkUnlogged(c)) /\ Cardinality(OkUnlogged(c)) \in Nat
  BY PoolAssumption, FS_Subset, FS_CardinalityType DEF OkUnlogged
<1> QED
  BY <1>1, <1>2 DEF Known

\* A row whose successes stay, or that has just been inserted or deleted.
QuietRow(w, v) ==
    \/ v.state = w.state /\ v.total = w.total /\ v.failed = w.failed
    \/ v.state = w.state /\ v.total = w.total + 1 /\ v.failed = w.failed + 1
    \/ v.state = "deleted"
    \/ w.state = "new" /\ v.total = 0 /\ v.failed = 0

LEMMA QuietBalanced ==
    ASSUME NEW w \in Row, NEW v \in Row, QuietRow(w, v), NEW n \in Nat, NEW e \in Nat,
           Balanced(w, n, e), w.state = "new" => n = 0
    PROVE  Balanced(v, n, e)
<1> SUFFICES ASSUME Stored(v)
             PROVE  n <= v.total - v.failed /\ v.total - v.failed <= n + e
  BY DEF Balanced
<1>1. w.total \in Nat /\ w.failed \in Nat /\ v.total \in Nat /\ v.failed \in Nat
  BY DEF Row
<1>2. CASE w.state = "new" /\ v.total = 0 /\ v.failed = 0
  BY <1>2
<1>3. CASE v.state = w.state /\ v.total = w.total /\ v.failed = w.failed
  BY <1>3 DEF Balanced, Stored
<1>4. CASE v.state = w.state /\ v.total = w.total + 1 /\ v.failed = w.failed + 1
  <2>1. n <= w.total - w.failed /\ w.total - w.failed <= n + e
    BY <1>4 DEF Balanced, Stored
  <2> DEFINE a == w.total
             b == w.failed
  <2>2. (a + 1) - (b + 1) = a - b
    BY <1>1
  <2> QED
    BY <1>4, <2>1, <2>2
<1> QED
  BY <1>2, <1>3, <1>4 DEF QuietRow, Stored

LEMMA BalanceGrows ==
    ASSUME NEW w \in Row, NEW n \in Nat, NEW e \in Nat, NEW f \in Nat, e <= f,
           Balanced(w, n, e)
    PROVE  Balanced(w, n, f)
<1>1. w.total \in Nat /\ w.failed \in Nat
  BY DEF Row
<1> QED
  BY <1>1 DEF Balanced

LEMMA UnusedKnown ==
    ASSUME FreshUnused, NEW c \in Channels, row[c].state = "new"
    PROVE  Known(c) = 0
<1>1. OkLogs(c) = {} /\ OkUnlogged(c) = {}
  BY DEF FreshUnused, OkLogs, OkUnlogged
<1> QED
  BY <1>1, FS_EmptySet DEF Known

\* No row has the results emaDecayChannels halves.
Undecayed == \A c \in Channels : row[c].total <= DecayAbove

\* Only InsertLog writes the log.
LEMMA CallsLog ==
    ASSUME NEW r \in Requests, Call(r), ~InsertLog(r)
    PROVE  logs' = logs
BY DEF Call, Gateway, Upstream, PoolEmpty, Pick, DecryptFails, HeadersArrive,
       CallFails, BodyArrives, BodyFails, RecordResult, Serve, AnswerThrows,
       CatchRecord, CheckPasses, CheckFails, Trip, DbThrows, NoteFails

LEMMA FreshStep ==
    ASSUME TypeOK, FreshUnused, [Next]_vars
    PROVE  FreshUnused'
<1> SUFFICES ASSUME NEW c \in Channels, row'[c].state = "new"
             PROVE  /\ \A l \in logs' : l.channel # c
                    /\ \A r \in Requests : on'[r] # c
  BY DEF FreshUnused
<1>1. row[c].state = "new"
  <2>1. row[c] \in Row /\ RowMove(row[c], row'[c])
    BY RowsMove DEF TypeOK, Moved
  <2>2. ASSUME NEW w \in Row, NEW v, RowMove(w, v), v.state = "new"
        PROVE  w.state = "new"
    <3>1. ASSUME Stored(w),
                 \/ \E ok \in BOOLEAN :
                       v = Recorded(w, ok) \/ v = Probed(w, ok) \/ v = Revalidated(w, ok)
                 \/ v = Tripped(w) \/ v = Reactivated(w) \/ v = Recovered(w)
          PROVE  v.state # "new"
      BY <3>1 DEF Stored, Recorded, Probed, Revalidated, Tripped, Reactivated,
                  Recovered, Row
    <3>2. ASSUME v = Removed \/ \E ok \in BOOLEAN : v = Inserted(ok)
          PROVE  v.state # "new"
      BY <3>2 DEF Removed, Inserted, Blank
    <3>3. ASSUME v = w \/ v = [w EXCEPT !.until = "over"] \/ v = Decayed(w)
          PROVE  v.state = w.state
      BY <3>3 DEF Decayed, Row
    <3>4. Recoverable(w) => Stored(w)
      BY DEF Recoverable
    <3> QED
      BY <2>2, <3>1, <3>2, <3>3, <3>4 DEF RowMove
  <2> QED
    BY <2>1, <2>2
<1>2. /\ \A l \in logs : l.channel # c
      /\ \A r \in Requests : on[r] # c
  BY <1>1 DEF FreshUnused
<1>3. c # NoChannel
  BY PoolAssumption
<1>4. ASSUME NEW r \in Requests, Call(r)
      PROVE  /\ \A l \in logs' : l.channel # c
             /\ \A q \in Requests : on'[q] # c
  <2>1. \A l \in logs' : l \in logs \/ l.channel = on[r]
    <3>1. CASE InsertLog(r)
      <4>1. PICK e : /\ e.channel = on[r] /\ logs' = logs \cup {e}
        BY <3>1 DEF InsertLog
      <4> QED
        BY <4>1
    <3>2. CASE ~InsertLog(r)
      <4>1. logs' = logs
        BY <1>4, <3>2, CallsLog
      <4> QED
        BY <4>1
    <3> QED
      BY <3>1, <3>2
  <2>2. \E d : /\ on' = [on EXCEPT ![r] = d]
               /\ d = NoChannel \/ d = on[r] \/ InPool(row[d])
    <3>1. on = [on EXCEPT ![r] = on[r]]
      BY DEF TypeOK
    <3>2. CASE Pick(r)
      BY <3>2 DEF Pick, Candidates
    <3>3. CASE PoolEmpty(r) \/ DecryptFails(r) \/ CheckPasses(r) \/ Trip(r)
      BY <3>3 DEF PoolEmpty, DecryptFails, CheckPasses, Trip, AfterFailure,
                  NextAttempt, GiveUp
    <3>4. CASE Serve(r) \/ AnswerThrows(r) \/ DbThrows(r) \/ NoteFails(r)
      BY <3>1, <3>4 DEF Serve, AnswerThrows, DbThrows, NoteFails, Exception
    <3>5. CASE \/ Upstream(r) \/ CallFails(r) \/ RecordResult(r) \/ InsertLog(r)
               \/ CatchRecord(r) \/ CheckFails(r)
      BY <3>1, <3>5 DEF Upstream, HeadersArrive, CallFails, BodyArrives, BodyFails,
                        RecordResult, InsertLog, CatchRecord, CheckFails
    <3> QED
      BY <1>4, <3>2, <3>3, <3>4, <3>5 DEF Call, Gateway
  <2>3. ~InPool(row[c])
    BY <1>1 DEF InPool, Stored
  <2> QED
    BY <1>2, <1>3, <2>1, <2>2, <2>3 DEF TypeOK
<1>5. CASE \A r \in Requests : ~Call(r)
  BY <1>2, <1>5, OthersLeaveCalls
<1> QED
  BY <1>4, <1>5

\* Owners and cron runs leave the successes alone.
LEMMA HouseholdQuiet ==
    ASSUME TypeOK, [Next]_vars, Undecayed, \A r \in Requests : ~Call(r),
           NEW c \in Channels
    PROVE  QuietRow(row[c], row'[c])
<1>0. row[c] \in Row
  BY DEF TypeOK
<1>1. ASSUME row'[c] = row[c] PROVE QuietRow(row[c], row'[c])
  BY <1>1 DEF QuietRow
<1>2. ASSUME NEW k \in Crons, Cron(k) PROVE QuietRow(row[c], row'[c])
  <2>1. CASE CronProbe(k)
    <3>1. /\ row'[c].total = row[c].total /\ row'[c].failed = row[c].failed
          /\ row'[c].state = row[c].state
      BY <2>1 DEF CronProbe, Write, Probed, TypeOK, Row
    <3> QED
      BY <3>1 DEF QuietRow
  <2>2. CASE CronRecover(k)
    <3>1. /\ row'[c].total = row[c].total /\ row'[c].failed = row[c].failed
          /\ row'[c].state = row[c].state
      BY <2>2 DEF CronRecover, Recovered, TypeOK, Row
    <3> QED
      BY <3>1 DEF QuietRow
  <2>3. CASE CronStart(k) \/ CronAborts(k)
    BY <2>3, <1>1 DEF CronStart, CronAborts
  <2>4. CASE CronDecay(k)
    <3>1. row'[c] = Decayed(row[c])
      BY <2>4 DEF CronDecay
    <3>2. ~(row[c].total > DecayAbove)
      BY <1>0, RowAssumption DEF Undecayed, Row
    <3> QED
      BY <1>1, <3>1, <3>2 DEF Decayed
  <2> QED
    BY <1>2, <2>1, <2>2, <2>3, <2>4 DEF Cron, CronWorks
<1>3. ASSUME NEW d \in Channels, Owner(d) \/ CooldownEnds(d)
      PROVE  QuietRow(row[c], row'[c])
  <2>1. CASE d # c
    <3>1. row'[c] = row[c]
      BY <1>3, <2>1 DEF Owner, Submit, Revalidate, Reactivate, Delete,
                        CooldownEnds, TypeOK
    <3> QED
      BY <1>1, <3>1
  <2>2. CASE d = c /\ Submit(c)
    <3>1. PICK ok \in BOOLEAN : row' = [row EXCEPT ![c] = Inserted(ok)]
      BY <2>2 DEF Submit
    <3>2. row[c].state = "new" /\ row'[c].total = 0 /\ row'[c].failed = 0
      BY <2>2, <3>1 DEF Submit, Inserted, Blank, TypeOK
    <3> QED
      BY <3>2 DEF QuietRow
  <2>3. CASE d = c /\ (Revalidate(c) \/ Reactivate(c))
    <3>1. PICK v : row' = [row EXCEPT ![c] = v]
                   /\ (v = Reactivated(row[c]) \/ \E ok \in BOOLEAN :
                                                   v = Revalidated(row[c], ok))
      BY <2>3 DEF Revalidate, Reactivate
    <3>2. row'[c] = v
      BY <3>1 DEF TypeOK
    <3>3. v.total = row[c].total /\ v.failed = row[c].failed /\ v.state = row[c].state
      BY <3>1, <1>0 DEF Revalidated, Reactivated, Row
    <3> QED
      BY <3>2, <3>3 DEF QuietRow
  <2>4. CASE d = c /\ Delete(c)
    <3>1. row'[c].state = "deleted"
      BY <2>4 DEF Delete, Removed, Blank, TypeOK
    <3> QED
      BY <3>1 DEF QuietRow
  <2>5. CASE d = c /\ CooldownEnds(c)
    <3>1. row' = [row EXCEPT ![c] = [row[c] EXCEPT !.until = "over"]]
      BY <2>5 DEF CooldownEnds
    <3>2. /\ row'[c].total = row[c].total /\ row'[c].failed = row[c].failed
          /\ row'[c].state = row[c].state
      BY <3>1, <1>0 DEF TypeOK, Row
    <3> QED
      BY <3>2 DEF QuietRow
  <2> QED
    BY <1>3, <2>1, <2>2, <2>3, <2>4, <2>5 DEF Owner
<1>4. CASE UNCHANGED vars
  BY <1>4, <1>1 DEF vars
<1> QED
  BY <1>2, <1>3, <1>4 DEF Next

\* A call moves the successes of a channel with RecordResult of a 2xx only.
LEMMA CallQuiet ==
    ASSUME TypeOK, NEW r \in Requests, Call(r), NEW c \in Channels
    PROVE  \/ QuietRow(row[c], row'[c])
           \/ /\ RecordResult(r) /\ on[r] = c /\ outcome[r] \in Successes /\ Stored(row[c])
              /\ row'[c].state = row[c].state
              /\ row'[c].total = row[c].total + 1 /\ row'[c].failed = row[c].failed
<1>0. row[c] \in Row
  BY DEF TypeOK
<1>1. ASSUME NEW ok \in BOOLEAN
      PROVE  LET v == Recorded(row[c], ok)
             IN  /\ v.state = row[c].state /\ v.total = row[c].total + 1
                 /\ v.failed = IF ok THEN row[c].failed ELSE row[c].failed + 1
  BY <1>0 DEF Recorded, Row
<1>2. ASSUME row'[c] = row[c] \/ row'[c] = Recorded(row[c], FALSE)
             \/ row'[c] = Tripped(row[c])
      PROVE  QuietRow(row[c], row'[c])
  <2>1. LET v == Tripped(row[c])
        IN  v.state = row[c].state /\ v.total = row[c].total /\ v.failed = row[c].failed
    BY <1>0 DEF Tripped, Row
  <2>2. LET v == Recorded(row[c], FALSE)
        IN  /\ v.state = row[c].state /\ v.total = row[c].total + 1
            /\ v.failed = row[c].failed + 1
    BY <1>1
  <2> QED
    BY <1>2, <2>1, <2>2 DEF QuietRow
<1>3. CASE on[r] # c \/ ~Stored(row[c])
  <2>1. row'[c] = row[c]
    BY <1>3 DEF Call, Gateway, Upstream, PoolEmpty, Pick, DecryptFails,
       HeadersArrive, CallFails, BodyArrives, BodyFails, RecordResult,
       InsertLog, Serve, AnswerThrows, CatchRecord, CheckPasses, CheckFails,
       Trip, DbThrows, NoteFails, Write, TypeOK
  <2> QED
    BY <1>2, <2>1
<1>4. CASE on[r] = c /\ Stored(row[c])
  <2>1. CASE DecryptFails(r) \/ CatchRecord(r)
    <3>1. row'[c] = Recorded(row[c], FALSE)
      BY <1>4, <2>1 DEF DecryptFails, CatchRecord, Write, TypeOK
    <3> QED
      BY <1>2, <3>1
  <2>2. CASE RecordResult(r) /\ outcome[r] \in Successes
    <3>1. row'[c] = Recorded(row[c], TRUE)
      BY <1>4, <2>2, ResultWritten DEF Write, TypeOK
    <3> QED
      BY <1>1, <1>4, <2>2, <3>1
  <2>3. CASE RecordResult(r) /\ outcome[r] \notin Successes
    <3>1. row'[c] = Recorded(row[c], FALSE)
      BY <1>4, <2>3, ResultWritten DEF Write, TypeOK
    <3> QED
      BY <1>2, <3>1
  <2>4. CASE Trip(r) \/ NoteFails(r)
    <3>1. row'[c] = Tripped(row[c])
      BY <1>4, <2>4 DEF Trip, NoteFails, Write, TypeOK
    <3> QED
      BY <1>2, <3>1
  <2>5. CASE row' = row
    BY <1>2, <2>5
  <2> QED
    BY <2>1, <2>2, <2>3, <2>4, <2>5
       DEF Call, Gateway, Upstream, PoolEmpty, Pick, HeadersArrive, CallFails,
           BodyArrives, BodyFails, InsertLog, Serve, AnswerThrows, CheckPasses,
           CheckFails, DbThrows
<1> QED
  BY <1>3, <1>4
Ledger == \A c \in Channels : Balanced(row[c], Known(c), dbErrors)

\* How one step of a call moves the two sets of the ledger.
LEMMA CallSets ==
    ASSUME TypeOK, NEW r \in Requests, Call(r), NEW c \in Channels
    PROVE  /\ OkUnlogged(c)' \ {r} = OkUnlogged(c) \ {r}
           /\ r \in OkUnlogged(c)'
                 <=> RecordResult(r) /\ on[r] = c /\ outcome[r] \in Successes
           /\ r \in OkUnlogged(c) => InsertLog(r) \/ DbThrows(r)
<1> USE DEF TypeOK
<1>1. ASSUME NEW q \in Requests \ {r}
      PROVE  pc'[q] = pc[q] /\ on'[q] = on[q] /\ outcome'[q] = outcome[q]
  BY DEF Call, Gateway, Upstream, PoolEmpty, Pick, DecryptFails, HeadersArrive,
         CallFails, BodyArrives, BodyFails, RecordResult, InsertLog, Serve,
         AnswerThrows, CatchRecord, CheckPasses, CheckFails, Trip, DbThrows, NoteFails,
         AfterFailure, NextAttempt, GiveUp, Exception, Goto
<1>2. OkUnlogged(c)' \ {r} = OkUnlogged(c) \ {r}
  BY <1>1 DEF OkUnlogged
<1>3. pc'[r] = "log" <=> RecordResult(r)
  BY DEF Call, Gateway, Upstream, PoolEmpty, Pick, DecryptFails, HeadersArrive,
         CallFails, BodyArrives, BodyFails, RecordResult, InsertLog, Serve,
         AnswerThrows, CatchRecord, CheckPasses, CheckFails, Trip, DbThrows, NoteFails,
         AfterFailure, NextAttempt, GiveUp, Exception, Goto
<1>4. RecordResult(r) => on'[r] = on[r] /\ outcome'[r] = outcome[r]
  BY DEF RecordResult
<1>5. pc[r] = "log" => InsertLog(r) \/ DbThrows(r)
  BY DEF Call, Gateway, Upstream, PoolEmpty, Pick, DecryptFails, HeadersArrive,
         CallFails, BodyArrives, BodyFails, RecordResult, InsertLog, Serve,
         AnswerThrows, CatchRecord, CheckPasses, CheckFails, Trip, NoteFails
<1> QED
  BY <1>2, <1>3, <1>4, <1>5 DEF OkUnlogged

\* The rows of a step: what enters or leaves the log is what RecordResult had
\* counted, and a failed statement loses one entry at most.
LEMMA CallLedger ==
    ASSUME TypeOK, LogsOK, FreshUnused, Ledger, NEW r \in Requests, Call(r),
           LogsOK', NEW c \in Channels
    PROVE  Balanced(row'[c], Known(c)', dbErrors')
<1>1. row[c] \in Row /\ row'[c] \in Row /\ dbErrors \in Nat /\ dbErrors' \in Nat
  <2>1. TypeOK'
    BY TypeStep DEF Next
  <2> QED
    BY <2>1, PoolAssumption DEF TypeOK
<1>2. /\ IsFiniteSet(OkLogs(c)) /\ IsFiniteSet(OkUnlogged(c))
      /\ Cardinality(OkLogs(c)) \in Nat /\ Cardinality(OkUnlogged(c)) \in Nat
      /\ Known(c) \in Nat
  BY SetsFinite
<1>3. Known(c)' = Cardinality(OkLogs(c)') + Cardinality(OkUnlogged(c)')
  BY DEF Known
<1>4. Balanced(row[c], Known(c), dbErrors)
  BY DEF Ledger
<1>5. CASE RecordResult(r) /\ on[r] = c /\ outcome[r] \in Successes
  <2>1. logs' = logs /\ dbErrors' = dbErrors
    BY <1>5 DEF RecordResult
  <2>2. OkLogs(c)' = OkLogs(c)
    BY <2>1 DEF OkLogs
  <2>3. r \notin OkUnlogged(c)
    BY <1>5 DEF RecordResult, OkUnlogged
  <2>4. OkUnlogged(c)' = OkUnlogged(c) \cup {r}
    BY <1>5, <2>3, CallSets
  <2>5. Cardinality(OkUnlogged(c)') = Cardinality(OkUnlogged(c)) + 1
    BY <1>2, <2>3, <2>4, FS_AddElement
  <2>6. Known(c)' = Known(c) + 1
    BY <1>2, <1>3, <2>2, <2>5 DEF Known
  <2>7. CASE ~Stored(row[c])
    <3>1. row'[c] = row[c]
      BY <1>5, <2>7 DEF RecordResult, Write
    <3> QED
      BY <2>7, <3>1 DEF Balanced
  <2>8. CASE Stored(row[c])
    <3>1. row'[c] = Recorded(row[c], TRUE)
      BY <1>5, <2>8, ResultWritten DEF Write, TypeOK
    <3>2. row'[c].total = row[c].total + 1 /\ row'[c].failed = row[c].failed
      BY <1>1, <3>1 DEF Recorded, Row
    <3>3. row[c].total \in Nat /\ row[c].failed \in Nat
      BY <1>1 DEF Row
    <3>4. /\ Known(c) <= row[c].total - row[c].failed
          /\ row[c].total - row[c].failed <= Known(c) + dbErrors
      BY <1>4, <2>8 DEF Balanced
    <3>5. /\ Known(c)' <= row'[c].total - row'[c].failed
          /\ row'[c].total - row'[c].failed <= Known(c)' + dbErrors'
      BY <1>1, <1>2, <2>1, <2>6, <3>2, <3>3, <3>4
    <3> QED
      BY <3>5 DEF Balanced
  <2> QED
    BY <2>7, <2>8
<1>6. CASE InsertLog(r) /\ r \in OkUnlogged(c)
  <2>1. PICK e : /\ e = [req |-> r, retry |-> attempt[r], channel |-> on[r],
                         status |-> outcome[r]]
                 /\ logs' = logs \cup {e}
    BY <1>6 DEF InsertLog
  <2>2. e.req = r /\ e.retry = attempt[r] /\ e.channel = c /\ e.status \in Successes
    BY <1>6, <2>1 DEF OkUnlogged
  <2>3. e \notin logs
    <3>1. SUFFICES ASSUME e \in logs PROVE FALSE
      OBVIOUS
    <3>2. LogOK(e)
      BY <3>1 DEF LogsOK
    <3> QED
      BY <1>6, <2>2, <3>2 DEF LogOK, Logged, Answered, OkUnlogged
  <2>4. OkLogs(c)' = OkLogs(c) \cup {e} /\ e \notin OkLogs(c)
    BY <2>1, <2>2, <2>3 DEF OkLogs
  <2>5. Cardinality(OkLogs(c)') = Cardinality(OkLogs(c)) + 1
    BY <1>2, <2>4, FS_AddElement
  <2>6. ~RecordResult(r)
    BY <1>6 DEF InsertLog, RecordResult
  <2>7. OkUnlogged(c)' = OkUnlogged(c) \ {r}
    BY <1>6, <2>6, CallSets
  <2>8. Cardinality(OkUnlogged(c)') = Cardinality(OkUnlogged(c)) - 1
    BY <1>2, <1>6, <2>7, FS_RemoveElement
  <2>9. Known(c)' = Known(c)
    BY <1>2, <1>3, <2>5, <2>8 DEF Known
  <2>10. row'[c] = row[c] /\ dbErrors' = dbErrors
    BY <1>6 DEF InsertLog
  <2> QED
    BY <1>4, <2>9, <2>10
<1>7. CASE DbThrows(r) /\ r \in OkUnlogged(c)
  <2>1. row'[c] = row[c] /\ dbErrors' = dbErrors + 1 /\ logs' = logs
    BY <1>7 DEF DbThrows
  <2>2. OkLogs(c)' = OkLogs(c)
    BY <2>1 DEF OkLogs
  <2>3. ~RecordResult(r)
    BY <1>7 DEF OkUnlogged, RecordResult
  <2>4. OkUnlogged(c)' = OkUnlogged(c) \ {r}
    BY <1>7, <2>3, CallSets
  <2>5. Cardinality(OkUnlogged(c)') = Cardinality(OkUnlogged(c)) - 1
    BY <1>2, <1>7, <2>4, FS_RemoveElement
  <2>6. Known(c)' = Known(c) - 1
    BY <1>2, <1>3, <2>2, <2>5 DEF Known
  <2>7. CASE ~Stored(row[c])
    BY <2>1, <2>7 DEF Balanced
  <2>8. CASE Stored(row[c])
    <3>1. row[c].total - row[c].failed \in Int
      BY <1>1 DEF Row
    <3>2. /\ Known(c) <= row[c].total - row[c].failed
          /\ row[c].total - row[c].failed <= Known(c) + dbErrors
      BY <1>4, <2>8 DEF Balanced
    <3>3. /\ Known(c)' <= row'[c].total - row'[c].failed
          /\ row'[c].total - row'[c].failed <= Known(c)' + dbErrors'
      BY <1>1, <1>2, <2>1, <2>6, <3>1, <3>2
    <3> QED
      BY <3>3 DEF Balanced
  <2> QED
    BY <2>7, <2>8
<1>8. CASE /\ ~(RecordResult(r) /\ on[r] = c /\ outcome[r] \in Successes)
           /\ r \notin OkUnlogged(c)
  <2>1. OkUnlogged(c)' = OkUnlogged(c)
    <3>1. /\ r \notin OkUnlogged(c)'
          /\ OkUnlogged(c)' \ {r} = OkUnlogged(c) \ {r}
      BY <1>8, CallSets
    <3> DEFINE A == OkUnlogged(c)
               B == OkUnlogged(c)'
    <3>2. r \notin A /\ r \notin B /\ B \ {r} = A \ {r}
      BY <1>8, <3>1
    <3> HIDE DEF A, B
    <3>3. B = A
      BY <3>2
    <3> QED
      BY <3>3 DEF A, B
  <2>2. OkLogs(c)' = OkLogs(c)
    <3>1. CASE InsertLog(r)
      <4>1. PICK e : /\ e.channel = on[r] /\ e.status = outcome[r]
                     /\ logs' = logs \cup {e}
        BY <3>1 DEF InsertLog
      <4>2. ~(on[r] = c /\ outcome[r] \in Successes)
        BY <1>8, <3>1 DEF InsertLog, OkUnlogged
      <4> QED
        BY <4>1, <4>2 DEF OkLogs
    <3>2. CASE ~InsertLog(r)
      <4>1. logs' = logs
        BY <3>2, CallsLog
      <4> QED
        BY <4>1 DEF OkLogs
    <3> QED
      BY <3>1, <3>2
  <2>3. Known(c)' = Known(c)
    BY <1>3, <2>1, <2>2 DEF Known
  <2>4. QuietRow(row[c], row'[c])
    BY <1>8, CallQuiet
  <2>5. row[c].state = "new" => Known(c) = 0
    BY UnusedKnown
  <2>6. Balanced(row'[c], Known(c), dbErrors)
    BY <1>1, <1>2, <1>4, <2>4, <2>5, QuietBalanced
  <2>7. dbErrors <= dbErrors'
    BY <1>1, ErrorsGrow DEF Next
  <2> QED
    BY <1>1, <1>2, <2>3, <2>6, <2>7, BalanceGrows
<1> QED
  BY <1>5, <1>6, <1>7, <1>8, CallSets

LEMMA LedgerStep ==
    ASSUME TypeOK, LogsOK, FreshUnused, Ledger, Undecayed, [Next]_vars
    PROVE  Ledger'
<1> SUFFICES ASSUME NEW c \in Channels
             PROVE  Balanced(row'[c], Known(c)', dbErrors')
  BY DEF Ledger
<1>1. CASE \E r \in Requests : Call(r)
  BY <1>1, CallLedger, LogsStep
<1>2. CASE \A r \in Requests : ~Call(r)
  <2>1. UNCHANGED <<logs, pc, on, outcome>>
    BY <1>2, OthersLeaveCalls
  <2>2. Known(c)' = Known(c)
    BY <2>1 DEF Known, OkLogs, OkUnlogged
  <2>3. QuietRow(row[c], row'[c])
    BY <1>2, HouseholdQuiet
  <2>4. /\ row[c] \in Row /\ row'[c] \in Row
        /\ dbErrors \in Nat /\ dbErrors' \in Nat /\ dbErrors <= dbErrors'
    <3>1. dbErrors \in Nat
      BY PoolAssumption DEF TypeOK
    <3>2. TypeOK'
      BY TypeStep
    <3> QED
      BY <3>1, <3>2, ErrorsGrow, PoolAssumption DEF TypeOK
  <2>5. Known(c) \in Nat
    BY SetsFinite
  <2>6. row[c].state = "new" => Known(c) = 0
    BY UnusedKnown
  <2>7. Balanced(row'[c], Known(c), dbErrors)
    BY <2>3, <2>4, <2>5, <2>6, QuietBalanced DEF Ledger
  <2> QED
    BY <2>2, <2>4, <2>5, <2>7, BalanceGrows
<1> QED
  BY <1>1, <1>2

\* While no channel has more results than emaDecayChannels leaves alone, the
\* counters of routes/proxy.ts agree with its audit log, for any number of
\* calls, channels and failing statements.
THEOREM SuccessesAreLogged == Spec /\ []Undecayed => []SuccessesMatchLogs
<1>1. Init => LogsOK /\ FreshUnused /\ Ledger
  <2> SUFFICES ASSUME Init PROVE FreshUnused /\ Ledger
    BY LogsInit
  <2>1. FreshUnused
    BY PoolAssumption DEF Init, FreshUnused
  <2>2. ASSUME NEW c \in Channels PROVE Balanced(row[c], Known(c), dbErrors)
    BY <2>2 DEF Init, Balanced, Blank, Stored
  <2> QED
    BY <2>1, <2>2 DEF Ledger
<1>2. TypeOK /\ LogsOK /\ FreshUnused /\ Ledger /\ Undecayed /\ [Next]_vars
         => LogsOK' /\ FreshUnused' /\ Ledger'
  BY LogsStep, FreshStep, LedgerStep
<1>3. Ledger => SuccessesMatchLogs
  BY DEF Ledger, Balanced, Known, SuccessesMatchLogs, Succeeded
<1> QED
  BY <1>1, <1>2, <1>3, TypeCorrect, PTL DEF Spec

----------------------------------------------------------------------------
(* ChannelPool implements ChannelLifecycle. *)

LEMMA StatusOfStored ==
    ASSUME NEW w, Stored(w), w.circuited \in BOOLEAN
    PROVE  StatusOf(w) = IF Retired(w) THEN "retired"
                         ELSE IF w.circuited THEN "cooling"
                         ELSE IF w.active /\ w.valid THEN "serving"
                         ELSE "offline"
  BY DEF StatusOf, Stored

LEMMA StatusType ==
    ASSUME NEW w \in Row
    PROVE  StatusOf(w) \in Lifecycle!Status
<1>1. CASE Stored(w)
  BY <1>1, StatusOfStored
     DEF Row, Lifecycle!Status, Lifecycle!Usable
<1>2. CASE ~Stored(w)
  BY <1>2 DEF StatusOf, Stored, Row, Lifecycle!Status
<1> QED
  BY <1>1, <1>2

\* The columns a status depends on.
LEMMA SameStatus ==
    ASSUME NEW w, NEW v, v.state = w.state, v.active = w.active,
           v.valid = w.valid, v.circuited = w.circuited, v.count = w.count
    PROVE  StatusOf(v) = StatusOf(w)
  BY DEF StatusOf, Stored, Retired

LEMMA RecordedStatus ==
    ASSUME NEW w \in Row, NEW ok \in BOOLEAN
    PROVE  StatusOf(Recorded(w, ok)) = StatusOf(w)
<1> DEFINE v == Recorded(w, ok)
<1>1. /\ v.state = w.state /\ v.active = w.active /\ v.valid = w.valid
      /\ v.circuited = w.circuited /\ v.count = w.count
  BY DEF Recorded, Row
<1> HIDE DEF v
<1>2. StatusOf(v) = StatusOf(w)
  BY <1>1, SameStatus
<1> QED
  BY <1>2 DEF v

LEMMA DecayedStatus ==
    ASSUME NEW w \in Row
    PROVE  StatusOf(Decayed(w)) = StatusOf(w)
<1> DEFINE v == Decayed(w)
<1>1. /\ v.state = w.state /\ v.active = w.active /\ v.valid = w.valid
      /\ v.circuited = w.circuited /\ v.count = w.count
  BY DEF Decayed, Row
<1> HIDE DEF v
<1>2. StatusOf(v) = StatusOf(w)
  BY <1>1, SameStatus
<1> QED
  BY <1>2 DEF v

LEMMA TrippedStatus ==
    ASSUME NEW w \in Row, Stored(w)
    PROVE  \/ StatusOf(Tripped(w)) = StatusOf(w)
           \/ /\ StatusOf(w) \in {"serving", "offline", "cooling"}
              /\ StatusOf(Tripped(w)) \in {"cooling", "retired"}
<1> DEFINE v == Tripped(w)
<1>1. v.state = w.state /\ v.circuited = TRUE /\ v.count = w.count + 1
  BY DEF Tripped, Row
<1> HIDE DEF v
<1>2. StatusOf(v) = IF Retired(v) THEN "retired" ELSE "cooling"
  BY <1>1, StatusOfStored DEF Stored
<1>3. Retired(w) => Retired(v)
  BY <1>1, RowAssumption DEF Retired, Row
<1>4. CASE Retired(w)
  BY <1>2, <1>3, <1>4, StatusOfStored DEF v, Row
<1>5. CASE ~Retired(w)
  BY <1>2, <1>5, StatusOfStored DEF v, Row
<1> QED
  BY <1>4, <1>5

\* A probe moves a channel between the usable states or does not show.
LEMMA ProbedStatus ==
    ASSUME NEW w \in Row, Stored(w), NEW ok \in BOOLEAN, NEW v,
           v = Probed(w, ok) \/ v = Revalidated(w, ok)
    PROVE  \/ StatusOf(v) = StatusOf(w)
           \/ /\ StatusOf(w) \in {"serving", "offline"}
              /\ StatusOf(v) \in {"serving", "offline"}
<1>1. v.state = w.state /\ v.circuited = w.circuited /\ v.count = w.count
  BY DEF Probed, Revalidated, Row
<1>2. Stored(v) /\ v.circuited \in BOOLEAN /\ (Retired(v) <=> Retired(w))
  BY <1>1 DEF Stored, Retired, Row
<1> QED
  BY <1>1, <1>2, StatusOfStored DEF Row

LEMMA OwnerStatus ==
    /\ \A ok \in BOOLEAN : StatusOf(Inserted(ok)) \in {"serving", "offline"}
    /\ StatusOf(Removed) = "deleted"
    /\ StatusOf(Blank) = "unlisted"
    /\ \A w \in Row : Stored(w)
          => StatusOf(Reactivated(w)) \in {"serving", "offline"}
<1>1. ASSUME NEW ok \in BOOLEAN
      PROVE  StatusOf(Inserted(ok)) \in {"serving", "offline"}
  <2>1. Stored(Inserted(ok)) /\ Inserted(ok).circuited = FALSE
          /\ Inserted(ok).count = 0 /\ Inserted(ok).circuited \in BOOLEAN
    BY DEF Inserted, Blank, Stored
  <2>2. ~Retired(Inserted(ok))
    BY <2>1, RowAssumption DEF Retired
  <2> QED
    BY <2>1, <2>2, StatusOfStored
<1>2. ASSUME NEW w \in Row, Stored(w)
      PROVE  StatusOf(Reactivated(w)) \in {"serving", "offline"}
  <2>1. Stored(Reactivated(w)) /\ Reactivated(w).circuited = FALSE
          /\ Reactivated(w).count = 0 /\ Reactivated(w).circuited \in BOOLEAN
    BY <1>2 DEF Reactivated, Stored, Row
  <2>2. ~Retired(Reactivated(w))
    BY <2>1, RowAssumption DEF Retired
  <2> QED
    BY <2>1, <2>2, StatusOfStored
<1>3. Removed.state = "deleted" /\ Blank.state = "new"
  BY DEF Removed, Blank
<1> QED
  BY <1>1, <1>2, <1>3 DEF StatusOf, Stored

LEMMA RecoveredStatus ==
    ASSUME NEW w \in Row, Recoverable(w)
    PROVE  /\ StatusOf(w) = "cooling"
           /\ StatusOf(Recovered(w)) \in {"serving", "offline"}
<1>1. Stored(w) /\ w.circuited /\ ~Retired(w)
  BY RowAssumption DEF Recoverable, Retired, Row
<1>2. Stored(Recovered(w)) /\ Recovered(w).circuited = FALSE
        /\ ~Retired(Recovered(w))
  BY <1>1 DEF Recovered, Stored, Retired, Row
<1> QED
  BY <1>1, <1>2, StatusOfStored DEF Row

\* A step that changes the status of one channel is a move of the life cycle.
LEMMA OneMove ==
    ASSUME NEW c \in Channels, NEW from, NEW to,
           \A b \in Channels \ {c} : StatusOf(row'[b]) = StatusOf(row[b]),
           StatusOf(row[c]) \in from, StatusOf(row'[c]) \in to
    PROVE  Lifecycle!Move(c, from, to)
<1>1. [b \in Channels |-> StatusOf(row'[b])]
        = [[b \in Channels |-> StatusOf(row[b])]
              EXCEPT ![c] = StatusOf(row'[c])]
  OBVIOUS
<1> QED
  BY <1>1 DEF Lifecycle!Move

LEMMA NoMove ==
    ASSUME \A b \in Channels : StatusOf(row'[b]) = StatusOf(row[b])
    PROVE  UNCHANGED [c \in Channels |-> StatusOf(row[c])]
  OBVIOUS

LifecycleStep == [Lifecycle!Next]_[c \in Channels |-> StatusOf(row[c])]

LEMMA CallRefines ==
    ASSUME TypeOK, NEW r \in Requests, Call(r)
    PROVE  LifecycleStep
<1>1. \A b \in Channels : CallMove(row[b], row'[b])
  BY CallRows
<1>2. CASE Trip(r) \/ NoteFails(r)
  <2>1. on[r] \in Channels /\ Write(on[r], Tripped(row[on[r]]))
    BY <1>2 DEF Trip, NoteFails, TypeOK, AttemptOK, Answered
  <2>2. CASE Stored(row[on[r]])
    <3>1. row' = [row EXCEPT ![on[r]] = Tripped(row[on[r]])]
      BY <2>1, <2>2 DEF Write
    <3>2. \A b \in Channels \ {on[r]} : row'[b] = row[b]
      BY <3>1, <2>1 DEF TypeOK
    <3>3. row'[on[r]] = Tripped(row[on[r]]) /\ row[on[r]] \in Row
      BY <3>1, <2>1 DEF TypeOK
    <3>4. CASE StatusOf(row'[on[r]]) = StatusOf(row[on[r]])
      BY <3>2, <3>4, NoMove DEF LifecycleStep
    <3>5. CASE ~(StatusOf(row'[on[r]]) = StatusOf(row[on[r]]))
      <4>1. /\ StatusOf(row[on[r]]) \in Lifecycle!Usable \cup {"cooling"}
            /\ StatusOf(row'[on[r]]) \in {"cooling", "retired"}
        BY <3>3, <3>5, <2>2, TrippedStatus DEF Lifecycle!Usable
      <4>2. Lifecycle!Trip(on[r])
        BY <4>1, <3>2, <2>1, OneMove DEF Lifecycle!Trip
      <4> QED
        BY <4>2, <2>1 DEF LifecycleStep, Lifecycle!Next
    <3> QED
      BY <3>4, <3>5
  <2>3. CASE ~Stored(row[on[r]])
    BY <2>1, <2>3, NoMove DEF Write, LifecycleStep
  <2> QED
    BY <2>2, <2>3
<1>3. CASE ~Trip(r) /\ ~NoteFails(r)
  <2>1. \A b \in Channels : StatusOf(row'[b]) = StatusOf(row[b])
    <3>1. CASE DecryptFails(r) \/ RecordResult(r) \/ CatchRecord(r)
      <4>1. PICK ok \in BOOLEAN : Write(on[r], Recorded(row[on[r]], ok))
        BY <3>1, ResultWritten DEF DecryptFails, CatchRecord
      <4>2. \A b \in Channels : row'[b] = row[b]
                                  \/ row'[b] = Recorded(row[b], ok)
        BY <4>1 DEF Write, TypeOK
      <4> QED
        BY <4>2, RecordedStatus DEF TypeOK
    <3>2. CASE UNCHANGED row
      BY <3>2
    <3> QED
      BY <3>1, <3>2, <1>3
         DEF Call, Gateway, PoolEmpty, Pick, CallFails, InsertLog, Serve,
             AnswerThrows, CheckPasses, CheckFails, Upstream, HeadersArrive,
             BodyArrives, BodyFails, DbThrows
  <2> QED
    BY <2>1, NoMove DEF LifecycleStep
<1> QED
  BY <1>2, <1>3

LEMMA OwnerRefines ==
    ASSUME TypeOK, NEW c \in Channels, Owner(c) \/ CooldownEnds(c)
    PROVE  LifecycleStep
<1>1. PICK v : row' = [row EXCEPT ![c] = v]
  BY DEF Owner, Submit, Revalidate, Reactivate, Delete, CooldownEnds
<1>2. row'[c] = v /\ row[c] \in Row
        /\ \A b \in Channels \ {c} : row'[b] = row[b]
  BY <1>1 DEF TypeOK
<1>3. CASE Submit(c)
  <2>1. StatusOf(row[c]) = "unlisted"
    BY <1>3 DEF Submit, StatusOf, Stored
  <2>2. PICK ok \in BOOLEAN : row'[c] = Inserted(ok)
    BY <1>3 DEF Submit, TypeOK
  <2>3. StatusOf(row'[c]) \in Lifecycle!Usable
    BY <2>2, OwnerStatus DEF Lifecycle!Usable
  <2>4. Lifecycle!List(c)
    BY <2>1, <2>3, <1>2, OneMove DEF Lifecycle!List
  <2> QED
    BY <2>4 DEF LifecycleStep, Lifecycle!Next
<1>4. CASE Revalidate(c)
  <2>1. PICK ok \in BOOLEAN : row'[c] = Revalidated(row[c], ok)
    BY <1>4 DEF Revalidate, TypeOK
  <2>2. CASE StatusOf(row'[c]) = StatusOf(row[c])
    BY <2>2, <1>2, NoMove DEF LifecycleStep
  <2>3. CASE ~(StatusOf(row'[c]) = StatusOf(row[c]))
    <3>1. /\ StatusOf(row[c]) \in Lifecycle!Usable
          /\ StatusOf(row'[c]) \in Lifecycle!Usable
      BY <2>1, <2>3, <1>2, <1>4, ProbedStatus DEF Lifecycle!Usable, Revalidate
    <3>2. Lifecycle!Probe(c)
      BY <3>1, <1>2, OneMove DEF Lifecycle!Probe
    <3> QED
      BY <3>2 DEF LifecycleStep, Lifecycle!Next
  <2> QED
    BY <2>2, <2>3
<1>5. ASSUME Stored(row[c])
      PROVE  StatusOf(row[c]) \in Lifecycle!Listed
  BY <1>5, <1>2, StatusOfStored DEF Lifecycle!Listed, Lifecycle!Usable, Row
<1>6. CASE Reactivate(c)
  <2>1. row'[c] = Reactivated(row[c]) /\ Stored(row[c])
    BY <1>6 DEF Reactivate, TypeOK
  <2>2. StatusOf(row'[c]) \in Lifecycle!Usable
    BY <2>1, <1>2, OwnerStatus DEF Lifecycle!Usable
  <2>3. Lifecycle!Reactivate(c)
    BY <2>1, <2>2, <1>2, <1>5, OneMove DEF Lifecycle!Reactivate
  <2> QED
    BY <2>3 DEF LifecycleStep, Lifecycle!Next
<1>7. CASE Delete(c)
  <2>1. row'[c] = Removed /\ Stored(row[c])
    BY <1>7 DEF Delete, TypeOK
  <2>2. StatusOf(row'[c]) = "deleted"
    BY <2>1, OwnerStatus
  <2>3. Lifecycle!Delete(c)
    BY <2>1, <2>2, <1>2, <1>5, OneMove DEF Lifecycle!Delete
  <2> QED
    BY <2>3 DEF LifecycleStep, Lifecycle!Next
<1>8. CASE CooldownEnds(c)
  <2>1. row'[c] = [row[c] EXCEPT !.until = "over"]
    BY <1>8 DEF CooldownEnds, TypeOK
  <2>2. /\ row'[c].state = row[c].state /\ row'[c].active = row[c].active
        /\ row'[c].valid = row[c].valid /\ row'[c].count = row[c].count
        /\ row'[c].circuited = row[c].circuited
    BY <2>1, <1>2 DEF Row
  <2>3. StatusOf(row'[c]) = StatusOf(row[c])
    BY <2>2, SameStatus
  <2> QED
    BY <2>3, <1>2, NoMove DEF LifecycleStep
<1> QED
  BY <1>3, <1>4, <1>6, <1>7, <1>8 DEF Owner

LEMMA CronRefines ==
    ASSUME TypeOK, NEW k \in Crons, Cron(k)
    PROVE  LifecycleStep
<1>1. CASE CronProbe(k)
  <2>1. PICK c \in todo[k] : \/ UNCHANGED row
                             \/ \E ok \in BOOLEAN : Write(c, Probed(row[c], ok))
    BY <1>1 DEF CronProbe
  <2>2. c \in Channels
    BY <2>1 DEF TypeOK
  <2>3. CASE UNCHANGED row
    BY <2>3, NoMove DEF LifecycleStep
  <2>4. ASSUME NEW ok \in BOOLEAN, Write(c, Probed(row[c], ok)),
               Stored(row[c])
        PROVE  LifecycleStep
    <3>1. row'[c] = Probed(row[c], ok)
            /\ \A b \in Channels \ {c} : row'[b] = row[b]
      BY <2>2, <2>4 DEF Write, TypeOK
    <3>2. CASE StatusOf(row'[c]) = StatusOf(row[c])
      BY <3>1, <3>2, NoMove DEF LifecycleStep
    <3>3. CASE ~(StatusOf(row'[c]) = StatusOf(row[c]))
      <4>1. /\ StatusOf(row[c]) \in Lifecycle!Usable
            /\ StatusOf(row'[c]) \in Lifecycle!Usable
        BY <3>1, <3>3, <2>2, <2>4, ProbedStatus DEF Lifecycle!Usable, TypeOK
      <4>2. Lifecycle!Probe(c)
        BY <4>1, <3>1, <2>2, OneMove DEF Lifecycle!Probe
      <4> QED
        BY <4>2, <2>2 DEF LifecycleStep, Lifecycle!Next
    <3> QED
      BY <3>2, <3>3
  <2>5. ASSUME NEW ok \in BOOLEAN, Write(c, Probed(row[c], ok)),
               ~Stored(row[c])
        PROVE  LifecycleStep
    BY <2>5, NoMove DEF Write, LifecycleStep
  <2> QED
    BY <2>1, <2>3, <2>4, <2>5
<1>2. CASE CronRecover(k)
  <2> DEFINE S == {c \in Channels : Recoverable(row[c])}
  <2>1. \A c \in S : /\ StatusOf(row[c]) = "cooling"
                     /\ StatusOf(row'[c]) \in Lifecycle!Usable
    BY <1>2, RecoveredStatus DEF CronRecover, TypeOK, Lifecycle!Usable
  <2>2. \A c \in Channels \ S : StatusOf(row'[c]) = StatusOf(row[c])
    BY <1>2 DEF CronRecover
  <2>3. ASSUME NEW c \in Channels
        PROVE  StatusOf(row'[c]) \in Lifecycle!Status
    <3>1. row'[c] = row[c] \/ row'[c] = Recovered(row[c])
      BY <1>2 DEF CronRecover
    <3>2. row'[c] \in Row
      BY <3>1 DEF Recovered, Row, TypeOK
    <3> QED
      BY <3>2, StatusType
  <2>4. Lifecycle!Recover(S)
    BY <2>1, <2>2, <2>3 DEF Lifecycle!Recover
  <2>5. S \in SUBSET Channels
    OBVIOUS
  <2> QED
    BY <2>4, <2>5 DEF LifecycleStep, Lifecycle!Next
<1>3. CASE CronDecay(k)
  BY <1>3, DecayedStatus, NoMove DEF CronDecay, LifecycleStep, TypeOK
<1>4. CASE CronStart(k) \/ CronAborts(k)
  <2>1. UNCHANGED row
    BY <1>4 DEF CronStart, CronAborts
  <2> QED
    BY <2>1, NoMove DEF LifecycleStep
<1> QED
  BY <1>1, <1>2, <1>3, <1>4 DEF Cron, CronWorks

\* The concurrent pool implements the life cycle of a channel: in particular a
\* retired channel serves again only after its owner's reactivation, and a
\* deleted one never.
THEOREM PoolImplementsLifecycle == Spec => ImplementsLifecycle
<1>1. Init => Lifecycle!Init
  BY OwnerStatus DEF Init, Lifecycle!Init
<1>2. TypeOK /\ [Next]_vars => LifecycleStep
  <2>1. CASE UNCHANGED vars
    BY <2>1, NoMove DEF LifecycleStep, vars
  <2>2. ASSUME TypeOK, Next
        PROVE  LifecycleStep
    BY <2>2, CallRefines, OwnerRefines, CronRefines DEF Next
  <2> QED
    BY <2>1, <2>2
<1> QED
  BY <1>1, <1>2, TypeCorrect, PTL
     DEF Spec, ImplementsLifecycle, Lifecycle!Spec, LifecycleStep

----------------------------------------------------------------------------
(* Calls end: the part of CallsAnswered that is not fairness. *)

\* How many steps the current pass of the failover loop can still take.  A
\* database failure in the try block sends a call back to the evaluation of
\* the breaker, but not with the same outcome.
Ahead(p, o) ==
    CASE p = "list"                -> 10
      [] p \in {"decrypt", "call"} -> 9
      [] p = "body"                -> 8
      [] p = "record"              -> 7
      [] p = "log"                 -> 6
      [] p = "touch"               -> 5
      [] p = "check"               -> IF o = "thrown" THEN 2 ELSE 5
      [] p = "trip"                -> IF o = "thrown" THEN 1 ELSE 4
      [] p = "catch"               -> 3
      [] p \in Answered            -> 0

StepsLeft(r) == 11 * (MaxRetries - attempt[r]) + Ahead(pc[r], outcome[r])

\* Every step of a call takes it nearer to its answer, and nothing else moves it.
CallsAdvance ==
    [][\A r \in Requests : IF Call(r) THEN StepsLeft(r)' < StepsLeft(r)
                                      ELSE StepsLeft(r)' = StepsLeft(r)]_vars

LEMMA AheadOf ==
    /\ \A o : /\ Ahead("list", o) = 10 /\ Ahead("decrypt", o) = 9
             /\ Ahead("call", o) = 9 /\ Ahead("body", o) = 8
             /\ Ahead("record", o) = 7 /\ Ahead("log", o) = 6
             /\ Ahead("touch", o) = 5 /\ Ahead("catch", o) = 3
             /\ Ahead("served", o) = 0 /\ Ahead("failed", o) = 0
             /\ Ahead("error", o) = 0
    /\ \A o : o # "thrown" => Ahead("check", o) = 5 /\ Ahead("trip", o) = 4
    /\ Ahead("check", "thrown") = 2 /\ Ahead("trip", "thrown") = 1
BY DEF Ahead, Answered

LEMMA AheadType ==
    ASSUME NEW p \in CallState, NEW o
    PROVE  Ahead(p, o) \in 0 .. 10 /\ (p \notin Answered => Ahead(p, o) >= 1)
BY AheadOf DEF CallState, Answered

LEMMA StepsLeftType ==
    ASSUME TypeOK, NEW r \in Requests
    PROVE  StepsLeft(r) \in 0 .. 11 * MaxRetries + 10
<1>1. /\ MaxRetries \in Nat /\ attempt[r] \in 0 .. MaxRetries
      /\ pc[r] \in CallState
  BY PoolAssumption DEF TypeOK
<1>2. Ahead(pc[r], outcome[r]) \in 0 .. 10
  BY <1>1, AheadType
<1>3. QED
  BY <1>1, <1>2 DEF StepsLeft

\* A step within the pass.
LEMMA StepWithin ==
    ASSUME TypeOK, TypeOK', NEW r \in Requests, attempt' = attempt,
           Ahead(pc'[r], outcome'[r]) < Ahead(pc[r], outcome[r])
    PROVE  StepsLeft(r)' < StepsLeft(r)
<1>1. /\ MaxRetries \in Nat /\ attempt[r] \in 0 .. MaxRetries
      /\ pc[r] \in CallState /\ pc'[r] \in CallState
  BY PoolAssumption DEF TypeOK
<1>2. /\ Ahead(pc[r], outcome[r]) \in 0 .. 10
      /\ Ahead(pc'[r], outcome'[r]) \in 0 .. 10
  BY <1>1, AheadType
<1>3. QED
  BY <1>1, <1>2 DEF StepsLeft

\* The end of a pass: the next one or an answer.
LEMMA PassEnds ==
    ASSUME TypeOK, NEW r \in Requests, NextAttempt(r) \/ GiveUp(r),
           pc[r] \notin Answered
    PROVE  StepsLeft(r)' < StepsLeft(r)
<1>1. /\ MaxRetries \in Nat /\ attempt[r] \in 0 .. MaxRetries
      /\ attempt \in [Requests -> 0 .. MaxRetries]
      /\ pc[r] \in CallState /\ pc \in [Requests -> CallState]
  BY PoolAssumption DEF TypeOK
<1>2. Ahead(pc[r], outcome[r]) \in 0 .. 10 /\ Ahead(pc[r], outcome[r]) >= 1
  BY <1>1, AheadType
<1>3. CASE pc' = [pc EXCEPT ![r] = "failed"] /\ attempt' = attempt
  <2>1. Ahead(pc'[r], outcome'[r]) = 0
    BY <1>1, <1>3, AheadOf
  <2>2. QED
    BY <1>1, <1>2, <1>3, <2>1 DEF StepsLeft
<1>4. CASE /\ pc' = [pc EXCEPT ![r] = "list"]
           /\ attempt' = [attempt EXCEPT ![r] = @ + 1]
  <2>1. Ahead(pc'[r], outcome'[r]) = 10 /\ attempt'[r] = attempt[r] + 1
    BY <1>1, <1>4, AheadOf
  <2>2. QED
    BY <1>1, <1>2, <2>1 DEF StepsLeft
<1>5. QED
  BY <1>3, <1>4 DEF NextAttempt, GiveUp, Goto

LEMMA CallAdvances ==
    ASSUME TypeOK, TypeOK', LogsOK, NEW r \in Requests, Call(r)
    PROVE  StepsLeft(r)' < StepsLeft(r)
<1>1. /\ pc \in [Requests -> CallState] /\ outcome \in [Requests -> Outcomes]
      /\ pc[r] \in CallState
  BY DEF TypeOK
<1>2. CASE \/ PoolEmpty(r) \/ DecryptFails(r) \/ CheckPasses(r) \/ Trip(r)
  <2>1. /\ pc[r] \in {"list", "decrypt", "check", "trip"}
        /\ NextAttempt(r) \/ GiveUp(r)
    BY <1>2 DEF PoolEmpty, DecryptFails, CheckPasses, Trip, AfterFailure
  <2>2. QED
    BY <2>1, PassEnds DEF Answered
<1>3. CASE \/ Pick(r) \/ HeadersArrive(r) \/ CallFails(r) \/ BodyArrives(r)
           \/ BodyFails(r) \/ RecordResult(r) \/ Serve(r) \/ AnswerThrows(r)
  <2>1. attempt' = attempt
    BY <1>3 DEF Pick, HeadersArrive, CallFails, BodyArrives, BodyFails,
       RecordResult, Serve, AnswerThrows
  <2>2. \/ pc[r] = "list" /\ pc'[r] \in {"decrypt", "call"}
        \/ pc[r] = "call" /\ pc'[r] \in {"body", "catch"}
        \/ pc[r] = "body" /\ pc'[r] \in {"record", "catch"}
        \/ pc[r] = "record" /\ pc'[r] = "log"
        \/ pc[r] = "touch" /\ pc'[r] \in {"served", "catch"}
    BY <1>1, <1>3 DEF Pick, HeadersArrive, CallFails, BodyArrives, BodyFails,
       RecordResult, Serve, AnswerThrows, Goto
  <2>3. Ahead(pc'[r], outcome'[r]) < Ahead(pc[r], outcome[r])
    BY <2>2, AheadOf
  <2>4. QED
    BY <2>1, <2>3, StepWithin
<1>4. CASE InsertLog(r) \/ CatchRecord(r) \/ CheckFails(r)
  <2>1. attempt' = attempt /\ outcome' = outcome
    BY <1>4 DEF InsertLog, CatchRecord, CheckFails
  <2>2. \/ pc[r] = "log" /\ pc'[r] \in {"touch", "check"}
        \/ pc[r] = "catch" /\ pc'[r] = "check" /\ outcome[r] = "thrown"
        \/ pc[r] = "check" /\ pc'[r] = "trip"
    BY <1>1, <1>4 DEF InsertLog, CatchRecord, CheckFails, Goto, LogsOK
  <2>3. Ahead(pc'[r], outcome[r]) < Ahead(pc[r], outcome[r])
    <3>1. CASE outcome[r] = "thrown"
      BY <2>2, <3>1, AheadOf
    <3>2. CASE outcome[r] # "thrown"
      BY <2>2, <3>2, AheadOf
    <3>3. QED
      BY <3>1, <3>2
  <2>4. QED
    BY <2>1, <2>3, StepWithin
<1>5. CASE DbThrows(r) \/ NoteFails(r)
  <2>1. /\ attempt' = attempt /\ Exception(r)
        /\ pc[r] \notin {"call", "body"} \cup Answered
    BY <1>5 DEF DbThrows, NoteFails, Answered
  <2>2. \/ InTry(r) /\ pc'[r] = "catch"
        \/ pc'[r] = "error"
    BY <1>1, <2>1 DEF Exception, Goto
  <2>3. CASE InTry(r) /\ pc'[r] = "catch"
    <3>1. Ahead(pc[r], outcome[r]) \in {4, 5, 6, 7}
      BY <2>3, AheadOf DEF InTry
    <3>2. Ahead(pc'[r], outcome'[r]) = 3
      BY <2>3, AheadOf
    <3>3. QED
      BY <2>1, <3>1, <3>2, StepWithin
  <2>4. CASE pc'[r] = "error"
    <3>1. Ahead(pc[r], outcome[r]) \in 0 .. 10 /\ Ahead(pc[r], outcome[r]) >= 1
      BY <1>1, <2>1, AheadType
    <3>2. Ahead(pc'[r], outcome'[r]) = 0
      BY <2>4, AheadOf
    <3>3. QED
      BY <2>1, <3>1, <3>2, StepWithin
  <2>5. QED
    BY <2>2, <2>3, <2>4
<1>6. QED
  BY <1>2, <1>3, <1>4, <1>5 DEF Call, Gateway, Upstream

\* Nobody but the call itself moves it.
LEMMA CallRests ==
    ASSUME TypeOK, [Next]_vars, NEW r \in Requests, ~Call(r)
    PROVE  StepsLeft(r)' = StepsLeft(r)
<1>1. ASSUME NEW q \in Requests, Call(q)
      PROVE  /\ pc'[r] = pc[r] /\ attempt'[r] = attempt[r]
             /\ outcome'[r] = outcome[r]
  <2>1. q # r
    BY <1>1
  <2>2. QED
    BY <1>1, <2>1 DEF TypeOK, Goto, Call, Gateway, Upstream, PoolEmpty, Pick,
       DecryptFails, CallFails, RecordResult, InsertLog, Serve, AnswerThrows,
       CatchRecord, CheckPasses, CheckFails, Trip, HeadersArrive, BodyArrives, BodyFails,
       DbThrows, NoteFails, Exception, NextAttempt, GiveUp, AfterFailure
<1>2. ASSUME \/ \E c \in Channels : Owner(c) \/ CooldownEnds(c)
             \/ \E k \in Crons : Cron(k)
             \/ UNCHANGED vars
      PROVE  pc' = pc /\ attempt' = attempt /\ outcome' = outcome
  BY <1>2 DEF Owner, Submit, Revalidate, Reactivate, Delete, CooldownEnds,
     Cron, CronWorks, CronStart, CronProbe, CronRecover, CronDecay, CronAborts,
     reqVars, vars
<1>3. QED
  BY <1>1, <1>2 DEF Next, StepsLeft

LEMMA LogsInvariant == Spec => []LogsOK
<1>1. TypeOK /\ LogsOK /\ [Next]_vars => LogsOK'
  BY LogsStep
<1>2. QED
  BY <1>1, LogsInit, TypeCorrect, PTL DEF Spec

\* A call of routes/proxy.ts takes at most 11 * MaxRetries + 10 steps, whatever
\* fails how often and whoever changes the channels meanwhile: each of its
\* steps uses up one of them at least, and the steps of others neither help
\* nor hinder it.
THEOREM CallsGetOn ==
    Spec => /\ [](\A r \in Requests : StepsLeft(r) \in 0 .. 11 * MaxRetries + 10)
            /\ CallsAdvance
<1>1. TypeOK /\ TypeOK' /\ LogsOK /\ [Next]_vars
        => [\A r \in Requests : IF Call(r) THEN StepsLeft(r)' < StepsLeft(r)
                                 ELSE StepsLeft(r)' = StepsLeft(r)]_vars
  BY CallAdvances, CallRests
<1>2. TypeOK => \A r \in Requests : StepsLeft(r) \in 0 .. 11 * MaxRetries + 10
  BY StepsLeftType
<1>3. QED
  BY <1>1, <1>2, TypeCorrect, LogsInvariant, PTL DEF Spec, CallsAdvance
=============================================================================
