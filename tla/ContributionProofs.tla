------------------------- MODULE ContributionProofs -------------------------
(***************************************************************************)
(* Theorems about Contribution for any users, channels, thresholds, rows   *)
(* and runs.  A tier is earned because each step of its way is: the calls  *)
(* served bound the rows of the log, the rows counted bound the tiers to   *)
(* be written, and those the tiers.  What a run has counted it has dated   *)
(* before its reset, unless midnight undoes the dates.  The draw is        *)
(* proportional because each channel is drawn by the numbers between what  *)
(* is used up before it and after it; inductions over the listing are made *)
(* as arguments about a least counterexample.                              *)
(***************************************************************************)
EXTENDS Contribution, FiniteSetTheorems, FunctionTheorems, SequenceTheorems,
        WellFoundedInduction, TLAPS

Rows(k)  == cron[k].todo
Written(k) == {u \in cron[k].found : \A t \in Tiers : <<u, t>> \notin Rows(k)}

\* The successful calls others made to the user's channels, deleted or not.
Others(l, u) == Owner[l.channel] = u /\ l.user # u /\ l.ok
Earned(u, t) == t > 0 => served[u] >= Threshold[t]

ServedInv == \A u \in Users :
    served[u] >= Threshold[4]
      \/ Cardinality({l \in logs : Others(l, u)}) <= served[u]
TodoInv   == \A k \in Crons : \A u \in Users, t \in Tiers :
    <<u, t>> \in Rows(k) => Earned(u, t)
TierInv   == \A u \in Users : Earned(u, tier[u])
DateInv   == \A k \in Crons : cron[k].pc = "write" /\ ~cron[k].late =>
    \A u \in Written(k) : cached[u]
RowsInv   == \A k \in Crons : Rows(k) \subseteq cron[k].found \X Tiers

Inv == /\ TypeOK /\ IsFiniteSet(logs)
       /\ ServedInv /\ TodoInv /\ TierInv /\ DateInv /\ RowsInv

CronState == [pc : {"idle", "write", "purge"}, found : SUBSET Users,
              todo : SUBSET (Users \X Tiers), late : BOOLEAN]

LEMMA Thresholds ==
    /\ \A t \in 1 .. 4 : Threshold[t] \in Nat \ {0} /\ Threshold[t] <= Threshold[4]
    /\ 4 \in 1 .. 4 /\ MaxAborts \in Nat /\ MaxRows \in Nat /\ KeepDays \in Nat
    /\ WeekDays \in Nat \ {0} /\ WeekDays <= KeepDays
    /\ Owner \in [Channels -> Users]
BY ContributionAssumption

\* tierForCr gives a tier that the count has reached.
LEMMA TierReached ==
    ASSUME NEW cr \in Nat
    PROVE  TierOf(cr) \in Tiers /\ (TierOf(cr) > 0 => cr >= Threshold[TierOf(cr)])
<1> DEFINE Best(t) == /\ t > 0 => cr >= Threshold[t]
                      /\ \A u \in Tiers : u > t => cr < Threshold[u]
<1>1. \A t \in 1 .. 4 : Threshold[t] \in Nat
  BY Thresholds
<1>2. \E t \in Tiers : Best(t)
  <2>1. CASE cr >= Threshold[4]
    BY <1>1, <2>1 DEF Tiers
  <2>2. CASE cr < Threshold[4] /\ cr >= Threshold[3]
    <3>1. Best(3)
      BY <1>1, <2>2 DEF Tiers
    <3> QED
      BY <3>1 DEF Tiers
  <2>3. CASE cr < Threshold[4] /\ cr < Threshold[3] /\ cr >= Threshold[2]
    <3>1. Best(2)
      BY <1>1, <2>3 DEF Tiers
    <3> QED
      BY <3>1 DEF Tiers
  <2>4. CASE cr < Threshold[4] /\ cr < Threshold[3] /\ cr < Threshold[2] /\ cr >= Threshold[1]
    <3>1. Best(1)
      BY <1>1, <2>4 DEF Tiers
    <3> QED
      BY <3>1 DEF Tiers
  <2>5. CASE cr < Threshold[4] /\ cr < Threshold[3] /\ cr < Threshold[2] /\ cr < Threshold[1]
    <3>1. Best(0)
      BY <1>1, <2>5 DEF Tiers
    <3> QED
      BY <3>1 DEF Tiers
  <2> QED
    BY <1>1, <2>1, <2>2, <2>3, <2>4, <2>5
<1>3. TierOf(cr) = CHOOSE t \in Tiers : Best(t)
  BY DEF TierOf
<1> HIDE DEF Best
<1>4. TierOf(cr) \in Tiers /\ Best(TierOf(cr))
  BY <1>2, <1>3
<1> QED
  BY <1>4 DEF Best

LEMMA Counts ==
    ASSUME IsFiniteSet(logs), NEW S \in SUBSET logs
    PROVE  /\ IsFiniteSet(S) /\ Cardinality(S) \in Nat
           /\ \A T \in SUBSET S : Cardinality(T) <= Cardinality(S)
           /\ \A l : Cardinality(S \cup {l}) <= Cardinality(S) + 1
<1>1. IsFiniteSet(S) /\ Cardinality(S) \in Nat
  BY FS_Subset, FS_CardinalityType
<1>2. ASSUME NEW l PROVE Cardinality(S \cup {l}) <= Cardinality(S) + 1
  BY <1>1, FS_AddElement
<1> QED
  BY <1>1, <1>2, FS_Subset

\* Where neither the log nor the calls served shrink, what was earned stays so.
LEMMA EarnedStays ==
    ASSUME TypeOK, TodoInv, TierInv, \A u \in Users : served'[u] >= served[u],
           served' \in [Users -> 0 .. Threshold[4]]
    PROVE  \A u \in Users, t \in Tiers : Earned(u, t) => Earned(u, t)'
<1> SUFFICES ASSUME NEW u \in Users, NEW t \in Tiers, Earned(u, t), t > 0
             PROVE  served'[u] >= Threshold[t]
  BY DEF Earned
<1>1. t \in 1 .. 4 /\ Threshold[t] \in Nat
  BY Thresholds DEF Tiers
<1>2. served[u] \in Nat /\ served'[u] \in Nat /\ served[u] >= Threshold[t]
  BY Thresholds DEF Earned, TypeOK
<1> QED
  BY <1>1, <1>2

LEMMA CallKeeps ==
    ASSUME Inv, NEW v \in Users, NEW model \in Models, Call(v, model)
    PROVE  Inv'
<1>1. PICK c \in Drawn(model), ok \in BOOLEAN :
        LET equal == {l \in logs : l.user = v /\ l.channel = c /\ l.ok = ok /\ l.age = 0}
            row   == [n |-> Cardinality(equal) + 1, user |-> v, channel |-> c,
                      ok |-> ok, age |-> 0]
        IN  /\ logs' = logs \cup {row}
            /\ served' = IF /\ ok /\ v # Owner[c]
                            /\ served[Owner[c]] < Threshold[4]
                         THEN [served EXCEPT ![Owner[c]] = @ + 1] ELSE served
  BY DEF Call
<1> DEFINE equal == {l \in logs : l.user = v /\ l.channel = c /\ l.ok = ok /\ l.age = 0}
           row   == [n |-> Cardinality(equal) + 1, user |-> v, channel |-> c,
                     ok |-> ok, age |-> 0]
<1>2. /\ logs' = logs \cup {row}
      /\ served' = IF ok /\ v # Owner[c] /\ served[Owner[c]] < Threshold[4]
                   THEN [served EXCEPT ![Owner[c]] = @ + 1] ELSE served
      /\ UNCHANGED <<channels, tier, cached, cron, aborts>>
      /\ Cardinality(logs) < MaxRows
  BY <1>1 DEF Call
<1>3. c \in Channels /\ Owner[c] \in Users
  BY Thresholds DEF Drawn, Inv, TypeOK
<1>4. row \in LogRow
  <2>1. Cardinality(equal) \in Nat /\ Cardinality(equal) <= Cardinality(logs)
        /\ Cardinality(logs) \in Nat
    BY Counts DEF Inv
  <2>2. Cardinality(equal) + 1 \in 1 .. MaxRows
    BY <1>2, <2>1, Thresholds
  <2> HIDE DEF equal
  <2> QED
    BY <1>3, <2>2, Thresholds DEF LogRow, Ages
<1>5. row.user = v /\ row.channel = c /\ row.ok = ok
  OBVIOUS
<1> HIDE DEF row
<1>6. /\ served' \in [Users -> 0 .. Threshold[4]]
      /\ \A u \in Users : served'[u] >= served[u]
  <2>1. \A u \in Users : served[u] \in 0 .. Threshold[4]
    BY DEF Inv, TypeOK
  <2>2. \A n \in 0 .. Threshold[4] : n < Threshold[4] => n + 1 \in 0 .. Threshold[4]
    BY Thresholds
  <2>3. served \in [Users -> 0 .. Threshold[4]]
    BY DEF Inv, TypeOK
  <2> QED
    BY <1>2, <1>3, <2>1, <2>2, <2>3
<1>7. TypeOK' /\ IsFiniteSet(logs')
  BY <1>2, <1>4, <1>6, FS_AddElement DEF Inv, TypeOK
<1>8. ServedInv'
  <2> SUFFICES ASSUME NEW u \in Users, ~(served'[u] >= Threshold[4])
               PROVE  Cardinality({l \in logs' : Others(l, u)}) <= served'[u]
    BY DEF ServedInv, Others
  <2> DEFINE S == {l \in logs : Others(l, u)}
             T == {l \in logs' : Others(l, u)}
  <2>1. served[u] \in Nat /\ served'[u] \in Nat /\ Threshold[4] \in Nat
    BY <1>6, Thresholds DEF Inv, TypeOK
  <2>2. Cardinality(S) <= served[u] /\ served[u] < Threshold[4]
    BY <1>6, <2>1 DEF Inv, ServedInv
  <2>3. Cardinality(S) \in Nat /\ Cardinality(S \cup {row}) <= Cardinality(S) + 1
    BY Counts DEF Inv
  <2>4. CASE ok /\ v # Owner[c] /\ u = Owner[c]
    <3>1. served'[u] = served[u] + 1
      BY <1>2, <1>3, <2>2, <2>4 DEF Inv, TypeOK
    <3>2. T = S \cup {row}
      BY <1>2, <1>5, <2>4 DEF Others
    <3>3. Cardinality(T) <= Cardinality(S) + 1
      BY <2>3, <3>2
    <3>4. Cardinality(S) + 1 <= served'[u]
      <4> HIDE DEF S
      <4> QED
        BY <2>1, <2>2, <2>3, <3>1
    <3>5. T \in SUBSET logs' /\ Cardinality(T) \in Nat
      <4>1. T \in SUBSET logs'
        OBVIOUS
      <4> HIDE DEF T
      <4> QED
        BY <1>7, <4>1, FS_Subset, FS_CardinalityType
    <3>6. Cardinality(T) <= served'[u]
      <4> HIDE DEF S, T
      <4> QED
        BY <2>1, <2>3, <3>3, <3>4, <3>5
    <3> QED
      BY <3>6
  <2>5. CASE ~(ok /\ v # Owner[c] /\ u = Owner[c])
    <3>1. T = S
      BY <1>2, <1>5, <2>5 DEF Others
    <3>2. served'[u] >= served[u]
      BY <1>6
    <3>3. Cardinality(T) <= served'[u]
      <4> HIDE DEF S, T
      <4> QED
        BY <2>1, <2>2, <2>3, <3>1, <3>2
    <3> QED
      BY <3>3
  <2> QED
    BY <2>4, <2>5
<1>9. TodoInv' /\ TierInv'
  <2>1. \A u \in Users, t \in Tiers : Earned(u, t) => Earned(u, t)'
    BY <1>6, EarnedStays DEF Inv
  <2>2. tier \in [Users -> Tiers]
    BY DEF Inv, TypeOK
  <2> QED
    BY <1>2, <2>1, <2>2 DEF Inv, TodoInv, TierInv, Rows, Earned
<1>10. DateInv' /\ RowsInv'
  BY <1>2 DEF Inv, DateInv, RowsInv, Written, Rows
<1> QED
  BY <1>7, <1>8, <1>9, <1>10 DEF Inv

\* The steps that leave the calls served alone and add nothing to the log.
LEMMA ServedSame ==
    ASSUME Inv, served' = served, IsFiniteSet(logs'),
           \A u \in Users : Cardinality({l \in logs' : Others(l, u)})
                              <= Cardinality({l \in logs : Others(l, u)})
    PROVE  ServedInv'
<1> SUFFICES ASSUME NEW u \in Users, ~(served[u] >= Threshold[4])
             PROVE  Cardinality({l \in logs' : Others(l, u)}) <= served[u]
  BY DEF ServedInv, Others
<1> DEFINE S == {l \in logs : Others(l, u)}
           T == {l \in logs' : Others(l, u)}
<1>1. Cardinality(S) <= served[u] /\ served[u] \in Nat
  BY DEF Inv, ServedInv, TypeOK
<1>2. Cardinality(S) \in Nat /\ Cardinality(T) \in Nat
  BY Counts, FS_Subset, FS_CardinalityType DEF Inv
<1>3. Cardinality(T) <= Cardinality(S)
  OBVIOUS
<1>4. Cardinality(T) <= served[u]
  <2> HIDE DEF S, T
  <2> QED
    BY <1>1, <1>2, <1>3
<1> QED
  BY <1>4

LEMMA DeleteKeeps ==
    ASSUME Inv, NEW c \in Channels, DeleteChannel(c)
    PROVE  Inv'
BY DEF DeleteChannel, Inv, TypeOK, ServedInv, TodoInv, TierInv, DateInv, RowsInv, Rows,
       Written, Earned, Others

LEMMA SelectKeeps ==
    ASSUME Inv, NEW k \in Crons, CronSelect(k)
    PROVE  Inv'
<1> DEFINE found == {u \in Users : Cr(u) > 0}
           todo  == {<<u, TierOf(Cr(u))>> : u \in found}
           new   == [pc |-> "write", found |-> found, late |-> FALSE, todo |-> todo]
<1>1. /\ cron' = [cron EXCEPT ![k] = new]
      /\ UNCHANGED <<channels, logs, tier, cached, aborts, served>>
  BY DEF CronSelect
<1>2. \A u \in Users : Cr(u) \in Nat /\ TierOf(Cr(u)) \in Tiers /\ Earned(u, TierOf(Cr(u)))
  <2> TAKE u \in Users
  <2> DEFINE S == {l \in logs : Others(l, u)}
             T == {l \in logs : Counted(l, u)}
  <2>1. T \in SUBSET S
    BY DEF Counted, Others
  <2>2. Cardinality(T) \in Nat /\ Cardinality(S) \in Nat /\ Cardinality(T) <= Cardinality(S)
    BY <2>1, Counts DEF Inv
  <2>3. Cr(u) = Cardinality(T)
    BY DEF Cr
  <2>4. served[u] >= Threshold[4] \/ Cardinality(S) <= served[u]
    BY DEF Inv, ServedInv
  <2>5. served[u] \in Nat
    BY DEF Inv, TypeOK
  <2> HIDE DEF S, T
  <2>6. /\ TierOf(Cr(u)) \in Tiers
        /\ TierOf(Cr(u)) > 0 => Cr(u) >= Threshold[TierOf(Cr(u))]
    BY <2>2, <2>3, TierReached
  <2>7. ASSUME TierOf(Cr(u)) > 0 PROVE served[u] >= Threshold[TierOf(Cr(u))]
    <3> DEFINE t == TierOf(Cr(u))
    <3>1. t \in 1 .. 4 /\ Cr(u) >= Threshold[t]
      BY <2>6, <2>7 DEF Tiers
    <3> HIDE DEF t
    <3>2. Threshold[t] \in Nat /\ Threshold[t] <= Threshold[4] /\ Threshold[4] \in Nat
      BY <3>1, Thresholds
    <3>3. served[u] >= Threshold[t]
      BY <2>2, <2>3, <2>4, <2>5, <3>1, <3>2
    <3> QED
      BY <3>3 DEF t
  <2> QED
    BY <2>2, <2>3, <2>6, <2>7 DEF Earned
<1>3. /\ found \in SUBSET Users /\ todo \in SUBSET (Users \X Tiers)
      /\ todo \subseteq found \X Tiers
  BY <1>2
<1>4. \A u \in Users, t \in Tiers : <<u, t>> \in todo => Earned(u, t)
  BY <1>2
<1>5. \A u \in found : \E t \in Tiers : <<u, t>> \in todo
  BY <1>2
<1> HIDE DEF found, todo
<1>6. /\ new \in CronState /\ new.todo = todo /\ new.found = found
  BY <1>3 DEF CronState
<1> HIDE DEF new
<1>7. /\ cron \in [Crons -> CronState] /\ cron' \in [Crons -> CronState] /\ cron'[k] = new
      /\ \A j \in Crons \ {k} : cron'[j] = cron[j]
  BY <1>1, <1>6 DEF Inv, TypeOK, CronState
<1>8. TypeOK' /\ IsFiniteSet(logs') /\ ServedInv' /\ TierInv'
  BY <1>1, <1>7 DEF Inv, TypeOK, CronState, ServedInv, TierInv, Earned, Others
<1>9. TodoInv'
  BY <1>1, <1>4, <1>6, <1>7 DEF Inv, TodoInv, Rows, Earned
<1>10. DateInv'
  <2>1. Written(k)' = {}
    BY <1>5, <1>6, <1>7 DEF Written, Rows
  <2>2. \A j \in Crons \ {k} : Written(j)' = Written(j)
    BY <1>7 DEF Written, Rows
  <2> QED
    BY <1>1, <1>7, <2>1, <2>2 DEF Inv, DateInv
<1>11. RowsInv'
  BY <1>3, <1>6, <1>7 DEF Inv, RowsInv, Rows
<1> QED
  BY <1>8, <1>9, <1>10, <1>11 DEF Inv

LEMMA WriteKeeps ==
    ASSUME Inv, NEW k \in Crons, CronWrite(k)
    PROVE  Inv'
<1>1. PICK w \in cron[k].todo :
        /\ tier' = [tier EXCEPT ![w[1]] = w[2]]
        /\ cached' = [cached EXCEPT ![w[1]] = TRUE]
        /\ cron' = [cron EXCEPT ![k].todo = @ \ {w}]
  BY DEF CronWrite
<1>2. UNCHANGED <<channels, logs, aborts, served>>
  BY DEF CronWrite
<1>3. cron \in [Crons -> CronState] /\ cron[k] \in CronState
  BY DEF Inv, TypeOK, CronState
<1>4. cron[k].todo \subseteq Users \X Tiers /\ w \in Users \X Tiers
  BY <1>1, <1>3 DEF CronState
<1> DEFINE u == w[1]
           t == w[2]
<1>5. u \in Users /\ t \in Tiers /\ w = <<u, t>>
  BY <1>4
<1>6. Earned(u, t)
  BY <1>1, <1>5 DEF Inv, TodoInv, Rows
<1>7. tier' = [tier EXCEPT ![u] = t] /\ cached' = [cached EXCEPT ![u] = TRUE]
  BY <1>1
<1> HIDE DEF u, t
<1> DEFINE new == [cron[k] EXCEPT !.todo = @ \ {w}]
<1>8. /\ new \in CronState /\ new.todo = cron[k].todo \ {w}
      /\ new.found = cron[k].found /\ new.pc = cron[k].pc /\ new.late = cron[k].late
  BY <1>3, <1>4 DEF CronState
<1>9. cron' = [cron EXCEPT ![k] = new]
  BY <1>1, <1>3
<1> HIDE DEF new
<1>10. /\ cron' \in [Crons -> CronState] /\ cron'[k] = new
       /\ \A j \in Crons \ {k} : cron'[j] = cron[j]
  BY <1>3, <1>8, <1>9
<1>11. tier \in [Users -> Tiers] /\ cached \in [Users -> BOOLEAN]
  BY DEF Inv, TypeOK
<1>12. /\ tier' \in [Users -> Tiers] /\ cached' \in [Users -> BOOLEAN]
       /\ cached'[u] /\ \A v \in Users : cached[v] => cached'[v]
  BY <1>5, <1>7, <1>11
<1>13. TypeOK' /\ IsFiniteSet(logs') /\ ServedInv'
  BY <1>2, <1>10, <1>12 DEF Inv, TypeOK, CronState, ServedInv, Others
<1>14. TierInv'
  BY <1>2, <1>5, <1>6, <1>7, <1>11 DEF Inv, TierInv, Earned
<1>15. TodoInv' /\ RowsInv'
  BY <1>2, <1>8, <1>10 DEF Inv, TodoInv, RowsInv, Rows, Earned
<1>16. DateInv'
  <2> SUFFICES ASSUME NEW j \in Crons, cron'[j].pc = "write", ~cron'[j].late,
                      NEW v \in Written(j)'
               PROVE  cached'[v]
    BY DEF DateInv
  <2>1. v \in Users
    BY <1>10 DEF Written, CronState
  <2>2. v = u \/ v \in Written(j)
    BY <1>5, <1>8, <1>10 DEF Written, Rows
  <2>3. cron[j].pc = "write" /\ ~cron[j].late
    BY <1>8, <1>10
  <2> QED
    BY <1>12, <2>1, <2>2, <2>3 DEF Inv, DateInv
<1> QED
  BY <1>13, <1>14, <1>15, <1>16 DEF Inv

LEMMA ResetKeeps ==
    ASSUME Inv, NEW k \in Crons, CronReset(k)
    PROVE  Inv'
<1>1. /\ tier' = [u \in Users |->
                    IF cron[k].found # {} /\ Cleared(u) THEN 0 ELSE tier[u]]
      /\ cron' = [cron EXCEPT ![k].pc = "purge"]
      /\ UNCHANGED <<channels, logs, cached, aborts, served>>
  BY DEF CronReset
<1>2. cron \in [Crons -> CronState] /\ cron[k] \in CronState
  BY DEF Inv, TypeOK, CronState
<1> DEFINE new == [cron[k] EXCEPT !.pc = "purge"]
<1>3. /\ new \in CronState /\ new.todo = cron[k].todo /\ new.found = cron[k].found
      /\ new.pc = "purge" /\ cron' = [cron EXCEPT ![k] = new]
  BY <1>1, <1>2 DEF CronState
<1> HIDE DEF new
<1>4. /\ cron' \in [Crons -> CronState] /\ cron'[k] = new
      /\ \A j \in Crons \ {k} : cron'[j] = cron[j]
  BY <1>2, <1>3
<1>5. tier \in [Users -> Tiers] /\ tier' \in [Users -> Tiers]
  BY <1>1 DEF Inv, TypeOK, Tiers
<1>6. TypeOK' /\ IsFiniteSet(logs') /\ ServedInv'
  BY <1>1, <1>4, <1>5 DEF Inv, TypeOK, CronState, ServedInv, Others
<1>7. TierInv'
  BY <1>1 DEF Inv, TierInv, Earned
<1>8. TodoInv' /\ RowsInv'
  BY <1>1, <1>3, <1>4 DEF Inv, TodoInv, RowsInv, Rows, Earned
<1>9. DateInv'
  BY <1>1, <1>3, <1>4 DEF Inv, DateInv, Written, Rows
<1> QED
  BY <1>6, <1>7, <1>8, <1>9 DEF Inv

\* A run ends, after its purge or before.
LEMMA EndKeeps ==
    ASSUME Inv, NEW k \in Crons, CronPurge(k) \/ CronAborts(k)
    PROVE  Inv'
<1>1. /\ cron' = [cron EXCEPT ![k] = Idle] /\ logs' \in SUBSET logs
      /\ UNCHANGED <<channels, tier, cached, served>>
  BY DEF CronPurge, CronAborts
<1>2. aborts' \in 0 .. MaxAborts
  BY Thresholds DEF CronPurge, CronAborts, Inv, TypeOK
<1>3. Idle \in CronState /\ Idle.todo = {} /\ Idle.found = {} /\ Idle.pc = "idle"
  BY DEF Idle, CronState
<1>4. /\ cron \in [Crons -> CronState] /\ cron' \in [Crons -> CronState]
      /\ cron'[k] = Idle /\ \A j \in Crons \ {k} : cron'[j] = cron[j]
  BY <1>1, <1>3 DEF Inv, TypeOK, CronState
<1>5. IsFiniteSet(logs')
  BY <1>1, FS_Subset DEF Inv
<1>6. TypeOK'
  BY <1>1, <1>2, <1>4 DEF Inv, TypeOK, CronState
<1>7. ServedInv'
  <2>1. ASSUME NEW u \in Users
        PROVE  Cardinality({l \in logs' : Others(l, u)})
                 <= Cardinality({l \in logs : Others(l, u)})
    <3>1. {l \in logs' : Others(l, u)} \in SUBSET {l \in logs : Others(l, u)}
      BY <1>1
    <3> QED
      BY <3>1, Counts DEF Inv
  <2> QED
    BY <1>1, <1>5, <2>1, ServedSame
<1>8. TierInv'
  BY <1>1 DEF Inv, TierInv, Earned
<1>9. TodoInv' /\ RowsInv' /\ DateInv'
  BY <1>1, <1>3, <1>4 DEF Inv, TodoInv, RowsInv, DateInv, Written, Rows, Earned
<1> QED
  BY <1>5, <1>6, <1>7, <1>8, <1>9 DEF Inv

\* Midnight: rows age, and may become equal; the dates are yesterday's.
LEMMA DayKeeps ==
    ASSUME Inv, NextDay
    PROVE  Inv'
<1>1. /\ logs' = {[l EXCEPT !.age = Older(@)] : l \in logs}
      /\ cached' = [u \in Users |-> FALSE]
      /\ cron' = [k \in Crons |-> IF cron[k].pc = "write"
                                  THEN [cron[k] EXCEPT !.late = TRUE] ELSE cron[k]]
      /\ UNCHANGED <<channels, tier, aborts, served>>
  BY DEF NextDay
<1>2. cron \in [Crons -> CronState] /\ logs \subseteq LogRow
  BY DEF Inv, TypeOK, CronState
<1>3. ASSUME NEW k \in Crons
      PROVE  /\ cron'[k] \in CronState /\ cron'[k].pc = cron[k].pc
             /\ cron'[k].todo = cron[k].todo /\ cron'[k].found = cron[k].found
             /\ cron'[k].pc = "write" => cron'[k].late
  <2>1. cron[k] \in CronState
    BY <1>2
  <2> QED
    BY <1>1, <2>1 DEF CronState
<1>4. ASSUME NEW l \in logs
      PROVE  /\ [l EXCEPT !.age = Older(@)] \in LogRow
             /\ \A u \in Users : Others([l EXCEPT !.age = Older(@)], u) <=> Others(l, u)
  <2> DEFINE old == [l EXCEPT !.age = Older(l.age)]
  <2>1. l \in LogRow
    BY <1>2
  <2>2. l.age \in Ages /\ Older(l.age) \in Ages
    BY <2>1, Thresholds DEF LogRow, Ages, Older
  <2>3. old \in LogRow
    BY <2>1, <2>2 DEF LogRow
  <2>4. old.user = l.user /\ old.channel = l.channel /\ old.ok = l.ok
    BY <2>1 DEF LogRow
  <2> HIDE DEF old
  <2>5. old = [l EXCEPT !.age = Older(@)]
    BY DEF old
  <2> QED
    BY <2>3, <2>4, <2>5 DEF Others
<1>5. ASSUME NEW u \in Users
      PROVE  Cardinality({l \in logs' : Others(l, u)})
               <= Cardinality({l \in logs : Others(l, u)})
  <2> DEFINE S == {l \in logs : Others(l, u)}
             T == {l \in logs' : Others(l, u)}
             f == [l \in S |-> [l EXCEPT !.age = Older(@)]]
  <2>1. ASSUME NEW l \in S PROVE f[l] \in T
    BY <1>1, <1>4
  <2>2. ASSUME NEW m \in T PROVE \E l \in S : f[l] = m
    BY <1>1, <1>4
  <2>3. IsFiniteSet(S)
    BY FS_Subset DEF Inv
  <2>4. f \in [S -> T]
    BY <2>1
  <2> HIDE DEF S, T, f
  <2>5. f \in Surjection(S, T)
    BY <2>2, <2>4 DEF Surjection
  <2>6. Cardinality(T) <= Cardinality(S)
    BY <2>3, <2>5, FS_Surjection
  <2> QED
    BY <2>6 DEF S, T
<1>6. IsFiniteSet(logs')
  <2> DEFINE f == [l \in logs |-> [l EXCEPT !.age = Older(@)]]
  <2>1. f \in [logs -> logs'] /\ \A m \in logs' : \E l \in logs : f[l] = m
    BY <1>1
  <2> HIDE DEF f
  <2>2. f \in Surjection(logs, logs')
    BY <2>1 DEF Surjection
  <2> QED
    BY <2>2, FS_Surjection DEF Inv
<1>7. TypeOK'
  <2>1. logs' \subseteq LogRow
    BY <1>1, <1>4
  <2>2. cron' \in [Crons -> CronState]
    BY <1>1, <1>3
  <2>3. cached' \in [Users -> BOOLEAN]
    BY <1>1
  <2> QED
    BY <1>1, <2>1, <2>2, <2>3 DEF Inv, TypeOK, CronState
<1>8. ServedInv'
  BY <1>1, <1>5, <1>6, ServedSame
<1>9. TierInv'
  BY <1>1 DEF Inv, TierInv, Earned
<1>10. TodoInv' /\ RowsInv'
  BY <1>1, <1>3 DEF Inv, TodoInv, RowsInv, Rows, Earned
<1>11. DateInv'
  BY <1>3 DEF DateInv
<1> QED
  BY <1>6, <1>7, <1>8, <1>9, <1>10, <1>11 DEF Inv

LEMMA Kept ==
    ASSUME Inv, [Next]_vars
    PROVE  Inv'
<1>1. UNCHANGED vars => Inv'
  BY DEF vars, Inv, TypeOK, ServedInv, TodoInv, TierInv, DateInv, RowsInv, Rows,
         Written, Earned, Others
<1> QED
  BY <1>1, CallKeeps, DeleteKeeps, SelectKeeps, WriteKeeps, ResetKeeps, EndKeeps, DayKeeps
     DEF Next, CronRefresh

LEMMA Starts == Init => Inv
<1> SUFFICES ASSUME Init PROVE Inv
  OBVIOUS
<1>1. Idle \in CronState /\ Idle.todo = {} /\ Idle.pc = "idle"
  BY DEF Idle, CronState
<1>2. 0 \in 0 .. Threshold[4] /\ 0 \in 0 .. MaxAborts /\ 0 \in Tiers
  BY Thresholds DEF Tiers
<1>3. TypeOK
  BY <1>1, <1>2 DEF Init, TypeOK, CronState
<1>4. IsFiniteSet(logs) /\ logs = {}
  BY FS_EmptySet DEF Init
<1>5. ServedInv
  <2>1. ASSUME NEW u \in Users
        PROVE  Cardinality({l \in logs : Others(l, u)}) = 0 /\ served[u] = 0
    <3>1. {l \in logs : Others(l, u)} = {}
      BY <1>4
    <3> QED
      BY <3>1, FS_EmptySet DEF Init
  <2> QED
    BY <2>1 DEF ServedInv
<1>6. TodoInv /\ TierInv /\ DateInv /\ RowsInv
  BY <1>1 DEF Init, TodoInv, TierInv, DateInv, RowsInv, Rows, Written, Earned
<1> QED
  BY <1>3, <1>4, <1>5, <1>6 DEF Inv

THEOREM AlwaysInv == Spec => []Inv
BY Starts, Kept, PTL DEF Spec

\* Every variable keeps its type.
THEOREM TypeCorrect == Spec => []TypeOK
<1>1. Inv => TypeOK
  BY DEF Inv
<1> QED
  BY <1>1, AlwaysInv, PTL

\* A tier is earned by the successful calls of others.
THEOREM TiersAreEarned == Spec => []TierEarned
<1>1. Inv => TierEarned
  BY DEF Inv, TierInv, Earned, TierEarned
<1> QED
  BY <1>1, AlwaysInv, PTL

LEMMA CountedKeepTier ==
    ASSUME Inv, [Next]_vars, NEW k \in Crons, NEW u \in Users,
           cron[k].pc = "write", cron'[k].pc = "purge", ~cron[k].late,
           u \in cron[k].found
    PROVE  tier'[u] = tier[u]
<1>1. cron \in [Crons -> CronState]
  BY DEF Inv, TypeOK, CronState
<1>2. CronReset(k)
  <2>1. ASSUME NEW j \in Crons, CronSelect(j) \/ CronWrite(j) \/ CronPurge(j) \/ CronAborts(j)
        PROVE  cron'[k].pc # "purge"
    <3>1. CronSelect(j) => cron'[k].pc # "purge"
      BY <1>1 DEF CronSelect
    <3>2. CronWrite(j) => cron'[k].pc # "purge"
      BY <1>1 DEF CronWrite, CronState
    <3>3. CronPurge(j) \/ CronAborts(j) => cron'[k].pc # "purge"
      BY <1>1 DEF CronPurge, CronAborts, Idle
    <3> QED
      BY <2>1, <3>1, <3>2, <3>3
  <2>2. ASSUME NEW j \in Crons, j # k, CronReset(j) PROVE FALSE
    BY <1>1, <2>2 DEF CronReset
  <2>3. ~NextDay
    BY <1>1 DEF NextDay, CronState
  <2>4. ~UNCHANGED cron
    OBVIOUS
  <2> QED
    BY <2>1, <2>2, <2>3, <2>4 DEF Next, CronRefresh, Call, DeleteChannel, vars
<1>3. cached[u]
  BY <1>2 DEF CronReset, Inv, DateInv, Written, Rows
<1> QED
  BY <1>2, <1>3 DEF CronReset, Cleared

\* A run clears only users it has not counted, unless midnight passes between
\* its SELECT and its reset.
THEOREM CountedKeepTheirTier == Spec => ContributorsKeepTier
<1>1. Inv /\ [Next]_vars =>
        [\A k \in Crons, u \in Users :
           /\ cron[k].pc = "write" /\ cron'[k].pc = "purge"
           /\ ~cron[k].late /\ u \in cron[k].found
           => tier'[u] = tier[u]]_vars
  BY CountedKeepTier
<1> QED
  BY <1>1, AlwaysInv, PTL DEF Spec, ContributorsKeepTier

----------------------------------------------------------------------------
(* The draw. *)

LEMMA Least ==
    ASSUME NEW S, S \subseteq Nat, S # {}
    PROVE  \E n \in S : \A k \in S : n <= k
<1> DEFINE R == OpToRel(<, Nat)
<1>1. PICK n \in S : \A k \in S : ~(<<k, n>> \in R)
  BY WFMin, NatLessThanWellFounded
<1>2. ASSUME NEW k \in S PROVE n <= k
  <2>1. k \in Nat /\ n \in Nat
    OBVIOUS
  <2>2. k < n => <<k, n>> \in R
    BY <2>1 DEF OpToRel
  <2>3. ~(k < n)
    BY <1>1, <2>2
  <2> QED
    BY <2>1, <2>3
<1> QED
  BY <1>2

\* A sequence of channels whose shares are numbers.
HasWeights(chs, model) ==
  /\ Len(chs) \in Nat
  /\ \A k \in 1 .. Len(chs) : Share(chs[k], model) \in Nat

\* The recursive definition of the sums has a solution ...
LEMMA UsedUpExists ==
    ASSUME NEW chs, NEW model, HasWeights(chs, model)
    PROVE  \E g : g = [k \in 0 .. Len(chs) |->
                         IF k = 0 THEN 0 ELSE g[k - 1] + Share(chs[k], model)]
<1> DEFINE L == Len(chs)
           W(k) == Share(chs[k], model)
           Partial(g, m) == /\ g \in [0 .. m -> Nat]
                            /\ g[0] = 0
                            /\ \A k \in 1 .. m : g[k] = g[k - 1] + W(k)
           Missing == {m \in Nat : m <= L /\ ~\E g : Partial(g, m)}
<1>1. L \in Nat /\ \A k \in 1 .. L : W(k) \in Nat
  BY DEF HasWeights
<1> HIDE DEF L, W
<1>2. Missing = {}
  <2> SUFFICES ASSUME Missing # {} PROVE FALSE
    OBVIOUS
  <2>1. PICK m \in Missing : \A k \in Missing : m <= k
    BY Least
  <2>2. Partial([k \in 0 .. 0 |-> 0], 0)
    OBVIOUS
  <2>3. m \in Nat \ {0} /\ m <= L
    BY <2>2
  <2>4. m - 1 \in Nat /\ m - 1 \notin Missing /\ m - 1 <= L
    <3>1. ~(m <= m - 1)
      BY <2>3
    <3> HIDE DEF Missing
    <3> QED
      BY <1>1, <2>1, <2>3, <3>1
  <2>5. \E g : Partial(g, m - 1)
    <3> HIDE DEF Partial
    <3> QED
      BY <2>4
  <2> PICK g : Partial(g, m - 1)
    BY <2>5
  <2> DEFINE h == [k \in 0 .. m |-> IF k = m THEN g[m - 1] + W(m) ELSE g[k]]
  <2>6. m \in 1 .. L /\ m - 1 \in 0 .. m - 1
    BY <1>1, <2>3
  <2>7. h \in [0 .. m -> Nat]
    BY <1>1, <2>3, <2>6
  <2>8. h[0] = 0
    BY <2>3
  <2>9. ASSUME NEW k \in 1 .. m PROVE h[k] = h[k - 1] + W(k)
    BY <2>3
  <2>10. Partial(h, m)
    <3> HIDE DEF h
    <3> QED
      BY <2>7, <2>8, <2>9
  <2> QED
    BY <2>1, <2>10
<1>3. \E g : Partial(g, L)
  <2>1. L \notin Missing /\ L <= L
    <3> HIDE DEF Missing
    <3> QED
      BY <1>1, <1>2
  <2> HIDE DEF Partial
  <2> QED
    BY <1>1, <2>1
<1> PICK g : Partial(g, L)
  BY <1>3
<1>4. ASSUME NEW k \in 0 .. L PROVE g[k] = IF k = 0 THEN 0 ELSE g[k - 1] + W(k)
  BY <1>1
<1>5. g = [k \in 0 .. L |-> IF k = 0 THEN 0 ELSE g[k - 1] + W(k)]
  BY <1>4
<1>6. g = [k \in 0 .. Len(chs) |-> IF k = 0 THEN 0 ELSE g[k - 1] + Share(chs[k], model)]
  BY <1>5 DEF L, W
<1> QED
  BY <1>6

\* ... so that they are what the loop subtracts.
LEMMA UsedUpEquations ==
    ASSUME NEW chs, NEW model, HasWeights(chs, model)
    PROVE  /\ UsedUp(chs, model) \in [0 .. Len(chs) -> Nat]
           /\ UsedUp(chs, model)[0] = 0
           /\ \A k \in 1 .. Len(chs) :
                UsedUp(chs, model)[k] = UsedUp(chs, model)[k - 1] + Share(chs[k], model)
<1> DEFINE U == UsedUp(chs, model)
           Negative == {k \in 0 .. Len(chs) : U[k] \notin Nat}
<1>1. U = [k \in 0 .. Len(chs) |-> IF k = 0 THEN 0 ELSE U[k - 1] + Share(chs[k], model)]
  BY UsedUpExists DEF UsedUp
<1> HIDE DEF U
<1>2. Len(chs) \in Nat /\ \A k \in 1 .. Len(chs) : Share(chs[k], model) \in Nat
  BY DEF HasWeights
<1>3. U[0] = 0 /\ \A k \in 1 .. Len(chs) : U[k] = U[k - 1] + Share(chs[k], model)
  BY <1>1, <1>2
<1>4. Negative = {}
  <2> SUFFICES ASSUME Negative # {} PROVE FALSE
    OBVIOUS
  <2>0. Negative \subseteq Nat
    BY <1>2
  <2>1. PICK m \in Negative : \A k \in Negative : m <= k
    <3> HIDE DEF Negative
    <3> QED
      BY <2>0, Least
  <2>2. m \in 1 .. Len(chs)
    BY <1>2, <1>3
  <2>3. m - 1 \in 0 .. Len(chs) /\ m - 1 \notin Negative
    BY <1>2, <2>1, <2>2
  <2>4. U[m] \in Nat
    BY <1>2, <1>3, <2>2, <2>3
  <2> QED
    BY <2>4
<1>5. U \in [0 .. Len(chs) -> Nat]
  BY <1>1, <1>4
<1> QED
  BY <1>3, <1>5 DEF U

\* The sums never fall.
LEMMA UsedUpGrows ==
    ASSUME NEW chs, NEW model, HasWeights(chs, model),
           NEW j \in 0 .. Len(chs), NEW k \in j .. Len(chs)
    PROVE  UsedUp(chs, model)[j] <= UsedUp(chs, model)[k]
<1> DEFINE U == UsedUp(chs, model)
           Lower == {i \in j .. Len(chs) : ~(U[j] <= U[i])}
<1>1. Len(chs) \in Nat /\ \A i \in 1 .. Len(chs) : Share(chs[i], model) \in Nat
  BY DEF HasWeights
<1>2. /\ U \in [0 .. Len(chs) -> Nat]
      /\ \A i \in 1 .. Len(chs) : U[i] = U[i - 1] + Share(chs[i], model)
  BY UsedUpEquations
<1> HIDE DEF U
<1>3. Lower = {}
  <2> SUFFICES ASSUME Lower # {} PROVE FALSE
    OBVIOUS
  <2>1. Lower \subseteq Nat
    BY <1>1
  <2>2. PICK m \in Lower : \A i \in Lower : m <= i
    <3> HIDE DEF Lower
    <3> QED
      BY <2>1, Least
  <2>3. m \in j .. Len(chs) /\ ~(U[j] <= U[m]) /\ U[j] \in Nat
    BY <1>2
  <2>4. m # j /\ m - 1 \in j .. Len(chs) /\ ~(m <= m - 1) /\ m \in 1 .. Len(chs)
    BY <1>1, <2>3
  <2>5. m - 1 \notin Lower
    <3> HIDE DEF Lower
    <3> QED
      BY <2>2, <2>4
  <2>6. U[j] <= U[m - 1] /\ U[m - 1] \in Nat
    BY <1>1, <1>2, <2>4, <2>5
  <2>7. U[m] = U[m - 1] + Share(chs[m], model) /\ Share(chs[m], model) \in Nat
    BY <1>1, <1>2, <2>4
  <2> QED
    BY <2>3, <2>6, <2>7
<1> QED
  BY <1>3 DEF U

\* Every number up to the total is used up at one channel, the one whose share it
\* falls into, and the draw is that channel.
LEMMA DrawEnds ==
    ASSUME NEW chs, NEW model, HasWeights(chs, model), DOMAIN chs = 1 .. Len(chs),
           NEW n \in 1 .. Total(chs, model)
    PROVE  \E k \in 1 .. Len(chs) :
             /\ PickChannel(chs, model, n) = chs[k]
             /\ UsedUp(chs, model)[k - 1] < n /\ n <= UsedUp(chs, model)[k]
<1> DEFINE U == UsedUp(chs, model)
           Enough == {k \in 1 .. Len(chs) : n <= U[k]}
           Ends(k) == n <= U[k] /\ \A j \in 1 .. k - 1 : n > U[j]
<1>1. Len(chs) \in Nat
  BY DEF HasWeights
<1>2. U \in [0 .. Len(chs) -> Nat] /\ U[0] = 0
  BY UsedUpEquations
<1>3. n \in 1 .. U[Len(chs)]
  BY DEF Total
<1>4. PickChannel(chs, model, n) = chs[CHOOSE k \in 1 .. Len(chs) : Ends(k)]
  BY DEF PickChannel
<1> HIDE DEF U
<1>5. \E k \in 1 .. Len(chs) : Ends(k)
  <2>1. n \in Nat \ {0} /\ n <= U[Len(chs)]
    BY <1>1, <1>2, <1>3
  <2>2. Len(chs) \in Enough
    BY <1>1, <1>2, <2>1
  <2>3. Enough \subseteq Nat
    OBVIOUS
  <2>4. PICK k \in Enough : \A j \in Enough : k <= j
    <3> HIDE DEF Enough
    <3> QED
      BY <2>2, <2>3, Least
  <2>5. k \in 1 .. Len(chs) /\ n <= U[k]
    OBVIOUS
  <2>6. ASSUME NEW j \in 1 .. k - 1 PROVE n > U[j]
    <3>1. j \in 1 .. Len(chs) /\ ~(k <= j) /\ U[j] \in Nat
      BY <1>1, <1>2, <2>5
    <3>2. j \notin Enough
      <4> HIDE DEF Enough
      <4> QED
        BY <2>4, <3>1
    <3>3. ~(n <= U[j])
      BY <3>1, <3>2
    <3> QED
      BY <2>1, <3>1, <3>3
  <2> QED
    BY <2>5, <2>6
<1>6. PICK k : k = CHOOSE i \in 1 .. Len(chs) : Ends(i)
  OBVIOUS
<1>7. k \in 1 .. Len(chs) /\ Ends(k)
  <2> HIDE DEF Ends
  <2> QED
    BY <1>5, <1>6
<1>8. U[k - 1] < n
  <2>1. CASE k = 1
    BY <1>1, <1>2, <1>3, <2>1
  <2>2. CASE k # 1
    <3>1. k - 1 \in 1 .. k - 1 /\ k - 1 \in 0 .. Len(chs)
      BY <1>1, <1>7, <2>2
    <3>2. n > U[k - 1] /\ U[k - 1] \in Nat
      BY <1>2, <1>7, <3>1
    <3> QED
      BY <1>1, <1>2, <1>3, <3>2
  <2> QED
    BY <2>1, <2>2
<1> QED
  BY <1>4, <1>6, <1>7, <1>8 DEF U

\* A number falls into the share of one channel only.
LEMMA SharesApart ==
    ASSUME NEW chs, NEW model, HasWeights(chs, model), NEW n \in Nat,
           NEW j \in 1 .. Len(chs), NEW k \in 1 .. Len(chs),
           UsedUp(chs, model)[j - 1] < n, n <= UsedUp(chs, model)[j],
           UsedUp(chs, model)[k - 1] < n, n <= UsedUp(chs, model)[k]
    PROVE  j = k
<1> DEFINE U == UsedUp(chs, model)
<1>1. Len(chs) \in Nat /\ U \in [0 .. Len(chs) -> Nat]
  BY UsedUpEquations DEF HasWeights
<1>2. \A i \in 0 .. Len(chs) : U[i] \in Nat
  BY <1>1
<1>3. \A i \in 0 .. Len(chs) : \A m \in i .. Len(chs) : U[i] <= U[m]
  BY UsedUpGrows
<1>4. /\ j - 1 \in 0 .. Len(chs) /\ k - 1 \in 0 .. Len(chs)
      /\ j \in 0 .. Len(chs) /\ k \in 0 .. Len(chs)
  BY <1>1
<1>5. U[j - 1] < n /\ n <= U[j] /\ U[k - 1] < n /\ n <= U[k]
  OBVIOUS
<1> HIDE DEF U
<1>6. CASE j < k
  <2>1. k - 1 \in j .. Len(chs)
    BY <1>1, <1>6
  <2> QED
    BY <1>2, <1>3, <1>4, <1>5, <2>1
<1>7. CASE k < j
  <2>1. j - 1 \in k .. Len(chs)
    BY <1>1, <1>7
  <2> QED
    BY <1>2, <1>3, <1>4, <1>5, <2>1
<1> QED
  BY <1>6, <1>7, <1>1

\* The smallest weight of the draw is positive.
LEMMA DrawWeightPositive ==
    ASSUME NEW ch, ch.weight \in Nat, ch.rate \in Nat
    PROVE  DrawWeight(ch) \in Nat \ {0}
<1>1. Floor(ch.weight, 1) \in Nat \ {0} /\ Floor(ch.rate, 1) \in Nat \ {0}
  BY DEF Floor
<1>2. \A a, b \in Nat \ {0} : a * b \in Nat \ {0}
  OBVIOUS
<1> QED
  BY <1>1, <1>2 DEF DrawWeight

\* A listing has each channel at one place.
LEMMA ListingFacts ==
    ASSUME channels \subseteq Channels, NEW listing \in Listings
    PROVE  /\ Cardinality(channels) \in Nat
           /\ listing \in [1 .. Cardinality(channels) -> channels]
           /\ \A c \in channels : \E k \in 1 .. Cardinality(channels) : listing[k] = c
           /\ \A j, k \in 1 .. Cardinality(channels) : listing[j] = listing[k] => j = k
<1> DEFINE D == 1 .. Cardinality(channels)
<1>1. IsFiniteSet(channels) /\ Cardinality(channels) \in Nat
  BY ContributionAssumption, FS_Subset, FS_CardinalityType
<1>2. /\ listing \in [D -> channels]
      /\ \A j, k \in D : j # k => listing[j] # listing[k]
  BY DEF Listings, SetToSeqs
<1>3. listing \in Injection(D, channels)
  BY <1>2 DEF Injection, IsInjective
<1>4. IsFiniteSet(D) /\ Cardinality(D) = Cardinality(channels)
  BY <1>1, FS_Interval
<1>5. listing \in Surjection(D, channels)
  <2> HIDE DEF D
  <2> QED
    BY <1>1, <1>3, <1>4, FS_Injection
<1>6. \A c \in channels : \E k \in D : listing[k] = c
  BY <1>5 DEF Surjection
<1> QED
  BY <1>1, <1>2, <1>6

\* The scheduler sees the channels of the listing, with weights.
LEMMA PoolFacts ==
    ASSUME channels \subseteq Channels, NEW listing \in Listings,
           NEW rate \in [Channels -> Rates], NEW model
    PROVE  LET P == Pool(listing, rate)
               N == Cardinality(channels)
           IN  /\ N \in Nat /\ Len(P) = N /\ DOMAIN P = 1 .. N
               /\ \A k \in 1 .. N : P[k].id = listing[k]
               /\ HasWeights(P, model)
<1> DEFINE P == Pool(listing, rate)
           N == Cardinality(channels)
           Entry(c) == [id |-> c, models |-> Serves[c], weight |-> Weight[c],
                        rate |-> rate[c]]
           E == {Entry(c) : c \in Channels}
<1>1. N \in Nat /\ listing \in [1 .. N -> channels]
  BY ListingFacts
<1>2. P = [i \in 1 .. N |-> Entry(listing[i])]
  BY <1>1 DEF Pool
<1>3. /\ DOMAIN P = 1 .. N
      /\ \A k \in 1 .. N : P[k] = Entry(listing[k]) /\ listing[k] \in Channels
  BY <1>1, <1>2
<1>4. Len(P) = N
  <2>1. P \in [1 .. N -> E]
    BY <1>1, <1>2
  <2>2. P \in Seq(E)
    <3> HIDE DEF P, E, N
    <3> QED
      BY <1>1, <2>1, SeqDef
  <2>3. Len(P) \in Nat /\ DOMAIN P = 1 .. Len(P)
    <3> HIDE DEF P, E, N
    <3> QED
      BY <2>2, LenProperties
  <2> HIDE DEF P, E, N
  <2> QED
    BY <1>1, <1>3, <2>3
<1>5. \A k \in 1 .. N :
        /\ P[k].id = listing[k] /\ P[k].models = Serves[listing[k]]
        /\ P[k].weight = Weight[listing[k]] /\ P[k].rate = rate[listing[k]]
  BY <1>3
<1>9. \A c \in Channels : Weight[c] \in Nat /\ rate[c] \in Nat
  BY ContributionAssumption
<1> HIDE DEF P, N, E, Entry
<1>6. \A k \in 1 .. N : P[k].weight \in Nat /\ P[k].rate \in Nat
  BY <1>3, <1>5, <1>9
<1>7. \A k \in 1 .. N : Share(P[k], model) \in Nat
  <2> TAKE k \in 1 .. N
  <2>1. DrawWeight(P[k]) \in Nat
    BY <1>6, DrawWeightPositive
  <2> QED
    BY <2>1 DEF Share
<1>8. HasWeights(P, model)
  BY <1>1, <1>4, <1>7 DEF HasWeights
<1> QED
  BY <1>1, <1>3, <1>4, <1>5, <1>8 DEF P, N

LEMMA PoolShare ==
    ASSUME channels \subseteq Channels, NEW listing \in Listings,
           NEW rate \in [Channels -> Rates], NEW model,
           NEW k \in 1 .. Cardinality(channels)
    PROVE  Share(Pool(listing, rate)[k], model) =
             IF model \in Serves[listing[k]] \/ "*" \in Serves[listing[k]]
             THEN Floor(Weight[listing[k]], 1) * Floor(rate[listing[k]], 1) ELSE 0
<1>1. listing \in [1 .. Cardinality(channels) -> channels]
  BY ListingFacts
<1> DEFINE e == Pool(listing, rate)[k]
<1>2. /\ e.models = Serves[listing[k]]
      /\ e.weight = Weight[listing[k]] /\ e.rate = rate[listing[k]]
  BY <1>1 DEF Pool
<1> HIDE DEF e
<1>3. Share(e, model) =
        IF model \in Serves[listing[k]] \/ "*" \in Serves[listing[k]]
        THEN Floor(Weight[listing[k]], 1) * Floor(rate[listing[k]], 1) ELSE 0
  BY <1>2 DEF Share, ModelsMatch, DrawWeight
<1> QED
  BY <1>3 DEF e

\* The numbers that draw a channel are the interval of its share.
LEMMA DrawsAreShare ==
    ASSUME channels \subseteq Channels, NEW listing \in Listings,
           NEW rate \in [Channels -> Rates], NEW model,
           NEW k \in 1 .. Cardinality(channels)
    PROVE  Cardinality(Draws(listing[k], listing, rate, model))
             = Share(Pool(listing, rate)[k], model)
<1> DEFINE P == Pool(listing, rate)
           N == Cardinality(channels)
           U == UsedUp(P, model)
           D == Draws(listing[k], listing, rate, model)
<1>1. /\ N \in Nat /\ Len(P) = N /\ DOMAIN P = 1 .. N
      /\ \A i \in 1 .. N : P[i].id = listing[i]
      /\ HasWeights(P, model)
  BY PoolFacts
<1>2. \A i, j \in 1 .. N : listing[i] = listing[j] => i = j
  BY ListingFacts
<1>3. D = {n \in 1 .. Total(P, model) : PickChannel(P, model, n).id = listing[k]}
  BY DEF Draws
<1> HIDE DEF P, D
<1>4. /\ U \in [0 .. N -> Nat] /\ U[0] = 0
      /\ \A i \in 1 .. N : U[i] = U[i - 1] + Share(P[i], model)
  BY <1>1, UsedUpEquations
<1>5. \A i \in 0 .. N : \A j \in i .. N : U[i] <= U[j]
  BY <1>1, UsedUpGrows
<1>6. Total(P, model) = U[N]
  BY <1>1 DEF Total
<1>7. \A n \in 1 .. U[N] : \E i \in 1 .. N :
        PickChannel(P, model, n) = P[i] /\ U[i - 1] < n /\ n <= U[i]
  BY <1>1, <1>6, DrawEnds
<1>8. \A n \in Nat : \A i, j \in 1 .. N :
        U[i - 1] < n /\ n <= U[i] /\ U[j - 1] < n /\ n <= U[j] => i = j
  BY <1>1, SharesApart
<1> HIDE DEF U
<1>9. /\ k - 1 \in 0 .. N /\ k \in 0 .. N /\ N \in k .. N /\ k \in 1 .. N /\ N \in 0 .. N
  BY <1>1
<1>10. U[k - 1] \in Nat /\ U[k] \in Nat /\ U[N] \in Nat /\ U[k] <= U[N]
  BY <1>4, <1>5, <1>9
<1>11. ASSUME NEW n \in D PROVE n \in U[k - 1] + 1 .. U[k]
  <2>1. n \in 1 .. U[N] /\ PickChannel(P, model, n).id = listing[k]
    BY <1>3, <1>6
  <2>2. PICK i \in 1 .. N : PickChannel(P, model, n) = P[i] /\ U[i - 1] < n /\ n <= U[i]
    BY <1>7, <2>1
  <2>3. i = k
    BY <1>1, <1>2, <1>9, <2>1, <2>2
  <2> QED
    BY <1>10, <2>1, <2>2, <2>3
<1>12. ASSUME NEW n \in U[k - 1] + 1 .. U[k] PROVE n \in D
  <2>1. n \in Nat /\ n \in 1 .. U[N] /\ U[k - 1] < n /\ n <= U[k]
    BY <1>10
  <2>2. PICK i \in 1 .. N : PickChannel(P, model, n) = P[i] /\ U[i - 1] < n /\ n <= U[i]
    BY <1>7, <2>1
  <2>3. i = k
    BY <1>8, <1>9, <2>1, <2>2
  <2>4. PickChannel(P, model, n).id = listing[k]
    BY <1>1, <1>9, <2>2, <2>3
  <2> QED
    BY <1>3, <1>6, <2>1, <2>4
<1>13. D = U[k - 1] + 1 .. U[k]
  BY <1>10, <1>11, <1>12
<1>14. U[k] = U[k - 1] + Share(P[k], model)
  BY <1>4, <1>9
<1>15. Share(P[k], model) \in Nat
  BY <1>1, <1>9 DEF HasWeights
<1>16. Cardinality(U[k - 1] + 1 .. U[k])
          = IF U[k - 1] + 1 > U[k] THEN 0 ELSE U[k] - (U[k - 1] + 1) + 1
  <2> DEFINE a == U[k - 1] + 1
             b == U[k]
  <2>1. a \in Int /\ b \in Int
    BY <1>10
  <2>2. Cardinality(a .. b) = IF a > b THEN 0 ELSE b - a + 1
    <3> HIDE DEF a, b
    <3> QED
      BY <2>1, FS_Interval
  <2> QED
    BY <2>2
<1>17. Cardinality(D) = Share(P[k], model)
  BY <1>10, <1>13, <1>14, <1>15, <1>16
<1> QED
  BY <1>17 DEF D, P

LEMMA DrawFair ==
    ASSUME channels \subseteq Channels
    PROVE  DrawProportional
<1> SUFFICES ASSUME NEW model \in Models, NEW c \in channels,
                    NEW listing \in Listings, NEW rate \in [Channels -> Rates]
             PROVE  Cardinality(Draws(c, listing, rate, model)) =
                      IF model \in Serves[c] \/ "*" \in Serves[c]
                      THEN Floor(Weight[c], 1) * Floor(rate[c], 1) ELSE 0
  BY DEF DrawProportional
<1>1. PICK k \in 1 .. Cardinality(channels) : listing[k] = c
  BY ListingFacts
<1>2. Cardinality(Draws(c, listing, rate, model)) = Share(Pool(listing, rate)[k], model)
  BY <1>1, DrawsAreShare
<1>3. Share(Pool(listing, rate)[k], model) =
        IF model \in Serves[listing[k]] \/ "*" \in Serves[listing[k]]
        THEN Floor(Weight[listing[k]], 1) * Floor(rate[listing[k]], 1) ELSE 0
  BY PoolShare
<1> QED
  BY <1>1, <1>2, <1>3

LEMMA SharePositive ==
    ASSUME channels \subseteq Channels, NEW c \in channels,
           NEW rate \in [Channels -> Rates]
    PROVE  Floor(Weight[c], 1) * Floor(rate[c], 1) \in Nat \ {0}
<1>1. Weight[c] \in Nat /\ rate[c] \in Nat
  BY ContributionAssumption
<1>2. Floor(Weight[c], 1) \in Nat \ {0} /\ Floor(rate[c], 1) \in Nat \ {0}
  BY <1>1 DEF Floor
<1>3. \A a, b \in Nat \ {0} : a * b \in Nat \ {0}
  OBVIOUS
<1> QED
  BY <1>2, <1>3

\* The channels that some draw gives are those that serve the model.
LEMMA DrawnServe ==
    ASSUME channels \subseteq Channels, NEW model \in Models
    PROVE  Drawn(model) =
             {c \in channels : model \in Serves[c] \/ "*" \in Serves[c]}
<1>1. ASSUME NEW c \in channels, NEW listing \in Listings, NEW rate \in [Channels -> Rates]
      PROVE  Draws(c, listing, rate, model) # {}
               <=> model \in Serves[c] \/ "*" \in Serves[c]
  <2> DEFINE D == Draws(c, listing, rate, model)
             P == Pool(listing, rate)
  <2>1. Cardinality(D) = IF model \in Serves[c] \/ "*" \in Serves[c]
                         THEN Floor(Weight[c], 1) * Floor(rate[c], 1) ELSE 0
    BY DrawFair DEF DrawProportional
  <2>2. IsFiniteSet(D)
    <3>1. Len(P) \in Nat /\ HasWeights(P, model)
      BY PoolFacts
    <3>2. Total(P, model) \in Nat
      <4> HIDE DEF P
      <4> QED
        BY <3>1, UsedUpEquations DEF Total
    <3>3. IsFiniteSet(1 .. Total(P, model))
      <4> HIDE DEF P
      <4> QED
        BY <3>2, FS_Interval
    <3>4. D \subseteq 1 .. Total(P, model)
      BY DEF Draws
    <3> HIDE DEF P, D
    <3> QED
      BY <3>3, <3>4, FS_Subset
  <2>3. D = {} <=> Cardinality(D) = 0
    <3> HIDE DEF D
    <3> QED
      BY <2>2, FS_EmptySet
  <2> QED
    BY <2>1, <2>3, SharePositive
<1>2. \E listing : listing \in Listings
  <2> DEFINE D == 1 .. Cardinality(channels)
  <2>1. IsFiniteSet(channels)
    BY ContributionAssumption, FS_Subset
  <2>2. PICK f : f \in Bijection(D, channels)
    BY <2>1, FS_CardinalityType DEF ExistsBijection
  <2>3. f \in [D -> channels] /\ \A i, j \in D : i # j => f[i] # f[j]
    BY <2>2 DEF Bijection, Injection, IsInjective
  <2>4. f \in SetToSeqs(channels)
    BY <2>3 DEF SetToSeqs
  <2> QED
    BY <2>4 DEF Listings
<1>3. \E rate : rate \in [Channels -> Rates]
  <2>1. PICK q \in Rates : TRUE
    BY ContributionAssumption
  <2>2. [c \in Channels |-> q] \in [Channels -> Rates]
    OBVIOUS
  <2> QED
    BY <2>2
<1> QED
  BY <1>1, <1>2, <1>3 DEF Drawn

\* A channel is drawn in proportion to its weight and success rate, in every
\* listing and at any rates (pickChannel).
THEOREM DrawsAreFair == Spec => []DrawProportional
<1>1. Inv => DrawProportional
  BY DrawFair DEF Inv, TypeOK
<1> QED
  BY <1>1, AlwaysInv, PTL

\* The channels that may be drawn for a model are exactly those that serve it:
\* however low the success rate of one has fallen, it gets calls to recover by.
THEOREM NobodyStarves ==
    Spec => [](\A model \in Models :
                 Drawn(model) = {c \in channels :
                                   model \in Serves[c] \/ "*" \in Serves[c]})
<1>1. Inv => \A model \in Models :
               Drawn(model) = {c \in channels :
                                 model \in Serves[c] \/ "*" \in Serves[c]}
  BY DrawnServe DEF Inv, TypeOK
<1> QED
  BY <1>1, AlwaysInv, PTL
=============================================================================
