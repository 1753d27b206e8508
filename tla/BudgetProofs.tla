---------------------------- MODULE BudgetProofs ----------------------------
(***************************************************************************)
(* Theorems about Budget for all values of its constants.  The inductive   *)
(* invariant dates a pause: the day that earned it is at most as many      *)
(* midnights back as a request may span and the entry has lived, so the    *)
(* ghost of that day is still there when the entry expires.                *)
(***************************************************************************)
EXTENDS Budget, TLAPS

\* A count on its way to the store is covered by the samples of its day.
RequestsCounted ==
    \A r \in Requests :
        req[r].pc \in {"count", "judge"} => req[r].n <= sampled[req[r].day]

\* Midnights since the pause was written, by the half days it has lived.
PauseDated ==
    /\ status.kind = "file" => status.left # Never
    /\ Paused => \E d \in Past :
                    /\ Over(sampled[d])
                    /\ 2 * d <= 2 * MaxStraddle + (Ttl - status.left)
                                + (IF afternoon THEN 0 ELSE 1)

IInv == TypeOK /\ CountsAreSamples /\ RequestsCounted /\ PauseDated
----------------------------------------------------------------------------
(* The store and the estimate.                                             *)

LEMMA BudgetTypes ==
    /\ SampleEvery \in Nat /\ DayBudget \in Nat /\ PausePercent \in Nat
    /\ MaxSamples \in Nat /\ MaxStraddle \in Nat /\ MaxCrashes \in Nat
    /\ Ttl = 4
    /\ 0 \in Days /\ Days \subseteq Past /\ Days \subseteq Nat /\ Past \subseteq Nat
BY BudgetAssumption DEF Ttl, Days, Past

\* A larger sample gives a larger estimate (budget.ts divides by the rate).
LEMMA OverGrows ==
    ASSUME NEW n \in Nat, NEW m \in Nat, n <= m, Over(n)
    PROVE  Over(m)
<1>1. SampleEvery * 100 \in Nat
  BY BudgetTypes
<1>2. PICK k \in Nat : m = n + k
  <2>1. m - n \in Nat /\ m = n + (m - n)
    OBVIOUS
  <2> QED
    BY <2>1
<1>3. /\ n * SampleEvery * 100 \in Int
      /\ k * SampleEvery * 100 \in Nat
      /\ m * SampleEvery * 100 = n * SampleEvery * 100 + k * SampleEvery * 100
      /\ PausePercent * DayBudget \in Int
  BY <1>2, BudgetTypes
<1> QED
  BY <1>3 DEF Over

\* Reading, ageing and writing a key stay within the files of the store.
LEMMA FilesClosed ==
    ASSUME NEW V, NEW f \in Files(V, Ttl)
    PROVE  /\ AfterGet(f) \in Files(V, Ttl)
           /\ Aged(f) \in Files(V, Ttl)
           /\ NoFile \in Files(V, Ttl) /\ Torn \in Files(V, Ttl)
           /\ \A v \in V : Put(v, Ttl) \in Files(V, Ttl)
<1>1. AfterGet(f) \in Files(V, Ttl)
  BY DEF AfterGet, Files
<1>2. Aged(f) \in Files(V, Ttl)
  BY BudgetTypes DEF Aged, Live, Files, NoFile, Torn, Never, Overdue
<1>3. \A v \in V : Put(v, Ttl) \in Files(V, Ttl)
  BY BudgetTypes DEF Put, File, Files
<1> QED
  BY <1>1, <1>2, <1>3 DEF Files

\* What a read of the counter makes of it.
LEMMA Reads ==
    ASSUME NEW V, NEW f \in Files(V, Ttl), NEW absent
    PROVE  /\ GetOr(AfterGet(f), absent) = GetOr(f, absent)
           /\ GetOr(Aged(f), absent) \in {GetOr(f, absent), absent}
           /\ GetOr(NoFile, absent) = absent /\ GetOr(Torn, absent) = absent
           /\ \A v \in V : GetOr(Put(v, Ttl), absent) = v
           /\ GetOr(f, absent) \in V \cup {absent}
<1>1. GetOr(AfterGet(f), absent) = GetOr(f, absent)
  BY DEF AfterGet, Expired, GetOr, Live, NoFile
<1>2. GetOr(Aged(f), absent) \in {GetOr(f, absent), absent}
  BY DEF Aged, GetOr, Live, Files, NoFile, Torn
<1>3. GetOr(NoFile, absent) = absent /\ GetOr(Torn, absent) = absent
  BY DEF GetOr, Live, NoFile, Torn
<1>4. \A v \in V : GetOr(Put(v, Ttl), absent) = v
  BY BudgetTypes DEF Put, File, GetOr, Live, Overdue
<1>5. GetOr(f, absent) \in V \cup {absent}
  BY DEF GetOr, Live, Files, NoFile, Torn
<1> QED
  BY <1>1, <1>2, <1>3, <1>4, <1>5
----------------------------------------------------------------------------
(* The steps.                                                              *)

\* A pause keeps its date while the clock stands and the samples grow.
LEMMA DatedKept ==
    ASSUME TypeOK, PauseDated, status' \in {status, AfterGet(status)},
           afternoon' = afternoon,
           \A d \in Past : sampled'[d] \in Nat /\ sampled[d] <= sampled'[d]
    PROVE  PauseDated'
<1>1. CASE status' = status
  <2>1. Paused' = Paused
    BY <1>1 DEF Paused
  <2>2. ASSUME Paused
        PROVE  \E d \in Past : /\ Over(sampled'[d])
                               /\ 2 * d <= 2 * MaxStraddle + (Ttl - status.left)
                                           + (IF afternoon THEN 0 ELSE 1)
    <3>1. PICK d \in Past : /\ Over(sampled[d])
                            /\ 2 * d <= 2 * MaxStraddle + (Ttl - status.left)
                                        + (IF afternoon THEN 0 ELSE 1)
      BY <2>2 DEF PauseDated
    <3>2. sampled[d] \in Nat
      BY BudgetTypes DEF TypeOK
    <3>3. Over(sampled'[d])
      BY <3>1, <3>2, OverGrows
    <3> QED
      BY <3>1, <3>3
  <2> QED
    BY <1>1, <2>1, <2>2 DEF PauseDated
<1>2. CASE status' # status
  <2>1. status' = NoFile
    BY <1>2 DEF AfterGet
  <2>2. ~Paused' /\ status'.kind # "file"
    BY <2>1 DEF Paused, NoFile, GetOr, Live
  <2> QED
    BY <2>2 DEF PauseDated
<1> QED
  BY <1>1, <1>2

LEMMA InitHolds == Init => IInv
<1> SUFFICES ASSUME Init PROVE IInv
  OBVIOUS
<1>1. TypeOK
  <2>1. Idle \in ReqStates
    BY BudgetTypes DEF Idle, ReqStates
  <2>2. /\ NoFile \in Files({"active", "paused"}, Ttl)
        /\ NoFile \in Files(0 .. MaxSamples, Ttl)
    BY DEF Files
  <2>3. /\ counter \in [Days -> Files(0 .. MaxSamples, Ttl)]
        /\ req \in [Requests -> ReqStates]
    BY <2>1, <2>2 DEF Init
  <2>4. crashes \in 0 .. MaxCrashes /\ sampled \in [Past -> 0 .. MaxSamples]
    BY BudgetTypes DEF Init
  <2>5. afternoon \in BOOLEAN /\ cron \in {"idle", "check", "lift"}
    BY DEF Init
  <2> QED
    BY <2>2, <2>3, <2>4, <2>5 DEF Init, TypeOK
<1>2. CountsAreSamples
  BY BudgetTypes DEF Init, CountsAreSamples, GetOr, Live, NoFile
<1>3. RequestsCounted
  BY DEF Init, RequestsCounted, Idle
<1>4. PauseDated
  BY DEF Init, PauseDated, Paused, GetOr, Live, NoFile
<1> QED
  BY <1>1, <1>2, <1>3, <1>4 DEF IInv

LEMMA GateSteps ==
    ASSUME IInv, NEW r \in Requests, Guard(r) \/ GuardRefuses(r) \/ Unsampled(r)
    PROVE  IInv'
<1>1. /\ status' \in {status, AfterGet(status)}
      /\ UNCHANGED <<counter, afternoon, cron, crashes, sampled>>
      /\ \/ req' = req
         \/ req' = [req EXCEPT ![r] = Idle]
         \/ req' = [req EXCEPT ![r].pc = "sample"]
  BY DEF Guard, GuardRefuses, Unsampled, Gate
<1>2. TypeOK'
  <2>1. status' \in Files({"active", "paused"}, Ttl)
    BY <1>1, FilesClosed DEF IInv, TypeOK
  <2>2. Idle \in ReqStates /\ [req[r] EXCEPT !.pc = "sample"] \in ReqStates
    BY BudgetTypes DEF IInv, TypeOK, ReqStates, Idle
  <2>3. req' \in [Requests -> ReqStates]
    BY <1>1, <2>2 DEF IInv, TypeOK
  <2> QED
    BY <1>1, <2>1, <2>3 DEF IInv, TypeOK
<1>3. CountsAreSamples'
  BY <1>1 DEF IInv, CountsAreSamples
<1>4. RequestsCounted'
  <2>1. \A q \in Requests : req'[q] = req[q] \/ req'[q].pc \in {"idle", "sample"}
    BY <1>1 DEF IInv, TypeOK, Idle, ReqStates
  <2> QED
    BY <1>1, <2>1 DEF IInv, RequestsCounted
<1>5. PauseDated'
  <2>1. \A d \in Past : sampled'[d] \in Nat /\ sampled[d] <= sampled'[d]
    BY <1>1, BudgetTypes DEF IInv, TypeOK
  <2> QED
    BY <1>1, <2>1, DatedKept DEF IInv
<1> QED
  BY <1>2, <1>3, <1>4, <1>5 DEF IInv

LEMMA ReadCountStep ==
    ASSUME IInv, NEW r \in Requests, ReadCount(r)
    PROVE  IInv'
<1> DEFINE n == GetOr(counter[0], 0)
<1>1. /\ sampled \in [Past -> 0 .. MaxSamples] /\ counter[0] \in Files(0 .. MaxSamples, Ttl)
      /\ 0 \in Past /\ MaxSamples \in Nat
  BY BudgetTypes DEF IInv, TypeOK
<1>2. n \in 0 .. MaxSamples /\ n <= sampled[0]
  <2>1. n \in (0 .. MaxSamples) \cup {0}
    BY <1>1, Reads
  <2> QED
    BY <2>1, <1>1, BudgetTypes DEF IInv, CountsAreSamples
<1>3. n + 1 <= sampled[0] + 1 /\ sampled[0] + 1 <= MaxSamples
  BY <1>1, <1>2 DEF ReadCount
<1>4. /\ sampled' = [sampled EXCEPT ![0] = @ + 1]
      /\ counter' = [counter EXCEPT ![0] = AfterGet(@)]
      /\ req' = [req EXCEPT ![r] = [pc |-> "count", day |-> 0, n |-> n + 1]]
      /\ UNCHANGED <<status, afternoon, cron, crashes>>
  BY DEF ReadCount
<1> HIDE DEF n
<1>5. \A d \in Past : /\ sampled'[d] \in 0 .. MaxSamples /\ sampled[d] <= sampled'[d]
                      /\ d = 0 => sampled'[d] = sampled[d] + 1
  BY <1>1, <1>3, <1>4, BudgetTypes
<1>6. TypeOK'
  <2>1. sampled' \in [Past -> 0 .. MaxSamples]
    BY <1>4, <1>5 DEF IInv, TypeOK
  <2>2. AfterGet(counter[0]) \in Files(0 .. MaxSamples, Ttl)
    BY <1>1, FilesClosed
  <2>3. counter' \in [Days -> Files(0 .. MaxSamples, Ttl)]
    BY <1>4, <2>2 DEF IInv, TypeOK
  <2>4. [pc |-> "count", day |-> 0, n |-> n + 1] \in ReqStates
    BY <1>1, <1>2, <1>3, BudgetTypes DEF ReqStates
  <2>5. req' \in [Requests -> ReqStates]
    BY <1>4, <2>4 DEF IInv, TypeOK
  <2> QED
    BY <1>4, <2>1, <2>3, <2>5 DEF IInv, TypeOK
<1>7. CountsAreSamples'
  <2> SUFFICES ASSUME NEW d \in Days PROVE GetOr(counter'[d], 0) <= sampled'[d]
    BY DEF CountsAreSamples
  <2>1. GetOr(counter'[d], 0) = GetOr(counter[d], 0)
    BY <1>1, <1>4, Reads DEF IInv, TypeOK
  <2>2. GetOr(counter[d], 0) \in (0 .. MaxSamples) \cup {0}
    BY Reads DEF IInv, TypeOK
  <2>3. GetOr(counter[d], 0) <= sampled[d] /\ d \in Past
    BY BudgetTypes DEF IInv, CountsAreSamples
  <2> QED
    BY <1>1, <1>5, <2>1, <2>2, <2>3
<1>8. RequestsCounted'
  <2> SUFFICES ASSUME NEW q \in Requests, req'[q].pc \in {"count", "judge"}
               PROVE  req'[q].n <= sampled'[req'[q].day]
    BY DEF RequestsCounted
  <2>1. CASE q = r
    BY <2>1, <1>1, <1>3, <1>4, <1>5 DEF IInv, TypeOK
  <2>2. CASE q # r
    <3>1. req'[q] = req[q] /\ req[q] \in ReqStates
      BY <2>2, <1>4 DEF IInv, TypeOK
    <3>2. req[q].n <= sampled[req[q].day] /\ req[q].day \in Past /\ req[q].n \in Nat
      BY <3>1, BudgetTypes DEF IInv, RequestsCounted, ReqStates, Past
    <3> QED
      BY <1>1, <1>5, <3>1, <3>2
  <2> QED
    BY <2>1, <2>2
<1>9. PauseDated'
  <2>1. \A d \in Past : sampled'[d] \in Nat /\ sampled[d] <= sampled'[d]
    BY <1>1, <1>5
  <2> QED
    BY <1>4, <2>1, DatedKept DEF IInv
<1> QED
  BY <1>6, <1>7, <1>8, <1>9 DEF IInv

LEMMA WriteCountStep ==
    ASSUME IInv, NEW r \in Requests, WriteCount(r)
    PROVE  IInv'
<1>1. /\ req[r].pc = "count" /\ req[r] \in ReqStates
      /\ counter' = [counter EXCEPT ![req[r].day] = Put(req[r].n, Ttl)]
      /\ req' = [req EXCEPT ![r].pc = "judge"]
      /\ UNCHANGED <<status, afternoon, cron, crashes, sampled>>
  BY DEF WriteCount, IInv, TypeOK
<1>2. /\ req[r].day \in Days /\ req[r].n \in 0 .. MaxSamples
      /\ req[r].n <= sampled[req[r].day]
  BY <1>1 DEF IInv, RequestsCounted, ReqStates, Days
<1>3. TypeOK'
  <2>1. Put(req[r].n, Ttl) \in Files(0 .. MaxSamples, Ttl)
    <3>1. NoFile \in Files(0 .. MaxSamples, Ttl)
      BY DEF Files
    <3> QED
      BY <1>2, <3>1, FilesClosed
  <2>2. counter' \in [Days -> Files(0 .. MaxSamples, Ttl)]
    BY <1>1, <2>1 DEF IInv, TypeOK
  <2>3. req' \in [Requests -> ReqStates]
    BY <1>1 DEF IInv, TypeOK, ReqStates
  <2> QED
    BY <1>1, <2>2, <2>3 DEF IInv, TypeOK
<1>4. CountsAreSamples'
  <2>1. GetOr(Put(req[r].n, Ttl), 0) = req[r].n
    BY BudgetTypes DEF Put, File, GetOr, Live, Overdue
  <2> QED
    BY <1>1, <1>2, <2>1 DEF IInv, TypeOK, CountsAreSamples
<1>5. RequestsCounted'
  BY <1>1 DEF IInv, TypeOK, RequestsCounted, ReqStates
<1>6. PauseDated'
  <2>1. \A d \in Past : sampled'[d] \in Nat /\ sampled[d] <= sampled'[d]
    BY <1>1, BudgetTypes DEF IInv, TypeOK
  <2> QED
    BY <1>1, <2>1, DatedKept DEF IInv
<1> QED
  BY <1>3, <1>4, <1>5, <1>6 DEF IInv

LEMMA JudgeStep ==
    ASSUME IInv, NEW r \in Requests, Judge(r)
    PROVE  IInv'
<1>1. /\ req[r].pc = "judge" /\ req[r] \in ReqStates
      /\ status' = IF Over(req[r].n) THEN Put("paused", Ttl) ELSE status
      /\ req' = [req EXCEPT ![r] = Idle]
      /\ UNCHANGED <<counter, afternoon, cron, crashes, sampled>>
  BY DEF Judge, IInv, TypeOK
<1>2. TypeOK'
  <2>1. Put("paused", Ttl) \in Files({"active", "paused"}, Ttl)
    BY FilesClosed DEF IInv, TypeOK
  <2>2. req' \in [Requests -> ReqStates]
    BY <1>1, BudgetTypes DEF IInv, TypeOK, ReqStates, Idle
  <2> QED
    BY <1>1, <2>1, <2>2 DEF IInv, TypeOK
<1>3. CountsAreSamples'
  BY <1>1 DEF IInv, CountsAreSamples
<1>4. RequestsCounted'
  BY <1>1 DEF IInv, TypeOK, RequestsCounted, Idle, ReqStates
<1>5. PauseDated'
  <2>1. CASE ~Over(req[r].n)
    <3>1. \A d \in Past : sampled'[d] \in Nat /\ sampled[d] <= sampled'[d]
      BY <1>1, BudgetTypes DEF IInv, TypeOK
    <3> QED
      BY <1>1, <2>1, <3>1, DatedKept DEF IInv
  <2>2. CASE Over(req[r].n)
    <3>1. status'.left = Ttl /\ status'.kind = "file"
      BY <1>1, <2>2, BudgetTypes DEF Put, File
    <3>2. /\ req[r].day \in 0 .. MaxStraddle /\ req[r].n \in Nat
          /\ req[r].n <= sampled[req[r].day]
      BY <1>1, BudgetTypes DEF IInv, RequestsCounted, ReqStates
    <3>3. req[r].day \in Past /\ sampled[req[r].day] \in Nat
      BY <3>2, BudgetTypes DEF IInv, TypeOK, Past
    <3>4. Over(sampled[req[r].day])
      BY <2>2, <3>2, <3>3, OverGrows
    <3>5. 2 * req[r].day <= 2 * MaxStraddle + (Ttl - Ttl)
                            + (IF afternoon THEN 0 ELSE 1)
      BY <3>2, BudgetTypes
    <3>6. Ttl # Never
      BY BudgetTypes DEF Never
    <3> QED
      BY <1>1, <3>1, <3>3, <3>4, <3>5, <3>6 DEF PauseDated
  <2> QED
    BY <2>1, <2>2
<1> QED
  BY <1>2, <1>3, <1>4, <1>5 DEF IInv

LEMMA CronSteps ==
    ASSUME IInv, CronPurge \/ CronCheck \/ CronLift
    PROVE  IInv'
<1>1. /\ cron' \in {"idle", "check", "lift"}
      /\ status' \in {status, AfterGet(status), Put("active", Ttl)}
      /\ counter' \in {counter, [counter EXCEPT ![1] = NoFile]}
      /\ UNCHANGED <<afternoon, req, crashes, sampled>>
  BY DEF CronPurge, CronCheck, CronLift
<1>2. TypeOK'
  <2>1. status' \in Files({"active", "paused"}, Ttl)
    BY <1>1, FilesClosed DEF IInv, TypeOK
  <2>2. NoFile \in Files(0 .. MaxSamples, Ttl)
    BY DEF Files
  <2>3. counter' \in [Days -> Files(0 .. MaxSamples, Ttl)]
    BY <1>1, <2>2 DEF IInv, TypeOK
  <2> QED
    BY <1>1, <2>1, <2>3 DEF IInv, TypeOK
<1>3. CountsAreSamples'
  <2>1. \A d \in Days : sampled[d] \in Nat
    BY BudgetTypes DEF IInv, TypeOK
  <2>2. GetOr(NoFile, 0) = 0
    BY DEF GetOr, Live, NoFile
  <2> QED
    BY <1>1, <2>1, <2>2 DEF IInv, TypeOK, CountsAreSamples
<1>4. RequestsCounted'
  BY <1>1 DEF IInv, RequestsCounted
<1>5. PauseDated'
  <2>1. CASE status' \in {status, AfterGet(status)}
    <3>1. \A d \in Past : sampled'[d] \in Nat /\ sampled[d] <= sampled'[d]
      BY <1>1, BudgetTypes DEF IInv, TypeOK
    <3> QED
      BY <1>1, <2>1, <3>1, DatedKept DEF IInv
  <2>2. CASE status' = Put("active", Ttl)
    BY <2>2, BudgetTypes DEF PauseDated, Paused, GetOr, Live, Put, File, Never, Overdue
  <2> QED
    BY <1>1, <2>1, <2>2
<1> QED
  BY <1>2, <1>3, <1>4, <1>5 DEF IInv

LEMMA HalfDayStep ==
    ASSUME IInv, HalfDay
    PROVE  IInv'
<1> DEFINE aged == [d \in Days |-> Aged(counter[d])]
<1>1. /\ afternoon' = ~afternoon /\ status' = Aged(status)
      /\ counter' = IF afternoon THEN Shifted(aged, NoFile) ELSE aged
      /\ sampled' = IF afternoon THEN Shifted(sampled, 0) ELSE sampled
      /\ req' = [r \in Requests |->
                   IF afternoon /\ req[r].pc \in {"count", "judge"}
                   THEN [req[r] EXCEPT !.day = @ + 1] ELSE req[r]]
      /\ UNCHANGED <<cron, crashes>>
      /\ afternoon => \A r \in Requests :
                         req[r].pc \in {"count", "judge"} => req[r].day < MaxStraddle
  BY DEF HalfDay
<1>2. /\ afternoon \in BOOLEAN /\ sampled \in [Past -> 0 .. MaxSamples]
      /\ \A d \in Days : counter[d] \in Files(0 .. MaxSamples, Ttl)
      /\ status \in Files({"active", "paused"}, Ttl)
      /\ \A r \in Requests : req[r] \in ReqStates
  BY DEF IInv, TypeOK
<1>3. \A d \in Days : /\ aged[d] \in Files(0 .. MaxSamples, Ttl)
                      /\ GetOr(aged[d], 0) \in {GetOr(counter[d], 0), 0}
  BY <1>2, FilesClosed, Reads
<1>4. \A d \in Days : d # 0 => d - 1 \in Days
  BY BudgetTypes DEF Days
<1>5. \A d \in Past : d # 0 => d - 1 \in Past
  BY BudgetTypes DEF Past
<1>6. NoFile \in Files(0 .. MaxSamples, Ttl) /\ GetOr(NoFile, 0) = 0
  BY DEF Files, GetOr, Live, NoFile
<1> HIDE DEF aged
<1>7. DOMAIN aged = Days /\ DOMAIN sampled = Past
  BY <1>2 DEF aged
<1>8. /\ ~afternoon => counter' = aged /\ sampled' = sampled
      /\ afternoon =>
           /\ counter' = [d \in Days |-> IF d = 0 THEN NoFile ELSE aged[d - 1]]
           /\ sampled' = [d \in Past |-> IF d = 0 THEN 0 ELSE sampled[d - 1]]
  BY <1>1, <1>7 DEF Shifted
<1>9. TypeOK'
  <2>1. counter' \in [Days -> Files(0 .. MaxSamples, Ttl)]
    <3>1. CASE afternoon
      BY <3>1, <1>3, <1>4, <1>6, <1>8
    <3>2. CASE ~afternoon
      BY <3>2, <1>3, <1>8 DEF aged
    <3> QED
      BY <3>1, <3>2
  <2>2. sampled' \in [Past -> 0 .. MaxSamples]
    BY <1>2, <1>5, <1>8, BudgetTypes
  <2>3. req' \in [Requests -> ReqStates]
    <3>1. ASSUME NEW r \in Requests, req[r].day < MaxStraddle
          PROVE  [req[r] EXCEPT !.day = @ + 1] \in ReqStates
      BY <3>1, <1>2, BudgetTypes DEF ReqStates
    <3> QED
      BY <1>1, <1>2, <3>1
  <2>4. status' \in Files({"active", "paused"}, Ttl)
    BY <1>1, <1>2, FilesClosed
  <2> QED
    BY <1>1, <1>2, <2>1, <2>2, <2>3, <2>4 DEF IInv, TypeOK
<1>10. CountsAreSamples'
  <2>1. \A d \in Days : /\ GetOr(aged[d], 0) <= sampled[d] /\ d \in Past
                        /\ sampled[d] \in Nat
    BY <1>2, <1>3, BudgetTypes DEF IInv, CountsAreSamples
  <2>2. CASE afternoon
    BY <2>1, <2>2, <1>4, <1>6, <1>8 DEF CountsAreSamples
  <2>3. CASE ~afternoon
    BY <2>1, <2>3, <1>8 DEF CountsAreSamples
  <2> QED
    BY <2>2, <2>3
<1>11. RequestsCounted'
  <2> SUFFICES ASSUME NEW r \in Requests, req'[r].pc \in {"count", "judge"}
               PROVE  req'[r].n <= sampled'[req'[r].day]
    BY DEF RequestsCounted
  <2>1. req[r].pc \in {"count", "judge"} /\ req'[r].n = req[r].n
    BY <1>1, <1>2 DEF ReqStates
  <2>2. req[r].n <= sampled[req[r].day]
    BY <2>1 DEF IInv, RequestsCounted
  <2>3. CASE ~afternoon
    BY <2>2, <2>3, <1>1, <1>8
  <2>4. CASE afternoon
    <3>1. req'[r].day = req[r].day + 1 /\ req[r].day < MaxStraddle
            /\ req[r].day \in Nat
      BY <2>1, <2>4, <1>1, <1>2, BudgetTypes DEF ReqStates
    <3>2. req'[r].day \in Past /\ req'[r].day # 0
            /\ req'[r].day - 1 = req[r].day
      BY <3>1, BudgetTypes DEF Past
    <3>3. sampled'[req'[r].day] = sampled[req[r].day]
      BY <2>4, <3>2, <1>8
    <3> QED
      BY <2>1, <2>2, <3>3
  <2> QED
    BY <2>3, <2>4
<1>12. PauseDated'
  <2>1. status'.kind = "file" => status'.left # Never
    BY <1>1, <1>2, BudgetTypes
       DEF IInv, PauseDated, Aged, Live, Files, NoFile, Torn, Never, Overdue
  <2>2. ASSUME Paused'
        PROVE  \E d \in Past :
                  /\ Over(sampled'[d])
                  /\ 2 * d <= 2 * MaxStraddle + (Ttl - status'.left)
                              + (IF afternoon' THEN 0 ELSE 1)
    <3>1. /\ Paused /\ status.left \in 1 .. Ttl
          /\ status'.left = status.left - 1
      BY <2>2, <1>1, <1>2, BudgetTypes
         DEF IInv, PauseDated, Paused, GetOr, Aged, Live, Files, NoFile, Torn,
             Never, Overdue
    <3>2. PICK d \in Past : /\ Over(sampled[d])
                            /\ 2 * d <= 2 * MaxStraddle + (Ttl - status.left)
                                        + (IF afternoon THEN 0 ELSE 1)
      BY <3>1 DEF IInv, PauseDated
    <3>3. CASE ~afternoon
      BY <3>1, <3>2, <3>3, <1>1, <1>8, BudgetTypes
    <3>4. CASE afternoon
      <4>1. d \in Nat /\ d <= MaxStraddle + 1
        BY <3>1, <3>2, <3>4, BudgetTypes
      <4>2. d + 1 \in Past /\ d + 1 # 0 /\ (d + 1) - 1 = d
        BY <4>1, BudgetTypes DEF Past
      <4>3. sampled'[d + 1] = sampled[d]
        BY <3>4, <4>2, <1>8
      <4>4. 2 * (d + 1) <= 2 * MaxStraddle + (Ttl - status'.left) + 1
        BY <3>1, <3>2, <3>4, <4>1, BudgetTypes
      <4> QED
        BY <3>2, <3>4, <4>2, <4>3, <4>4, <1>1
    <3> QED
      BY <3>3, <3>4
  <2> QED
    BY <2>1, <2>2 DEF PauseDated
<1> QED
  BY <1>9, <1>10, <1>11, <1>12 DEF IInv

LEMMA DiesStep ==
    ASSUME IInv, Dies
    PROVE  IInv'
<1>1. /\ crashes' = crashes + 1 /\ crashes < MaxCrashes
      /\ req' = [r \in Requests |-> Idle] /\ cron' = "idle"
      /\ status' \in {status, Torn}
      /\ UNCHANGED <<afternoon, sampled>>
  BY DEF Dies
<1>2. counter' = counter \/ \E d : counter' = [counter EXCEPT ![d] = Torn]
  BY DEF Dies
<1>3. TypeOK'
  <2>1. Torn \in Files(0 .. MaxSamples, Ttl)
          /\ Torn \in Files({"active", "paused"}, Ttl)
    BY DEF Files
  <2>2. counter' \in [Days -> Files(0 .. MaxSamples, Ttl)]
    BY <1>2, <2>1 DEF IInv, TypeOK
  <2>3. Idle \in ReqStates
    BY BudgetTypes DEF Idle, ReqStates
  <2>4. crashes' \in 0 .. MaxCrashes
    BY <1>1, BudgetTypes DEF IInv, TypeOK
  <2> QED
    BY <1>1, <2>1, <2>2, <2>3, <2>4 DEF IInv, TypeOK
<1>4. CountsAreSamples'
  <2>1. \A d \in Days : sampled[d] \in Nat
    BY BudgetTypes DEF IInv, TypeOK
  <2>2. GetOr(Torn, 0) = 0
    BY DEF GetOr, Live, Torn
  <2> QED
    BY <1>1, <1>2, <2>1, <2>2 DEF IInv, TypeOK, CountsAreSamples
<1>5. RequestsCounted'
  BY <1>1 DEF RequestsCounted, Idle
<1>6. PauseDated'
  <2>1. CASE status' = status
    <3>1. \A d \in Past : sampled'[d] \in Nat /\ sampled[d] <= sampled'[d]
      BY <1>1, BudgetTypes DEF IInv, TypeOK
    <3> QED
      BY <1>1, <2>1, <3>1, DatedKept DEF IInv
  <2>2. CASE status' = Torn
    BY <2>2 DEF PauseDated, Paused, GetOr, Live, Torn
  <2> QED
    BY <1>1, <2>1, <2>2
<1> QED
  BY <1>3, <1>4, <1>5, <1>6 DEF IInv

LEMMA InvKept == IInv /\ [Next]_vars => IInv'
<1> SUFFICES ASSUME IInv, [Next]_vars PROVE IInv'
  OBVIOUS
<1>1. CASE UNCHANGED vars
  BY <1>1 DEF vars, IInv, TypeOK, CountsAreSamples, RequestsCounted,
              PauseDated, Paused
<1>2. CASE Next
  BY <1>2, GateSteps, ReadCountStep, WriteCountStep, JudgeStep, CronSteps,
     HalfDayStep, DiesStep DEF Next, Handle
<1> QED
  BY <1>1, <1>2

LEMMA Invariant == Spec => []IInv
BY InitHolds, InvKept, PTL DEF Spec

----------------------------------------------------------------------------
\* Every variable stays in its type, whatever overlaps and dies: a counter
\* never passes the samples a day may have.
THEOREM TypeCorrect == Spec => []TypeOK
BY Invariant, PTL DEF IInv

\* Lost updates, stragglers and torn files only lower a counter (budget.ts
\* reads, adds one and writes back).
THEOREM CountersAreSamples == Spec => []CountsAreSamples
BY Invariant, PTL DEF IInv

\* Whoever finds the gate closed finds a day whose samples reached the
\* threshold: no overlap, late write or torn file closes it by mistake.
THEOREM PausesAreEarned == Spec => []PauseIsEarned
<1>1. IInv => PauseIsEarned
  BY DEF IInv, PauseDated, PauseIsEarned
<1> QED
  BY <1>1, Invariant, PTL

\* Only the end of a put takes it from those under way.
LEMMA PutsStay ==
    ASSUME UNCHANGED cron \/ cron = "idle" \/ cron = "check",
           \A r \in Requests :
              req[r].pc = "judge" => req'[r].pc = "judge" /\ req'[r].n = req[r].n
    PROVE  Writing \subseteq Writing'
<1>1. Lifting => Lifting'
  BY DEF Lifting
<1>2. Pausing => Pausing'
  BY DEF Pausing
<1> QED
  BY <1>1, <1>2 DEF Writing

\* A put of a value leaves exactly that entry.
LEMMA PutEntry ==
    ASSUME NEW v \in {"active", "paused"}, v \in Writing, status' = Put(v, Ttl),
           UNCHANGED <<afternoon, crashes>>, Writing \ {v} \subseteq Writing'
    PROVE  Store!Set
<1>1. Entry' = [held |-> TRUE, v |-> v, left |-> Ttl]
  BY BudgetTypes DEF Entry, Put, File, Live, Overdue
<1> QED
  BY <1>1 DEF Store!Set, Store!Held

\* The clock ages the entry of a file by one unit, and ends it at its deadline.
LEMMA AgedEntry ==
    ASSUME IInv, status' = Aged(status), afternoon \in BOOLEAN,
           afternoon' = ~afternoon, UNCHANGED crashes, Writing \subseteq Writing'
    PROVE  Store!Age
<1>1. afternoon' # afternoon
  OBVIOUS
<1>2. CASE ~Live(status)
  <2>1. Entry = [held |-> FALSE] /\ Entry' = [held |-> FALSE]
    BY <1>2 DEF Aged, Entry
  <2> QED
    BY <1>1, <2>1 DEF Store!Age, Store!Absent
<1>3. CASE Live(status)
  <2>1. /\ status.kind = "file" /\ status.left \in 0 .. Ttl
        /\ status' = [status EXCEPT !.left = @ - 1]
    BY <1>3 DEF IInv, TypeOK, PauseDated, Aged, Live, Files,
                NoFile, Torn, Never, Overdue
  <2>2. status'.kind = "file" /\ status'.v = status.v
          /\ status'.left = status.left - 1
    BY <2>1 DEF IInv, TypeOK, Files, NoFile, Torn
  <2>3. Entry = [held |-> TRUE, v |-> status.v, left |-> status.left]
    BY <1>3 DEF Entry
  <2>4. Entry' = IF status.left = 0 THEN [held |-> FALSE]
                 ELSE [held |-> TRUE, v |-> status.v, left |-> status.left - 1]
    BY <2>1, <2>2, BudgetTypes DEF Entry, Live, Overdue
  <2> QED
    BY <1>1, <2>3, <2>4 DEF Store!Age, Store!Absent, Store!Held
<1> QED
  BY <1>2, <1>3

\* The death of the process ends the puts, and loses the entry in one of them.
LEMMA CutEntry ==
    ASSUME Dies, crashes \in Nat
    PROVE  Store!Lose
<1>1. cron' # "lift" /\ \A r \in Requests : req'[r].pc # "judge"
  BY DEF Dies, Idle
<1>2. Writing' = {}
  BY <1>1 DEF Writing, Lifting, Pausing
<1>3. afternoon' = afternoon /\ crashes' # crashes
  BY DEF Dies
<1>4. CASE UNCHANGED status
  BY <1>2, <1>3, <1>4 DEF Store!Lose, Entry, Live
<1>5. CASE status' = Torn /\ (Lifting \/ Pausing)
  <2>1. "active" \in Writing \/ "paused" \in Writing
    BY <1>5 DEF Writing
  <2>2. Entry' = [held |-> FALSE]
    BY <1>5 DEF Entry, Live, Torn
  <2> QED
    BY <1>2, <1>3, <2>1, <2>2 DEF Store!Lose, Store!Absent
<1> QED
  BY <1>4, <1>5 DEF Dies, Lifting, Pausing

\* The file of the pause with its lazy expiry and its torn writes is a
\* register whose entry holds until its deadline, is set by every put under
\* way, and is lost only with the process that was writing it.
THEOREM StoreImplementsMap == Spec => StoreIsMap
<1>1. Init => Store!Init
  <2> SUFFICES ASSUME Init PROVE Store!Init
    OBVIOUS
  <2>1. Writing = {}
    BY DEF Init, Writing, Lifting, Pausing, Idle
  <2> QED
    BY <2>1 DEF Init, Store!Init, Store!Absent, Entry, Live, NoFile
<1>2. ASSUME IInv, [Next]_vars
      PROVE  [Store!Next]_<<Entry, Writing, afternoon, crashes>>
  <2>1. Writing' \subseteq {"active", "paused"}
    BY DEF Writing
  <2>2. req \in [Requests -> ReqStates]
    BY <1>2 DEF IInv, TypeOK
  <2>3. CASE UNCHANGED vars
    BY <2>3 DEF vars, Entry, Live, Writing, Lifting, Pausing
  <2>4. CASE \/ CronCheck \/ CronPurge
             \/ \E r \in Requests : Guard(r) \/ GuardRefuses(r)
             \/ \E r \in Requests : Unsampled(r) \/ ReadCount(r) \/ WriteCount(r)
    <3>1. /\ status' = AfterGet(status) \/ status' = status
          /\ UNCHANGED <<afternoon, crashes>>
      BY <2>4 DEF CronCheck, CronPurge, Guard, GuardRefuses, Gate, Unsampled,
                  ReadCount, WriteCount
    <3>2. Entry' = Entry
      <4>1. CASE status' = status
        BY <4>1 DEF Entry, Live
      <4>2. CASE status' = AfterGet(status)
        BY <4>2 DEF AfterGet, Expired, Live, Entry, NoFile
      <4> QED
        BY <3>1, <4>1, <4>2
    <3>3. UNCHANGED cron \/ cron = "idle" \/ cron = "check"
      BY <2>4 DEF CronCheck, CronPurge, Guard, GuardRefuses, Gate, Unsampled,
                  ReadCount, WriteCount
    <3>4. \A q \in Requests :
             req[q].pc = "judge" => req'[q].pc = "judge" /\ req'[q].n = req[q].n
      BY <2>2, <2>4 DEF CronCheck, CronPurge, Guard, GuardRefuses, Unsampled,
                        ReadCount, WriteCount
    <3>5. Writing \subseteq Writing'
      BY <3>3, <3>4, PutsStay
    <3> QED
      BY <2>1, <3>1, <3>2, <3>5 DEF Store!Next, Store!Keep
  <2>5. ASSUME NEW r \in Requests, Judge(r) PROVE Store!Next
    <3>1. Lifting' = Lifting /\ UNCHANGED <<afternoon, crashes>>
      BY <2>5 DEF Judge, Lifting
    <3>2. CASE Over(req[r].n)
      <4>1. "paused" \in Writing /\ status' = Put("paused", Ttl)
        BY <2>5, <3>2 DEF Judge, Writing, Pausing
      <4>2. Writing \ {"paused"} \subseteq Writing'
        BY <3>1 DEF Writing
      <4> QED
        BY <2>1, <3>1, <4>1, <4>2, PutEntry DEF Store!Next
    <3>3. CASE ~Over(req[r].n)
      <4>1. \A q \in Requests \ {r} : req'[q] = req[q]
        BY <2>2, <2>5 DEF Judge
      <4>2. Pausing => Pausing'
        BY <3>3, <4>1 DEF Pausing
      <4>3. Writing \subseteq Writing'
        BY <3>1, <4>2 DEF Writing
      <4>4. Entry' = Entry
        BY <2>5, <3>3 DEF Judge, Entry, Live
      <4> QED
        BY <2>1, <3>1, <4>3, <4>4 DEF Store!Next, Store!Keep
    <3> QED
      BY <3>2, <3>3
  <2>6. CASE CronLift
    <3>1. "active" \in Writing /\ status' = Put("active", Ttl)
            /\ UNCHANGED <<afternoon, crashes>>
      BY <2>6 DEF CronLift, Writing, Lifting
    <3>2. Writing \ {"active"} \subseteq Writing'
      BY <2>6 DEF CronLift, Writing, Pausing
    <3> QED
      BY <2>1, <3>1, <3>2, PutEntry DEF Store!Next
  <2>7. CASE HalfDay
    <3>1. status' = Aged(status) /\ afternoon \in BOOLEAN /\ afternoon' = ~afternoon
            /\ UNCHANGED <<cron, crashes>>
      BY <1>2, <2>7 DEF HalfDay, IInv, TypeOK
    <3>2. ASSUME NEW q \in Requests, req[q].pc = "judge"
          PROVE  req'[q].pc = "judge" /\ req'[q].n = req[q].n
      <4>1. req'[q] = req[q] \/ req'[q] = [req[q] EXCEPT !.day = @ + 1]
        BY <2>7 DEF HalfDay
      <4> QED
        BY <2>2, <3>2, <4>1 DEF ReqStates
    <3>3. Writing \subseteq Writing'
      BY <3>1, <3>2, PutsStay
    <3> QED
      BY <1>2, <2>1, <3>1, <3>3, AgedEntry DEF Store!Next
  <2>8. CASE Dies
    <3>1. crashes \in Nat
      BY <1>2 DEF IInv, TypeOK
    <3> QED
      BY <2>1, <2>8, <3>1, CutEntry DEF Store!Next
  <2> QED
    BY <1>2, <2>3, <2>4, <2>5, <2>6, <2>7, <2>8 DEF Next, Handle
<1> QED
  BY <1>1, <1>2, Invariant, PTL DEF Spec, StoreIsMap, Store!Spec, Store!vars

----------------------------------------------------------------------------
(* Pauses end: the part of PauseEnds that is not fairness.                 *)

\* The steps of a request behind the gate.
Ahead(q) == CASE q.pc = "sample" -> 3 [] q.pc = "count" -> 2
              [] q.pc = "judge"  -> 1 [] q.pc = "idle"  -> 0

\* While the gate is closed nobody gets behind it, the deadline of the pause
\* comes nearer with the time, and only a request that thereby ends its stay
\* behind the gate puts it off.
PauseRunsOut ==
    [][Paused /\ Paused' =>
          /\ \A r \in Requests : Ahead(req'[r]) <= Ahead(req[r])
          /\ \A r \in Requests : Handle(r) => Ahead(req'[r]) < Ahead(req[r])
          /\ status'.left > status.left =>
                \E r \in Requests : Judge(r) /\ req'[r].pc = "idle"
          /\ HalfDay => status'.left < status.left]_vars

\* The steps of one request, those of the cron, and the death of the process
\* while the pause is in force before and after.
LEMMA HandleNearer ==
    ASSUME TypeOK, NEW r \in Requests, Handle(r)
    PROVE  /\ Ahead(req'[r]) < Ahead(req[r])
           /\ \A q \in Requests \ {r} : req'[q] = req[q]
           /\ Judge(r) => req'[r].pc = "idle"
           /\ ~Judge(r) => status' = status
<1>1. req \in [Requests -> ReqStates] /\ req[r] \in ReqStates  BY DEF TypeOK
<1>2. Idle.pc = "idle" /\ Ahead(Idle) = 0  BY DEF Idle, Ahead
<1>3. CASE Unsampled(r)
  BY <1>1, <1>2, <1>3 DEF Unsampled, Judge, Ahead
<1>4. CASE ReadCount(r)
  BY <1>1, <1>4 DEF ReadCount, Judge, Ahead
<1>5. CASE WriteCount(r)
  <2>1. req'[r] = [req[r] EXCEPT !.pc = "judge"] /\ req[r].pc = "count"
        /\ status' = status /\ \A q \in Requests \ {r} : req'[q] = req[q]
    BY <1>1, <1>5 DEF WriteCount
  <2>2. req'[r].pc = "judge"  BY <1>1, <2>1 DEF ReqStates
  <2>3. Ahead(req'[r]) = 1 /\ Ahead(req[r]) = 2  BY <2>1, <2>2 DEF Ahead
  <2> QED  BY <2>1, <2>3 DEF Judge
<1>6. CASE Judge(r)
  BY <1>1, <1>2, <1>6 DEF Judge, Ahead
<1> QED  BY <1>3, <1>4, <1>5, <1>6 DEF Handle

\* A pause in force has a deadline that is not over.
LEMMA PauseHasDeadline ==
    ASSUME IInv, Paused
    PROVE  status.kind = "file" /\ status.left \in 0 .. Ttl
BY DEF IInv, TypeOK, PauseDated, Paused, GetOr, Live, Files, NoFile, Torn

LEMMA RunsOut ==
    ASSUME IInv, IInv', Paused, Paused', [Next]_vars
    PROVE  /\ \A r \in Requests : Ahead(req'[r]) <= Ahead(req[r])
           /\ \A r \in Requests : Handle(r) => Ahead(req'[r]) < Ahead(req[r])
           /\ status'.left > status.left =>
                 \E r \in Requests : Judge(r) /\ req'[r].pc = "idle"
           /\ HalfDay => status'.left < status.left
<1>1. status.kind = "file" /\ status.left \in 0 .. Ttl  BY PauseHasDeadline
<1>2. \A r \in Requests : Ahead(req[r]) \in 0 .. 3
  BY DEF IInv, TypeOK, ReqStates, Ahead
<1>3. \A r \in Requests : Handle(r) => Ahead(req'[r]) < Ahead(req[r])
  BY HandleNearer DEF IInv
<1>4. HalfDay => status'.left < status.left
  <2>1. HalfDay => status' = [status EXCEPT !.left = @ - 1]
    BY <1>1 DEF HalfDay, Aged, Live, Never, Overdue
  <2>2. [status EXCEPT !.left = @ - 1].left = status.left - 1
    BY <1>1 DEF IInv, TypeOK, Files, NoFile, Torn
  <2>3. status.left - 1 < status.left  BY <1>1, BudgetTypes
  <2> QED  BY <2>1, <2>2, <2>3
<1>5. ASSUME NEW r \in Requests, Handle(r)
      PROVE  /\ \A q \in Requests : Ahead(req'[q]) <= Ahead(req[q])
             /\ status'.left > status.left =>
                   \E q \in Requests : Judge(q) /\ req'[q].pc = "idle"
  <2>1. Ahead(req'[r]) < Ahead(req[r]) /\ \A q \in Requests \ {r} : req'[q] = req[q]
    BY <1>5, HandleNearer DEF IInv
  <2>2. Ahead(req'[r]) \in 0 .. 3
    BY DEF IInv, TypeOK, ReqStates, Ahead
  <2>3. Judge(r) => req'[r].pc = "idle"  BY <1>5, HandleNearer DEF IInv
  <2>4. ~Judge(r) => ~(status'.left > status.left)
    BY <1>1, <1>5, HandleNearer DEF IInv
  <2> QED  BY <1>2, <2>1, <2>2, <2>3, <2>4
<1>6. ASSUME ~\E r \in Requests : Handle(r)
      PROVE  /\ \A q \in Requests : Ahead(req'[q]) <= Ahead(req[q])
             /\ ~(status'.left > status.left)
  <2>1. AfterGet(status) = status
    BY <1>1 DEF AfterGet, Expired, Overdue
  <2>2. status' = status \/ status' = Aged(status)
    <3>1. CASE UNCHANGED vars  BY <3>1 DEF vars
    <3>2. ASSUME NEW r \in Requests, Guard(r) \/ GuardRefuses(r)
          PROVE  status' = status
      BY <2>1, <3>2 DEF Guard, GuardRefuses, Gate
    <3>3. CASE CronPurge \/ CronCheck \/ HalfDay
      BY <2>1, <3>3 DEF CronPurge, CronCheck, HalfDay
    <3>4. CASE CronLift
      <4>1. status' = Put("active", Ttl)  BY <3>4 DEF CronLift
      <4> QED  BY <4>1 DEF Paused, Put, File, GetOr
    <3>5. CASE Dies
      <4>1. status' # Torn  BY DEF Paused, Torn, GetOr, Live
      <4> QED  BY <3>5, <4>1 DEF Dies
    <3> QED  BY <1>6, <3>1, <3>2, <3>3, <3>4, <3>5 DEF Next
  <2>3. ~(status'.left > status.left)
    <3>1. CASE status' = status  BY <1>1, <3>1
    <3>2. CASE status' = Aged(status)
      <4>1. status' = [status EXCEPT !.left = @ - 1]
        BY <1>1, <3>2 DEF Aged, Live, Never, Overdue
      <4>2. status'.left = status.left - 1
        BY <1>1, <4>1 DEF IInv, TypeOK, Files, NoFile, Torn
      <4> QED  BY <1>1, <4>2
    <3> QED  BY <2>2, <3>1, <3>2
  <2>4. ASSUME NEW q \in Requests PROVE Ahead(req'[q]) <= Ahead(req[q])
    <3>1. req[q] \in ReqStates /\ Ahead(req[q]) \in 0 .. 3
      BY <1>2 DEF IInv, TypeOK
    <3>2. req'[q] = req[q] \/ req'[q] = Idle \/ req'[q] = [req[q] EXCEPT !.day = @ + 1]
      <4>1. CASE UNCHANGED vars  BY <4>1 DEF vars
      <4>2. ASSUME NEW r \in Requests, Guard(r) \/ GuardRefuses(r)
            PROVE  req' = req
        BY <4>2 DEF Guard, GuardRefuses
      <4>3. CASE CronPurge \/ CronCheck \/ CronLift
        BY <4>3 DEF CronPurge, CronCheck, CronLift
      <4>4. CASE HalfDay  BY <4>4 DEF HalfDay
      <4>5. CASE Dies  BY <4>5 DEF Dies
      <4> QED  BY <1>6, <4>1, <4>2, <4>3, <4>4, <4>5 DEF Next
    <3>3. [req[q] EXCEPT !.day = @ + 1].pc = req[q].pc  BY <3>1 DEF ReqStates
    <3>4. Ahead([req[q] EXCEPT !.day = @ + 1]) = Ahead(req[q])
      BY <3>3 DEF Ahead
    <3>5. Ahead(Idle) = 0  BY DEF Idle, Ahead
    <3> QED  BY <3>1, <3>2, <3>4, <3>5
  <2> QED  BY <2>3, <2>4
<1> QED  BY <1>3, <1>4, <1>5, <1>6

\* The pause of budget.ts runs out by itself: each request that was admitted
\* before it may renew it once, in its last step, nobody else may, and
\* nobody joins them; what PauseEnds needs beside time and an event loop that
\* go on.
THEOREM PausesRunOut == Spec => PauseRunsOut
<1>1. IInv /\ IInv' /\ [Next]_vars
        => [Paused /\ Paused' =>
              /\ \A r \in Requests : Ahead(req'[r]) <= Ahead(req[r])
              /\ \A r \in Requests : Handle(r) => Ahead(req'[r]) < Ahead(req[r])
              /\ status'.left > status.left =>
                    \E r \in Requests : Judge(r) /\ req'[r].pc = "idle"
              /\ HalfDay => status'.left < status.left]_vars
  BY RunsOut
<1> QED
  BY <1>1, Invariant, PTL DEF Spec, PauseRunsOut
=============================================================================
