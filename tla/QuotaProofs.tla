---------------------------- MODULE QuotaProofs -----------------------------
(***************************************************************************)
(* Proofs about the daily allowance: for any users, requests, cron runs,   *)
(* days and limits, each admitted call is charged exactly once, a call is  *)
(* refused only when the allowance is spent, and nobody is served more     *)
(* calls or tokens than the best reputation allows.                        *)
(*                                                                         *)
(* The invariant relates three things that are written in different steps: *)
(* the counter of a row, the requests that passed the guard on its day,    *)
(* and the existence of the row, which the purge takes away again.         *)
(***************************************************************************)
EXTENDS Quota, FiniteSetTheorems, TLAPS

Passed == {"admitted", "done"}

\* A row that does not exist counts nothing; a request between the two
\* statements of spendCall finds the row the first one made; the row of a
\* charged call exists on its day.
RowsInPlace ==
    /\ \A u \in Users, d \in Days :
          ~quota[u, d].exists => quota[u, d].calls = 0
    /\ \A r \in Requests :
          /\ on[r] <= day
          /\ pc[r] = "spend" => /\ quota[UserOf[r], on[r]].exists
                                /\ day <= on[r] + KeepDays
          /\ pc[r] \in Passed => \/ quota[UserOf[r], on[r]].exists
                                 \/ on[r] < day

Ledger == TypeOK /\ RowsInPlace /\ CallsMatchCharges

LEMMA Constants ==
    /\ IsFiniteSet(Requests)
    /\ UserOf \in [Requests -> Users]
    /\ RepMax \in Nat /\ MaxDay \in Nat /\ MaxAborts \in Nat
    /\ Limit \in [Users -> [Reps -> [calls : Nat, tokens : Nat]]]
    /\ BaseCalls \in [Reps -> Nat]
    /\ Penalty \in [Kinds -> Nat]
    /\ TokenUse \subseteq Int
    /\ Daily \in Nat /\ GoodBonus \in Nat /\ GoodDays \in Nat
    /\ GoodRep \in Reps /\ InitRep \in Reps
    /\ KeepDays \in Nat \ {0}
BY QuotaAssumption

\* updateReputation: a penalty or a reward keeps a reputation in its range.
LEMMA ClampInRange ==
    ASSUME NEW n \in Int
    PROVE  Clamp(n) \in Reps
BY Constants DEF Clamp, Reps

LEMMA AtMostInRange ==
    ASSUME NEW n \in Nat, NEW cap \in Reps
    PROVE  AtMost(n, cap) \in Reps
BY Constants DEF AtMost, Reps

LEMMA ChargedFinite ==
    \A u, d : /\ IsFiniteSet(Charged(u, d))
              /\ Cardinality(Charged(u, d)) \in Nat
<1>1. SUFFICES ASSUME NEW u, NEW d
               PROVE  /\ IsFiniteSet(Charged(u, d))
                      /\ Cardinality(Charged(u, d)) \in Nat
  OBVIOUS
<1>2. Charged(u, d) \subseteq Requests
  BY DEF Charged
<1>3. IsFiniteSet(Charged(u, d))
  BY <1>2, Constants, FS_Subset
<1>4. QED
  BY <1>3, FS_CardinalityType

----------------------------------------------------------------------------
(* Types. *)

LEMMA RowFields ==
    ASSUME quota \in [Users \X Days -> QuotaRow], NEW x \in Users \X Days
    PROVE  /\ [quota EXCEPT ![x].exists = TRUE] \in [Users \X Days -> QuotaRow]
           /\ [quota EXCEPT ![x].calls = @ + 1] \in [Users \X Days -> QuotaRow]
           /\ \A n \in Int :
                 [quota EXCEPT ![x].tokens = @ + n] \in [Users \X Days -> QuotaRow]
<1>1. /\ quota[x] \in QuotaRow
      /\ quota[x].calls + 1 \in Nat /\ \A n \in Int : quota[x].tokens + n \in Int
  BY DEF QuotaRow
<1>2. /\ [quota[x] EXCEPT !.exists = TRUE] \in QuotaRow
      /\ [quota[x] EXCEPT !.calls = quota[x].calls + 1] \in QuotaRow
      /\ \A n \in Int : [quota[x] EXCEPT !.tokens = quota[x].tokens + n] \in QuotaRow
  BY <1>1 DEF QuotaRow
<1>3. \A v \in QuotaRow : [quota EXCEPT ![x] = v] \in [Users \X Days -> QuotaRow]
  OBVIOUS
<1>4. QED
  BY <1>2, <1>3

LEMMA HandlerKeepsTypes ==
    ASSUME TypeOK, NEW r \in Requests, (Handle(r) \/ Dies(r))
    PROVE  TypeOK'
<1> USE Constants DEF quotaVars, reqVars, cronVars, Goto, Ended, TypeOK
<1>0. UserOf[r] \in Users /\ day \in Days /\ on[r] \in Days
  OBVIOUS
<1>1. CASE Authenticate(r)
  BY <1>0, <1>1 DEF Authenticate
<1>2. CASE InsertRow(r)
  <2>1. quota' \in [Users \X Days -> QuotaRow]
    BY <1>0, <1>2, RowFields DEF InsertRow
  <2>2. QED
    BY <1>0, <1>2, <2>1 DEF InsertRow
<1>3. CASE Spend(r)
  <2>1. quota' \in [Users \X Days -> QuotaRow]
    BY <1>0, <1>3, RowFields DEF Spend
  <2>2. QED
    BY <1>0, <1>3, <2>1 DEF Spend
<1>4. CASE Refuse(r)
  BY <1>4 DEF Refuse
<1>5. CASE Classify(r)
  <2>1. RefusalKind(UserOf[r], day, seen[r]) \in Kinds
    BY DEF RefusalKind, Kinds
  <2>2. QED
    BY <1>5, <2>1 DEF Classify
<1>6. CASE RejectSubmit(r)
  BY <1>6 DEF RejectSubmit, Kinds
<1>7. CASE Penalize(r)
  <2>1. reputation[UserOf[r]] - Penalty[kind[r]] \in Int
    BY <1>0, <1>7 DEF Penalize, Reps
  <2>2. Clamp(reputation[UserOf[r]] - Penalty[kind[r]]) \in Reps
    BY <2>1, ClampInRange
  <2>3. reputation' \in [Users -> Reps]
    BY <1>0, <1>7, <2>2 DEF Penalize
  <2>4. QED
    BY <1>7, <2>3 DEF Penalize
<1>8. CASE LogPenalty(r)
  BY <1>0, <1>8 DEF LogPenalty
<1>9. CASE AddTokens(r)
  <2>1. PICK n \in TokenUse :
          \/ quota' = [quota EXCEPT ![<<UserOf[r], day>>].tokens = @ + n]
          \/ quota' = quota
    BY <1>9 DEF AddTokens
  <2>2. n \in Int /\ <<UserOf[r], day>> \in Users \X Days
    BY <1>0, <2>1
  <2>3. [quota EXCEPT ![<<UserOf[r], day>>].tokens = @ + n]
          \in [Users \X Days -> QuotaRow]
    BY <2>2, RowFields
  <2>4. quota' \in [Users \X Days -> QuotaRow]
    BY <2>1, <2>3
  <2>5. QED
    BY <1>9, <2>4 DEF AddTokens
<1>10. CASE EndCall(r)
  BY <1>10 DEF EndCall
<1>11. CASE Dies(r)
  BY <1>11 DEF Dies
<1>12. QED
  BY <1>1, <1>2, <1>3, <1>4, <1>5, <1>6, <1>7, <1>8, <1>9, <1>10, <1>11
  DEF Handle

LEMMA CronKeepsTypes ==
    ASSUME TypeOK, NEW k \in Crons, (CronWorks(k) \/ CronAborts(k))
    PROVE  TypeOK'
<1> USE Constants DEF quotaVars, reqVars, cronVars, Ended, TypeOK
<1>0. RepMax \in Reps /\ GoodRep \in Reps
  BY DEF Reps
<1>1. CASE CronPurge(k)
  <2>1. quota' \in [Users \X Days -> QuotaRow]
    BY <1>1 DEF CronPurge, NoRow, QuotaRow
  <2>2. QED
    BY <1>1, <2>1 DEF CronPurge
<1>2. CASE CronDaily(k)
  <2>1. ASSUME NEW u \in Users
        PROVE  AtMost(reputation[u] + Daily, RepMax) \in Reps
    <3>1. reputation[u] + Daily \in Nat
      BY DEF Reps
    <3>2. QED
      BY <1>0, <3>1, AtMostInRange
  <2>2. reputation' \in [Users -> Reps]
    BY <1>2, <2>1 DEF CronDaily
  <2>3. QED
    BY <1>2, <2>2 DEF CronDaily
<1>3. CASE CronSelect(k)
  BY <1>3 DEF CronSelect, GoodStanding
<1>4. CASE CronBonus(k)
  <2>1. PICK u \in good[k] :
          /\ reputation' =
                [reputation EXCEPT ![u] = AtMost(@ + GoodBonus, GoodRep)]
          /\ good' = [good EXCEPT ![k] = @ \ {u}]
    BY <1>4 DEF CronBonus
  <2>2. u \in Users
    BY <2>1
  <2>3. reputation[u] + GoodBonus \in Nat
    BY <2>2 DEF Reps
  <2>4. AtMost(reputation[u] + GoodBonus, GoodRep) \in Reps
    BY <1>0, <2>3, AtMostInRange
  <2>5. reputation' \in [Users -> Reps] /\ good' \in [Crons -> SUBSET Users]
    BY <2>1, <2>2, <2>4
  <2>6. QED
    BY <1>4, <2>5 DEF CronBonus
<1>5. CASE CronEnds(k)
  BY <1>5 DEF CronEnds
<1>6. CASE CronAborts(k)
  BY <1>6 DEF CronAborts
<1>7. QED
  BY <1>1, <1>2, <1>3, <1>4, <1>5, <1>6 DEF CronWorks

LEMMA ClockKeepsTypes ==
    ASSUME TypeOK, NextDay
    PROVE  TypeOK'
BY Constants DEF TypeOK, NextDay, Days, quotaVars, reqVars, cronVars, Ended

LEMMA StutterKeepsTypes ==
    ASSUME TypeOK, UNCHANGED vars
    PROVE  TypeOK'
BY DEF TypeOK, vars, Ended

\* Reputation stays between 0 and RepMax and every other variable in its
\* type, for any interleaving of requests, cron runs, failures and midnights.
THEOREM TypeCorrect == Spec => []TypeOK
<1>1. Init => TypeOK
  <2>1. SUFFICES ASSUME Init PROVE TypeOK
    OBVIOUS
  <2>2. 0 \in Reps /\ 0 \in Days /\ 0 \in 0 .. MaxAborts
    BY Constants DEF Reps, Days
  <2>3. QED
    BY <2>1, <2>2, Constants DEF Init, TypeOK, Ended, NoRow, QuotaRow
<1>2. TypeOK /\ [Next]_vars => TypeOK'
  BY HandlerKeepsTypes, CronKeepsTypes, ClockKeepsTypes, StutterKeepsTypes
  DEF Next
<1>3. QED
  BY <1>1, <1>2, PTL DEF Spec

----------------------------------------------------------------------------
(* The ledger: rows and charged requests. *)

\* A step that admits nobody, dates nobody and leaves the counters and the
\* existence of the rows alone.
Quiet ==
    /\ on' = on /\ day' = day
    /\ \A r \in Requests : /\ pc'[r] \in Passed <=> pc[r] \in Passed
                           /\ pc'[r] = "spend" => pc[r] = "spend"
    /\ \A u \in Users, d \in Days :
          /\ quota'[u, d].exists = quota[u, d].exists
          /\ quota'[u, d].calls = quota[u, d].calls

LEMMA QuietKeepsLedger ==
    ASSUME Ledger, TypeOK', Quiet
    PROVE  Ledger'
<1>1. \A u, d : Charged(u, d)' = Charged(u, d)
  BY DEF Charged, Quiet, Passed
<1>2. CallsMatchCharges'
  BY <1>1 DEF Ledger, CallsMatchCharges, Quiet
<1>3. \A r \in Requests : UserOf[r] \in Users /\ on[r] \in Days
  BY Constants DEF Ledger, TypeOK
<1>4. RowsInPlace'
  <2>1. \A u \in Users, d \in Days :
           ~quota'[u, d].exists => quota'[u, d].calls = 0
    <3>1. SUFFICES ASSUME NEW u \in Users, NEW d \in Days,
                          ~quota'[u, d].exists
                   PROVE  quota'[u, d].calls = 0
      OBVIOUS
    <3>2. /\ quota'[u, d].exists = quota[u, d].exists
          /\ quota'[u, d].calls = quota[u, d].calls
      BY DEF Quiet
    <3>3. ~quota[u, d].exists => quota[u, d].calls = 0
      BY DEF Ledger, RowsInPlace
    <3>4. QED
      BY <3>1, <3>2, <3>3
  <2>2. ASSUME NEW r \in Requests
        PROVE  /\ on'[r] <= day'
               /\ pc'[r] = "spend" => /\ quota'[UserOf[r], on'[r]].exists
                                      /\ day' <= on'[r] + KeepDays
               /\ pc'[r] \in Passed => \/ quota'[UserOf[r], on'[r]].exists
                                       \/ on'[r] < day'
    <3>1. /\ on'[r] = on[r] /\ day' = day
          /\ quota'[UserOf[r], on[r]].exists = quota[UserOf[r], on[r]].exists
          /\ pc'[r] \in Passed <=> pc[r] \in Passed
          /\ pc'[r] = "spend" => pc[r] = "spend"
      BY <1>3 DEF Quiet
    <3>2. /\ on[r] <= day
          /\ pc[r] = "spend" => /\ quota[UserOf[r], on[r]].exists
                                /\ day <= on[r] + KeepDays
          /\ pc[r] \in Passed => \/ quota[UserOf[r], on[r]].exists
                                 \/ on[r] < day
      BY DEF Ledger, RowsInPlace
    <3>3. QED
      BY <3>1, <3>2
  <2>3. QED
    BY <2>1, <2>2 DEF RowsInPlace
<1>5. QED
  BY <1>2, <1>4 DEF Ledger

LEMMA AddTokensIsQuiet ==
    ASSUME TypeOK, NEW r \in Requests, AddTokens(r)
    PROVE  Quiet
<1>1. <<UserOf[r], day>> \in Users \X Days
  BY Constants DEF TypeOK
<1>2. PICK n \in TokenUse :
         \/ quota' = [quota EXCEPT ![<<UserOf[r], day>>].tokens = @ + n]
         \/ quota' = quota
  BY DEF AddTokens
<1>3. ASSUME NEW u \in Users, NEW d \in Days
      PROVE  /\ quota'[u, d].exists = quota[u, d].exists
             /\ quota'[u, d].calls = quota[u, d].calls
  <2>1. <<u, d>> \in Users \X Days /\ quota[u, d] \in QuotaRow
    BY <1>3 DEF TypeOK
  <2>2. CASE quota' = quota
    BY <2>2
  <2>3. CASE quota' = [quota EXCEPT ![<<UserOf[r], day>>].tokens = @ + n]
    BY <1>1, <2>1, <2>3 DEF TypeOK, QuotaRow
  <2>4. QED
    BY <1>2, <2>2, <2>3
<1>4. QED
  BY <1>3 DEF AddTokens, Quiet, reqVars

LEMMA QuietSteps ==
    ASSUME TypeOK, NEW r \in Requests,
           \/ Authenticate(r) \/ Refuse(r) \/ Classify(r) \/ RejectSubmit(r)
           \/ Penalize(r) \/ LogPenalty(r) \/ EndCall(r) \/ Dies(r)
    PROVE  Quiet
BY DEF TypeOK, Quiet, Passed, Goto, quotaVars, cronVars,
   Authenticate, Refuse, Classify, RejectSubmit, Penalize, LogPenalty,
   EndCall, Dies

LEMMA QuietCron ==
    ASSUME TypeOK, NEW k \in Crons,
           \/ CronDaily(k) \/ CronSelect(k) \/ CronBonus(k) \/ CronEnds(k)
           \/ CronAborts(k)
    PROVE  Quiet
BY DEF Quiet, Passed, quotaVars, reqVars,
   CronDaily, CronSelect, CronBonus, CronEnds, CronAborts

LEMMA InsertKeepsLedger ==
    ASSUME Ledger, TypeOK', NEW r \in Requests, InsertRow(r)
    PROVE  Ledger'
<1> USE DEF Passed
<1>1. /\ UserOf[r] \in Users /\ day \in Days
      /\ <<UserOf[r], day>> \in Users \X Days
      /\ day \in Nat /\ KeepDays \in Nat
  BY Constants DEF Ledger, TypeOK, Days
<1>2. /\ pc[r] = "insert" /\ pc' = [pc EXCEPT ![r] = "spend"]
      /\ on' = [on EXCEPT ![r] = day] /\ day' = day
      /\ quota' = [quota EXCEPT ![<<UserOf[r], day>>].exists = TRUE]
  BY DEF InsertRow, Goto
<1>3. \A u, d : Charged(u, d)' = Charged(u, d)
  BY <1>2 DEF Charged, Ledger, TypeOK
<1>4. ASSUME NEW u \in Users, NEW d \in Days
      PROVE  /\ quota'[u, d].calls = quota[u, d].calls
             /\ quota'[u, d].exists
                   <=> quota[u, d].exists \/ (u = UserOf[r] /\ d = day)
  <2>1. quota[u, d] \in QuotaRow /\ <<u, d>> \in Users \X Days
    BY <1>4 DEF Ledger, TypeOK
  <2>2. CASE <<u, d>> = <<UserOf[r], day>>
    BY <1>1, <1>2, <2>1, <2>2 DEF Ledger, TypeOK, QuotaRow
  <2>3. CASE <<u, d>> # <<UserOf[r], day>>
    BY <1>1, <1>2, <2>1, <2>3 DEF Ledger, TypeOK
  <2>4. QED
    BY <2>2, <2>3
<1>5. ASSUME ~quota[UserOf[r], day].exists
      PROVE  Charged(UserOf[r], day) = {}
  <2>1. ASSUME NEW x \in Requests, UserOf[x] = UserOf[r], on[x] = day,
               pc[x] \in Passed
        PROVE  FALSE
    <3>1. quota[UserOf[x], on[x]].exists \/ on[x] < day
      BY <2>1 DEF Ledger, RowsInPlace
    <3>2. ~(day < day)
      BY <1>1
    <3>3. QED
      BY <1>5, <2>1, <3>1, <3>2
  <2>2. QED
    BY <2>1 DEF Charged
<1>6. CallsMatchCharges'
  <2>1. SUFFICES ASSUME NEW u \in Users, NEW d \in Days, quota'[u, d].exists
                 PROVE  quota'[u, d].calls = Cardinality(Charged(u, d))
    BY <1>3 DEF CallsMatchCharges
  <2>2. CASE quota[u, d].exists
    <3>1. quota'[u, d].calls = quota[u, d].calls
      BY <1>4
    <3>2. quota[u, d].calls = Cardinality(Charged(u, d))
      BY <2>2 DEF Ledger, CallsMatchCharges
    <3>3. QED
      BY <3>1, <3>2
  <2>3. CASE ~quota[u, d].exists
    <3>1. u = UserOf[r] /\ d = day
      BY <1>4, <2>1, <2>3
    <3>2. quota[u, d].calls = 0
      BY <2>3 DEF Ledger, RowsInPlace
    <3>3. Cardinality(Charged(u, d)) = 0
      BY <1>5, <2>3, <3>1, FS_EmptySet
    <3>4. QED
      BY <1>4, <3>2, <3>3
  <2>4. QED
    BY <2>2, <2>3
<1>7. RowsInPlace'
  <2>1. ASSUME NEW u \in Users, NEW d \in Days, ~quota'[u, d].exists
        PROVE  quota'[u, d].calls = 0
    BY <1>4, <2>1 DEF Ledger, RowsInPlace
  <2>2. ASSUME NEW x \in Requests
        PROVE  /\ on'[x] <= day'
               /\ pc'[x] = "spend" => /\ quota'[UserOf[x], on'[x]].exists
                                      /\ day' <= on'[x] + KeepDays
               /\ pc'[x] \in Passed => \/ quota'[UserOf[x], on'[x]].exists
                                       \/ on'[x] < day'
    <3>1. UserOf[x] \in Users /\ on[x] \in Days
      BY Constants DEF Ledger, TypeOK
    <3>2. CASE x = r
      <4>1. on'[x] = day /\ pc'[x] = "spend"
        BY <1>2, <3>2 DEF Ledger, TypeOK
      <4>2. quota'[UserOf[x], day].exists
        BY <1>1, <1>4, <3>2
      <4>3. day <= day /\ day <= day + KeepDays
        BY <1>1
      <4>4. QED
        BY <1>2, <4>1, <4>2, <4>3
    <3>3. CASE x # r
      <4>1. on'[x] = on[x] /\ pc'[x] = pc[x]
        BY <1>2, <3>3 DEF Ledger, TypeOK
      <4>2. QED
        BY <1>2, <1>4, <3>1, <4>1 DEF Ledger, RowsInPlace
    <3>4. QED
      BY <3>2, <3>3
  <2>3. QED
    BY <2>1, <2>2 DEF RowsInPlace
<1>8. QED
  BY <1>6, <1>7 DEF Ledger

\* What the UPDATE of spendCall does to the charged requests and the counters.
LEMMA SpendCharges ==
    ASSUME Ledger, NEW r \in Requests, Spend(r)
    PROVE  /\ Charged(UserOf[r], on[r])'
                 = Charged(UserOf[r], on[r]) \cup {r}
           /\ r \notin Charged(UserOf[r], on[r])
           /\ \A u \in Users, d \in Days : <<u, d>> # <<UserOf[r], on[r]>>
                 => /\ Charged(u, d)' = Charged(u, d)
                    /\ quota'[u, d] = quota[u, d]
           /\ quota'[UserOf[r], on[r]].calls
                 = quota[UserOf[r], on[r]].calls + 1
           /\ quota'[UserOf[r], on[r]].exists
                 = quota[UserOf[r], on[r]].exists
<1>1. /\ UserOf[r] \in Users /\ on[r] \in Days
      /\ <<UserOf[r], on[r]>> \in Users \X Days
      /\ quota[UserOf[r], on[r]] \in QuotaRow
  BY Constants DEF Ledger, TypeOK
<1>2. /\ pc[r] = "spend" /\ pc' = [pc EXCEPT ![r] = "admitted"]
      /\ on' = on
      /\ quota' = [quota EXCEPT ![<<UserOf[r], on[r]>>].calls = @ + 1]
  BY DEF Spend, Goto
<1>3. /\ pc'[r] = "admitted"
      /\ \A x \in Requests : x # r => pc'[x] = pc[x]
  BY <1>2 DEF Ledger, TypeOK
<1>4. \A u, d : Charged(u, d)' = IF u = UserOf[r] /\ d = on[r]
                                 THEN Charged(u, d) \cup {r}
                                 ELSE Charged(u, d)
  BY <1>2, <1>3 DEF Charged
<1>5. r \notin Charged(UserOf[r], on[r])
  BY <1>2 DEF Charged
<1>6. \A x \in Users \X Days : x # <<UserOf[r], on[r]>> => quota'[x] = quota[x]
  BY <1>1, <1>2 DEF Ledger, TypeOK
<1>7. /\ quota'[UserOf[r], on[r]].calls = quota[UserOf[r], on[r]].calls + 1
      /\ quota'[UserOf[r], on[r]].exists = quota[UserOf[r], on[r]].exists
  BY <1>1, <1>2 DEF Ledger, TypeOK, QuotaRow
<1>8. ASSUME NEW u \in Users, NEW d \in Days, <<u, d>> # <<UserOf[r], on[r]>>
      PROVE  Charged(u, d)' = Charged(u, d) /\ quota'[u, d] = quota[u, d]
  <2>1. <<u, d>> \in Users \X Days /\ ~(u = UserOf[r] /\ d = on[r])
    BY <1>8
  <2>2. QED
    BY <1>4, <1>6, <1>8, <2>1
<1>9. Charged(UserOf[r], on[r])' = Charged(UserOf[r], on[r]) \cup {r}
  BY <1>2, <1>4
<1>10. QED
  BY <1>5, <1>7, <1>8, <1>9

LEMMA SpendKeepsLedger ==
    ASSUME Ledger, TypeOK', NEW r \in Requests, Spend(r)
    PROVE  Ledger'
<1> USE DEF Passed
<1>0. /\ UserOf[r] \in Users /\ on[r] \in Days
      /\ pc[r] = "spend" /\ pc' = [pc EXCEPT ![r] = "admitted"]
      /\ on' = on /\ day' = day
  BY Constants DEF Ledger, TypeOK, Spend, Goto
<1>1. quota[UserOf[r], on[r]].exists
  BY <1>0 DEF Ledger, RowsInPlace
<1>2. CallsMatchCharges'
  <2>1. SUFFICES ASSUME NEW u \in Users, NEW d \in Days, quota'[u, d].exists
                 PROVE  quota'[u, d].calls = Cardinality(Charged(u, d)')
    BY DEF CallsMatchCharges
  <2>2. CASE <<u, d>> = <<UserOf[r], on[r]>>
    <3>0. u = UserOf[r] /\ d = on[r]
      BY <2>2
    <3>1. quota[u, d].calls = Cardinality(Charged(u, d))
      BY <1>1, <3>0 DEF Ledger, CallsMatchCharges
    <3>2. /\ Charged(u, d)' = Charged(u, d) \cup {r}
          /\ r \notin Charged(u, d)
          /\ quota'[u, d].calls = quota[u, d].calls + 1
      BY <1>0, <3>0, SpendCharges
    <3>3. Cardinality(Charged(u, d) \cup {r}) = Cardinality(Charged(u, d)) + 1
      BY <3>2, ChargedFinite, FS_AddElement
    <3>4. QED
      BY <3>1, <3>2, <3>3
  <2>3. CASE <<u, d>> # <<UserOf[r], on[r]>>
    <3>1. Charged(u, d)' = Charged(u, d) /\ quota'[u, d] = quota[u, d]
      BY <2>3, SpendCharges
    <3>2. QED
      BY <2>1, <3>1 DEF Ledger, CallsMatchCharges
  <2>4. QED
    BY <2>2, <2>3
<1>3. \A u \in Users, d \in Days : quota'[u, d].exists = quota[u, d].exists
  <2>1. SUFFICES ASSUME NEW u \in Users, NEW d \in Days
                 PROVE  quota'[u, d].exists = quota[u, d].exists
    OBVIOUS
  <2>2. CASE <<u, d>> = <<UserOf[r], on[r]>>
    BY <2>2, SpendCharges
  <2>3. CASE <<u, d>> # <<UserOf[r], on[r]>>
    BY <2>3, SpendCharges
  <2>4. QED
    BY <2>2, <2>3
<1>4. \A u \in Users, d \in Days :
         ~quota'[u, d].exists => quota'[u, d].calls = 0
  <2>1. SUFFICES ASSUME NEW u \in Users, NEW d \in Days, ~quota'[u, d].exists
                 PROVE  quota'[u, d].calls = 0
    OBVIOUS
  <2>2. ~quota[u, d].exists
    BY <1>3, <2>1
  <2>3. <<u, d>> # <<UserOf[r], on[r]>>
    BY <1>1, <2>2
  <2>4. quota'[u, d] = quota[u, d]
    BY <2>3, SpendCharges
  <2>5. QED
    BY <2>2, <2>4 DEF Ledger, RowsInPlace
<1>5. ASSUME NEW x \in Requests
      PROVE  /\ on'[x] <= day'
             /\ pc'[x] = "spend" => /\ quota'[UserOf[x], on'[x]].exists
                                    /\ day' <= on'[x] + KeepDays
             /\ pc'[x] \in Passed => \/ quota'[UserOf[x], on'[x]].exists
                                     \/ on'[x] < day'
  <2>1. UserOf[x] \in Users /\ on[x] \in Days
    BY Constants DEF Ledger, TypeOK
  <2>2. CASE x = r
    <3>1. pc'[x] = "admitted"
      BY <1>0, <2>2 DEF Ledger, TypeOK
    <3>2. QED
      BY <1>0, <1>1, <1>3, <2>2, <3>1 DEF Ledger, RowsInPlace
  <2>3. CASE x # r
    <3>1. pc'[x] = pc[x]
      BY <1>0, <2>3 DEF Ledger, TypeOK
    <3>2. QED
      BY <1>0, <1>3, <2>1, <3>1 DEF Ledger, RowsInPlace
  <2>4. QED
    BY <2>2, <2>3
<1>6. QED
  BY <1>2, <1>4, <1>5 DEF Ledger, RowsInPlace

LEMMA PurgeKeepsLedger ==
    ASSUME Ledger, TypeOK', NEW k \in Crons, CronPurge(k)
    PROVE  Ledger'
<1>1. /\ pc' = pc /\ on' = on /\ day' = day
      /\ quota' = [x \in Users \X Days |->
                      IF Purged(x[1], x[2]) THEN NoRow ELSE quota[x]]
  BY DEF CronPurge, reqVars
<1>2. ASSUME NEW u \in Users, NEW d \in Days
      PROVE  IF d < day - KeepDays
             THEN ~quota'[u, d].exists /\ quota'[u, d].calls = 0
             ELSE quota'[u, d] = quota[u, d]
  <2>1. /\ d < day - KeepDays => quota'[u, d] = NoRow
        /\ ~(d < day - KeepDays) => quota'[u, d] = quota[u, d]
    BY <1>1 DEF Purged
  <2>2. ~NoRow.exists /\ NoRow.calls = 0
    BY DEF NoRow
  <2>3. QED
    BY <2>1, <2>2
<1>3. \A u, d : Charged(u, d)' = Charged(u, d)
  BY <1>1 DEF Charged
<1>4. CallsMatchCharges'
  <2>1. SUFFICES ASSUME NEW u \in Users, NEW d \in Days, quota'[u, d].exists
                 PROVE  quota'[u, d].calls = Cardinality(Charged(u, d))
    BY <1>3 DEF CallsMatchCharges
  <2>2. quota'[u, d] = quota[u, d]
    BY <1>2, <2>1
  <2>3. QED
    BY <2>1, <2>2 DEF Ledger, CallsMatchCharges
<1>5. ASSUME NEW u \in Users, NEW d \in Days, ~quota'[u, d].exists
      PROVE  quota'[u, d].calls = 0
  BY <1>2, <1>5 DEF Ledger, RowsInPlace
<1>6. ASSUME NEW r \in Requests
      PROVE  /\ on[r] <= day
             /\ pc[r] = "spend" => /\ quota'[UserOf[r], on[r]].exists
                                   /\ day <= on[r] + KeepDays
             /\ pc[r] \in Passed => \/ quota'[UserOf[r], on[r]].exists
                                    \/ on[r] < day
  <2>1. /\ UserOf[r] \in Users /\ on[r] \in Days
        /\ on[r] \in Nat /\ day \in Nat /\ KeepDays \in Nat
    BY Constants DEF Ledger, TypeOK, Days
  <2>2. /\ on[r] <= day
        /\ pc[r] = "spend" => /\ quota[UserOf[r], on[r]].exists
                              /\ day <= on[r] + KeepDays
        /\ pc[r] \in Passed => \/ quota[UserOf[r], on[r]].exists
                               \/ on[r] < day
    BY DEF Ledger, RowsInPlace
  <2>3. CASE on[r] < day - KeepDays
    <3>1. on[r] < day /\ ~(day <= on[r] + KeepDays)
      BY <2>1, <2>3
    <3>2. QED
      BY <2>2, <3>1
  <2>4. CASE ~(on[r] < day - KeepDays)
    <3>1. quota'[UserOf[r], on[r]] = quota[UserOf[r], on[r]]
      BY <1>2, <2>1, <2>4
    <3>2. QED
      BY <2>2, <3>1
  <2>5. QED
    BY <2>3, <2>4
<1>7. RowsInPlace'
  BY <1>1, <1>5, <1>6 DEF RowsInPlace
<1>8. QED
  BY <1>4, <1>7 DEF Ledger

LEMMA ClockKeepsLedger ==
    ASSUME Ledger, TypeOK', NextDay
    PROVE  Ledger'
<1>1. /\ pc' = pc /\ on' = on /\ quota' = quota /\ day' = day + 1
      /\ \A r \in Requests : pc[r] = "spend" => day < on[r] + KeepDays
  BY DEF NextDay, reqVars, quotaVars, SpendFitsInDays
<1>2. CallsMatchCharges'
  BY <1>1 DEF Ledger, CallsMatchCharges, Charged
<1>3. ASSUME NEW r \in Requests
      PROVE  /\ on[r] <= day + 1
             /\ pc[r] = "spend" => /\ quota[UserOf[r], on[r]].exists
                                   /\ day + 1 <= on[r] + KeepDays
             /\ pc[r] \in Passed => \/ quota[UserOf[r], on[r]].exists
                                    \/ on[r] < day + 1
  <2>1. on[r] \in Nat /\ day \in Nat /\ KeepDays \in Nat
    BY Constants DEF Ledger, TypeOK, Days
  <2>2. on[r] <= day
    BY DEF Ledger, RowsInPlace
  <2>3. on[r] < day + 1 /\ on[r] <= day + 1
    BY <2>1, <2>2
  <2>4. pc[r] = "spend" => day + 1 <= on[r] + KeepDays
    BY <1>1, <2>1
  <2>5. pc[r] = "spend" => quota[UserOf[r], on[r]].exists
    BY DEF Ledger, RowsInPlace
  <2>6. QED
    BY <2>3, <2>4, <2>5
<1>4. RowsInPlace'
  BY <1>1, <1>3 DEF Ledger, RowsInPlace
<1>5. QED
  BY <1>2, <1>4 DEF Ledger

LEMMA StutterKeepsLedger ==
    ASSUME Ledger, UNCHANGED vars
    PROVE  Ledger'
<1>1. TypeOK'
  BY StutterKeepsTypes DEF Ledger
<1>2. Quiet
  BY DEF Quiet, vars
<1>3. QED
  BY <1>1, <1>2, QuietKeepsLedger

LEMMA StepKeepsTypes ==
    ASSUME TypeOK, [Next]_vars
    PROVE  TypeOK'
BY HandlerKeepsTypes, CronKeepsTypes, ClockKeepsTypes, StutterKeepsTypes
DEF Next

LEMMA StepKeepsLedger ==
    ASSUME Ledger, [Next]_vars
    PROVE  Ledger'
<1>1. TypeOK /\ TypeOK'
  BY StepKeepsTypes DEF Ledger
<1>2. ASSUME NEW r \in Requests, Handle(r) \/ Dies(r)
      PROVE  Ledger'
  <2>1. CASE InsertRow(r)
    BY <1>1, <2>1, InsertKeepsLedger
  <2>2. CASE Spend(r)
    BY <1>1, <2>2, SpendKeepsLedger
  <2>3. CASE AddTokens(r)
    BY <1>1, <2>3, AddTokensIsQuiet, QuietKeepsLedger
  <2>4. CASE \/ Authenticate(r) \/ Refuse(r) \/ Classify(r) \/ RejectSubmit(r)
             \/ Penalize(r) \/ LogPenalty(r) \/ EndCall(r) \/ Dies(r)
    BY <1>1, <2>4, QuietSteps, QuietKeepsLedger
  <2>5. QED
    BY <1>2, <2>1, <2>2, <2>3, <2>4 DEF Handle
<1>3. ASSUME NEW k \in Crons, CronWorks(k) \/ CronAborts(k)
      PROVE  Ledger'
  <2>1. CASE CronPurge(k)
    BY <1>1, <2>1, PurgeKeepsLedger
  <2>2. CASE \/ CronDaily(k) \/ CronSelect(k) \/ CronBonus(k) \/ CronEnds(k)
             \/ CronAborts(k)
    BY <1>1, <2>2, QuietCron, QuietKeepsLedger
  <2>3. QED
    BY <1>3, <2>1, <2>2 DEF CronWorks
<1>4. CASE NextDay
  BY <1>1, <1>4, ClockKeepsLedger
<1>5. CASE UNCHANGED vars
  BY <1>5, StutterKeepsLedger
<1>6. QED
  BY <1>2, <1>3, <1>4, <1>5 DEF Next

LEMMA LedgerInit == Init => Ledger
<1>1. SUFFICES ASSUME Init PROVE Ledger
  OBVIOUS
<1>2. 0 \in Reps /\ 0 \in Days /\ 0 \in 0 .. MaxAborts
  BY Constants DEF Reps, Days
<1>3. TypeOK
  BY <1>1, <1>2, Constants DEF Init, TypeOK, Ended, NoRow, QuotaRow
<1>4. \A u \in Users, d \in Days :
         ~quota[u, d].exists /\ quota[u, d].calls = 0
  BY <1>1 DEF Init, NoRow
<1>5. CallsMatchCharges
  BY <1>4 DEF CallsMatchCharges
<1>6. RowsInPlace
  <2>1. \A r \in Requests : pc[r] = "start" /\ on[r] = 0 /\ day = 0
    BY <1>1 DEF Init
  <2>2. \A r \in Requests : on[r] <= day
    BY <2>1
  <2>3. QED
    BY <1>4, <2>1, <2>2 DEF RowsInPlace, Passed
<1>7. QED
  BY <1>3, <1>5, <1>6 DEF Ledger

LEMMA LedgerInvariant == Spec => []Ledger
<1>1. Ledger /\ [Next]_vars => Ledger'
  BY StepKeepsLedger
<1>2. QED
  BY <1>1, LedgerInit, PTL DEF Spec

\* spendCall charges each admitted call exactly once to the day it was
\* admitted on, for any number of users and of calls in flight, across
\* midnight, the purge, and requests that die between the two statements.
THEOREM ChargedOnce == Spec => []CallsMatchCharges
<1>1. Ledger => CallsMatchCharges
  BY DEF Ledger
<1>2. QED
  BY <1>1, LedgerInvariant, PTL

----------------------------------------------------------------------------
(* The two sides of the bargain. *)

LEMMA Allowance ==
    ASSUME NEW u \in Users, NEW p \in Reps
    PROVE  /\ Limit[u][p].calls \in Nat /\ Limit[u][RepMax].calls \in Nat
           /\ Limit[u][p].tokens \in Nat /\ Limit[u][RepMax].tokens \in Nat
           /\ Limit[u][p].calls <= Limit[u][RepMax].calls
           /\ Limit[u][p].tokens <= Limit[u][RepMax].tokens
<1>1. RepMax \in Reps /\ p <= RepMax
  BY Constants DEF Reps
<1>2. Limit[u][p] \in [calls : Nat, tokens : Nat]
  BY Constants
<1>3. Limit[u][RepMax] \in [calls : Nat, tokens : Nat]
  BY <1>1, Constants
<1>4. /\ Limit[u][p].calls <= Limit[u][RepMax].calls
      /\ Limit[u][p].tokens <= Limit[u][RepMax].tokens
  BY <1>1, AllowanceAssumption
<1>5. QED
  BY <1>2, <1>3, <1>4

\* Who passed the guard only changes by one call at a time.
LEMMA ChargesMove ==
    ASSUME Ledger, [Next]_vars
    PROVE  \/ \A u, d : Charged(u, d)' = Charged(u, d)
           \/ \E r \in Requests : Spend(r)
<1>1. ASSUME NEW r \in Requests, Handle(r) \/ Dies(r), ~Spend(r)
      PROVE  \A u, d : Charged(u, d)' = Charged(u, d)
  <2>1. CASE InsertRow(r)
    <3>1. /\ pc[r] = "insert" /\ pc' = [pc EXCEPT ![r] = "spend"]
          /\ on' = [on EXCEPT ![r] = day]
      BY <2>1 DEF InsertRow, Goto
    <3>2. QED
      BY <3>1 DEF Charged, Ledger, TypeOK
  <2>2. CASE AddTokens(r)
    <3>1. pc' = pc /\ on' = on
      BY <2>2 DEF AddTokens, reqVars
    <3>2. QED
      BY <3>1 DEF Charged
  <2>3. CASE \/ Authenticate(r) \/ Refuse(r) \/ Classify(r) \/ RejectSubmit(r)
             \/ Penalize(r) \/ LogPenalty(r) \/ EndCall(r) \/ Dies(r)
    <3>1. Quiet
      BY <2>3, QuietSteps DEF Ledger
    <3>2. QED
      BY <3>1 DEF Charged, Quiet, Passed
  <2>4. QED
    BY <1>1, <2>1, <2>2, <2>3 DEF Handle
<1>2. ASSUME NEW k \in Crons, CronWorks(k) \/ CronAborts(k)
      PROVE  pc' = pc /\ on' = on
  BY <1>2 DEF CronWorks, CronPurge, CronDaily, CronSelect, CronBonus, CronEnds,
     CronAborts, reqVars
<1>3. ASSUME NextDay \/ UNCHANGED vars
      PROVE  pc' = pc /\ on' = on
  BY <1>3 DEF NextDay, vars, reqVars
<1>4. pc' = pc /\ on' = on => \A u, d : Charged(u, d)' = Charged(u, d)
  BY DEF Charged
<1>5. QED
  BY <1>1, <1>2, <1>3, <1>4 DEF Next

\* An admitted call is never taken back.
LEMMA ChargesStand ==
    ASSUME Ledger, [Next]_vars, NEW u \in Users, NEW d \in Days
    PROVE  Cardinality(Charged(u, d)) <= Cardinality(Charged(u, d)')
<1>1. Charged(u, d) \subseteq Charged(u, d)'
  <2>1. ASSUME NEW r \in Requests, Spend(r)
        PROVE  Charged(u, d) \subseteq Charged(u, d)'
    <3>1. CASE <<u, d>> = <<UserOf[r], on[r]>>
      <4>1. u = UserOf[r] /\ d = on[r]
        BY <3>1
      <4>2. Charged(UserOf[r], on[r])'
               = Charged(UserOf[r], on[r]) \cup {r}
        BY <2>1, SpendCharges
      <4>3. on'[r] = on[r] /\ on' = on
        BY <2>1 DEF Spend
      <4>4. Charged(u, d)' = Charged(u, d) \cup {r}
        BY <4>1, <4>2, <4>3 DEF Charged
      <4>5. QED
        BY <4>4
    <3>2. CASE <<u, d>> # <<UserOf[r], on[r]>>
      BY <2>1, <3>2, SpendCharges
    <3>3. QED
      BY <3>1, <3>2
  <2>2. QED
    BY <2>1, ChargesMove
<1>2. IsFiniteSet(Charged(u, d)')
  <2>1. Charged(u, d)' \subseteq Requests
    BY DEF Charged
  <2>2. QED
    BY <2>1, Constants, FS_Subset
<1>3. QED
  BY <1>1, <1>2, FS_Subset

\* A request is turned down by Refuse or was turned down before.
LEMMA TurningDown ==
    ASSUME Ledger, [Next]_vars, NEW r \in Requests \ Submits, pc'[r] \in Turned
    PROVE  \/ Refuse(r)
           \/ pc[r] \in Turned /\ on'[r] = on[r] /\ seen'[r] = seen[r]
<1> USE DEF Turned, Goto, Ledger, TypeOK
<1>1. ASSUME NEW x \in Requests, Handle(x) \/ Dies(x), x # r
      PROVE  pc[r] \in Turned /\ on'[r] = on[r] /\ seen'[r] = seen[r]
  BY <1>1 DEF Handle, Dies, Authenticate, InsertRow, Spend, Refuse, Classify,
     RejectSubmit, Penalize, LogPenalty, AddTokens, EndCall, reqVars
<1>2. ASSUME Handle(r) \/ Dies(r), ~Refuse(r)
      PROVE  pc[r] \in Turned /\ on'[r] = on[r] /\ seen'[r] = seen[r]
  BY <1>2 DEF Handle, Dies, Authenticate, InsertRow, Spend, Refuse, Classify,
     RejectSubmit, Penalize, LogPenalty, AddTokens, EndCall, reqVars
<1>3. ASSUME NEW k \in Crons, CronWorks(k) \/ CronAborts(k)
      PROVE  pc' = pc /\ on' = on /\ seen' = seen
  BY <1>3 DEF CronWorks, CronPurge, CronDaily, CronSelect, CronBonus, CronEnds,
     CronAborts, reqVars
<1>4. ASSUME NextDay \/ UNCHANGED vars
      PROVE  pc' = pc /\ on' = on /\ seen' = seen
  BY <1>4 DEF NextDay, vars, reqVars
<1>5. QED
  BY <1>1, <1>2, <1>3, <1>4 DEF Next

\* quotaGuard refuses a call only if the calls charged to that user and day
\* have reached the allowance of the reputation the request was authenticated
\* with; it cannot be refused for charges that failed or another day's.
THEOREM RefusalsAreEarned == Spec => []RefusedOnlyWhenSpent
<1>1. Init => RefusedOnlyWhenSpent
  BY DEF Init, RefusedOnlyWhenSpent, Turned
<1>2. ASSUME Ledger, RefusedOnlyWhenSpent, [Next]_vars
      PROVE  RefusedOnlyWhenSpent'
  <2>1. SUFFICES ASSUME NEW r \in Requests \ Submits, pc'[r] \in Turned
                 PROVE  Cardinality(Charged(UserOf[r], on[r])')
                           >= Limit[UserOf[r]][seen'[r]].calls
    BY DEF RefusedOnlyWhenSpent
  <2>2. /\ UserOf[r] \in Users /\ on[r] \in Days /\ seen[r] \in Reps
    BY <1>2, Constants DEF Ledger, TypeOK
  <2>3. /\ on'[r] = on[r] /\ seen'[r] = seen[r]
        /\ Cardinality(Charged(UserOf[r], on[r]))
              >= Limit[UserOf[r]][seen[r]].calls
    <3>1. CASE Refuse(r)
      <4>1. /\ pc[r] = "spend" /\ on'[r] = on[r] /\ seen'[r] = seen[r]
            /\ ~MaySpend(UserOf[r], on[r], seen[r])
        BY <3>1 DEF Refuse
      <4>2. quota[UserOf[r], on[r]].exists
        BY <1>2, <4>1 DEF Ledger, RowsInPlace
      <4>3. quota[UserOf[r], on[r]].calls
               = Cardinality(Charged(UserOf[r], on[r]))
        BY <1>2, <2>2, <4>2 DEF Ledger, CallsMatchCharges
      <4>4. ~(quota[UserOf[r], on[r]].calls < Limit[UserOf[r]][seen[r]].calls)
        BY <4>1, <4>2 DEF MaySpend
      <4>5. /\ Cardinality(Charged(UserOf[r], on[r])) \in Nat
            /\ Limit[UserOf[r]][seen[r]].calls \in Nat
        BY <2>2, ChargedFinite, Allowance
      <4>6. PICK n \in Nat, m \in Nat :
               /\ n = Cardinality(Charged(UserOf[r], on[r]))
               /\ m = Limit[UserOf[r]][seen[r]].calls
        BY <4>5
      <4>7. ~(n < m)
        BY <4>3, <4>4, <4>6
      <4>8. n >= m
        BY <4>7
      <4>9. QED
        BY <4>1, <4>6, <4>8
    <3>2. CASE pc[r] \in Turned /\ on'[r] = on[r] /\ seen'[r] = seen[r]
      BY <1>2, <3>2 DEF RefusedOnlyWhenSpent
    <3>3. QED
      BY <1>2, <2>1, <3>1, <3>2, TurningDown
  <2>4. /\ Cardinality(Charged(UserOf[r], on[r])) \in Nat
        /\ Limit[UserOf[r]][seen[r]].calls \in Nat
    BY <2>2, ChargedFinite, Allowance
  <2>5. PICK d \in Days : d = on[r]
    BY <2>2
  <2>6. Cardinality(Charged(UserOf[r], d)) <= Cardinality(Charged(UserOf[r], d)')
    BY <1>2, <2>2, ChargesStand
  <2>7. Charged(UserOf[r], d)' = Charged(UserOf[r], on[r])'
    BY <2>3, <2>5 DEF Charged
  <2>8. Cardinality(Charged(UserOf[r], on[r])') \in Nat
    <3>1. Charged(UserOf[r], on[r])' \subseteq Requests
      BY DEF Charged
    <3>2. QED
      BY <3>1, Constants, FS_Subset, FS_CardinalityType
  <2>9. Cardinality(Charged(UserOf[r], on[r])) = Cardinality(Charged(UserOf[r], d))
    BY <2>5
  <2>10. Cardinality(Charged(UserOf[r], on[r]))
            <= Cardinality(Charged(UserOf[r], on[r])')
    BY <2>6, <2>7, <2>9
  <2>11. QED
    BY <2>3, <2>4, <2>8, <2>10
<1>3. QED
  BY <1>1, <1>2, LedgerInvariant, PTL DEF Spec

\* spendCall admits no more calls of a user and day than the best reputation
\* allows, with any number of calls, users and cron runs at once.
THEOREM NobodyOvercharged == Spec => []NobodyOverspends
<1>1. Init => NobodyOverspends
  <2>1. SUFFICES ASSUME Init, NEW u \in Users, NEW d \in Days
                 PROVE  Cardinality(Charged(u, d)) <= Limit[u][RepMax].calls
    BY DEF NobodyOverspends
  <2>2. Charged(u, d) = {}
    BY <2>1 DEF Init, Charged
  <2>3. RepMax \in Reps
    BY Constants DEF Reps
  <2>4. Limit[u][RepMax].calls \in Nat
    BY <2>3, Allowance
  <2>5. QED
    BY <2>2, <2>4, FS_EmptySet
<1>2. ASSUME Ledger, NobodyOverspends, [Next]_vars
      PROVE  NobodyOverspends'
  <2>1. SUFFICES ASSUME NEW u \in Users, NEW d \in Days
                 PROVE  Cardinality(Charged(u, d)') <= Limit[u][RepMax].calls
    BY DEF NobodyOverspends
  <2>2. Cardinality(Charged(u, d)) <= Limit[u][RepMax].calls
    BY <1>2 DEF NobodyOverspends
  <2>3. CASE Charged(u, d)' = Charged(u, d)
    BY <2>2, <2>3
  <2>4. ASSUME NEW r \in Requests, Spend(r), <<u, d>> = <<UserOf[r], on[r]>>
        PROVE  Cardinality(Charged(u, d)') <= Limit[u][RepMax].calls
    <3>1. u = UserOf[r] /\ d = on[r] /\ on' = on /\ seen[r] \in Reps
      BY <1>2, <2>4 DEF Spend, Ledger, TypeOK
    <3>2. /\ quota[u, d].exists /\ quota[u, d].calls < Limit[u][seen[r]].calls
      BY <2>4, <3>1 DEF Spend, MaySpend
    <3>3. quota[u, d].calls = Cardinality(Charged(u, d))
      BY <1>2, <3>2 DEF Ledger, CallsMatchCharges
    <3>4. /\ Charged(UserOf[r], on[r])' = Charged(UserOf[r], on[r]) \cup {r}
          /\ r \notin Charged(UserOf[r], on[r])
      BY <1>2, <2>4, SpendCharges
    <3>5. Charged(u, d)' = Charged(u, d) \cup {r} /\ r \notin Charged(u, d)
      BY <3>1, <3>4 DEF Charged
    <3>6. Cardinality(Charged(u, d)') = Cardinality(Charged(u, d)) + 1
      BY <3>5, ChargedFinite, FS_AddElement
    <3>7. /\ Limit[u][seen[r]].calls \in Nat /\ Limit[u][RepMax].calls \in Nat
          /\ Limit[u][seen[r]].calls <= Limit[u][RepMax].calls
          /\ Cardinality(Charged(u, d)) \in Nat
      BY <3>1, Allowance, ChargedFinite
    <3>8. Cardinality(Charged(u, d)) < Limit[u][seen[r]].calls
      BY <3>2, <3>3
    <3>9. QED
      BY <3>6, <3>7, <3>8
  <2>5. ASSUME NEW r \in Requests, Spend(r), <<u, d>> # <<UserOf[r], on[r]>>
        PROVE  Charged(u, d)' = Charged(u, d)
    BY <1>2, <2>5, SpendCharges
  <2>6. QED
    BY <1>2, <2>3, <2>4, <2>5, ChargesMove
<1>3. QED
  BY <1>1, <1>2, LedgerInvariant, PTL DEF Spec

\* addTokens books no more tokens for a user and day than the best reputation
\* allows, whichever rows it finds and however often a call gets there.
THEOREM TokensBounded == Spec => []TokensWithinLimit
<1>1. Init => TokensWithinLimit
  <2>1. SUFFICES ASSUME Init, NEW u \in Users, NEW d \in Days
                 PROVE  quota[u, d].tokens <= Limit[u][RepMax].tokens
    BY DEF TokensWithinLimit
  <2>2. quota[u, d].tokens = 0
    BY <2>1 DEF Init, NoRow
  <2>3. RepMax \in Reps
    BY Constants DEF Reps
  <2>4. PICK m \in Nat : m = Limit[u][RepMax].tokens
    BY <2>3, Allowance
  <2>5. 0 <= m
    OBVIOUS
  <2>6. QED
    BY <2>2, <2>4, <2>5
<1>2. ASSUME Ledger, TokensWithinLimit, [Next]_vars
      PROVE  TokensWithinLimit'
  <2>1. SUFFICES ASSUME NEW u \in Users, NEW d \in Days
                 PROVE  quota'[u, d].tokens <= Limit[u][RepMax].tokens
    BY DEF TokensWithinLimit
  <2>2. /\ quota[u, d].tokens <= Limit[u][RepMax].tokens
        /\ <<u, d>> \in Users \X Days /\ quota[u, d] \in QuotaRow
        /\ quota \in [Users \X Days -> QuotaRow]
    BY <1>2 DEF TokensWithinLimit, Ledger, TypeOK
  <2>3. CASE quota' = quota
    BY <2>2, <2>3
  <2>4. ASSUME NEW r \in Requests, InsertRow(r)
        PROVE  quota'[u, d].tokens = quota[u, d].tokens
    BY <2>2, <2>4 DEF InsertRow, QuotaRow
  <2>5. ASSUME NEW r \in Requests, Spend(r)
        PROVE  quota'[u, d].tokens = quota[u, d].tokens
    BY <2>2, <2>5 DEF Spend, QuotaRow
  <2>6. ASSUME NEW r \in Requests, AddTokens(r)
        PROVE  quota'[u, d].tokens <= Limit[u][RepMax].tokens
    <3>1. PICK n \in TokenUse :
            \/ /\ TokensFit(UserOf[r], day, seen[r], n)
               /\ quota' = [quota EXCEPT ![<<UserOf[r], day>>].tokens = @ + n]
            \/ quota' = quota
      BY <2>6 DEF AddTokens
    <3>2. UserOf[r] \in Users /\ day \in Days /\ seen[r] \in Reps
      BY <1>2, Constants DEF Ledger, TypeOK
    <3>3. CASE quota' = quota
      BY <2>2, <3>3
    <3>4. CASE /\ TokensFit(UserOf[r], day, seen[r], n)
               /\ quota' = [quota EXCEPT ![<<UserOf[r], day>>].tokens = @ + n]
      <4>1. CASE <<u, d>> = <<UserOf[r], day>>
        <5>1. u = UserOf[r] /\ d = day
          BY <4>1
        <5>2. quota'[u, d].tokens = quota[u, d].tokens + n
          BY <2>2, <3>4, <5>1 DEF QuotaRow
        <5>3. quota[u, d].tokens + n <= Limit[u][seen[r]].tokens
          BY <3>4, <5>1 DEF TokensFit
        <5>4. /\ Limit[u][seen[r]].tokens <= Limit[u][RepMax].tokens
              /\ Limit[u][seen[r]].tokens \in Nat
              /\ Limit[u][RepMax].tokens \in Nat
          BY <3>2, Allowance
        <5>5. quota[u, d].tokens \in Int
          BY <2>2 DEF QuotaRow
        <5>6. PICK t \in Int, x \in Nat, m \in Nat :
                 /\ t = quota[u, d].tokens
                 /\ x = Limit[u][seen[r]].tokens
                 /\ m = Limit[u][RepMax].tokens
          BY <5>4, <5>5
        <5>7. n \in Int
          BY Constants
        <5>8. t + n <= x /\ x <= m
          BY <5>3, <5>4, <5>6
        <5>9. t + n <= m
          BY <5>7, <5>8
        <5>10. QED
          BY <5>2, <5>6, <5>9
      <4>2. CASE <<u, d>> # <<UserOf[r], day>>
        <5>1. quota'[u, d] = quota[u, d]
          BY <2>2, <3>4, <4>2
        <5>2. QED
          BY <2>2, <5>1
      <4>3. QED
        BY <4>1, <4>2
    <3>5. QED
      BY <3>1, <3>3, <3>4
  <2>7. ASSUME NEW k \in Crons, CronPurge(k)
        PROVE  quota'[u, d].tokens <= Limit[u][RepMax].tokens
    <3>1. quota'[u, d] = NoRow \/ quota'[u, d] = quota[u, d]
      BY <2>7 DEF CronPurge
    <3>2. RepMax \in Reps
      BY Constants DEF Reps
    <3>3. NoRow.tokens <= Limit[u][RepMax].tokens
      BY <3>2, Allowance DEF NoRow
    <3>4. QED
      BY <2>2, <3>1, <3>3
  <2>8. ASSUME NEW r \in Requests, Handle(r) \/ Dies(r),
               ~InsertRow(r), ~Spend(r), ~AddTokens(r)
        PROVE  quota' = quota
    BY <2>8 DEF Handle, Dies, Authenticate, Refuse, Classify, RejectSubmit,
       Penalize, LogPenalty, EndCall, quotaVars
  <2>9. ASSUME NEW k \in Crons, CronWorks(k) \/ CronAborts(k), ~CronPurge(k)
        PROVE  quota' = quota
    BY <2>9 DEF CronWorks, CronDaily, CronSelect, CronBonus, CronEnds,
       CronAborts, quotaVars
  <2>10. NextDay \/ UNCHANGED vars => quota' = quota
    BY DEF NextDay, vars, quotaVars
  <2>11. QED
    BY <1>2, <2>2, <2>3, <2>4, <2>5, <2>6, <2>7, <2>8, <2>9, <2>10 DEF Next
<1>3. QED
  BY <1>1, <1>2, LedgerInvariant, PTL DEF Spec

----------------------------------------------------------------------------
(* Reputation. *)

\* With runs that do not overlap, nobody outgrows GoodRep between being
\* selected for the bonus and receiving it.
Candidates ==
    \A k \in Crons, u \in Users :
        cpc[k] = "bonus" /\ u \in good[k] => reputation[u] <= GoodRep

LEMMA Numbers ==
    ASSUME NEW a \in Reps, NEW cap \in Reps, NEW n \in Nat, a <= cap
    PROVE  a <= AtMost(a + n, cap) /\ AtMost(a + n, cap) <= cap
BY Constants DEF Reps, AtMost

LEMMA PenaltyLowers ==
    ASSUME NEW a \in Reps, NEW n \in Nat
    PROVE  Clamp(a - n) <= a
BY Constants DEF Reps, Clamp

LEMMA CandidatesStep ==
    ASSUME \A j, k \in Crons : j = k, TypeOK, Candidates, [Next]_vars
    PROVE  Candidates'
<1> USE DEF quotaVars, reqVars, cronVars
<1>0. TypeOK'
  BY StepKeepsTypes
<1>1. SUFFICES ASSUME NEW k \in Crons, NEW u \in Users,
                      cpc'[k] = "bonus", u \in good'[k]
               PROVE  reputation'[u] <= GoodRep
  BY DEF Candidates
<1>2. ASSUME NEW r \in Requests, Penalize(r)
      PROVE  reputation'[u] <= GoodRep
  <2>1. reputation[u] <= GoodRep
    BY <1>1, <1>2 DEF Penalize, Candidates
  <2>2. UserOf[r] \in Users /\ reputation \in [Users -> Reps]
        /\ kind[r] \in Kinds
    BY <1>2, Constants DEF TypeOK, Penalize
  <2>3. /\ Penalty[kind[r]] \in Nat /\ reputation[u] \in Reps
        /\ GoodRep \in Reps
    BY <2>2, Constants
  <2>4. CASE u = UserOf[r]
    <3>1. reputation'[u] = Clamp(reputation[u] - Penalty[kind[r]])
      BY <1>2, <2>2, <2>4 DEF Penalize
    <3>2. Clamp(reputation[u] - Penalty[kind[r]]) <= reputation[u]
      BY <2>3, PenaltyLowers
    <3>3. reputation'[u] <= reputation[u] /\ reputation'[u] \in Reps
      BY <1>0, <3>1, <3>2 DEF TypeOK
    <3>4. QED
      BY <2>1, <2>3, <3>3 DEF Reps
  <2>5. CASE u # UserOf[r]
    BY <1>2, <2>1, <2>2, <2>5 DEF Penalize
  <2>6. QED
    BY <2>4, <2>5
<1>3. ASSUME NEW r \in Requests, Handle(r) \/ Dies(r), ~Penalize(r)
      PROVE  reputation'[u] <= GoodRep
  <2>1. reputation' = reputation /\ cpc' = cpc /\ good' = good
    BY <1>3 DEF Handle, Dies, Authenticate, InsertRow, Spend, Refuse, Classify,
       RejectSubmit, LogPenalty, AddTokens, EndCall
  <2>2. QED
    BY <1>1, <2>1 DEF Candidates
<1>4. ASSUME NEW j \in Crons, CronWorks(j) \/ CronAborts(j)
      PROVE  reputation'[u] <= GoodRep
  <2>1. j = k
    BY <1>4
  <2>2. CASE CronPurge(j) \/ CronDaily(j) \/ CronEnds(j) \/ CronAborts(j)
    <3>1. cpc'[k] \in {"daily", "select", "idle"}
      BY <2>1, <2>2 DEF CronPurge, CronDaily, CronEnds, CronAborts, TypeOK
    <3>2. QED
      BY <1>1, <3>1
  <2>3. CASE CronSelect(j)
    <3>1. u \in GoodStanding /\ reputation'[u] = reputation[u]
      BY <1>1, <2>1, <2>3 DEF CronSelect, TypeOK
    <3>2. reputation[u] < GoodRep
      BY <3>1 DEF GoodStanding
    <3>3. reputation[u] \in Reps /\ GoodRep \in Reps
      BY Constants DEF TypeOK
    <3>4. QED
      BY <3>1, <3>2, <3>3 DEF Reps
  <2>4. CASE CronBonus(j)
    <3>1. PICK v \in good[k] :
            /\ reputation' =
                  [reputation EXCEPT ![v] = AtMost(@ + GoodBonus, GoodRep)]
            /\ good' = [good EXCEPT ![k] = @ \ {v}]
      BY <2>1, <2>4 DEF CronBonus
    <3>2. u # v /\ u \in good[k]
      BY <1>1, <3>1 DEF TypeOK
    <3>3. reputation'[u] = reputation[u]
      BY <3>1, <3>2 DEF TypeOK
    <3>4. cpc[k] = "bonus"
      BY <2>1, <2>4 DEF CronBonus
    <3>5. QED
      BY <3>2, <3>3, <3>4 DEF Candidates
  <2>5. QED
    BY <1>4, <2>2, <2>3, <2>4 DEF CronWorks
<1>5. ASSUME NextDay \/ UNCHANGED vars
      PROVE  reputation'[u] <= GoodRep
  <2>1. reputation' = reputation /\ cpc' = cpc /\ good' = good
    BY <1>5 DEF NextDay, vars
  <2>2. QED
    BY <1>1, <2>1 DEF Candidates
<1>6. QED
  BY <1>2, <1>3, <1>4, <1>5 DEF Next

LEMMA OnlyPenaltiesStep ==
    ASSUME \A j, k \in Crons : j = k, TypeOK, Candidates, [Next]_vars,
           NEW u \in Users, reputation'[u] < reputation[u]
    PROVE  \E r \in Requests : UserOf[r] = u /\ Penalize(r)
<1> USE DEF quotaVars, reqVars, cronVars
<1>0. /\ reputation[u] \in Reps /\ reputation \in [Users -> Reps]
      /\ RepMax \in Reps /\ GoodRep \in Reps
      /\ ~(reputation[u] < reputation[u]) /\ reputation[u] <= RepMax
  BY Constants DEF TypeOK, Reps
<1>1. ASSUME NEW r \in Requests, Penalize(r)
      PROVE  UserOf[r] = u
  <2>1. UserOf[r] # u => reputation'[u] = reputation[u]
    BY <1>0, <1>1 DEF Penalize
  <2>2. QED
    BY <1>0, <2>1
<1>2. ASSUME NEW r \in Requests, Handle(r) \/ Dies(r), ~Penalize(r)
      PROVE  FALSE
  <2>1. reputation' = reputation
    BY <1>2 DEF Handle, Dies, Authenticate, InsertRow, Spend, Refuse, Classify,
       RejectSubmit, LogPenalty, AddTokens, EndCall
  <2>2. QED
    BY <1>0, <2>1
<1>3. ASSUME NEW k \in Crons, CronWorks(k) \/ CronAborts(k)
      PROVE  FALSE
  <2>1. CASE CronDaily(k)
    <3>1. reputation'[u] = AtMost(reputation[u] + Daily, RepMax)
      BY <2>1 DEF CronDaily
    <3>2. reputation[u] <= AtMost(reputation[u] + Daily, RepMax)
      BY <1>0, Numbers, Constants
    <3>3. reputation[u] + Daily \in Nat
      BY <1>0, Constants DEF Reps
    <3>4. AtMost(reputation[u] + Daily, RepMax) \in Reps
      BY <1>0, <3>3, AtMostInRange
    <3>5. reputation'[u] \in Reps /\ reputation[u] <= reputation'[u]
      BY <3>1, <3>2, <3>4
    <3>6. QED
      BY <1>0, <3>5 DEF Reps
  <2>2. CASE CronBonus(k)
    <3>1. PICK v \in good[k] :
             reputation' =
                [reputation EXCEPT ![v] = AtMost(@ + GoodBonus, GoodRep)]
      BY <2>2 DEF CronBonus
    <3>2. u = v
      BY <1>0, <3>1
    <3>3. reputation[u] <= GoodRep
      BY <2>2, <3>1, <3>2 DEF CronBonus, Candidates
    <3>4. reputation'[u] = AtMost(reputation[u] + GoodBonus, GoodRep)
      BY <1>0, <3>1, <3>2
    <3>5. reputation[u] <= AtMost(reputation[u] + GoodBonus, GoodRep)
      BY <1>0, <3>3, Numbers, Constants
    <3>6. reputation[u] + GoodBonus \in Nat
      BY <1>0, Constants DEF Reps
    <3>7. AtMost(reputation[u] + GoodBonus, GoodRep) \in Reps
      BY <1>0, <3>6, AtMostInRange
    <3>8. reputation'[u] \in Reps /\ reputation[u] <= reputation'[u]
      BY <3>4, <3>5, <3>7
    <3>9. QED
      BY <1>0, <3>8 DEF Reps
  <2>3. CASE CronPurge(k) \/ CronSelect(k) \/ CronEnds(k) \/ CronAborts(k)
    <3>1. reputation' = reputation
      BY <2>3 DEF CronPurge, CronSelect, CronEnds, CronAborts
    <3>2. QED
      BY <1>0, <3>1
  <2>4. QED
    BY <1>3, <2>1, <2>2, <2>3 DEF CronWorks
<1>4. ASSUME NextDay \/ UNCHANGED vars
      PROVE  FALSE
  <2>1. reputation' = reputation
    BY <1>4 DEF NextDay, vars
  <2>2. QED
    BY <1>0, <2>1
<1>5. QED
  BY <1>1, <1>2, <1>3, <1>4 DEF Next

\* If cron runs do not overlap, only penalize lowers a reputation: neither the
\* daily reward nor the capped bonus takes anything away, although users are
\* selected in one statement and rewarded in later ones.
THEOREM OnlyPenaltiesLower ==
    ASSUME \A j, k \in Crons : j = k
    PROVE  Spec => OnlyPenaltiesCost
<1>1. Init => Candidates
  BY DEF Init, Candidates
<1>2. TypeOK /\ Candidates /\ [Next]_vars => Candidates'
  BY CandidatesStep
<1>3. TypeOK /\ Candidates /\ [Next]_vars
        => [\A u \in Users : reputation'[u] < reputation[u]
              => \E r \in Requests : UserOf[r] = u /\ Penalize(r)]_vars
  BY OnlyPenaltiesStep
<1>4. QED
  BY <1>1, <1>2, <1>3, TypeCorrect, PTL DEF Spec, OnlyPenaltiesCost

----------------------------------------------------------------------------
(* Quota implements CallGuard. *)

\* A submission never reaches the guard of the calls.
SubmitsApart ==
    \A r \in Submits :
        pc[r] \notin {"insert", "spend", "admitted", "done", "classify"}

SpentBy == [x \in Users \X Days |-> Cardinality(Charged(x[1], x[2]))]
StageBy == [r \in GatewayCalls |-> StageOf(pc[r])]
RepBy   == [r \in GatewayCalls |-> seen[r]]
DateBy  == [r \in GatewayCalls |-> on[r]]

GuardStep == [Guard!Next]_<<day, SpentBy, StageBy, RepBy, DateBy>>

LEMMA SubmitsStayApart ==
    ASSUME TypeOK, SubmitsApart, [Next]_vars
    PROVE  SubmitsApart'
<1> USE Constants DEF TypeOK, Goto
<1>1. ASSUME NEW r \in Requests, Handle(r) \/ Dies(r)
      PROVE  SubmitsApart'
  <2>1. SUFFICES ASSUME NEW x \in Submits
                 PROVE  pc'[x] \notin {"insert", "spend", "admitted", "done",
                                       "classify"}
    BY QuotaAssumption DEF SubmitsApart
  <2>2. /\ x \in Requests
        /\ pc[x] \notin {"insert", "spend", "admitted", "done", "classify"}
    BY QuotaAssumption DEF SubmitsApart
  <2>3. CASE x # r
    <3>1. pc'[x] = pc[x]
      BY <1>1, <2>2, <2>3 DEF Handle, Dies, Authenticate, InsertRow, Spend,
         Refuse, Classify, RejectSubmit, Penalize, LogPenalty, AddTokens,
         EndCall, reqVars
    <3>2. QED
      BY <2>2, <3>1
  <2>4. CASE x = r
    <3>1. RejectSubmit(r) \/ Penalize(r) \/ LogPenalty(r) \/ Dies(r)
      BY <1>1, <2>1, <2>2, <2>4 DEF Handle, Authenticate, InsertRow, Spend,
         Refuse, Classify, AddTokens, EndCall
    <3>2. pc'[x] \in {"penalize", "penlog", "refused", "dead"}
      BY <2>2, <2>4, <3>1 DEF RejectSubmit, Penalize, LogPenalty, Dies
    <3>3. QED
      BY <3>2
  <2>5. QED
    BY <2>3, <2>4
<1>2. ASSUME NEW k \in Crons, CronWorks(k) \/ CronAborts(k)
      PROVE  pc' = pc
  BY <1>2 DEF CronWorks, CronPurge, CronDaily, CronSelect, CronBonus, CronEnds,
     CronAborts, reqVars
<1>3. ASSUME NextDay \/ UNCHANGED vars
      PROVE  pc' = pc
  BY <1>3 DEF NextDay, vars, reqVars
<1>4. QED
  BY <1>1, <1>2, <1>3 DEF Next, SubmitsApart

LEMMA Stages ==
    /\ StageOf("start") = "new" /\ StageOf("insert") = "entered"
    /\ StageOf("spend") = "dated" /\ StageOf("admitted") = "admitted"
    /\ StageOf("done") = "admitted" /\ StageOf("classify") = "refused"
    /\ StageOf("penalize") = "refused" /\ StageOf("penlog") = "refused"
    /\ StageOf("refused") = "refused" /\ StageOf("dead") = "gone"
BY DEF StageOf, Turned

LEMMA StageMoves ==
    ASSUME TypeOK, NEW r \in GatewayCalls, NEW p, pc' = [pc EXCEPT ![r] = p]
    PROVE  StageBy' = [StageBy EXCEPT ![r] = StageOf(p)]
<1>1. \A q \in GatewayCalls : pc'[q] = IF q = r THEN p ELSE pc[q]
  BY DEF GatewayCalls, TypeOK
<1>2. \A q \in GatewayCalls : StageOf(pc'[q])
                                = IF q = r THEN StageOf(p) ELSE StageOf(pc[q])
  BY <1>1
<1>3. QED
  BY <1>2 DEF StageBy

LEMMA StageStays ==
    ASSUME TypeOK, NEW r \in Requests, NEW p, pc' = [pc EXCEPT ![r] = p],
           r \in Submits \/ StageOf(p) = StageOf(pc[r])
    PROVE  StageBy' = StageBy
<1>1. ASSUME NEW q \in GatewayCalls
      PROVE  StageOf(pc'[q]) = StageOf(pc[q])
  BY DEF GatewayCalls, TypeOK
<1>2. QED
  BY <1>1 DEF StageBy

LEMMA SpentStays ==
    ASSUME \A u, d : Charged(u, d)' = Charged(u, d)
    PROVE  SpentBy' = SpentBy
BY DEF SpentBy

\* The row the UPDATE of spendCall finds says what the ledger says.
LEMMA RowIsLedger ==
    ASSUME Ledger, NEW r \in GatewayCalls, pc[r] = "spend"
    PROVE  MaySpend(UserOf[r], on[r], seen[r])
              <=> SpentBy[UserOf[r], DateBy[r]]
                     < [u \in Users |-> [p \in Reps |-> Limit[u][p].calls]]
                           [UserOf[r]][RepBy[r]]
<1>1. /\ r \in Requests /\ UserOf[r] \in Users /\ on[r] \in Days
      /\ seen[r] \in Reps /\ <<UserOf[r], on[r]>> \in Users \X Days
  BY Constants DEF Ledger, TypeOK, GatewayCalls
<1>2. quota[UserOf[r], on[r]].exists
  BY <1>1 DEF Ledger, RowsInPlace
<1>3. quota[UserOf[r], on[r]].calls = Cardinality(Charged(UserOf[r], on[r]))
  BY <1>1, <1>2 DEF Ledger, CallsMatchCharges
<1>4. /\ SpentBy[UserOf[r], on[r]] = Cardinality(Charged(UserOf[r], on[r]))
      /\ DateBy[r] = on[r] /\ RepBy[r] = seen[r]
  BY <1>1 DEF SpentBy, DateBy, RepBy
<1>5. QED
  BY <1>1, <1>2, <1>3, <1>4 DEF MaySpend

LEMMA EnterRefines ==
    ASSUME TypeOK, NEW r \in Requests, Authenticate(r)
    PROVE  GuardStep
<1>1. /\ pc[r] = "start" /\ r \in GatewayCalls
      /\ seen' = [seen EXCEPT ![r] = reputation[UserOf[r]]]
      /\ pc' = [pc EXCEPT ![r] = "insert"] /\ on' = on /\ day' = day
  BY DEF Authenticate, Goto, GatewayCalls
<1>2. reputation[UserOf[r]] \in Reps
  BY Constants DEF TypeOK
<1>3. StageBy[r] = "new" /\ StageBy' = [StageBy EXCEPT ![r] = "entered"]
  <2>1. StageBy[r] = "new"
    BY <1>1, Stages DEF StageBy
  <2>2. StageBy' = [StageBy EXCEPT ![r] = StageOf("insert")]
    BY <1>1, StageMoves
  <2>3. QED
    BY <2>1, <2>2, Stages
<1>4. RepBy' = [RepBy EXCEPT ![r] = reputation[UserOf[r]]]
  BY <1>1 DEF RepBy, GatewayCalls, TypeOK
<1>5. SpentBy' = SpentBy /\ DateBy' = DateBy
  <2>1. \A u, d : Charged(u, d)' = Charged(u, d)
    BY <1>1 DEF Charged, TypeOK
  <2>2. QED
    BY <1>1, <2>1, SpentStays DEF DateBy
<1>6. Guard!Enter(r)
  BY <1>1, <1>2, <1>3, <1>4, <1>5
  DEF Guard!Enter, Guard!Move, StageBy, RepBy, SpentBy, DateBy
<1>7. QED
  BY <1>1, <1>6 DEF GuardStep, Guard!Next

LEMMA DateRefines ==
    ASSUME TypeOK, SubmitsApart, NEW r \in Requests, InsertRow(r)
    PROVE  GuardStep
<1>1. /\ pc[r] = "insert" /\ r \in GatewayCalls
      /\ on' = [on EXCEPT ![r] = day]
      /\ pc' = [pc EXCEPT ![r] = "spend"] /\ seen' = seen /\ day' = day
  BY DEF InsertRow, Goto, GatewayCalls, SubmitsApart
<1>2. StageBy[r] = "entered" /\ StageBy' = [StageBy EXCEPT ![r] = "dated"]
  <2>1. StageBy[r] = "entered"
    BY <1>1, Stages DEF StageBy
  <2>2. StageBy' = [StageBy EXCEPT ![r] = StageOf("spend")]
    BY <1>1, StageMoves
  <2>3. QED
    BY <2>1, <2>2, Stages
<1>3. DateBy' = [DateBy EXCEPT ![r] = day]
  BY <1>1 DEF DateBy, GatewayCalls, TypeOK
<1>4. SpentBy' = SpentBy /\ RepBy' = RepBy
  <2>1. \A u, d : Charged(u, d)' = Charged(u, d)
    BY <1>1 DEF Charged, TypeOK
  <2>2. QED
    BY <1>1, <2>1, SpentStays DEF RepBy
<1>5. Guard!Date(r)
  BY <1>1, <1>2, <1>3, <1>4
  DEF Guard!Date, Guard!Move, StageBy, RepBy, SpentBy, DateBy
<1>6. QED
  BY <1>1, <1>5 DEF GuardStep, Guard!Next

\* The decision: the counter of the row, which the purge may have taken away
\* and INSERT OR IGNORE brought back, stands for the ledger.
LEMMA AdmitRefines ==
    ASSUME Ledger, SubmitsApart, NEW r \in Requests, Spend(r)
    PROVE  GuardStep
<1>1. /\ pc[r] = "spend" /\ r \in GatewayCalls /\ TypeOK
      /\ MaySpend(UserOf[r], on[r], seen[r])
      /\ pc' = [pc EXCEPT ![r] = "admitted"]
      /\ seen' = seen /\ day' = day /\ on' = on
  BY DEF Spend, Goto, GatewayCalls, SubmitsApart, Ledger
<1>2. StageBy[r] = "dated" /\ StageBy' = [StageBy EXCEPT ![r] = "admitted"]
  <2>1. StageBy[r] = "dated"
    BY <1>1, Stages DEF StageBy
  <2>2. StageBy' = [StageBy EXCEPT ![r] = StageOf("admitted")]
    BY <1>1, StageMoves
  <2>3. QED
    BY <2>1, <2>2, Stages
<1>3. RepBy' = RepBy /\ DateBy' = DateBy /\ DateBy[r] = on[r]
  BY <1>1 DEF RepBy, DateBy
<1>4. SpentBy' = [SpentBy EXCEPT ![<<UserOf[r], DateBy[r]>>] = @ + 1]
  <2>1. /\ UserOf[r] \in Users /\ on[r] \in Days
        /\ <<UserOf[r], on[r]>> \in Users \X Days
    BY <1>1, Constants DEF TypeOK
  <2>2. ASSUME NEW u \in Users, NEW d \in Days
        PROVE  Cardinality(Charged(u, d)')
                  = IF <<u, d>> = <<UserOf[r], on[r]>>
                    THEN Cardinality(Charged(u, d)) + 1
                    ELSE Cardinality(Charged(u, d))
    <3>1. CASE <<u, d>> = <<UserOf[r], on[r]>>
      <4>1. u = UserOf[r] /\ d = on[r]
        BY <3>1
      <4>2. /\ Charged(UserOf[r], on[r])' = Charged(UserOf[r], on[r]) \cup {r}
            /\ r \notin Charged(UserOf[r], on[r])
        BY SpendCharges
      <4>3. Charged(u, d)' = Charged(u, d) \cup {r} /\ r \notin Charged(u, d)
        BY <1>1, <4>1, <4>2 DEF Charged
      <4>4. QED
        BY <3>1, <4>3, ChargedFinite, FS_AddElement
    <3>2. CASE <<u, d>> # <<UserOf[r], on[r]>>
      BY <3>2, SpendCharges
    <3>3. QED
      BY <3>1, <3>2
  <2>3. ASSUME NEW x \in Users \X Days
        PROVE  SpentBy'[x] = IF x = <<UserOf[r], on[r]>>
                             THEN SpentBy[x] + 1 ELSE SpentBy[x]
    <3>1. PICK u \in Users, d \in Days : x = <<u, d>>
      OBVIOUS
    <3>2. /\ SpentBy[x] = Cardinality(Charged(u, d))
          /\ SpentBy'[x] = Cardinality(Charged(u, d)')
      BY <3>1 DEF SpentBy
    <3>3. QED
      BY <2>2, <3>1, <3>2
  <2>4. QED
    BY <1>3, <2>1, <2>3 DEF SpentBy
<1>5. Guard!Left(r)
  BY <1>1, RowIsLedger DEF Guard!Left, SpentBy, DateBy, RepBy
<1>6. Guard!Admit(r)
  BY <1>1, <1>2, <1>3, <1>4, <1>5
  DEF Guard!Admit, Guard!Move, StageBy, RepBy, SpentBy, DateBy
<1>7. QED
  BY <1>1, <1>6 DEF GuardStep, Guard!Next

LEMMA RefuseRefines ==
    ASSUME Ledger, SubmitsApart, NEW r \in Requests, Refuse(r)
    PROVE  GuardStep
<1>1. /\ pc[r] = "spend" /\ r \in GatewayCalls /\ TypeOK
      /\ ~MaySpend(UserOf[r], on[r], seen[r])
      /\ pc' = [pc EXCEPT ![r] = "classify"]
      /\ seen' = seen /\ day' = day /\ on' = on
  BY DEF Refuse, Goto, GatewayCalls, SubmitsApart, Ledger
<1>2. StageBy[r] = "dated" /\ StageBy' = [StageBy EXCEPT ![r] = "refused"]
  <2>1. StageBy[r] = "dated"
    BY <1>1, Stages DEF StageBy
  <2>2. StageBy' = [StageBy EXCEPT ![r] = StageOf("classify")]
    BY <1>1, StageMoves
  <2>3. QED
    BY <2>1, <2>2, Stages
<1>3. SpentBy' = SpentBy /\ RepBy' = RepBy /\ DateBy' = DateBy
  <2>1. \A u, d : Charged(u, d)' = Charged(u, d)
    BY <1>1 DEF Charged, TypeOK
  <2>2. QED
    BY <1>1, <2>1, SpentStays DEF RepBy, DateBy
<1>4. ~Guard!Left(r)
  BY <1>1, RowIsLedger DEF Guard!Left, SpentBy, DateBy, RepBy
<1>5. Guard!Refuse(r)
  BY <1>1, <1>2, <1>3, <1>4
  DEF Guard!Refuse, Guard!Move, StageBy, RepBy, SpentBy, DateBy
<1>6. QED
  BY <1>1, <1>5 DEF GuardStep, Guard!Next

\* Everything else leaves the decisions and the ledger alone, or loses a call.
LEMMA SilentRefines ==
    ASSUME TypeOK, NEW r \in Requests,
           \/ Classify(r) \/ RejectSubmit(r) \/ Penalize(r) \/ LogPenalty(r)
           \/ EndCall(r) \/ AddTokens(r)
    PROVE  UNCHANGED <<day, SpentBy, StageBy, RepBy, DateBy>>
<1>1. day' = day /\ seen' = seen /\ on' = on
  BY DEF Classify, RejectSubmit, Penalize, LogPenalty, EndCall, AddTokens,
     reqVars
<1>2. StageBy' = StageBy
  <2>1. CASE AddTokens(r)
    BY <2>1 DEF AddTokens, reqVars, StageBy
  <2>2. CASE RejectSubmit(r)
    BY <2>2, StageStays DEF RejectSubmit, Goto
  <2>3. CASE EndCall(r)
    <3>1. pc[r] = "admitted" /\ pc' = [pc EXCEPT ![r] = "done"]
      BY <2>3 DEF EndCall, Goto
    <3>2. StageOf("done") = StageOf(pc[r])
      BY <3>1, Stages
    <3>3. QED
      BY <3>1, <3>2, StageStays
  <2>4. ASSUME NEW p \in {"penalize", "penlog", "refused"},
               pc' = [pc EXCEPT ![r] = p],
               pc[r] \in {"classify", "penalize", "penlog"}
        PROVE  StageBy' = StageBy
    <3>1. StageOf(p) = StageOf(pc[r])
      BY <2>4, Stages
    <3>2. QED
      BY <2>4, <3>1, StageStays
  <2>5. CASE Classify(r)
    BY <2>4, <2>5 DEF Classify, Goto
  <2>6. CASE Penalize(r)
    BY <2>4, <2>6 DEF Penalize, Goto
  <2>7. CASE LogPenalty(r)
    BY <2>4, <2>7 DEF LogPenalty, Goto
  <2>8. QED
    BY <2>1, <2>2, <2>3, <2>5, <2>6, <2>7
<1>3. SpentBy' = SpentBy
  <2>1. Quiet
    BY QuietSteps, AddTokensIsQuiet
  <2>2. \A u, d : Charged(u, d)' = Charged(u, d)
    BY <2>1 DEF Charged, Quiet, Passed
  <2>3. QED
    BY <2>2, SpentStays
<1>4. QED
  BY <1>1, <1>2, <1>3 DEF RepBy, DateBy

LEMMA VanishRefines ==
    ASSUME TypeOK, NEW r \in Requests, Dies(r)
    PROVE  GuardStep
<1>1. /\ pc[r] \in {"insert", "spend", "classify", "penalize", "penlog"}
      /\ pc' = [pc EXCEPT ![r] = "dead"]
      /\ day' = day /\ seen' = seen /\ on' = on
  BY DEF Dies, Goto
<1>2. SpentBy' = SpentBy /\ RepBy' = RepBy /\ DateBy' = DateBy
  <2>1. Quiet
    BY QuietSteps
  <2>2. \A u, d : Charged(u, d)' = Charged(u, d)
    BY <2>1 DEF Charged, Quiet, Passed
  <2>3. QED
    BY <1>1, <2>2, SpentStays DEF RepBy, DateBy
<1>3. CASE r \in Submits
  <2>1. StageBy' = StageBy
    BY <1>1, <1>3, StageStays
  <2>2. QED
    BY <1>1, <1>2, <2>1 DEF GuardStep
<1>4. CASE r \in GatewayCalls
  <2>1. StageBy' = [StageBy EXCEPT ![r] = StageOf("dead")]
    BY <1>1, <1>4, StageMoves
  <2>2. StageBy[r] \in {"entered", "dated", "refused"}
    BY <1>1, <1>4, Stages DEF StageBy
  <2>3. StageBy' = [StageBy EXCEPT ![r] = "gone"]
    BY <2>1, Stages
  <2>4. Guard!Vanish(r)
    BY <1>1, <1>2, <2>2, <2>3
    DEF Guard!Vanish, Guard!Move, StageBy, RepBy, SpentBy, DateBy
  <2>5. QED
    BY <1>4, <2>4 DEF GuardStep, Guard!Next
<1>5. QED
  BY <1>3, <1>4 DEF GatewayCalls

LEMMA ClockRefines ==
    ASSUME pc' = pc, seen' = seen, on' = on, day' = day \/ NextDay
    PROVE  GuardStep
<1>1. /\ SpentBy' = SpentBy /\ StageBy' = StageBy
      /\ RepBy' = RepBy /\ DateBy' = DateBy
  <2>1. \A u, d : Charged(u, d)' = Charged(u, d)
    BY DEF Charged
  <2>2. QED
    BY <2>1, SpentStays DEF StageBy, RepBy, DateBy
<1>2. CASE day' = day
  BY <1>1, <1>2 DEF GuardStep
<1>3. CASE NextDay
  <2>1. Guard!Midnight
    BY <1>1, <1>3
    DEF NextDay, Guard!Midnight, StageBy, RepBy, SpentBy, DateBy
  <2>2. QED
    BY <2>1 DEF GuardStep, Guard!Next
<1>4. QED
  BY <1>2, <1>3

LEMMA StepRefines ==
    ASSUME Ledger, SubmitsApart, [Next]_vars
    PROVE  GuardStep
<1>1. TypeOK
  BY DEF Ledger
<1>2. ASSUME NEW r \in Requests, Handle(r) \/ Dies(r)
      PROVE  GuardStep
  <2>1. CASE Authenticate(r)
    BY <1>1, <2>1, EnterRefines
  <2>2. CASE InsertRow(r)
    BY <1>1, <2>2, DateRefines
  <2>3. CASE Spend(r)
    BY <2>3, AdmitRefines
  <2>4. CASE Refuse(r)
    BY <2>4, RefuseRefines
  <2>5. CASE \/ Classify(r) \/ RejectSubmit(r) \/ Penalize(r) \/ LogPenalty(r)
             \/ EndCall(r) \/ AddTokens(r)
    BY <1>1, <2>5, SilentRefines DEF GuardStep
  <2>6. CASE Dies(r)
    BY <1>1, <2>6, VanishRefines
  <2>7. QED
    BY <1>2, <2>1, <2>2, <2>3, <2>4, <2>5, <2>6 DEF Handle
<1>3. ASSUME NEW k \in Crons, CronWorks(k) \/ CronAborts(k)
      PROVE  GuardStep
  <2>1. pc' = pc /\ seen' = seen /\ on' = on /\ day' = day
    BY <1>3 DEF CronWorks, CronPurge, CronDaily, CronSelect, CronBonus,
       CronEnds, CronAborts, reqVars
  <2>2. QED
    BY <2>1, ClockRefines
<1>4. ASSUME NextDay \/ UNCHANGED vars
      PROVE  GuardStep
  <2>1. pc' = pc /\ seen' = seen /\ on' = on /\ (day' = day \/ NextDay)
    BY <1>4 DEF NextDay, vars, reqVars
  <2>2. QED
    BY <2>1, ClockRefines
<1>5. QED
  BY <1>2, <1>3, <1>4 DEF Next

LEMMA InitRefines == Init => Guard!Init /\ SubmitsApart
<1>1. SUFFICES ASSUME Init PROVE Guard!Init /\ SubmitsApart
  OBVIOUS
<1>2. ASSUME NEW x \in Users \X Days
      PROVE  Cardinality(Charged(x[1], x[2])) = 0
  <2>1. Charged(x[1], x[2]) = {}
    BY <1>1 DEF Init, Charged
  <2>2. QED
    BY <2>1, FS_EmptySet
<1>3. [x \in Users \X Days |-> Cardinality(Charged(x[1], x[2]))]
         = [x \in Users \X Days |-> 0]
  BY <1>2
<1>4. [r \in GatewayCalls |-> StageOf(pc[r])] = [r \in GatewayCalls |-> "new"]
  BY <1>1, Stages DEF Init, GatewayCalls
<1>5. /\ day = 0
      /\ [r \in GatewayCalls |-> seen[r]] = [r \in GatewayCalls |-> 0]
      /\ [r \in GatewayCalls |-> on[r]] = [r \in GatewayCalls |-> 0]
  BY <1>1 DEF Init, GatewayCalls
<1>6. SubmitsApart
  BY <1>1, QuotaAssumption DEF Init, SubmitsApart
<1>7. QED
  BY <1>3, <1>4, <1>5, <1>6 DEF Guard!Init

\* The quota guard of the code, an INSERT OR IGNORE and a conditional UPDATE on
\* a table that is purged, decides every call like one indivisible step on a
\* ledger that is never purged, whatever interleaves and wherever requests die.
THEOREM GuardIsAtomic == Spec => ImplementsGuard
<1>1. Spec => []SubmitsApart
  <2>1. TypeOK /\ SubmitsApart /\ [Next]_vars => SubmitsApart'
    BY SubmitsStayApart
  <2>2. QED
    BY <2>1, InitRefines, TypeCorrect, PTL DEF Spec
<1>2. Ledger /\ SubmitsApart /\ [Next]_vars => GuardStep
  BY StepRefines
<1>3. QED
  BY <1>1, <1>2, InitRefines, LedgerInvariant, PTL
  DEF Spec, ImplementsGuard, Guard!Spec, Guard!guardVars, GuardStep, SpentBy,
      StageBy, RepBy, DateBy

=============================================================================
