--------------------------- MODULE AccountsProofs ---------------------------
(***************************************************************************)
(* Theorems about Accounts for all values of the constants: any users,     *)
(* requests, counters and limits.  What a step makes of its request is     *)
(* shown once (StepShapes, Turns, TurnedTo), what it leaves alone in       *)
(* Frames; each property then has an invariant of its own, which only the  *)
(* actions that touch its state can disturb.                               *)
(***************************************************************************)
EXTENDS Accounts, FiniteSetTheorems, TLAPS

Distinct(keys) == \A i, j \in DOMAIN keys : keys[i] = keys[j] => i = j

\* What a request looks like at each of its steps, whatever the others do.
Form(w) ==
    /\ w.pc = "idle" => w = Idle
    /\ w.op = "password" => w.pc \in {"update", "refresh", "fail", "note"}
    /\ w.pc \in {"update", "refresh"} => w.op = "password" /\ w.sid \in Sids
    /\ w.pc \in {"fail", "note"} => w.sid = NoSid
    /\ w.pc \in {"create", "log"} => w.op = "register"
    /\ w.pc \notin {"idle", "fail", "note"} => w.user \in Users
    /\ w.pc \in {"fail", "note", "reset"} => w.keys # <<>> /\ Distinct(w.keys)
    /\ w.pc = "open" => w.sid \in Sids /\ w.n \in Versions
    /\ w.pc = "refresh" => w.ver # 0
Forms == \A r \in Requests : Form(req[r])
Owned == \A s \in Sids : session[s].state = "open" => session[s].user \in Users

\* The same request, but for a change of the password noticed meanwhile.
Alike(v, w) ==
    /\ v.pc = w.pc /\ v.op = w.op /\ v.user = w.user /\ v.ver = w.ver
    /\ v.sid = w.sid /\ v.chal = w.chal /\ v.keys = w.keys /\ v.n = w.n

\* Moves of one request to X.
LEMMA Moves ==
    ASSUME TypeOK, Forms, NEW r \in Requests, NEW X \in ReqStates, Form(X),
           req' = [req EXCEPT ![r] = X]
    PROVE  /\ req' \in [Requests -> ReqStates] /\ Forms' /\ req'[r] = X
           /\ \A q \in Requests \ {r} : Alike(req'[q], req[q])
<1>1. req' \in [Requests -> ReqStates] /\ req'[r] = X
      /\ \A q \in Requests \ {r} : req'[q] = req[q]
  BY DEF TypeOK
<1>2. Forms'
  BY <1>1 DEF Forms
<1> QED
  BY <1>1, <1>2 DEF Alike

LEMMA IdleForm == Idle \in ReqStates /\ Form(Idle)
<1>1. <<>> \in Seq(Counters) /\ 0 \in Versions
  BY AccountsAssumption DEF Versions
<1> QED
  BY <1>1 DEF Idle, ReqStates, Form

LEMMA IdleIs ==
    /\ Idle.pc = "idle" /\ Idle.op = "" /\ Idle.user = "" /\ Idle.ver = 0
    /\ Idle.sid = NoSid /\ Idle.keys = <<>> /\ Idle.n = 0 /\ Idle.late = FALSE
BY DEF Idle

LEMMA Ends ==
    ASSUME TypeOK, Forms, NEW r \in Requests, End(r)
    PROVE  /\ req' \in [Requests -> ReqStates] /\ Forms' /\ req'[r] = Idle
           /\ \A q \in Requests \ {r} : Alike(req'[q], req[q])
BY IdleForm, Moves DEF End

\* The constants, as they are used.
LEMMA Bounds == MaxRegisters \in Nat /\ MaxFails \in Nat \ {0} /\ MaxVersion \in Nat \ {0}
BY AccountsAssumption

LEMMA Bump == \A n \in 0 .. MaxFails : n < MaxFails => n + 1 \in 0 .. MaxFails
BY Bounds

LEMMA Constants ==
    /\ 0 \in Versions /\ 1 \in Versions /\ NoSid \notin Sids
    /\ \A u \in Users : Keys[u] \in Seq(Counters) /\ Keys[u] # <<>> /\ Distinct(Keys[u])
    /\ TokenCounters \subseteq Counters
BY AccountsAssumption DEF Versions, Distinct

\* The rest of a sequence without repetitions.
LEMMA TailIsDistinct ==
    ASSUME NEW keys \in Seq(Counters), Distinct(keys), keys # <<>>
    PROVE  /\ Head(keys) \in Counters /\ Tail(keys) \in Seq(Counters)
           /\ Distinct(Tail(keys))
           /\ Len(keys) # 1 => Tail(keys) # <<>>
           /\ \A k \in Counters :
                 Among(k, Tail(keys)) <=> Among(k, keys) /\ k # Head(keys)
           /\ Among(Head(keys), keys)
<1>1. Len(keys) \in Nat \ {0} /\ Head(keys) = keys[1] /\ keys[1] \in Counters
  OBVIOUS
<1>2. /\ Tail(keys) \in Seq(Counters) /\ Len(Tail(keys)) = Len(keys) - 1
      /\ \A i \in 1 .. Len(keys) - 1 : Tail(keys)[i] = keys[i + 1]
      /\ DOMAIN Tail(keys) = 1 .. Len(keys) - 1 /\ DOMAIN keys = 1 .. Len(keys)
  OBVIOUS
<1>3. Distinct(Tail(keys))
  BY <1>1, <1>2 DEF Distinct
<1>4. Len(keys) # 1 => Tail(keys) # <<>>
  BY <1>1, <1>2
<1>5. ASSUME NEW k \in Counters
      PROVE  Among(k, Tail(keys)) <=> Among(k, keys) /\ k # Head(keys)
  <2>1. ASSUME NEW i \in DOMAIN Tail(keys), Tail(keys)[i] = k
        PROVE  Among(k, keys) /\ k # Head(keys)
    BY <1>1, <1>2, <2>1 DEF Among, Distinct
  <2>2. ASSUME NEW i \in DOMAIN keys, keys[i] = k, k # Head(keys)
        PROVE  Among(k, Tail(keys))
    <3>1. i - 1 \in DOMAIN Tail(keys) /\ Tail(keys)[i - 1] = k
      BY <1>1, <1>2, <2>2
    <3> QED
      BY <3>1 DEF Among
  <2> QED
    BY <2>1, <2>2 DEF Among
<1>6. Among(Head(keys), keys)
  BY <1>1, <1>2 DEF Among
<1> QED
  BY <1>1, <1>2, <1>3, <1>4, <1>5, <1>6

----------------------------------------------------------------------------
(* Types and forms.                                                        *)

Shaped(r) ==
    /\ req' \in [Requests -> ReqStates] /\ Forms'
    /\ \A q \in Requests \ {r} : Alike(req'[q], req[q])

LEMMA BeginShapes ==
    ASSUME TypeOK, Forms, Owned, NEW r \in Requests, Begin(r)
    PROVE  /\ Shaped(r) /\ req[r].pc = "idle"
           /\ req'[r].pc \in {"solve", "update", "fail"}
           /\ fails' \in [Counters -> 0 .. MaxFails] /\ raced' \in BOOLEAN
           /\ UNCHANGED <<store, spent, ended>>
<1>1. ASSUME NEW u \in Users, Register(r, u)
      PROVE  /\ Shaped(r) /\ req'[r].pc = "solve" /\ req[r].pc = "idle"
             /\ fails' = fails /\ raced' \in BOOLEAN
             /\ UNCHANGED <<store, spent, ended>>
  <2> DEFINE X == [Idle EXCEPT !.pc = "solve", !.op = "register", !.user = u]
  <2>1. X \in ReqStates /\ Form(X) /\ X.pc = "solve"
    BY IdleForm DEF Idle, ReqStates, Form
  <2>2. req' = [req EXCEPT ![r] = X]
    BY <1>1 DEF Register
  <2>3. raced' \in BOOLEAN
    BY <1>1 DEF Register, TypeOK
  <2> HIDE DEF X
  <2> QED
    BY <1>1, <2>1, <2>2, <2>3, Moves DEF Shaped, Register
<1>2. ASSUME NEW u \in Users, NEW v \in Versions, NEW s \in Sids \cup {NoSid},
             Login(r, u, v, s)
      PROVE  /\ Shaped(r) /\ req'[r].pc = "solve" /\ req[r].pc = "idle"
             /\ UNCHANGED <<store, ghosts>>
  <2> DEFINE X == [Idle EXCEPT !.pc = "solve", !.op = "login", !.user = u,
                               !.ver = v, !.sid = s]
  <2>1. X \in ReqStates /\ Form(X) /\ X.pc = "solve"
    BY IdleForm DEF Idle, ReqStates, Form
  <2>2. req' = [req EXCEPT ![r] = X]
    BY <1>2 DEF Login
  <2> HIDE DEF X
  <2> QED
    BY <1>2, <2>1, <2>2, Moves DEF Shaped, Login
<1>3. ASSUME NEW op \in {"login", "password", "call"}, NEW u \in Users \cup {""},
             NEW keys \in Seq(Counters), keys # <<>>, Distinct(keys),
             Failing(r, op, u, keys)
      PROVE  /\ Shaped(r) /\ req'[r].pc = "fail"
             /\ fails' \in [Counters -> 0 .. MaxFails]
  <2> DEFINE X == [Idle EXCEPT !.pc = "fail", !.op = op, !.user = u, !.keys = keys]
  <2>1. X \in ReqStates /\ X.pc = "fail"
    BY IdleForm DEF Idle, ReqStates
  <2>2. Form(X)
    BY <1>3 DEF Idle, Form
  <2>3. req' = [req EXCEPT ![r] = X]
    BY <1>3 DEF Failing
  <2>4. fails' \in [Counters -> 0 .. MaxFails]
    <3>1. \A k \in Counters : fails[k] \in 0 .. MaxFails
      BY DEF TypeOK
    <3>2. \A k \in Counters : fails[k] < MaxFails => fails[k] + 1 \in 0 .. MaxFails
      BY <3>1, Bump
    <3> QED
      BY <1>3, <3>1, <3>2 DEF Failing
  <2> HIDE DEF X
  <2> QED
    BY <2>1, <2>2, <2>3, <2>4, Moves DEF Shaped
<1>4. ASSUME NEW s \in Sids, Change(r, s)
      PROVE  /\ Shaped(r) /\ req'[r].pc \in {"update", "fail"} /\ req[r].pc = "idle"
             /\ fails' \in [Counters -> 0 .. MaxFails]
             /\ UNCHANGED <<store, spent, ended, raced>>
  <2> DEFINE u == session[s].user
             X == [Idle EXCEPT !.op = "password", !.user = u, !.sid = s,
                               !.ver = hash[u], !.pc = "update"]
  <2>1. u \in Users /\ hash[u] \in Versions
    BY <1>4 DEF Change, Accepted, Owned, TypeOK
  <2>2. \/ req' = [req EXCEPT ![r] = X] /\ UNCHANGED fails
        \/ Failing(r, "password", u, Keys[u])
    BY <1>4 DEF Change
  <2>3. /\ req[r].pc = "idle" /\ UNCHANGED <<store, spent, ended, raced>>
    BY <1>4 DEF Change
  <2>4. CASE Failing(r, "password", u, Keys[u])
    <3> HIDE DEF u
    <3> QED
      BY <1>3, <2>1, <2>3, <2>4, Constants
  <2>5. CASE req' = [req EXCEPT ![r] = X] /\ UNCHANGED fails
    <3> HIDE DEF u
    <3>1. X \in ReqStates /\ Form(X) /\ X.pc = "update"
      BY <2>1, IdleForm DEF Idle, ReqStates, Form
    <3>2. fails' \in [Counters -> 0 .. MaxFails]
      BY <2>5 DEF TypeOK
    <3> HIDE DEF X
    <3> QED
      BY <2>3, <2>5, <3>1, <3>2, Moves DEF Shaped
  <2> QED
    BY <2>2, <2>4, <2>5
<1>5. ASSUME Guess(r)
      PROVE  /\ Shaped(r) /\ req'[r].pc = "fail" /\ req[r].pc = "idle"
             /\ fails' \in [Counters -> 0 .. MaxFails]
             /\ UNCHANGED <<store, spent, ended, raced>>
  <2>1. PICK k \in TokenCounters : Failing(r, "call", "", <<k>>)
    BY <1>5 DEF Guess
  <2>2. <<k>> \in Seq(Counters) /\ <<k>> # <<>> /\ Distinct(<<k>>)
    BY Constants DEF Distinct
  <2> QED
    BY <1>3, <1>5, <2>1, <2>2 DEF Guess
<1>6. fails \in [Counters -> 0 .. MaxFails] /\ raced \in BOOLEAN
  BY DEF TypeOK
<1> QED
  BY <1>1, <1>2, <1>4, <1>5, <1>6 DEF Begin, ghosts

\* The steps of a request under way: what becomes of it.
LEMMA StepShapes ==
    ASSUME TypeOK, Forms, Owned, NEW r \in Requests, Step(r) \/ Dies(r)
    PROVE  Shaped(r)
<1> DEFINE w == req[r]
<1>1. w \in ReqStates /\ Form(w)
  BY DEF TypeOK, Forms
<1>2. ASSUME NEW X \in ReqStates, Form(X), req' = [req EXCEPT ![r] = X]
      PROVE  Shaped(r)
  BY <1>2, Moves DEF Shaped
<1>3. ASSUME End(r) PROVE Shaped(r)
  BY <1>3, Ends DEF Shaped
<1>4. CASE Solve(r)
  <2>1. ASSUME NEW p \in chal, w.pc = "solve",
               req' = [req EXCEPT ![r].pc = "spend", ![r].chal = {p}]
        PROVE  Shaped(r)
    <3> DEFINE X == [w EXCEPT !.pc = "spend", !.chal = {p}]
    <3>1. p \in Challenges
      BY DEF TypeOK
    <3>2. X \in ReqStates
      BY <1>1, <3>1 DEF ReqStates
    <3>3. Form(X)
      BY <1>1, <2>1 DEF ReqStates, Form
    <3>4. req' = [req EXCEPT ![r] = X]
      BY <2>1, <1>1 DEF TypeOK
    <3> HIDE DEF X
    <3> QED
      BY <1>2, <3>2, <3>3, <3>4
  <2> QED
    BY <1>3, <1>4, <2>1 DEF Solve
<1>5. CASE Spend(r)
  <2>1. ASSUME w.pc = "spend", req' = [req EXCEPT ![r].pc = "find", ![r].chal = {}]
        PROVE  Shaped(r)
    <3> DEFINE X == [w EXCEPT !.pc = "find", !.chal = {}]
    <3>1. X \in ReqStates
      BY <1>1 DEF ReqStates
    <3>2. Form(X)
      BY <1>1, <2>1 DEF ReqStates, Form
    <3>3. req' = [req EXCEPT ![r] = X]
      BY <2>1, <1>1 DEF TypeOK
    <3> HIDE DEF X
    <3> QED
      BY <1>2, <3>1, <3>2, <3>3
  <2> QED
    BY <1>3, <1>5, <2>1 DEF Spend
<1>6. ASSUME NEW a \in {"find", "log"}, NEW pc \in {"create", "read"},
             w.pc = a, a = "find" => w.op = "register", Goto(r, pc)
      PROVE  Shaped(r)
  <2> DEFINE X == [w EXCEPT !.pc = pc]
  <2>1. X \in ReqStates
    BY <1>1 DEF ReqStates
  <2>2. Form(X)
    BY <1>1, <1>6 DEF ReqStates, Form
  <2>3. req' = [req EXCEPT ![r] = X]
    BY <1>6 DEF Goto
  <2> HIDE DEF X
  <2> QED
    BY <1>2, <2>1, <2>2, <2>3
<1>7. CASE FindFree(r)
  BY <1>3, <1>6, <1>7 DEF FindFree
<1>8. CASE Log(r)
  BY <1>6, <1>8 DEF Log
<1>9. CASE Create(r)
  <2>1. ASSUME req' = [req EXCEPT ![r].pc = "log", ![r].ver = NextHash(0)], w.pc = "create"
        PROVE  Shaped(r)
    <3> DEFINE X == [w EXCEPT !.pc = "log", !.ver = 1]
    <3>1. X \in ReqStates
      BY <1>1, Constants DEF ReqStates
    <3>2. Form(X)
      BY <1>1, <2>1 DEF ReqStates, Form
    <3>3. req' = [req EXCEPT ![r] = X]
      <4>1. NextHash(0) = 1
        BY DEF NextHash
      <4> QED
        BY <2>1, <1>1, <4>1 DEF TypeOK
    <3> HIDE DEF X
    <3> QED
      BY <1>2, <3>1, <3>2, <3>3
  <2> QED
    BY <1>3, <1>9, <2>1 DEF Create
<1>10. CASE Token(r)
  BY <1>3, <1>10 DEF Token
<1>11. CASE Verify(r)
  <2>1. w.pc = "find" /\ w.op = "login" /\ w.user \in Users
    BY <1>1, <1>11 DEF Verify, Form
  <2>2. /\ Keys[w.user] \in Seq(Counters) /\ Keys[w.user] # <<>>
        /\ Distinct(Keys[w.user])
    BY <2>1, Constants
  <2>3. ASSUME req' = [req EXCEPT ![r].pc = "reset", ![r].keys = Keys[w.user]]
        PROVE  Shaped(r)
    <3> DEFINE X == [w EXCEPT !.pc = "reset", !.keys = Keys[w.user]]
    <3>1. X \in ReqStates
      BY <1>1, <2>2 DEF ReqStates
    <3>2. Form(X)
      BY <1>1, <2>1, <2>2 DEF ReqStates, Form
    <3>3. req' = [req EXCEPT ![r] = X]
      BY <2>3, <1>1 DEF TypeOK
    <3> HIDE DEF X
    <3> QED
      BY <1>2, <3>1, <3>2, <3>3
  <2>4. ASSUME Failing(r, "login", w.user, Keys[w.user]) PROVE Shaped(r)
    <3> DEFINE X == [Idle EXCEPT !.pc = "fail", !.op = "login", !.user = w.user,
                                 !.keys = Keys[w.user]]
    <3>1. X \in ReqStates
      BY <2>1, <2>2, IdleForm DEF Idle, ReqStates
    <3>2. Form(X)
      BY <2>2 DEF Idle, Form
    <3>3. req' = [req EXCEPT ![r] = X]
      BY <2>4 DEF Failing
    <3> HIDE DEF X
    <3> QED
      BY <1>2, <3>1, <3>2, <3>3
  <2> QED
    BY <1>11, <2>3, <2>4 DEF Verify
<1>12. CASE Fail(r)
  <2>1. w.pc = "fail" /\ w.keys \in Seq(Counters) /\ w.keys # <<>> /\ Distinct(w.keys)
    BY <1>1, <1>12 DEF Fail, Form, ReqStates
  <2> DEFINE X == [w EXCEPT !.pc = "note", !.n = count[Head(w.keys)]]
  <2>2. count[Head(w.keys)] \in 0 .. MaxFails
    BY <2>1, TailIsDistinct DEF TypeOK
  <2>3. X \in ReqStates
    BY <1>1, <2>2 DEF ReqStates
  <2>4. Form(X)
    BY <1>1, <2>1 DEF ReqStates, Form
  <2>5. req' = [req EXCEPT ![r] = X]
    BY <1>12, <1>1 DEF Fail, TypeOK
  <2> HIDE DEF X
  <2> QED
    BY <1>2, <2>3, <2>4, <2>5
<1>13. CASE Note(r)
  <2>1. w.pc = "note" /\ w.keys \in Seq(Counters) /\ w.keys # <<>> /\ Distinct(w.keys)
    BY <1>1, <1>13 DEF Note, Form, ReqStates
  <2>2. CASE Len(w.keys) = 1
    BY <1>3, <1>13, <2>2 DEF Note, Noted
  <2>3. CASE Len(w.keys) # 1
    <3> DEFINE X == [w EXCEPT !.pc = "fail", !.n = 0, !.keys = Tail(w.keys)]
    <3>1. /\ Tail(w.keys) \in Seq(Counters) /\ Tail(w.keys) # <<>>
          /\ Distinct(Tail(w.keys))
      BY <2>1, <2>3, TailIsDistinct
    <3> DEFINE K == Tail(w.keys)
    <3>2. X \in ReqStates
      <4>1. 0 \in Versions /\ K \in Seq(Counters)
        BY <3>1, Constants
      <4> HIDE DEF K
      <4>2. [w EXCEPT !.pc = "fail", !.n = 0, !.keys = K] \in ReqStates
        BY <1>1, <4>1 DEF ReqStates
      <4> QED
        BY <4>2 DEF K
    <3>3. Form(X)
      BY <1>1, <2>1, <3>1 DEF ReqStates, Form
    <3>4. req' = [req EXCEPT ![r] = X]
      BY <1>1, <1>13, <2>3 DEF Note, Noted, TypeOK
    <3> HIDE DEF X
    <3> QED
      BY <1>2, <3>2, <3>3, <3>4
  <2> QED
    BY <2>2, <2>3
<1>14. CASE Reset(r)
  <2>1. w.pc = "reset" /\ w.keys \in Seq(Counters) /\ w.keys # <<>> /\ Distinct(w.keys)
    BY <1>1, <1>14 DEF Reset, Form, ReqStates
  <2> DEFINE X == [w EXCEPT !.pc = IF Len(w.keys) = 1 THEN "destroy" ELSE "reset",
                            !.keys = Tail(w.keys)]
  <2>2. /\ Tail(w.keys) \in Seq(Counters) /\ Distinct(Tail(w.keys))
        /\ Len(w.keys) # 1 => Tail(w.keys) # <<>>
    BY <2>1, TailIsDistinct
  <2>3. X \in ReqStates
    BY <1>1, <2>2 DEF ReqStates
  <2>4. Form(X)
    BY <1>1, <2>1, <2>2 DEF ReqStates, Form
  <2>5. req' = [req EXCEPT ![r] = X]
    BY <1>1, <1>14, <2>1 DEF Reset, TypeOK
  <2> HIDE DEF X
  <2> QED
    BY <1>2, <2>3, <2>4, <2>5
<1>15. CASE Destroy(r)
  <2> DEFINE X == [w EXCEPT !.pc = "read", !.sid = NoSid]
  <2>1. X \in ReqStates
    BY <1>1 DEF ReqStates
  <2>2. Form(X)
    BY <1>1, <1>15 DEF ReqStates, Form, Destroy
  <2>3. req' = [req EXCEPT ![r] = X]
    BY <1>1, <1>15 DEF Destroy, TypeOK
  <2> HIDE DEF X
  <2> QED
    BY <1>2, <2>1, <2>2, <2>3
<1>16. CASE Read(r)
  <2>1. w.pc = "read" /\ w.user \in Users /\ hash[w.user] \in Versions
    BY <1>1, <1>16 DEF Read, Form, TypeOK
  <2>2. ASSUME NEW t \in Sids, req' = [req EXCEPT ![r].pc = "open", ![r].sid = t,
                                          ![r].n = Fingerprint(hash[w.user])]
        PROVE  Shaped(r)
    <3> DEFINE X == [w EXCEPT !.pc = "open", !.sid = t, !.n = hash[w.user]]
    <3>1. X \in ReqStates
      BY <1>1, <2>1 DEF ReqStates
    <3>2. Form(X)
      BY <1>1, <2>1 DEF ReqStates, Form
    <3>3. req' = [req EXCEPT ![r] = X]
      BY <2>2, <1>1 DEF TypeOK, Fingerprint
    <3> HIDE DEF X
    <3> QED
      BY <1>2, <3>1, <3>2, <3>3
  <2> QED
    BY <1>3, <1>16, <2>2 DEF Read
<1>17. CASE Open(r)
  <2>1. ASSUME Goto(r, "token"), w.pc = "open" PROVE Shaped(r)
    <3> DEFINE X == [w EXCEPT !.pc = "token"]
    <3>1. X \in ReqStates
      BY <1>1 DEF ReqStates
    <3>2. Form(X)
      BY <1>1, <2>1 DEF ReqStates, Form
    <3>3. req' = [req EXCEPT ![r] = X]
      BY <2>1 DEF Goto
    <3> HIDE DEF X
    <3> QED
      BY <1>2, <3>1, <3>2, <3>3
  <2> QED
    BY <1>3, <1>17, <2>1 DEF Open
<1>18. CASE Update(r)
  <2>1. w.pc = "update" /\ w.user \in Users /\ hash[w.user] \in Versions
    BY <1>1, <1>18 DEF Update, Form, TypeOK
  <2>2. CASE hash[w.user] < MaxVersion
    <3> DEFINE X == [w EXCEPT !.pc = "refresh", !.ver = hash[w.user] + 1]
               noted(q) == [req[q] EXCEPT !.late = @ \/ (req[q].user = w.user
                              /\ req[q].pc \in {"reset", "destroy", "read", "log"})]
    <3>1. req' = [q \in Requests |-> IF q = r THEN X ELSE noted(q)]
      BY <1>18, <2>2 DEF Update, NextHash
    <3>2. hash[w.user] + 1 \in Versions /\ hash[w.user] + 1 # 0
      BY <2>1, <2>2, Bounds DEF Versions
    <3>3. X \in ReqStates
      BY <1>1, <3>2 DEF ReqStates
    <3>4. Form(X)
      BY <1>1, <2>1, <3>2 DEF ReqStates, Form
    <3>5. ASSUME NEW q \in Requests \ {r}
          PROVE  noted(q) \in ReqStates /\ Form(noted(q)) /\ Alike(noted(q), req[q])
      <4>1. req[q] \in ReqStates /\ Form(req[q])
        BY DEF TypeOK, Forms
      <4>2. noted(q) \in ReqStates /\ Alike(noted(q), req[q])
        BY <4>1 DEF ReqStates, Alike
      <4>3. req[q].pc = "idle" => noted(q) = req[q]
        BY <4>1 DEF ReqStates, Form, Idle
      <4> HIDE DEF noted
      <4>4. Form(noted(q))
        BY <4>1, <4>2, <4>3 DEF Form, Alike
      <4> QED
        BY <4>2, <4>4
    <3> HIDE DEF X, noted
    <3>6. req' \in [Requests -> ReqStates] /\ \A q \in Requests : Form(req'[q])
      BY <3>1, <3>3, <3>4, <3>5
    <3>7. \A q \in Requests \ {r} : Alike(req'[q], req[q])
      BY <3>1, <3>5
    <3> QED
      BY <3>6, <3>7 DEF Shaped, Forms
  <2>3. CASE ~(hash[w.user] < MaxVersion)
    BY <1>3, <1>18, <2>3 DEF Update
  <2> QED
    BY <2>2, <2>3
<1>19. CASE Refresh(r) \/ Dies(r)
  BY <1>3, <1>19 DEF Refresh, Dies
<1> QED
  BY <1>4, <1>5, <1>7, <1>8, <1>9, <1>10, <1>11, <1>12, <1>13, <1>14, <1>15,
     <1>16, <1>17, <1>18, <1>19 DEF Step

\* The store and the ghosts, without the requests.
Stored ==
    /\ hash \in [Users -> Versions] /\ iplog \in Nat /\ token \subseteq Users
    /\ session \in [Sids -> Sessions] /\ Owned
    /\ chal \subseteq Challenges /\ spent \subseteq Challenges
    /\ count \in [Counters -> 0 .. MaxFails]
    /\ fails \in [Counters -> 0 .. MaxFails]
    /\ ended \subseteq Sids /\ raced \in BOOLEAN

LEMMA StoreSplit == TypeOK /\ Owned <=> Stored /\ req \in [Requests -> ReqStates]
BY DEF TypeOK, Stored

LEMMA NothingStored == Stored /\ UNCHANGED <<store, ghosts>> => Stored'
BY DEF Stored, store, ghosts, Owned

\* The entries of one session, counter or user are written.
LEMMA SessionWritten ==
    ASSUME Stored, NEW s \in Sids, NEW e \in Sessions,
           e.state = "open" => e.user \in Users,
           session' = [session EXCEPT ![s] = e]
    PROVE  session' \in [Sids -> Sessions] /\ Owned'
BY DEF Stored, Owned

LEMMA Dropped ==
    ASSUME Stored, NEW s \in Sids, Drop(s)
    PROVE  session' \in [Sids -> Sessions] /\ Owned' /\ ended' \subseteq Sids
<1>1. Gone \in Sessions /\ Gone.state = "gone"
  BY Constants DEF Gone, Fresh, Sessions
<1>2. session' = [session EXCEPT ![s] = Gone]
  BY DEF Drop
<1>3. session' \in [Sids -> Sessions] /\ Owned'
  BY <1>1, <1>2, SessionWritten
<1> QED
  BY <1>3 DEF Drop, Stored

LEMMA Counted ==
    ASSUME Stored, NEW k \in Counters, NEW n \in Nat,
           count' = [count EXCEPT ![k] = Least(n, MaxFails)]
    PROVE  count' \in [Counters -> 0 .. MaxFails]
<1>1. Least(n, MaxFails) \in 0 .. MaxFails
  BY Bounds DEF Least
<1> QED
  BY <1>1 DEF Stored

LEMMA Forgotten ==
    ASSUME Stored, NEW k \in Counters, Forget(k)
    PROVE  /\ count' \in [Counters -> 0 .. MaxFails]
           /\ fails' \in [Counters -> 0 .. MaxFails]
<1>1. 0 \in 0 .. MaxFails
  BY Bounds
<1> QED
  BY <1>1 DEF Forget, Stored

LEMMA Hashed ==
    ASSUME Stored, NEW u \in Users, NEW v \in Versions,
           hash' = [hash EXCEPT ![u] = v]
    PROVE  hash' \in [Users -> Versions]
BY DEF Stored

\* What a step leaves in the store.
LEMMA StepStores ==
    ASSUME Stored, TypeOK, Forms, NEW r \in Requests, Step(r) \/ Dies(r)
    PROVE  Stored'
<1> DEFINE w == req[r]
<1>1. w \in ReqStates /\ Form(w)
  BY DEF TypeOK, Forms
<1>2. CASE Solve(r) \/ FindFree(r) \/ Fail(r) \/ Read(r)
  BY <1>2, NothingStored DEF Solve, FindFree, Fail, Read
<1>3. CASE Spend(r)
  <2>1. w.chal \subseteq Challenges
    BY <1>1 DEF ReqStates
  <2> QED
    BY <1>3, <2>1 DEF Spend, Stored, Owned
<1>4. CASE Create(r)
  <2>1. w.user \in Users
    BY <1>1, <1>4 DEF Create, Form
  <2>2. NextHash(0) \in Versions
    BY Constants DEF NextHash
  <2>3. hash' \in [Users -> Versions]
    BY <1>4, <2>1, <2>2, Hashed DEF Create, Stored
  <2> QED
    BY <1>4, <2>3 DEF Create, ghosts, Stored, Owned
<1>5. CASE Log(r)
  BY <1>5 DEF Log, ghosts, Stored, Owned
<1>6. CASE Token(r)
  <2>1. w.user \in Users
    BY <1>1, <1>6 DEF Token, Form
  <2> QED
    BY <1>6, <2>1 DEF Token, ghosts, Stored, Owned
<1>7. CASE Verify(r)
  <2>1. fails' \in [Counters -> 0 .. MaxFails]
    <3>1. ASSUME NEW k \in Counters, fails[k] < MaxFails
          PROVE  fails[k] + 1 \in 0 .. MaxFails
      BY <3>1, Bump DEF Stored
    <3> QED
      BY <1>7, <3>1 DEF Verify, Failing, Stored
  <2> QED
    BY <1>7, <2>1 DEF Verify, store, Stored, Owned
<1>8. CASE Note(r)
  <2>1. w.keys \in Seq(Counters) /\ w.keys # <<>> /\ Distinct(w.keys)
    BY <1>1, <1>8 DEF Note, Form, ReqStates
  <2>2. w.n \in (0 .. MaxFails) \cup Versions
    BY <1>1 DEF ReqStates
  <2>3. Head(w.keys) \in Counters /\ w.n + 1 \in Nat
    BY <2>1, <2>2, TailIsDistinct, Bounds DEF Versions
  <2>4. count' \in [Counters -> 0 .. MaxFails]
    BY <1>8, <2>3, Counted DEF Note
  <2> QED
    BY <1>8, <2>4 DEF Note, ghosts, Stored, Owned
<1>9. CASE Reset(r)
  <2>1. w.keys \in Seq(Counters) /\ w.keys # <<>> /\ Distinct(w.keys)
    BY <1>1, <1>9 DEF Reset, Form, ReqStates
  <2>2. Head(w.keys) \in Counters
    BY <2>1, TailIsDistinct
  <2>3. /\ count' \in [Counters -> 0 .. MaxFails]
        /\ fails' \in [Counters -> 0 .. MaxFails]
    BY <1>9, <2>2, Forgotten DEF Reset
  <2> QED
    BY <1>9, <2>3 DEF Reset, Stored, Owned
<1>10. CASE Destroy(r)
  <2>1. w.sid # NoSid => w.sid \in Sids
    BY <1>1 DEF ReqStates
  <2>2. session' \in [Sids -> Sessions] /\ Owned' /\ ended' \subseteq Sids
    BY <1>10, <2>1, Dropped DEF Destroy, Stored, Owned
  <2> QED
    BY <1>10, <2>2 DEF Destroy, Stored
<1>11. CASE Open(r)
  <2> DEFINE e == [state |-> "open", user |-> w.user, pwv |-> w.n,
                   proved |-> w.ver, late |-> w.late]
  <2>1. w.sid \in Sids /\ w.user \in Users /\ w.n \in Versions
    BY <1>1, <1>11 DEF Open, Form
  <2>2. e \in Sessions /\ e.state = "open" /\ e.user \in Users
    BY <1>1, <2>1 DEF ReqStates, Sessions
  <2>3. session' = [session EXCEPT ![w.sid] = e]
    BY <1>11 DEF Open
  <2> HIDE DEF e
  <2>4. session' \in [Sids -> Sessions] /\ Owned'
    BY <2>1, <2>2, <2>3, SessionWritten
  <2> QED
    BY <1>11, <2>4 DEF Open, ghosts, Stored
<1>12. CASE Refresh(r)
  <2> DEFINE e == [state |-> "open", user |-> w.user, pwv |-> w.ver,
                   proved |-> w.ver, late |-> FALSE]
  <2>1. w.sid \in Sids /\ w.user \in Users /\ w.ver \in Versions
    BY <1>1, <1>12 DEF Refresh, Form, ReqStates
  <2>2. e \in Sessions /\ e.state = "open" /\ e.user \in Users
    BY <2>1 DEF Sessions
  <2>3. session' = [session EXCEPT ![w.sid] = e]
    BY <1>12 DEF Refresh, Fingerprint
  <2> HIDE DEF e
  <2>4. session' \in [Sids -> Sessions] /\ Owned'
    BY <2>1, <2>2, <2>3, SessionWritten
  <2> QED
    BY <1>12, <2>4 DEF Refresh, ghosts, Stored
<1>13. CASE Update(r)
  <2>1. w.user \in Users /\ hash[w.user] \in Versions
    BY <1>1, <1>13 DEF Update, Form, Stored
  <2>2. hash[w.user] < MaxVersion => NextHash(hash[w.user]) \in Versions
    BY <2>1, Bounds DEF NextHash, Versions
  <2>3. hash' = hash \/ (/\ hash[w.user] < MaxVersion
                         /\ hash' = [hash EXCEPT ![w.user] = NextHash(hash[w.user])])
    BY <1>13 DEF Update
  <2>4. hash' \in [Users -> Versions]
    BY <2>1, <2>2, <2>3, Hashed DEF Stored
  <2> QED
    BY <1>13, <2>4 DEF Update, ghosts, Stored, Owned
<1>14. CASE Dies(r)
  BY <1>14 DEF Dies, store, Stored, Owned
<1> QED
  BY <1>2, <1>3, <1>4, <1>5, <1>6, <1>7, <1>8, <1>9, <1>10, <1>11, <1>12, <1>13,
     <1>14 DEF Step

\* The steps that belong to no request.
Elsewhere ==
    \/ \E s \in Sids : Logout(s) \/ ResetToken(s) \/ SessionEnds(s)
    \/ \E p \in Challenges : Issue(p) \/ ChallengeEnds(p)
    \/ \E k \in Counters : LockEnds(k)

LEMMA ElsewhereStores ==
    ASSUME Stored, Elsewhere
    PROVE  Stored' /\ req' = req
<1>1. ASSUME NEW s \in Sids, Logout(s) \/ SessionEnds(s) PROVE Stored' /\ req' = req
  <2>1. session' \in [Sids -> Sessions] /\ Owned' /\ ended' \subseteq Sids
    BY <1>1, Dropped DEF Logout, SessionEnds
  <2> QED
    BY <1>1, <2>1 DEF Logout, SessionEnds, Stored
<1>2. ASSUME NEW s \in Sids, ResetToken(s) PROVE Stored' /\ req' = req
  <2>1. session[s].user \in Users
    BY <1>2 DEF ResetToken, Accepted, Stored, Owned
  <2> QED
    BY <1>2, <2>1 DEF ResetToken, ghosts, Stored, Owned
<1>3. ASSUME NEW p \in Challenges, Issue(p) \/ ChallengeEnds(p) PROVE Stored' /\ req' = req
  BY <1>3 DEF Issue, ChallengeEnds, ghosts, Stored, Owned
<1>4. ASSUME NEW k \in Counters, LockEnds(k) PROVE Stored' /\ req' = req
  <2>1. /\ count' \in [Counters -> 0 .. MaxFails]
        /\ fails' \in [Counters -> 0 .. MaxFails]
    BY <1>4, Forgotten DEF LockEnds
  <2> QED
    BY <1>4, <2>1 DEF LockEnds, Stored, Owned
<1> QED
  BY <1>1, <1>2, <1>3, <1>4 DEF Elsewhere

\* Types and forms are kept by every step.
Typed == TypeOK /\ Forms /\ Owned

LEMMA TypedKept ==
    ASSUME Typed, [Next]_vars
    PROVE  Typed'
<1>1. Stored /\ req \in [Requests -> ReqStates]
  BY StoreSplit DEF Typed
<1>2. ASSUME NEW r \in Requests, Begin(r) PROVE Typed'
  <2>1. /\ Shaped(r) /\ fails' \in [Counters -> 0 .. MaxFails]
        /\ raced' \in BOOLEAN /\ UNCHANGED <<store, spent, ended>>
    BY <1>2, BeginShapes DEF Typed
  <2> QED
    BY <2>1 DEF Shaped, store, Typed, TypeOK, Owned
<1>3. ASSUME NEW r \in Requests, Step(r) \/ Dies(r) PROVE Typed'
  <2>1. Shaped(r) /\ Stored'
    BY <1>1, <1>3, StepShapes, StepStores DEF Typed
  <2> QED
    BY <2>1 DEF Shaped, Typed, Stored, TypeOK
<1>4. ASSUME Elsewhere PROVE Typed'
  <2>1. Stored' /\ req' = req
    BY <1>1, <1>4, ElsewhereStores
  <2> QED
    BY <2>1 DEF Typed, Stored, TypeOK, Forms
<1>5. ASSUME UNCHANGED vars PROVE Typed'
  <2>1. Stored' /\ req' = req
    BY <1>1, <1>5, NothingStored DEF vars, ghosts
  <2> QED
    BY <2>1 DEF Typed, Stored, TypeOK, Forms
<1> QED
  BY <1>2, <1>3, <1>4, <1>5 DEF Next, Elsewhere

\* The sets of users are finite.
LEMMA AccountsFinite ==
    ASSUME NEW S \in SUBSET Users
    PROVE  /\ IsFiniteSet(S) /\ Cardinality(S) \in Nat
           /\ \A u : u \notin S => Cardinality(S \cup {u}) = Cardinality(S) + 1
<1>1. IsFiniteSet(S)
  BY AccountsAssumption, FS_Subset
<1> QED
  BY <1>1, FS_CardinalityType, FS_AddElement

LEMMA TypedInit == Init => Typed
<1> SUFFICES ASSUME Init PROVE Typed
  OBVIOUS
<1>1. 0 \in 0 .. MaxFails
  BY Bounds
<1>2. Fresh \in Sessions /\ Fresh.state = "fresh"
  BY Constants DEF Fresh, Sessions
<1>3. HasAccount \subseteq Users /\ iplog \in Nat
  BY AccountsFinite DEF HasAccount, Init
<1>4. ASSUME NEW u \in Users
      PROVE  Legacy(u) \in Sessions /\ Legacy(u).user \in Users
  BY Constants DEF Legacy, Fresh, Sessions
<1>5. ASSUME NEW s \in Sids
      PROVE  /\ session[s] \in Sessions
             /\ session[s].state = "open" => session[s].user \in Users
  BY <1>2, <1>3, <1>4 DEF Init
<1>6. session \in [Sids -> Sessions] /\ Owned
  BY <1>5 DEF Init, Owned
<1>7. hash \in [Users -> Versions]
  BY Constants DEF Init
<1>8. Stored
  BY <1>1, <1>3, <1>6, <1>7 DEF Init, Stored
<1>9. req \in [Requests -> ReqStates] /\ Forms
  BY IdleForm DEF Init, Forms
<1> QED
  BY <1>8, <1>9, StoreSplit DEF Typed

THEOREM AlwaysTyped == Spec => []Typed
BY TypedInit, TypedKept, PTL DEF Spec

\* Every variable keeps its type.
THEOREM TypeCorrect == Spec => []TypeOK
<1>1. Typed => TypeOK
  BY DEF Typed
<1> QED
  BY <1>1, AlwaysTyped, PTL

----------------------------------------------------------------------------
(* What a step of a request touches.                                       *)

LEMMA Frames ==
    ASSUME NEW r \in Requests, Step(r) \/ Dies(r)
    PROVE  /\ Spend(r) \/ UNCHANGED <<chal, spent>>
           /\ Create(r) \/ Update(r) \/ UNCHANGED hash
           /\ Log(r) \/ UNCHANGED iplog
           /\ Destroy(r) \/ Open(r) \/ Refresh(r) \/ UNCHANGED session
           /\ Destroy(r) \/ UNCHANGED ended
           /\ Note(r) \/ Reset(r) \/ UNCHANGED count
           /\ Verify(r) \/ Reset(r) \/ UNCHANGED fails
           /\ Dies(r) \/ UNCHANGED raced
<1>1. CASE Solve(r) \/ FindFree(r) \/ Fail(r) \/ Read(r)
  BY <1>1 DEF Solve, FindFree, Fail, Read, store, ghosts
<1>2. CASE Spend(r)
  BY <1>2 DEF Spend
<1>3. CASE Create(r) \/ Update(r)
  BY <1>3 DEF Create, Update, ghosts
<1>4. CASE Log(r) \/ Token(r)
  BY <1>4 DEF Log, Token, ghosts
<1>5. CASE Verify(r)
  BY <1>5 DEF Verify, store
<1>6. CASE Note(r)
  BY <1>6 DEF Note, ghosts
<1>7. CASE Reset(r)
  BY <1>7 DEF Reset
<1>8. CASE Destroy(r)
  BY <1>8 DEF Destroy
<1>9. CASE Open(r) \/ Refresh(r)
  BY <1>9 DEF Open, Refresh, ghosts
<1>10. CASE Dies(r)
  BY <1>10 DEF Dies, store
<1> QED
  BY <1>1, <1>2, <1>3, <1>4, <1>5, <1>6, <1>7, <1>8, <1>9, <1>10 DEF Step

\* Where each step takes its request; the others stay, but for Update.
Turn(r, X) == req'[r] = X /\ \A q \in Requests \ {r} : req'[q] = req[q]

ToIdle(r)   == Turn(r, Idle)
ToSpend(r)  == /\ req[r].pc = "solve"
               /\ \E p \in chal : Turn(r, [req[r] EXCEPT !.pc = "spend", !.chal = {p}])
ToFind(r)   == /\ req[r].pc = "spend"
               /\ Turn(r, [req[r] EXCEPT !.pc = "find", !.chal = {}])
ToCreate(r) == /\ req[r].pc = "find" /\ req[r].op = "register"
               /\ Turn(r, [req[r] EXCEPT !.pc = "create"])
ToLog(r)    == /\ Create(r) /\ hash[req[r].user] = 0
               /\ Turn(r, [req[r] EXCEPT !.pc = "log", !.ver = 1])
Logged(r)   == Log(r) /\ Turn(r, [req[r] EXCEPT !.pc = "read"])
ToReset(r)  == /\ Verify(r) /\ Matches(req[r].ver, hash[req[r].user])
               /\ Turn(r, [req[r] EXCEPT !.pc = "reset", !.keys = Keys[req[r].user]])
ToFail(r)   == /\ Verify(r) /\ Failing(r, "login", req[r].user, Keys[req[r].user])
               /\ Turn(r, [Idle EXCEPT !.pc = "fail", !.op = "login",
                                       !.user = req[r].user, !.keys = Keys[req[r].user]])
ToNote(r)   == /\ req[r].pc = "fail"
               /\ Turn(r, [req[r] EXCEPT !.pc = "note", !.n = count[Head(req[r].keys)]])
NoteNext(r) == /\ Note(r) /\ Len(req[r].keys) # 1
               /\ Turn(r, [req[r] EXCEPT !.pc = "fail", !.n = 0,
                                         !.keys = Tail(req[r].keys)])
Cleared(r)  == /\ Reset(r)
               /\ \E pc \in {"reset", "destroy"} :
                     Turn(r, [req[r] EXCEPT !.pc = pc, !.keys = Tail(req[r].keys)])
ToRead(r)   == Destroy(r) /\ Turn(r, [req[r] EXCEPT !.pc = "read", !.sid = NoSid])
ToOpen(r)   == /\ Read(r)
               /\ \E s \in Sids :
                    /\ session[s].state = "fresh"
                    /\ \A q \in Requests : req[q].sid # s
                    /\ Turn(r, [req[r] EXCEPT !.pc = "open", !.sid = s,
                                              !.n = hash[req[r].user]])
ToToken(r)  == Open(r) /\ Turn(r, [req[r] EXCEPT !.pc = "token"])
ToRefresh(r) ==
    /\ Update(r) /\ hash[req[r].user] < MaxVersion
    /\ hash' = [hash EXCEPT ![req[r].user] = hash[req[r].user] + 1]
    /\ req'[r] = [req[r] EXCEPT !.pc = "refresh", !.ver = hash[req[r].user] + 1]
    /\ \A q \in Requests \ {r} :
         req'[q] = [req[q] EXCEPT !.late = @ \/ (req[q].user = req[r].user
                       /\ req[q].pc \in {"reset", "destroy", "read", "log"})]

Turned(r) ==
    \/ ToIdle(r) \/ ToSpend(r) \/ ToFind(r) \/ ToCreate(r) \/ ToLog(r) \/ Logged(r)
    \/ ToReset(r) \/ ToFail(r) \/ ToNote(r) \/ NoteNext(r) \/ Cleared(r) \/ ToRead(r)
    \/ ToOpen(r) \/ ToToken(r) \/ ToRefresh(r)

LEMMA Turns ==
    ASSUME Typed, NEW r \in Requests, Step(r) \/ Dies(r)
    PROVE  Turned(r)
<1> DEFINE w == req[r]
<1>1. w \in ReqStates /\ req \in [Requests -> ReqStates]
  BY DEF Typed, TypeOK
<1>2. ASSUME NEW X, req' = [req EXCEPT ![r] = X] PROVE Turn(r, X)
  BY <1>1, <1>2 DEF Turn
<1>3. ASSUME End(r) PROVE Turned(r)
  BY <1>2, <1>3 DEF End, Turned, ToIdle
<1>4. ASSUME NEW pc, Goto(r, pc) PROVE Turn(r, [w EXCEPT !.pc = pc])
  <2>1. req' = [req EXCEPT ![r] = [w EXCEPT !.pc = pc]]
    BY <1>1, <1>4 DEF Goto
  <2> QED
    BY <1>2, <2>1
<1>5. CASE Solve(r)
  <2>1. ASSUME NEW p \in chal, req' = [req EXCEPT ![r].pc = "spend", ![r].chal = {p}]
        PROVE  Turn(r, [w EXCEPT !.pc = "spend", !.chal = {p}])
    <3>1. req' = [req EXCEPT ![r] = [w EXCEPT !.pc = "spend", !.chal = {p}]]
      BY <1>1, <2>1
    <3> QED
      BY <1>2, <3>1
  <2> QED
    BY <1>3, <1>5, <2>1 DEF Solve, Turned, ToSpend
<1>6. CASE Spend(r)
  <2>1. ASSUME req' = [req EXCEPT ![r].pc = "find", ![r].chal = {}]
        PROVE  Turn(r, [w EXCEPT !.pc = "find", !.chal = {}])
    <3>1. req' = [req EXCEPT ![r] = [w EXCEPT !.pc = "find", !.chal = {}]]
      BY <1>1, <2>1
    <3> QED
      BY <1>2, <3>1
  <2> QED
    BY <1>3, <1>6, <2>1 DEF Spend, Turned, ToFind
<1>7. CASE FindFree(r)
  BY <1>3, <1>4, <1>7 DEF FindFree, Turned, ToCreate
<1>8. CASE Create(r)
  <2>1. ASSUME req' = [req EXCEPT ![r].pc = "log", ![r].ver = NextHash(0)]
        PROVE  Turn(r, [w EXCEPT !.pc = "log", !.ver = 1])
    <3>1. req' = [req EXCEPT ![r] = [w EXCEPT !.pc = "log", !.ver = 1]]
      <4>1. NextHash(0) = 1
        BY DEF NextHash
      <4> QED
        BY <1>1, <2>1, <4>1
    <3> QED
      BY <1>2, <3>1
  <2>2. \/ End(r)
        \/ /\ hash[w.user] = 0
           /\ req' = [req EXCEPT ![r].pc = "log", ![r].ver = NextHash(0)]
    BY <1>8 DEF Create
  <2> QED
    BY <1>3, <1>8, <2>1, <2>2 DEF Turned, ToLog
<1>9. CASE Log(r)
  <2>1. Turn(r, [w EXCEPT !.pc = "read"])
    BY <1>4, <1>9 DEF Log
  <2> QED
    BY <1>9, <2>1 DEF Turned, Logged
<1>10. CASE Token(r) \/ Refresh(r) \/ Dies(r)
  BY <1>3, <1>10 DEF Token, Refresh, Dies
<1>11. CASE Verify(r)
  <2>1. ASSUME req' = [req EXCEPT ![r].pc = "reset", ![r].keys = Keys[w.user]]
        PROVE  Turn(r, [w EXCEPT !.pc = "reset", !.keys = Keys[w.user]])
    <3>1. req' = [req EXCEPT ![r] = [w EXCEPT !.pc = "reset", !.keys = Keys[w.user]]]
      BY <1>1, <2>1
    <3> QED
      BY <1>2, <3>1
  <2>2. ASSUME Failing(r, "login", w.user, Keys[w.user])
        PROVE  Turn(r, [Idle EXCEPT !.pc = "fail", !.op = "login", !.user = w.user,
                                    !.keys = Keys[w.user]])
    BY <1>2, <2>2 DEF Failing
  <2>3. \/ /\ Matches(w.ver, hash[w.user])
           /\ req' = [req EXCEPT ![r].pc = "reset", ![r].keys = Keys[w.user]]
        \/ Failing(r, "login", w.user, Keys[w.user])
    BY <1>11 DEF Verify
  <2> QED
    BY <1>11, <2>1, <2>2, <2>3 DEF Turned, ToReset, ToFail
<1>12. CASE Fail(r)
  <2> DEFINE n == count[Head(w.keys)]
  <2>1. req' = [req EXCEPT ![r] = [w EXCEPT !.pc = "note", !.n = n]]
    BY <1>1, <1>12 DEF Fail
  <2>2. Turn(r, [w EXCEPT !.pc = "note", !.n = n])
    BY <1>2, <2>1
  <2> QED
    BY <1>12, <2>2 DEF Fail, Turned, ToNote
<1>13. CASE Note(r)
  <2>1. CASE Len(w.keys) = 1
    BY <1>3, <1>13, <2>1 DEF Note, Noted
  <2>2. CASE Len(w.keys) # 1
    <3>1. req' = [req EXCEPT ![r] = [w EXCEPT !.pc = "fail", !.n = 0,
                                              !.keys = Tail(w.keys)]]
      BY <1>1, <1>13, <2>2 DEF Note, Noted
    <3>2. Turn(r, [w EXCEPT !.pc = "fail", !.n = 0, !.keys = Tail(w.keys)])
      BY <1>2, <3>1
    <3> QED
      BY <1>13, <2>2, <3>2 DEF Turned, NoteNext
  <2> QED
    BY <2>1, <2>2
<1>14. CASE Reset(r)
  <2>1. w.pc = "reset"
    BY <1>14 DEF Reset
  <2>2. req' = [req EXCEPT ![r] = [w EXCEPT
                  !.pc = IF Len(w.keys) = 1 THEN "destroy" ELSE "reset",
                  !.keys = Tail(w.keys)]]
    BY <1>1, <1>14, <2>1 DEF Reset
  <2>3. Turn(r, [w EXCEPT !.pc = IF Len(w.keys) = 1 THEN "destroy" ELSE "reset",
                          !.keys = Tail(w.keys)])
    BY <1>2, <2>2
  <2> QED
    BY <1>14, <2>3 DEF Turned, Cleared
<1>15. CASE Destroy(r)
  <2>1. req' = [req EXCEPT ![r] = [w EXCEPT !.pc = "read", !.sid = NoSid]]
    BY <1>1, <1>15 DEF Destroy
  <2>2. Turn(r, [w EXCEPT !.pc = "read", !.sid = NoSid])
    BY <1>2, <2>1
  <2> QED
    BY <1>15, <2>2 DEF Turned, ToRead
<1>16. CASE Read(r)
  <2>1. ASSUME NEW s \in Sids, session[s].state = "fresh",
               \A q \in Requests : req[q].sid # s,
               req' = [req EXCEPT ![r].pc = "open", ![r].sid = s,
                                  ![r].n = Fingerprint(hash[w.user])]
        PROVE  Turned(r)
    <3>1. req' = [req EXCEPT ![r] = [w EXCEPT !.pc = "open", !.sid = s,
                                              !.n = hash[w.user]]]
      BY <1>1, <2>1 DEF Fingerprint
    <3>2. Turn(r, [w EXCEPT !.pc = "open", !.sid = s, !.n = hash[w.user]])
      BY <1>2, <3>1
    <3> QED
      BY <1>16, <2>1, <3>2 DEF Turned, ToOpen
  <2> QED
    BY <1>3, <1>16, <2>1 DEF Read
<1>17. CASE Open(r)
  <2>1. End(r) \/ Turn(r, [w EXCEPT !.pc = "token"])
    BY <1>4, <1>17 DEF Open
  <2> QED
    BY <1>3, <1>17, <2>1 DEF Turned, ToToken
<1>18. CASE Update(r)
  <2>1. CASE ~(hash[w.user] < MaxVersion)
    BY <1>3, <1>18, <2>1 DEF Update
  <2>2. CASE hash[w.user] < MaxVersion
    <3>1. req' = [q \in Requests |->
                    IF q = r
                    THEN [w EXCEPT !.pc = "refresh", !.ver = hash[w.user] + 1]
                    ELSE [req[q] EXCEPT !.late = @ \/ (req[q].user = w.user
                            /\ req[q].pc \in {"reset", "destroy", "read", "log"})]]
      BY <1>18, <2>2 DEF Update, NextHash
    <3>2. hash' = [hash EXCEPT ![w.user] = hash[w.user] + 1]
      BY <1>18, <2>2 DEF Update, NextHash
    <3> QED
      BY <1>18, <2>2, <3>1, <3>2 DEF Turned, ToRefresh
  <2> QED
    BY <2>1, <2>2
<1> QED
  BY <1>5, <1>6, <1>7, <1>8, <1>9, <1>10, <1>11, <1>12, <1>13, <1>14, <1>15, <1>16,
     <1>17, <1>18 DEF Step

\* Which of them, by where the request is then.
LEMMA TurnedTo ==
    ASSUME Typed, NEW r \in Requests, Step(r) \/ Dies(r)
    PROVE  /\ req'[r].pc \notin {"solve", "update"}
           /\ req'[r].pc \in {"fail", "note"} => ToFail(r) \/ ToNote(r) \/ NoteNext(r)
           /\ req'[r].pc = "spend" => ToSpend(r)
           /\ req'[r].pc = "open" => ToOpen(r)
           /\ req'[r].pc = "refresh" => ToRefresh(r)
           /\ req'[r].pc = "find" => ToFind(r)
           /\ req'[r].pc \in {"create", "log"} => ToCreate(r) \/ ToLog(r)
<1>1. req[r] \in ReqStates
  BY DEF Typed, TypeOK
<1>2. ToSpend(r) => req'[r].pc = "spend"
  BY <1>1 DEF ToSpend, Turn, ReqStates
<1>3. ToOpen(r) => req'[r].pc = "open"
  BY <1>1 DEF ToOpen, Turn, ReqStates
<1>4. ToCreate(r) \/ ToLog(r) => req'[r].pc \in {"create", "log"}
  BY <1>1 DEF ToCreate, ToLog, Turn, ReqStates
<1> DEFINE Other == {"idle", "read", "reset", "destroy", "token"}
<1>5. ToIdle(r) => req'[r].pc \in Other
  BY IdleIs DEF ToIdle, Turn
<1>6. ToFind(r) => req'[r].pc = "find"
  BY <1>1 DEF ToFind, Turn, ReqStates
<1>7. Logged(r) => req'[r].pc \in Other
  BY <1>1 DEF Logged, Turn, ReqStates
<1>8. ToReset(r) => req'[r].pc \in Other
  BY <1>1 DEF ToReset, Turn, ReqStates
<1>9. ToFail(r) => req'[r].pc \in {"fail", "note"}
  BY <1>1 DEF ToFail, Idle, Turn, ReqStates
<1>10. ToNote(r) => req'[r].pc \in {"fail", "note"}
  BY <1>1 DEF ToNote, Turn, ReqStates
<1>11. NoteNext(r) => req'[r].pc \in {"fail", "note"}
  BY <1>1 DEF NoteNext, Turn, ReqStates
<1>12. ToRead(r) => req'[r].pc \in Other
  BY <1>1 DEF ToRead, Turn, ReqStates
<1>13. ToToken(r) => req'[r].pc \in Other
  BY <1>1 DEF ToToken, Turn, ReqStates
<1>14. ToRefresh(r) => req'[r].pc = "refresh"
  BY <1>1 DEF ToRefresh, ReqStates
<1>15. Cleared(r) => req'[r].pc \in Other
  BY <1>1 DEF Cleared, Turn, ReqStates
<1> QED
  BY <1>2, <1>3, <1>4, <1>5, <1>6, <1>7, <1>8, <1>9, <1>10, <1>11, <1>12, <1>13, <1>14, <1>15, Turns DEF Turned

\* The others stay, but for a change of the password; accounts change only
\* with the request.
LEMMA Alone ==
    ASSUME Typed, NEW r \in Requests, Step(r) \/ Dies(r)
    PROVE  ToRefresh(r) \/ \A q \in Requests \ {r} : req'[q] = req[q]
BY Turns DEF Turned, Turn, ToIdle, ToSpend, ToFind, ToCreate, ToLog, Logged, ToReset,
     ToFail, ToNote, NoteNext, Cleared, ToRead, ToOpen, ToToken

LEMMA CreateTurns ==
    ASSUME Typed, NEW r \in Requests, Create(r) \/ Update(r)
    PROVE  ToLog(r) \/ ToRefresh(r) \/ hash' = hash
<1>1. Turned(r) /\ req[r] \in ReqStates
  BY Turns DEF Typed, TypeOK, Step
<1>2. Create(r) /\ hash[req[r].user] = 0 => req'[r].pc = "log"
  <2> SUFFICES ASSUME Create(r), hash[req[r].user] = 0 PROVE req'[r].pc = "log"
    OBVIOUS
  <2>1. req' = [req EXCEPT ![r].pc = "log", ![r].ver = NextHash(0)]
    BY DEF Create
  <2> QED
    BY <1>1, <2>1 DEF ReqStates, Typed, TypeOK
<1>3. Update(r) /\ hash[req[r].user] < MaxVersion => req'[r].pc = "refresh"
  <2> SUFFICES ASSUME Update(r), hash[req[r].user] < MaxVersion
               PROVE  req'[r].pc = "refresh"
    OBVIOUS
  <2>1. req'[r] = [req[r] EXCEPT !.pc = "refresh", !.ver = NextHash(hash[req[r].user])]
    BY DEF Update
  <2> QED
    BY <1>1, <2>1 DEF ReqStates
<1>4. Create(r) => req[r].pc = "create"
  BY DEF Create
<1>5. ToCreate(r) => req[r].pc = "find"
  BY DEF ToCreate
<1>6. Step(r)
  BY DEF Step
<1>7. req'[r].pc = "log" => ToLog(r)
  <2>1. ToCreate(r) => req'[r].pc = "create"
    BY <1>1 DEF ToCreate, Turn, ReqStates
  <2> QED
    BY <1>6, <2>1, TurnedTo
<1>8. req'[r].pc = "refresh" => ToRefresh(r)
  BY <1>6, TurnedTo
<1> QED
  BY <1>2, <1>3, <1>7, <1>8 DEF Create, Update

----------------------------------------------------------------------------
(* Challenges.                                                             *)

Unspent == chal \cap spent = {}

LEMMA UnspentKept ==
    ASSUME Typed, Unspent, [Next]_vars
    PROVE  Unspent'
<1>1. ASSUME NEW r \in Requests, Begin(r) PROVE Unspent'
  BY <1>1, BeginShapes DEF Typed, store, Unspent
<1>2. ASSUME NEW r \in Requests, Step(r) \/ Dies(r) PROVE Unspent'
  BY <1>2, Frames DEF Spend, Unspent
<1>3. ASSUME Elsewhere PROVE Unspent'
  BY <1>3 DEF Elsewhere, Logout, ResetToken, SessionEnds, Issue, ChallengeEnds,
              LockEnds, ghosts, Unspent
<1>4. UNCHANGED vars => Unspent'
  BY DEF vars, store, Unspent
<1> QED
  BY <1>1, <1>2, <1>3, <1>4 DEF Next, Elsewhere

\* A request that goes from "solve" to "spend" has read a challenge.
LEMMA SpentStaysSpent ==
    ASSUME Typed, Unspent, [Next]_vars, NEW r \in Requests,
           req[r].pc = "solve", req'[r].pc = "spend"
    PROVE  req'[r].chal \cap spent = {}
<1>1. ASSUME NEW q \in Requests, q # r, Begin(q) \/ Step(q) \/ Dies(q) PROVE FALSE
  <2>1. Shaped(q)
    BY <1>1, BeginShapes, StepShapes DEF Typed
  <2> QED
    BY <1>1, <2>1 DEF Shaped, Alike
<1>2. ~Begin(r)
  BY BeginShapes DEF Typed
<1>3. ~Elsewhere
  BY ElsewhereStores, StoreSplit DEF Typed
<1>4. ~UNCHANGED vars
  BY DEF vars
<1>5. Step(r) \/ Dies(r)
  BY <1>1, <1>2, <1>3, <1>4 DEF Next, Elsewhere
<1>6. Turned(r) /\ req[r] \in ReqStates
  BY <1>5, Turns DEF Typed, TypeOK
<1>7. PICK p \in chal : req'[r] = [req[r] EXCEPT !.pc = "spend", !.chal = {p}]
  <2>1. ToSpend(r)
    BY <1>5, TurnedTo DEF Typed
  <2> QED
    BY <2>1 DEF ToSpend, Turn
<1>8. req'[r].chal = {p}
  BY <1>6, <1>7 DEF ReqStates
<1> QED
  BY <1>7, <1>8 DEF Unspent

\* A challenge that a request has deleted lets no later request pass.
THEOREM SpentOnce == Spec => SpentIsSpent
<1>1. Init => Unspent
  BY DEF Init, Unspent
<1>2. Typed /\ Unspent /\ [Next]_vars => Unspent'
  BY UnspentKept
<1>3. Typed /\ Unspent /\ [Next]_vars =>
        [\A r \in Requests : req[r].pc = "solve" /\ req'[r].pc = "spend"
             => req'[r].chal \cap spent = {}]_vars
  BY SpentStaysSpent
<1> QED
  BY <1>1, <1>2, <1>3, AlwaysTyped, PTL DEF Spec, SpentIsSpent

----------------------------------------------------------------------------
(* Sessions.  An id about to be opened is fresh and nobody else's; a        *)
(* password request's session is not among those that ended without it.     *)

GoneInv == \A s \in ended : session[s].state = "gone"
OpenInv == \A r \in Requests : req[r].pc = "open" =>
              /\ session[req[r].sid].state = "fresh"
              /\ \A q \in Requests : q # r => req[q].sid # req[r].sid
WorkInv == \A r \in Requests : req[r].op = "password" => req[r].sid \notin ended
SidInv  == GoneInv /\ OpenInv /\ WorkInv

\* Where a request's session comes from.
LEMMA BeginSid ==
    ASSUME Typed, NEW r \in Requests, Begin(r)
    PROVE  /\ req'[r].pc # "open"
           /\ \/ req'[r].sid = NoSid
              \/ req'[r].sid \in Sids /\ session[req'[r].sid].state = "open"
<1>1. req \in [Requests -> ReqStates]
  BY DEF Typed, TypeOK
<1>2. ASSUME NEW X, req' = [req EXCEPT ![r] = X] PROVE req'[r] = X
  BY <1>1, <1>2
<1>3. ASSUME NEW u \in Users, Register(r, u) PROVE req'[r].sid = NoSid
  <2>1. req' = [req EXCEPT ![r] = [Idle EXCEPT !.pc = "solve", !.op = "register",
                                               !.user = u]]
    BY <1>3 DEF Register
  <2>2. req'[r] = [Idle EXCEPT !.pc = "solve", !.op = "register", !.user = u]
    BY <1>2, <2>1
  <2> QED
    BY <2>2 DEF Idle
<1>4. ASSUME NEW u \in Users, NEW v \in Versions, NEW s \in Sids \cup {NoSid},
             Login(r, u, v, s)
      PROVE  req'[r].sid = s /\ (s # NoSid => session[s].state = "open")
  <2>1. req' = [req EXCEPT ![r] = [Idle EXCEPT !.pc = "solve", !.op = "login",
                                               !.user = u, !.ver = v, !.sid = s]]
    BY <1>4 DEF Login
  <2>2. req'[r] = [Idle EXCEPT !.pc = "solve", !.op = "login", !.user = u,
                               !.ver = v, !.sid = s]
    BY <1>2, <2>1
  <2>3. req'[r].sid = s
    BY <2>2 DEF Idle
  <2> QED
    BY <1>4, <2>3 DEF Login
<1>5. ASSUME NEW op, NEW u, NEW keys, Failing(r, op, u, keys) PROVE req'[r].sid = NoSid
  <2>1. req' = [req EXCEPT ![r] = [Idle EXCEPT !.pc = "fail", !.op = op, !.user = u,
                                               !.keys = keys]]
    BY <1>5 DEF Failing
  <2>2. req'[r] = [Idle EXCEPT !.pc = "fail", !.op = op, !.user = u, !.keys = keys]
    BY <1>2, <2>1
  <2> QED
    BY <2>2 DEF Idle
<1>6. ASSUME NEW s \in Sids, Change(r, s)
      PROVE  session[s].state = "open" /\ req'[r].sid \in {s, NoSid}
  <2> DEFINE u == session[s].user
             X == [Idle EXCEPT !.op = "password", !.user = u, !.sid = s,
                               !.ver = hash[u], !.pc = "update"]
  <2>1. req' = [req EXCEPT ![r] = X] \/ Failing(r, "password", u, Keys[u])
    BY <1>6 DEF Change
  <2>2. X.sid = s
    BY DEF Idle
  <2>3. session[s].state = "open"
    BY <1>6 DEF Change, Accepted
  <2> HIDE DEF X, u
  <2> QED
    BY <1>2, <1>5, <2>1, <2>2, <2>3
<1>7. req'[r].pc # "open"
  BY BeginShapes DEF Typed
<1>8. Guess(r) => req'[r].sid = NoSid
  BY <1>5 DEF Guess
<1> QED
  BY <1>3, <1>4, <1>6, <1>7, <1>8 DEF Begin

LEMMA TurnSid ==
    ASSUME Typed, NEW r \in Requests, Step(r) \/ Dies(r)
    PROVE  /\ req'[r].op \in {req[r].op, "", "login"}
           /\ \/ ToOpen(r)
              \/ /\ req'[r].pc # "open"
                 /\ \/ req'[r].sid = NoSid
                    \/ req'[r].sid = req[r].sid /\ req'[r].op = req[r].op
<1>1. req[r] \in ReqStates
  BY DEF Typed, TypeOK
<1>2. ToIdle(r) => req'[r].sid = NoSid /\ req'[r].op = ""
  BY IdleIs DEF ToIdle, Turn
<1>3. ToFail(r) => req'[r].sid = NoSid /\ req'[r].op = "login"
  BY <1>1 DEF ToFail, Turn, Idle
<1>4. ToRead(r) => req'[r].sid = NoSid /\ req'[r].op = req[r].op
  BY <1>1 DEF ToRead, Turn, ReqStates
<1> DEFINE Same == req'[r].sid = req[r].sid /\ req'[r].op = req[r].op
<1>5. ToSpend(r) => Same
  BY <1>1 DEF ToSpend, Turn, ReqStates
<1>6. ToFind(r) => Same
  BY <1>1 DEF ToFind, Turn, ReqStates
<1>7. ToCreate(r) => Same
  BY <1>1 DEF ToCreate, Turn, ReqStates
<1>8. ToLog(r) => Same
  BY <1>1 DEF ToLog, Turn, ReqStates
<1>9. Logged(r) => Same
  BY <1>1 DEF Logged, Turn, ReqStates
<1>10. ToReset(r) => Same
  BY <1>1 DEF ToReset, Turn, ReqStates
<1>11. ToNote(r) => Same
  BY <1>1 DEF ToNote, Turn, ReqStates
<1>12. NoteNext(r) => Same
  BY <1>1 DEF NoteNext, Turn, ReqStates
<1>13. Cleared(r) => Same
  BY <1>1 DEF Cleared, Turn, ReqStates
<1>14. ToToken(r) => Same
  BY <1>1 DEF ToToken, Turn, ReqStates
<1>15. ToRefresh(r) => Same
  BY <1>1 DEF ToRefresh, Turn, ReqStates
<1>16. ToOpen(r) => req'[r].op = req[r].op
  BY <1>1 DEF ToOpen, Turn, ReqStates
<1> QED
  BY <1>2, <1>3, <1>4, <1>5, <1>6, <1>7, <1>8, <1>9, <1>10, <1>11, <1>12, <1>13, <1>14, <1>15, <1>16, Turns, TurnedTo DEF Turned

\* A move of one request that leaves the sessions alone.
LEMMA SidMove ==
    ASSUME Typed, SidInv, NEW r \in Requests, UNCHANGED <<session, ended>>,
           \A q \in Requests \ {r} : Alike(req'[q], req[q]),
           req'[r].pc # "open",
           \/ req'[r].sid = NoSid
           \/ req'[r].sid = req[r].sid /\ req'[r].op = req[r].op
           \/ req'[r].sid \in Sids /\ session[req'[r].sid].state = "open"
    PROVE  SidInv'
<1>1. /\ \A q \in Requests : req[q].pc = "open" => req[q].sid \in Sids
      /\ NoSid \notin Sids /\ ended \subseteq Sids
  BY Constants DEF Typed, Forms, Form, TypeOK
<1>2. GoneInv'
  BY DEF SidInv, GoneInv
<1>3. OpenInv'
  <2> SUFFICES ASSUME NEW q \in Requests, req'[q].pc = "open"
               PROVE  /\ session[req'[q].sid].state = "fresh"
                      /\ \A p \in Requests : p # q => req'[p].sid # req'[q].sid
    BY DEF OpenInv
  <2>1. q # r /\ req'[q].sid = req[q].sid /\ req[q].pc = "open"
    BY DEF Alike
  <2>2. /\ session[req[q].sid].state = "fresh"
        /\ \A p \in Requests : p # q => req[p].sid # req[q].sid
    BY <2>1 DEF SidInv, OpenInv
  <2>3. req'[r].sid # req[q].sid
    BY <1>1, <2>1, <2>2
  <2>4. \A p \in Requests \ {r} : req'[p].sid = req[p].sid
    BY DEF Alike
  <2> QED
    BY <2>1, <2>2, <2>3, <2>4
<1>4. WorkInv'
  <2>1. \A q \in Requests \ {r} : req'[q].op = "password" => req'[q].sid \notin ended
    BY DEF Alike, SidInv, WorkInv
  <2>2. req'[r].op = "password" => req'[r].sid \notin ended
    BY <1>1 DEF SidInv, WorkInv, GoneInv
  <2> QED
    BY <2>1, <2>2 DEF WorkInv
<1> QED
  BY <1>2, <1>3, <1>4 DEF SidInv

\* The session s is written, by request r or by nobody's.
LEMMA SidWrite ==
    ASSUME Typed, SidInv, NEW s \in Sids, session' = [session EXCEPT ![s] = session'[s]],
           \A r \in Requests : req'[r].pc = "open" =>
              req[r].pc = "open" /\ req'[r].sid = req[r].sid /\ req[r].sid # s,
           \A r \in Requests : req'[r].sid \in {req[r].sid, NoSid},
           \A r \in Requests : req'[r].op = "password" => req[r].op = "password",
           \/ ended' = ended /\ s \notin ended
           \/ ended' = ended /\ session'[s].state = "gone"
           \/ /\ ended' = ended \cup {s} /\ session'[s].state = "gone"
              /\ \A r \in Requests : req[r].op = "password" => req[r].sid # s
    PROVE  SidInv'
<1>1. /\ session \in [Sids -> Sessions] /\ ended \subseteq Sids /\ NoSid \notin Sids
      /\ \A q \in Requests : req[q].pc = "open" => req[q].sid \in Sids
  BY Constants DEF Typed, Forms, Form, TypeOK
<1>2. \A t \in Sids \ {s} : session'[t] = session[t]
  BY <1>1
<1>3. GoneInv'
  BY <1>1, <1>2 DEF SidInv, GoneInv
<1>4. OpenInv'
  BY <1>1, <1>2 DEF SidInv, OpenInv
<1>5. WorkInv'
  BY <1>1 DEF SidInv, WorkInv
<1> QED
  BY <1>3, <1>4, <1>5 DEF SidInv

LEMMA SidKept ==
    ASSUME Typed, SidInv, [Next]_vars
    PROVE  SidInv'
<1>1. ASSUME NEW r \in Requests, Begin(r) PROVE SidInv'
  <2>1. /\ \A q \in Requests \ {r} : Alike(req'[q], req[q])
        /\ UNCHANGED <<session, ended>>
    BY <1>1, BeginShapes DEF Typed, Shaped, store
  <2> QED
    BY <1>1, <2>1, BeginSid, SidMove
<1>2. ASSUME NEW r \in Requests, Step(r) \/ Dies(r) PROVE SidInv'
  <2> DEFINE w == req[r]
  <2>1. /\ w \in ReqStates /\ Form(w) /\ NoSid \notin Sids
        /\ session \in [Sids -> Sessions] /\ ended \subseteq Sids
    BY Constants DEF Typed, TypeOK, Forms
  <2>2. /\ \A q \in Requests \ {r} : Alike(req'[q], req[q])
    BY <1>2, StepShapes DEF Typed, Shaped
  <2>3. ToOpen(r) => UNCHANGED <<session, ended>>
    BY DEF ToOpen, Read, store, ghosts
  <2>4. CASE ToOpen(r)
    <3>1. PICK s \in Sids : /\ session[s].state = "fresh"
                            /\ \A q \in Requests : req[q].sid # s
                            /\ Turn(r, [w EXCEPT !.pc = "open", !.sid = s,
                                                 !.n = hash[w.user]])
      BY <2>4 DEF ToOpen
    <3>2. /\ req'[r].sid = s /\ req'[r].op = w.op
          /\ \A q \in Requests \ {r} : req'[q] = req[q]
      BY <2>1, <3>1 DEF Turn, ReqStates
    <3>3. GoneInv' /\ s \notin ended
      BY <2>3, <2>4, <3>1 DEF SidInv, GoneInv
    <3>4. OpenInv'
      BY <2>3, <2>4, <3>1, <3>2 DEF SidInv, OpenInv
    <3>5. WorkInv'
      BY <2>3, <2>4, <3>2, <3>3 DEF SidInv, WorkInv
    <3> QED
      BY <3>3, <3>4, <3>5 DEF SidInv
  <2>5. CASE ~ToOpen(r) /\ UNCHANGED <<session, ended>>
    BY <1>2, <2>2, <2>5, TurnSid, SidMove
  <2>6. ASSUME ~ToOpen(r), NEW s \in Sids, w.sid = s,
               session' = [session EXCEPT ![s] = session'[s]],
               \/ ended' = ended /\ s \notin ended
               \/ ended' = ended /\ session'[s].state = "gone"
               \/ /\ ended' = ended \cup {s} /\ session'[s].state = "gone"
                  /\ \A q \in Requests : req[q].op = "password" => req[q].sid # s
        PROVE  SidInv'
    <3>1. /\ req'[r].pc # "open" /\ req'[r].sid \in {w.sid, NoSid}
          /\ req'[r].sid = NoSid \/ req'[r].op = w.op
      BY <1>2, <2>6, TurnSid
    <3>2. req'[r].op = "password" => w.op = "password"
      BY <1>2, TurnSid
    <3>3. ASSUME NEW q \in Requests, req'[q].pc = "open"
          PROVE  req[q].pc = "open" /\ req'[q].sid = req[q].sid /\ req[q].sid # s
      <4>1. q # r /\ req[q].pc = "open" /\ req'[q].sid = req[q].sid
        BY <2>2, <3>1, <3>3 DEF Alike
      <4> QED
        BY <2>6, <4>1 DEF SidInv, OpenInv
    <3>4. \A q \in Requests : req'[q].sid \in {req[q].sid, NoSid}
      BY <2>2, <3>1 DEF Alike
    <3>5. \A q \in Requests : req'[q].op = "password" => req[q].op = "password"
      BY <2>2, <3>2 DEF Alike
    <3> QED
      BY <2>6, <3>3, <3>4, <3>5, SidWrite
  <2>7. ~Dies(r) => Step(r)
    BY <1>2
  <2>8. CASE Destroy(r)
    <3>1. CASE w.sid = NoSid
      BY <2>5, <2>8, <3>1, <2>4 DEF Destroy
    <3>2. CASE w.sid # NoSid
      <4>1. w.sid \in Sids /\ Drop(w.sid) /\ w.pc = "destroy" /\ Gone.state = "gone"
        BY <2>1, <2>8, <3>2 DEF Destroy, ReqStates, Gone, Fresh
      <4>2. /\ session' = [session EXCEPT ![w.sid] = session'[w.sid]]
            /\ session'[w.sid].state = "gone"
        BY <2>1, <4>1 DEF Drop
      <4>3. \/ ended' = ended
            \/ /\ ended' = ended \cup {w.sid}
               /\ \A q \in Requests : req[q].op = "password" => req[q].sid # w.sid
        BY <4>1 DEF Drop, Changing
      <4> QED
        BY <2>4, <2>6, <4>1, <4>2, <4>3
    <3> QED
      BY <3>1, <3>2
  <2>9. CASE Open(r)
    <3>1. w.sid \in Sids /\ w.pc = "open"
      BY <2>1, <2>9 DEF Open, Form
    <3>2. session' = [session EXCEPT ![w.sid] = session'[w.sid]] /\ ended' = ended
      BY <2>1, <2>9, <3>1 DEF Open, ghosts
    <3>3. w.sid \notin ended
      BY <3>1 DEF SidInv, OpenInv, GoneInv
    <3> QED
      BY <2>4, <2>6, <3>1, <3>2, <3>3
  <2>10. CASE Refresh(r)
    <3>1. w.sid \in Sids /\ w.op = "password"
      BY <2>1, <2>10 DEF Refresh, Form
    <3>2. session' = [session EXCEPT ![w.sid] = session'[w.sid]] /\ ended' = ended
      BY <2>1, <2>10, <3>1 DEF Refresh, ghosts
    <3>3. w.sid \notin ended
      BY <3>1 DEF SidInv, WorkInv
    <3> QED
      BY <2>4, <2>6, <3>1, <3>2, <3>3
  <2> QED
    BY <1>2, <2>4, <2>5, <2>8, <2>9, <2>10, Frames
<1>3. ASSUME NEW s \in Sids, Logout(s) \/ SessionEnds(s) PROVE SidInv'
  <2>1. /\ session[s].state = "open" /\ Drop(s) /\ req' = req
        /\ Gone.state = "gone" /\ session \in [Sids -> Sessions]
    BY <1>3 DEF Logout, SessionEnds, Gone, Fresh, Typed, TypeOK
  <2>2. /\ session' = [session EXCEPT ![s] = session'[s]]
        /\ session'[s].state = "gone"
    BY <2>1 DEF Drop
  <2>3. \/ ended' = ended
        \/ /\ ended' = ended \cup {s}
           /\ \A q \in Requests : req[q].op = "password" => req[q].sid # s
    BY <2>1 DEF Drop, Changing
  <2>4. \A q \in Requests : req[q].pc = "open" => req[q].sid # s
    BY <2>1 DEF SidInv, OpenInv
  <2> QED
    BY <2>1, <2>2, <2>3, <2>4, SidWrite
<1>4. ASSUME UNCHANGED <<session, ended, req>> PROVE SidInv'
  BY <1>4 DEF SidInv, GoneInv, OpenInv, WorkInv
<1>5. ASSUME NEW s \in Sids, ResetToken(s) PROVE SidInv'
  BY <1>4, <1>5 DEF ResetToken, ghosts
<1>6. ASSUME NEW p \in Challenges, Issue(p) \/ ChallengeEnds(p) PROVE SidInv'
  BY <1>4, <1>6 DEF Issue, ChallengeEnds, ghosts
<1>7. ASSUME NEW k \in Counters, LockEnds(k) PROVE SidInv'
  BY <1>4, <1>7 DEF LockEnds
<1>8. UNCHANGED vars => SidInv'
  BY <1>4 DEF vars, store
<1> QED
  BY <1>1, <1>2, <1>3, <1>5, <1>6, <1>7, <1>8 DEF Next

LEMMA SidInit == Init => SidInv
BY IdleIs DEF Init, SidInv, GoneInv, OpenInv, WorkInv

\* A session that ends while no change of the password works with it never
\* comes back.
THEOREM EndedForGood == Spec => []EndedStaysEnded
<1>1. SidInv => EndedStaysEnded
  BY DEF SidInv, GoneInv, EndedStaysEnded
<1> QED
  BY <1>1, SidInit, SidKept, AlwaysTyped, PTL DEF Spec

----------------------------------------------------------------------------
(* Passwords.  Between the proof of the password and the session, the proof *)
(* is of the current password or the change has been noticed; so is the     *)
(* fingerprint a session is opened with.                                    *)

Waiting  == {"log", "reset", "destroy", "read"}
WaitInv  == \A r \in Requests : req[r].pc \in Waiting =>
               /\ hash[req[r].user] # 0
               /\ req[r].ver = hash[req[r].user] \/ req[r].late
PrintInv == \A r \in Requests : req[r].pc = "open" => req[r].n = req[r].ver \/ req[r].late
EntryInv == \A s \in Sids : session[s].state = "open" =>
               \/ session[s].pwv = NoPwv
               \/ session[s].proved = session[s].pwv \/ session[s].late
OldInv   == WaitInv /\ PrintInv /\ EntryInv

LEMMA BeginAlone ==
    ASSUME Typed, NEW r \in Requests, Begin(r)
    PROVE  \A q \in Requests \ {r} : req'[q] = req[q]
<1>1. req \in [Requests -> ReqStates]
  BY DEF Typed, TypeOK
<1>2. ASSUME NEW X, req' = [req EXCEPT ![r] = X]
      PROVE  \A q \in Requests \ {r} : req'[q] = req[q]
  BY <1>1, <1>2
<1>3. ASSUME NEW op, NEW u, NEW keys, Failing(r, op, u, keys)
      PROVE  \A q \in Requests \ {r} : req'[q] = req[q]
  BY <1>2, <1>3 DEF Failing
<1> QED
  BY <1>2, <1>3 DEF Begin, Register, Login, Change, Guess

LEMMA Marked ==
    ASSUME NEW v \in ReqStates, NEW b
    PROVE  Alike([v EXCEPT !.late = b], v) /\ [v EXCEPT !.late = b].late = b
BY DEF Alike, ReqStates

\* Neither the accounts nor the sessions change, nor what the others wait with.
LEMMA OldMove ==
    ASSUME OldInv, NEW r \in Requests, UNCHANGED <<hash, session>>,
           \A q \in Requests \ {r} : req'[q] = req[q],
           req'[r].pc \in Waiting =>
              /\ hash[req'[r].user] # 0
              /\ req'[r].ver = hash[req'[r].user] \/ req'[r].late,
           req'[r].pc = "open" => req'[r].n = req'[r].ver \/ req'[r].late
    PROVE  OldInv'
<1>1. WaitInv'
  BY DEF OldInv, WaitInv
<1>2. PrintInv'
  BY DEF OldInv, PrintInv
<1>3. EntryInv'
  BY DEF OldInv, EntryInv
<1> QED
  BY <1>1, <1>2, <1>3 DEF OldInv

\* What a request waits with after its own step.
LEMMA OldTurn ==
    ASSUME Typed, OldInv, NEW r \in Requests, Step(r) \/ Dies(r)
    PROVE  /\ req'[r].pc \in Waiting =>
                /\ ToLog(r) \/ hash[req'[r].user] # 0
                /\ ToLog(r) \/ req'[r].ver = hash[req'[r].user] \/ req'[r].late
           /\ req'[r].pc = "open" => req'[r].n = req'[r].ver \/ req'[r].late
<1> DEFINE w == req[r]
           Waits == /\ hash[req'[r].user] # 0
                    /\ req'[r].ver = hash[req'[r].user] \/ req'[r].late
<1>1. w \in ReqStates
  BY DEF Typed, TypeOK
<1>2. w.pc \in Waiting => hash[w.user] # 0 /\ (w.ver = hash[w.user] \/ w.late)
  BY DEF OldInv, WaitInv
<1>3. Logged(r) \/ ToRead(r) \/ Cleared(r) => Waits
  <2>1. Logged(r) => w.pc \in Waiting /\ req'[r] = [w EXCEPT !.pc = "read"]
    BY DEF Logged, Log, Turn, Waiting
  <2>2. ToRead(r) => w.pc \in Waiting /\ req'[r] = [w EXCEPT !.pc = "read", !.sid = NoSid]
    BY DEF ToRead, Destroy, Turn, Waiting
  <2>3. Cleared(r) => /\ w.pc \in Waiting
                      /\ \E pc \in {"reset", "destroy"} :
                            req'[r] = [w EXCEPT !.pc = pc, !.keys = Tail(w.keys)]
    BY DEF Cleared, Reset, Turn, Waiting
  <2>4. Logged(r) \/ ToRead(r) \/ Cleared(r) =>
          req'[r].user = w.user /\ req'[r].ver = w.ver /\ req'[r].late = w.late
    BY <1>1, <2>1, <2>2, <2>3 DEF ReqStates
  <2> QED
    BY <1>2, <2>1, <2>2, <2>3, <2>4
<1>4. ToReset(r) => Waits
  <2>1. ToReset(r) => /\ hash[w.user] # 0 /\ w.ver = hash[w.user]
                      /\ req'[r] = [w EXCEPT !.pc = "reset", !.keys = Keys[w.user]]
    BY DEF ToReset, Matches, Turn
  <2>2. ToReset(r) => req'[r].user = w.user /\ req'[r].ver = w.ver
    BY <1>1, <2>1 DEF ReqStates
  <2> QED
    BY <2>1, <2>2
<1>5. ToOpen(r) => /\ req'[r].pc = "open"
                   /\ req'[r].n = req'[r].ver \/ req'[r].late
  <2> SUFFICES ASSUME ToOpen(r) PROVE /\ req'[r].pc = "open"
                                      /\ req'[r].n = req'[r].ver \/ req'[r].late
    OBVIOUS
  <2>1. PICK s \in Sids : req'[r] = [w EXCEPT !.pc = "open", !.sid = s, !.n = hash[w.user]]
    BY DEF ToOpen, Turn
  <2>2. w.pc \in Waiting
    BY DEF ToOpen, Read, Waiting
  <2>3. /\ req'[r].pc = "open" /\ req'[r].n = hash[w.user]
        /\ req'[r].ver = w.ver /\ req'[r].late = w.late
    BY <1>1, <2>1 DEF ReqStates
  <2> QED
    BY <1>2, <2>2, <2>3
<1> DEFINE Other == {"idle", "spend", "find", "create", "fail", "note", "token", "refresh"}
<1>6. ToIdle(r) => req'[r].pc \in Other
  BY IdleIs DEF ToIdle, Turn
<1>7. ToSpend(r) \/ ToFind(r) \/ ToCreate(r) => req'[r].pc \in Other
  BY <1>1 DEF ToSpend, ToFind, ToCreate, Turn, ReqStates
<1>8. ToFail(r) => req'[r].pc \in Other
  BY DEF ToFail, Turn, Idle
<1>9. ToNote(r) => req'[r].pc \in Other
  BY <1>1 DEF ToNote, Turn, ReqStates
<1>10. NoteNext(r) => req'[r].pc \in Other
  BY <1>1 DEF NoteNext, Turn, ReqStates
<1>11. ToToken(r) => req'[r].pc \in Other
  BY <1>1 DEF ToToken, Turn, ReqStates
<1>12. ToRefresh(r) => req'[r].pc \in Other
  BY <1>1 DEF ToRefresh, ReqStates
<1>13. req'[r].pc = "open" => ToOpen(r)
  BY TurnedTo
<1> QED
  BY <1>3, <1>4, <1>5, <1>6, <1>7, <1>8, <1>9, <1>10, <1>11, <1>12, <1>13, Turns
     DEF Turned, Waiting

LEMMA OldKept ==
    ASSUME Typed, OldInv, [Next]_vars
    PROVE  OldInv'
<1>1. ASSUME NEW r \in Requests, Begin(r) PROVE OldInv'
  <2>1. req'[r].pc \in {"solve", "update", "fail"} /\ UNCHANGED <<hash, session>>
    BY <1>1, BeginShapes DEF Typed, store
  <2> QED
    BY <1>1, <2>1, BeginAlone, OldMove DEF Waiting
<1>2. ASSUME NEW r \in Requests, Step(r) \/ Dies(r) PROVE OldInv'
  <2> DEFINE w == req[r]
  <2>1. /\ w \in ReqStates /\ Form(w) /\ hash \in [Users -> Versions]
        /\ session \in [Sids -> Sessions] /\ req \in [Requests -> ReqStates]
        /\ \A q \in Requests : req[q].pc \in Waiting => req[q].user \in Users
    BY DEF Typed, TypeOK, Forms, Form, Waiting
  <2>2. CASE ToLog(r)
    <3>1. /\ w.user \in Users /\ hash[w.user] = 0
          /\ hash' = [hash EXCEPT ![w.user] = 1] /\ session' = session
          /\ req'[r] = [w EXCEPT !.pc = "log", !.ver = 1]
          /\ \A q \in Requests \ {r} : req'[q] = req[q]
      BY <2>1, <2>2 DEF ToLog, Create, Form, NextHash, Turn
    <3>2. /\ req'[r].pc = "log" /\ req'[r].user = w.user /\ req'[r].ver = 1
      BY <2>1, <3>1 DEF ReqStates
    <3>3. hash'[w.user] = 1 /\ \A u \in Users \ {w.user} : hash'[u] = hash[u]
      BY <2>1, <3>1
    <3>4. WaitInv'
      <4>1. ASSUME NEW q \in Requests \ {r}, req'[q].pc \in Waiting
            PROVE  /\ hash'[req'[q].user] # 0
                   /\ req'[q].ver = hash'[req'[q].user] \/ req'[q].late
        <5>1. /\ req'[q] = req[q] /\ req[q].user \in Users
              /\ hash[req[q].user] # 0
              /\ req[q].ver = hash[req[q].user] \/ req[q].late
          BY <2>1, <3>1, <4>1 DEF OldInv, WaitInv
        <5>2. req[q].user # w.user
          BY <3>1, <5>1
        <5> QED
          BY <3>3, <5>1, <5>2
      <4> QED
        BY <3>2, <3>3, <4>1 DEF WaitInv
    <3>5. PrintInv' /\ EntryInv'
      BY <3>1, <3>2 DEF OldInv, PrintInv, EntryInv
    <3> QED
      BY <3>4, <3>5 DEF OldInv
  <2>3. CASE ToRefresh(r)
    <3>1. /\ w.user \in Users /\ session' = session
          /\ hash' = [hash EXCEPT ![w.user] = hash[w.user] + 1]
          /\ req'[r] = [w EXCEPT !.pc = "refresh", !.ver = hash[w.user] + 1]
          /\ \A q \in Requests \ {r} :
               req'[q] = [req[q] EXCEPT !.late = @ \/ (req[q].user = w.user
                             /\ req[q].pc \in Waiting)]
      BY <2>1, <2>3 DEF ToRefresh, Update, Form, ghosts, Waiting
    <3>2. req'[r].pc = "refresh"
      BY <2>1, <3>1 DEF ReqStates
    <3>3. /\ hash'[w.user] = hash[w.user] + 1 /\ hash[w.user] + 1 # 0
          /\ \A u \in Users \ {w.user} : hash'[u] = hash[u]
      BY <2>1, <3>1, Bounds DEF Versions
    <3>4. ASSUME NEW q \in Requests \ {r}
          PROVE  /\ Alike(req'[q], req[q])
                 /\ req[q].user = w.user /\ req[q].pc \in Waiting => req'[q].late
                 /\ req[q].late => req'[q].late
      <4>1. req[q] \in ReqStates
        BY <2>1
      <4> DEFINE b == req[q].late \/ (req[q].user = w.user /\ req[q].pc \in Waiting)
      <4>2. req'[q] = [req[q] EXCEPT !.late = b]
        BY <3>1
      <4>3. Alike(req'[q], req[q]) /\ req'[q].late = b
        <5> HIDE DEF b
        <5> QED
          BY <4>1, <4>2, Marked
      <4> QED
        BY <4>3
    <3>5. WaitInv'
      <4>1. ASSUME NEW q \in Requests \ {r}, req'[q].pc \in Waiting
            PROVE  /\ hash'[req'[q].user] # 0
                   /\ req'[q].ver = hash'[req'[q].user] \/ req'[q].late
        <5>1. /\ req'[q].user = req[q].user /\ req'[q].ver = req[q].ver
              /\ req[q].pc \in Waiting
          BY <3>4, <4>1 DEF Alike
        <5>2. /\ req[q].user \in Users /\ hash[req[q].user] # 0
              /\ req[q].ver = hash[req[q].user] \/ req[q].late
          BY <2>1, <5>1 DEF OldInv, WaitInv
        <5>3. CASE req[q].user = w.user
          BY <3>3, <3>4, <5>1, <5>3
        <5>4. CASE req[q].user # w.user
          BY <3>3, <3>4, <5>1, <5>2, <5>4
        <5> QED
          BY <5>3, <5>4
      <4> QED
        BY <3>2, <4>1 DEF WaitInv, Waiting
    <3>6. PrintInv'
      BY <3>2, <3>4 DEF OldInv, PrintInv, Alike
    <3>7. EntryInv'
      BY <3>1 DEF OldInv, EntryInv
    <3> QED
      BY <3>5, <3>6, <3>7 DEF OldInv
  <2>4. CASE ~ToLog(r) /\ ~ToRefresh(r)
    <3>1. hash' = hash
      <4>1. Create(r) => hash' = hash
        BY <2>1, <2>4, CreateTurns DEF Create
      <4>2. Update(r) => hash' = hash
        BY <2>1, <2>4, CreateTurns DEF Update
      <4> QED
        BY <1>2, <4>1, <4>2, Frames
    <3>2. \A q \in Requests \ {r} : req'[q] = req[q]
      BY <1>2, <2>4, Alone
    <3>3. WaitInv' /\ PrintInv'
      <4>1. WaitInv'
        BY <1>2, <2>4, <3>1, <3>2, OldTurn DEF OldInv, WaitInv
      <4>2. PrintInv'
        BY <1>2, <2>4, <3>1, <3>2, OldTurn DEF OldInv, PrintInv
      <4> QED
        BY <4>1, <4>2
    <3>4. EntryInv'
      <4>1. CASE session' = session
        BY <4>1 DEF OldInv, EntryInv
      <4>2. ASSUME NEW s \in Sids, NEW e, session' = [session EXCEPT ![s] = e],
                   e.state = "open" => e.proved = e.pwv \/ e.late
            PROVE  EntryInv'
        BY <2>1, <4>2 DEF OldInv, EntryInv
      <4>3. CASE Destroy(r)
        <5>1. w.sid # NoSid => w.sid \in Sids /\ session' = [session EXCEPT ![w.sid] = Gone]
          BY <2>1, <4>3 DEF Destroy, Drop, ReqStates
        <5>2. Gone.state # "open"
          BY DEF Gone, Fresh
        <5> QED
          BY <4>1, <4>2, <4>3, <5>1, <5>2 DEF Destroy
      <4>4. CASE Open(r)
        <5> DEFINE e == [state |-> "open", user |-> w.user, pwv |-> w.n,
                         proved |-> w.ver, late |-> w.late]
        <5>1. w.pc = "open" /\ w.sid \in Sids /\ session' = [session EXCEPT ![w.sid] = e]
          BY <2>1, <4>4 DEF Open, Form
        <5>2. e.proved = e.pwv \/ e.late
          BY <5>1 DEF OldInv, PrintInv
        <5> HIDE DEF e
        <5> QED
          BY <4>2, <5>1, <5>2
      <4>5. CASE Refresh(r)
        <5> DEFINE e == [state |-> "open", user |-> w.user, pwv |-> w.ver,
                         proved |-> w.ver, late |-> FALSE]
        <5>1. w.sid \in Sids /\ session' = [session EXCEPT ![w.sid] = e]
          BY <2>1, <4>5 DEF Refresh, Form, Fingerprint
        <5>2. e.proved = e.pwv
          OBVIOUS
        <5> HIDE DEF e
        <5> QED
          BY <4>2, <5>1, <5>2
      <4> QED
        BY <1>2, <4>1, <4>3, <4>4, <4>5, Frames
    <3> QED
      BY <3>3, <3>4 DEF OldInv
  <2> QED
    BY <2>2, <2>3, <2>4
<1>3. ASSUME NEW s \in Sids, Logout(s) \/ SessionEnds(s) PROVE OldInv'
  <2>1. /\ session' = [session EXCEPT ![s] = Gone] /\ UNCHANGED <<hash, req>>
        /\ session \in [Sids -> Sessions] /\ Gone.state # "open"
    BY <1>3 DEF Logout, SessionEnds, Drop, Gone, Fresh, Typed, TypeOK
  <2> QED
    BY <2>1 DEF OldInv, WaitInv, PrintInv, EntryInv
<1>4. ASSUME UNCHANGED <<hash, session, req>> PROVE OldInv'
  BY <1>4 DEF OldInv, WaitInv, PrintInv, EntryInv
<1>5. ASSUME NEW s \in Sids, ResetToken(s) PROVE OldInv'
  BY <1>4, <1>5 DEF ResetToken, ghosts
<1>6. ASSUME NEW p \in Challenges, Issue(p) \/ ChallengeEnds(p) PROVE OldInv'
  BY <1>4, <1>6 DEF Issue, ChallengeEnds, ghosts
<1>7. ASSUME NEW k \in Counters, LockEnds(k) PROVE OldInv'
  BY <1>4, <1>7 DEF LockEnds
<1>8. UNCHANGED vars => OldInv'
  BY <1>4 DEF vars, store
<1> QED
  BY <1>1, <1>2, <1>3, <1>5, <1>6, <1>7, <1>8 DEF Next

LEMMA OldInit == Init => OldInv
<1>1. Fresh.state # "open" /\ \A u : Legacy(u).pwv = NoPwv
  BY DEF Legacy, Fresh
<1> SUFFICES ASSUME Init PROVE OldInv
  OBVIOUS
<1>2. WaitInv /\ PrintInv
  BY IdleIs DEF Init, WaitInv, PrintInv, Waiting
<1>3. EntryInv
  BY <1>1 DEF Init, EntryInv
<1> QED
  BY <1>2, <1>3 DEF OldInv

\* A changed password ends what the old one opened: any session that is accepted
\* has no fingerprint, was opened with the current password, or was being opened
\* at the moment of the change.
THEOREM OldAreOut == Spec => []OldPasswordsOut
<1>1. OldInv => OldPasswordsOut
  BY DEF OldInv, EntryInv, OldPasswordsOut, Accepted, Fingerprint
<1> QED
  BY <1>1, OldInit, OldKept, AlwaysTyped, PTL DEF Spec

----------------------------------------------------------------------------
(* Accounts of one address.  A request that changes a password has an       *)
(* account, so only Create adds one; registrations that do not overlap      *)
(* count the accounts, but for one that is not yet logged.                  *)

UpdateInv == \A r \in Requests : req[r].pc = "update" => hash[req[r].user] # 0
OpenerInv == \A r \in Requests : req[r].pc = "open" => req[r].n # 0
HolderInv == \A s \in Sids : session[s].state = "open" =>
                /\ session[s].pwv # 0
                /\ session[s].pwv = NoPwv => hash[session[s].user] # 0
LiveInv   == UpdateInv /\ OpenerInv /\ HolderInv

\* How a step changes the accounts.
LEMMA HashTurn ==
    ASSUME Typed, NEW r \in Requests, Step(r) \/ Dies(r)
    PROVE  \/ hash' = hash
           \/ /\ req[r].user \in Users
              /\ \/ /\ ToLog(r) /\ hash[req[r].user] = 0
                    /\ hash' = [hash EXCEPT ![req[r].user] = 1]
                 \/ /\ ToRefresh(r)
                    /\ hash[req[r].user] + 1 # 0
                    /\ hash' = [hash EXCEPT ![req[r].user] = hash[req[r].user] + 1]
<1>1. Form(req[r]) /\ hash \in [Users -> Versions]
  BY DEF Typed, TypeOK, Forms
<1>2. CASE Create(r) \/ Update(r)
  <2>1. req[r].user \in Users /\ hash[req[r].user] \in Versions
    BY <1>1, <1>2 DEF Create, Update, Form
  <2>2. hash[req[r].user] + 1 # 0
    BY <2>1, Bounds DEF Versions
  <2>3. ToLog(r) => /\ hash[req[r].user] = 0
                    /\ hash' = [hash EXCEPT ![req[r].user] = 1]
    BY DEF ToLog, Create, NextHash
  <2>4. ToRefresh(r) => hash' = [hash EXCEPT ![req[r].user] = hash[req[r].user] + 1]
    BY DEF ToRefresh
  <2> QED
    BY <1>2, <2>1, <2>2, <2>3, <2>4, CreateTurns
<1>3. CASE ~(Create(r) \/ Update(r))
  BY <1>3, Frames
<1> QED
  BY <1>2, <1>3

LEMMA BeginUpdate ==
    ASSUME Typed, LiveInv, NEW r \in Requests, Begin(r), req'[r].pc = "update"
    PROVE  hash[req'[r].user] # 0
<1>1. req \in [Requests -> ReqStates]
  BY DEF Typed, TypeOK
<1>2. ASSUME NEW X, X.pc # "update", req' = [req EXCEPT ![r] = X] PROVE FALSE
  BY <1>1, <1>2
<1>3. ASSUME NEW u, Register(r, u) PROVE FALSE
  <2> DEFINE X == [Idle EXCEPT !.pc = "solve", !.op = "register", !.user = u]
  <2>1. X.pc # "update" /\ req' = [req EXCEPT ![r] = X]
    BY <1>3 DEF Register, Idle
  <2> HIDE DEF X
  <2> QED
    BY <1>2, <2>1
<1>4. ASSUME NEW u, NEW v, NEW s, Login(r, u, v, s) PROVE FALSE
  <2> DEFINE X == [Idle EXCEPT !.pc = "solve", !.op = "login", !.user = u,
                               !.ver = v, !.sid = s]
  <2>1. X.pc # "update" /\ req' = [req EXCEPT ![r] = X]
    BY <1>4 DEF Login, Idle
  <2> HIDE DEF X
  <2> QED
    BY <1>2, <2>1
<1>5. ASSUME NEW op, NEW u, NEW keys, Failing(r, op, u, keys) PROVE FALSE
  <2> DEFINE X == [Idle EXCEPT !.pc = "fail", !.op = op, !.user = u, !.keys = keys]
  <2>1. X.pc # "update" /\ req' = [req EXCEPT ![r] = X]
    BY <1>5 DEF Failing, Idle
  <2> HIDE DEF X
  <2> QED
    BY <1>2, <2>1
<1>6. PICK s \in Sids : Change(r, s)
  BY <1>3, <1>4, <1>5 DEF Begin, Guess
<1> DEFINE u == session[s].user
           X == [Idle EXCEPT !.op = "password", !.user = u, !.sid = s,
                             !.ver = hash[u], !.pc = "update"]
<1>7. req' = [req EXCEPT ![r] = X] \/ Failing(r, "password", u, Keys[u])
  BY <1>6 DEF Change
<1>8. session[s].state = "open" /\ session[s].pwv \in {NoPwv, hash[u]}
  BY <1>6 DEF Change, Accepted, Fingerprint
<1>9. hash[u] # 0
  BY <1>8 DEF LiveInv, HolderInv
<1>10. X.user = u
  BY DEF Idle
<1> HIDE DEF X, u
<1>11. req'[r] = X
  BY <1>1, <1>5, <1>7
<1> QED
  BY <1>9, <1>10, <1>11

LEMMA LiveKept ==
    ASSUME Typed, OldInv, LiveInv, [Next]_vars
    PROVE  LiveInv'
<1>1. ASSUME NEW r \in Requests, Begin(r) PROVE LiveInv'
  <2>1. /\ req'[r].pc # "open" /\ UNCHANGED <<hash, session>>
        /\ \A q \in Requests \ {r} : req'[q] = req[q]
    BY <1>1, BeginShapes, BeginAlone DEF Typed, store
  <2>2. UpdateInv'
    BY <1>1, <2>1, BeginUpdate DEF LiveInv, UpdateInv
  <2>3. OpenerInv' /\ HolderInv'
    BY <2>1 DEF LiveInv, OpenerInv, HolderInv
  <2> QED
    BY <2>2, <2>3 DEF LiveInv
<1>2. ASSUME NEW r \in Requests, Step(r) \/ Dies(r) PROVE LiveInv'
  <2> DEFINE w == req[r]
  <2>1. /\ w \in ReqStates /\ Form(w) /\ hash \in [Users -> Versions]
        /\ session \in [Sids -> Sessions] /\ Owned
        /\ \A q \in Requests : req[q].pc = "update" => req[q].user \in Users
    BY DEF Typed, TypeOK, Forms, Form
  <2>2. \A q \in Requests \ {r} : Alike(req'[q], req[q])
    BY <1>2, StepShapes DEF Typed, Shaped
  <2>3. \A u \in Users : hash[u] # 0 => hash'[u] # 0
    <3>1. 1 # 0
      OBVIOUS
    <3> QED
      BY <1>2, <2>1, <3>1, HashTurn
  <2>4. UpdateInv'
    <3>1. req'[r].pc # "update"
      BY <1>2, TurnedTo
    <3> QED
      BY <2>1, <2>2, <2>3, <3>1 DEF Alike, LiveInv, UpdateInv
  <2>5. OpenerInv'
    <3>1. ASSUME req'[r].pc = "open" PROVE req'[r].n # 0
      <4>1. ToOpen(r)
        BY <1>2, <3>1, TurnedTo
      <4>2. w.pc \in Waiting
        BY <4>1 DEF ToOpen, Read, Waiting
      <4>3. hash[w.user] # 0
        BY <4>2 DEF OldInv, WaitInv
      <4>4. req'[r].n = hash[w.user]
        BY <2>1, <4>1 DEF ToOpen, Turn, ReqStates
      <4> QED
        BY <4>3, <4>4
    <3> QED
      BY <2>2, <3>1 DEF Alike, LiveInv, OpenerInv
  <2>6. HolderInv'
    <3>1. CASE session' = session
      BY <2>1, <2>3, <3>1 DEF LiveInv, HolderInv, Owned
    <3>2. ASSUME NEW s \in Sids, NEW e, session' = [session EXCEPT ![s] = e],
                 e.state = "open" => e.pwv # 0 /\ e.pwv # NoPwv
          PROVE  HolderInv'
      BY <2>1, <2>3, <3>2 DEF LiveInv, HolderInv, Owned
    <3>3. CASE Destroy(r)
      <4>1. w.sid # NoSid => w.sid \in Sids /\ session' = [session EXCEPT ![w.sid] = Gone]
        BY <2>1, <3>3 DEF Destroy, Drop, ReqStates
      <4>2. Gone.state # "open"
        BY DEF Gone, Fresh
      <4> QED
        BY <3>1, <3>2, <3>3, <4>1, <4>2 DEF Destroy
    <3>4. CASE Open(r)
      <4> DEFINE e == [state |-> "open", user |-> w.user, pwv |-> w.n,
                       proved |-> w.ver, late |-> w.late]
      <4>1. /\ w.pc = "open" /\ w.sid \in Sids /\ w.n \in Versions
            /\ session' = [session EXCEPT ![w.sid] = e]
        BY <2>1, <3>4 DEF Open, Form
      <4>2. e.pwv # 0 /\ e.pwv # NoPwv
        BY <4>1 DEF LiveInv, OpenerInv, Versions, NoPwv
      <4> HIDE DEF e
      <4> QED
        BY <3>2, <4>1, <4>2
    <3>5. CASE Refresh(r)
      <4> DEFINE e == [state |-> "open", user |-> w.user, pwv |-> w.ver,
                       proved |-> w.ver, late |-> FALSE]
      <4>1. /\ w.sid \in Sids /\ session' = [session EXCEPT ![w.sid] = e]
            /\ w.ver # 0 /\ w.ver \in Versions
        BY <2>1, <3>5 DEF Refresh, Form, Fingerprint, ReqStates
      <4>2. e.pwv # 0 /\ e.pwv # NoPwv
        BY <4>1 DEF Versions, NoPwv
      <4> HIDE DEF e
      <4> QED
        BY <3>2, <4>1, <4>2
    <3> QED
      BY <1>2, <3>1, <3>3, <3>4, <3>5, Frames
  <2> QED
    BY <2>4, <2>5, <2>6 DEF LiveInv
<1>3. ASSUME NEW s \in Sids, Logout(s) \/ SessionEnds(s) PROVE LiveInv'
  <2>1. /\ session' = [session EXCEPT ![s] = Gone] /\ UNCHANGED <<hash, req>>
        /\ session \in [Sids -> Sessions] /\ Gone.state # "open"
    BY <1>3 DEF Logout, SessionEnds, Drop, Gone, Fresh, Typed, TypeOK
  <2> QED
    BY <2>1 DEF LiveInv, UpdateInv, OpenerInv, HolderInv
<1>4. ASSUME UNCHANGED <<hash, session, req>> PROVE LiveInv'
  BY <1>4 DEF LiveInv, UpdateInv, OpenerInv, HolderInv
<1>5. ASSUME NEW s \in Sids, ResetToken(s) PROVE LiveInv'
  BY <1>4, <1>5 DEF ResetToken, ghosts
<1>6. ASSUME NEW p \in Challenges, Issue(p) \/ ChallengeEnds(p) PROVE LiveInv'
  BY <1>4, <1>6 DEF Issue, ChallengeEnds, ghosts
<1>7. ASSUME NEW k \in Counters, LockEnds(k) PROVE LiveInv'
  BY <1>4, <1>7 DEF LockEnds
<1>8. UNCHANGED vars => LiveInv'
  BY <1>4 DEF vars, store
<1> QED
  BY <1>1, <1>2, <1>3, <1>5, <1>6, <1>7, <1>8 DEF Next

LEMMA LiveInit == Init => LiveInv
<1>1. /\ Fresh.state # "open"
      /\ \A u : Legacy(u).pwv = NoPwv /\ Legacy(u).user = u /\ NoPwv # 0
  BY DEF Legacy, Fresh, NoPwv
<1> SUFFICES ASSUME Init PROVE LiveInv
  OBVIOUS
<1>2. UpdateInv /\ OpenerInv
  BY IdleIs DEF Init, UpdateInv, OpenerInv
<1>3. ASSUME NEW s \in Sids, session[s].state = "open"
      PROVE  session[s].pwv = NoPwv /\ session[s].user \in HasAccount
  BY <1>1, <1>3 DEF Init
<1>4. HolderInv
  BY <1>1, <1>3 DEF HolderInv, HasAccount
<1> QED
  BY <1>2, <1>4 DEF LiveInv

SingleInv == \A q, r \in Requests : Registering(q) /\ Registering(r) => q = r
RoomInv   == \A r \in Requests : Registering(r) => iplog < MaxRegisters
CountInv  == \/ Cardinality(HasAccount) <= iplog
             \/ /\ Cardinality(HasAccount) <= iplog + 1
                /\ \E r \in Requests : req[r].pc = "log"
RegInv    == raced \/ (iplog <= MaxRegisters /\ SingleInv /\ RoomInv /\ CountInv)

\* Only Register begins a registration, and the log is written at its end.
LEMMA RegTurn ==
    ASSUME Typed, NEW r \in Requests, Step(r) \/ Dies(r)
    PROVE  /\ \A q \in Requests : Registering(q)' => Registering(q)
           /\ Log(r) => Registering(r) /\ ~Registering(r)'
<1>1. /\ req[r] \in ReqStates /\ Form(req[r])
      /\ \A q \in Requests \ {r} : Alike(req'[q], req[q])
  BY StepShapes DEF Typed, TypeOK, Shaped, Forms
<1>2. \A q \in Requests \ {r} : Registering(q)' <=> Registering(q)
  BY <1>1 DEF Alike, Registering
<1>3. req'[r].pc = "spend" => req[r].pc = "solve" /\ req'[r].op = req[r].op
  <2>1. ToSpend(r) => req[r].pc = "solve" /\ req'[r].op = req[r].op
    BY <1>1 DEF ToSpend, Turn, ReqStates
  <2> QED
    BY <2>1, TurnedTo
<1>4. req'[r].pc = "find" => req[r].pc = "spend" /\ req'[r].op = req[r].op
  <2>1. ToFind(r) => req[r].pc = "spend" /\ req'[r].op = req[r].op
    BY <1>1 DEF ToFind, Turn, ReqStates
  <2> QED
    BY <2>1, TurnedTo
<1>5. req'[r].pc \in {"create", "log"} =>
         req[r].pc \in {"find", "create"} /\ req'[r].op = req[r].op
  <2>1. ToCreate(r) => req[r].pc = "find" /\ req'[r].op = req[r].op
    BY <1>1 DEF ToCreate, Turn, ReqStates
  <2>2. ToLog(r) => req[r].pc = "create" /\ req'[r].op = req[r].op
    BY <1>1 DEF ToLog, Create, Turn, ReqStates
  <2> QED
    BY <2>1, <2>2, TurnedTo
<1>6. req'[r].pc # "solve"
  BY TurnedTo
<1>7. Registering(r)' => Registering(r)
  BY <1>3, <1>4, <1>5, <1>6 DEF Registering
<1>8. Log(r) => Registering(r) /\ req'[r].pc = "read"
  <2>1. Log(r) => req' = [req EXCEPT ![r] = [req[r] EXCEPT !.pc = "read"]]
    BY <1>1 DEF Log, Goto, Typed, TypeOK
  <2>2. Log(r) => req'[r] = [req[r] EXCEPT !.pc = "read"]
    BY <2>1 DEF Typed, TypeOK
  <2>3. Log(r) => req[r].pc = "log" /\ req[r].op = "register"
    BY <1>1 DEF Log, Form
  <2> QED
    BY <1>1, <2>2, <2>3 DEF Registering, ReqStates
<1> QED
  BY <1>2, <1>7, <1>8 DEF Registering

LEMMA BeginReg ==
    ASSUME Typed, NEW r \in Requests, Begin(r)
    PROVE  \/ /\ iplog < MaxRegisters
              /\ raced' = (raced \/ \E q \in Requests : Registering(q))
           \/ raced' = raced /\ ~Registering(r)'
<1>1. req \in [Requests -> ReqStates]
  BY DEF Typed, TypeOK
<1>2. ASSUME NEW X, X.op # "register", req' = [req EXCEPT ![r] = X] PROVE ~Registering(r)'
  BY <1>1, <1>2 DEF Registering
<1>3. ASSUME NEW u, Register(r, u)
      PROVE  /\ iplog < MaxRegisters
             /\ raced' = (raced \/ \E q \in Requests : Registering(q))
  BY <1>3 DEF Register
<1>4. ASSUME NEW u, NEW v, NEW s, Login(r, u, v, s) PROVE raced' = raced /\ ~Registering(r)'
  <2> DEFINE X == [Idle EXCEPT !.pc = "solve", !.op = "login", !.user = u,
                               !.ver = v, !.sid = s]
  <2>1. X.op # "register" /\ req' = [req EXCEPT ![r] = X] /\ raced' = raced
    BY <1>4 DEF Login, Idle, ghosts
  <2> HIDE DEF X
  <2> QED
    BY <1>2, <2>1
<1>5. ASSUME NEW op \in {"call", "password"}, NEW u, NEW keys, Failing(r, op, u, keys)
      PROVE  ~Registering(r)'
  <2> DEFINE X == [Idle EXCEPT !.pc = "fail", !.op = op, !.user = u, !.keys = keys]
  <2>1. X.op # "register" /\ req' = [req EXCEPT ![r] = X]
    BY <1>5 DEF Failing, Idle
  <2> HIDE DEF X
  <2> QED
    BY <1>2, <2>1
<1>6. ASSUME NEW s \in Sids, Change(r, s) PROVE raced' = raced /\ ~Registering(r)'
  <2> DEFINE u == session[s].user
             X == [Idle EXCEPT !.op = "password", !.user = u, !.sid = s,
                               !.ver = hash[u], !.pc = "update"]
  <2>1. raced' = raced /\ (req' = [req EXCEPT ![r] = X] \/ Failing(r, "password", u, Keys[u]))
    BY <1>6 DEF Change
  <2>2. X.op # "register"
    BY DEF Idle
  <2> HIDE DEF X, u
  <2> QED
    BY <1>2, <1>5, <2>1, <2>2
<1>7. Guess(r) => raced' = raced /\ ~Registering(r)'
  BY <1>5 DEF Guess
<1> QED
  BY <1>3, <1>4, <1>6, <1>7 DEF Begin

LEMMA RegKept ==
    ASSUME Typed, LiveInv, RegInv, [Next]_vars
    PROVE  RegInv'
<1>1. /\ iplog \in Nat /\ hash \in [Users -> Versions] /\ raced \in BOOLEAN
      /\ \A r \in Requests : req[r].pc = "log" => Registering(r)
  BY DEF Typed, TypeOK, Forms, Form, Registering
<1>2. Cardinality(HasAccount) \in Nat
  BY AccountsFinite DEF HasAccount
<1>3. ASSUME NEW r \in Requests, Begin(r) PROVE RegInv'
  <2>1. /\ UNCHANGED <<hash, iplog>> /\ req[r].pc = "idle"
        /\ \A q \in Requests \ {r} : req'[q] = req[q]
    BY <1>3, BeginShapes, BeginAlone DEF Typed, store
  <2>2. \A q \in Requests \ {r} : Registering(q)' <=> Registering(q)
    BY <2>1 DEF Registering
  <2>3. CountInv => CountInv'
    <3>1. HasAccount' = HasAccount
      BY <2>1 DEF HasAccount
    <3> QED
      BY <2>1, <3>1 DEF CountInv
  <2>4. raced \/ (iplog <= MaxRegisters /\ SingleInv /\ RoomInv /\ CountInv)
    BY DEF RegInv
  <2>5. raced => raced'
    BY <1>3, BeginReg
  <2>6. CASE iplog < MaxRegisters /\ raced' = (raced \/ \E q \in Requests : Registering(q))
    <3>1. CASE \E q \in Requests : Registering(q)
      BY <2>6, <3>1 DEF RegInv
    <3>2. CASE ~\E q \in Requests : Registering(q)
      <4>1. SingleInv' /\ RoomInv'
        BY <2>1, <2>2, <2>6, <3>2 DEF SingleInv, RoomInv
      <4> QED
        BY <2>1, <2>3, <2>4, <2>5, <4>1 DEF RegInv
    <3> QED
      BY <3>1, <3>2
  <2>7. CASE raced' = raced /\ ~Registering(r)'
    <3>1. SingleInv => SingleInv'
      BY <2>2, <2>7 DEF SingleInv
    <3>2. RoomInv => RoomInv'
      BY <2>1, <2>2, <2>7 DEF RoomInv
    <3> QED
      BY <2>1, <2>3, <2>4, <2>7, <3>1, <3>2 DEF RegInv
  <2> QED
    BY <1>3, <2>6, <2>7, BeginReg
<1>4. ASSUME NEW r \in Requests, Step(r) \/ Dies(r) PROVE RegInv'
  <2> DEFINE w == req[r]
  <2>1. \A q \in Requests \ {r} : Alike(req'[q], req[q])
    BY <1>4, StepShapes DEF Typed, Shaped
  <2>2. \A q \in Requests : Registering(q)' => Registering(q)
    BY <1>4, RegTurn
  <2>3. raced => raced'
    <3>1. Dies(r) => raced' = (raced \/ w.pc = "log")
      BY DEF Dies
    <3> QED
      BY <1>4, <3>1, Frames
  <2>4. CASE raced
    BY <2>3, <2>4 DEF RegInv
  <2>5. CASE ~raced
    <3>1. iplog <= MaxRegisters /\ SingleInv /\ RoomInv /\ CountInv
      BY <2>5 DEF RegInv
    <3>2. SingleInv'
      BY <2>2, <3>1 DEF SingleInv
    <3>3. CASE Log(r)
      <4>1. iplog' = iplog + 1 /\ hash' = hash /\ Registering(r)
        BY <1>4, <3>3, RegTurn DEF Log
      <4>2. \A q \in Requests : ~Registering(q)'
        BY <1>4, <2>2, <3>1, <3>3, <4>1, RegTurn DEF SingleInv
      <4>3. RoomInv'
        BY <4>2 DEF RoomInv
      <4>4. iplog + 1 <= MaxRegisters
        BY <1>1, <3>1, <4>1, Bounds DEF RoomInv
      <4>5. CountInv'
        <5>1. HasAccount' = HasAccount
          BY <4>1 DEF HasAccount
        <5>2. Cardinality(HasAccount) <= iplog + 1
          BY <1>1, <1>2, <3>1 DEF CountInv
        <5> QED
          BY <4>1, <5>1, <5>2 DEF CountInv
      <4> QED
        BY <3>2, <4>1, <4>3, <4>4, <4>5 DEF RegInv
    <3>4. CASE ~Log(r)
      <4>1. iplog' = iplog
        BY <1>4, <3>4, Frames
      <4>2. RoomInv'
        BY <2>2, <3>1, <4>1 DEF RoomInv
      <4>3. CASE ToLog(r)
        <5>1. w.user \in Users /\ hash[w.user] = 0 /\ hash' = [hash EXCEPT ![w.user] = 1]
          <6>1. Form(w)
            BY DEF Typed, Forms
          <6> QED
            BY <4>3, <6>1 DEF ToLog, Create, Form, NextHash
        <5>2. HasAccount' = HasAccount \cup {w.user} /\ w.user \notin HasAccount
          BY <1>1, <5>1 DEF HasAccount
        <5>3. Cardinality(HasAccount') = Cardinality(HasAccount) + 1
          <6> DEFINE S == HasAccount
          <6>1. S \in SUBSET Users /\ HasAccount' = S \cup {w.user} /\ w.user \notin S
            BY <5>2 DEF HasAccount
          <6> HIDE DEF S
          <6>2. Cardinality(S \cup {w.user}) = Cardinality(S) + 1
            BY <6>1, AccountsFinite
          <6> QED
            BY <6>1, <6>2 DEF S
        <5>4. Registering(r) /\ w.pc = "create"
          <6>1. Form(w)
            BY DEF Typed, Forms
          <6> QED
            BY <4>3, <6>1 DEF ToLog, Create, Form, Registering
        <5>5. Cardinality(HasAccount) <= iplog
          <6>1. ASSUME NEW q \in Requests, req[q].pc = "log" PROVE FALSE
            <7>1. q = r
              BY <1>1, <3>1, <5>4, <6>1 DEF SingleInv
            <7> QED
              BY <5>4, <6>1, <7>1
          <6> QED
            BY <3>1, <6>1 DEF CountInv
        <5>6. req'[r].pc = "log"
          <6>1. w \in ReqStates /\ req'[r] = [w EXCEPT !.pc = "log", !.ver = 1]
            BY <4>3 DEF ToLog, Turn, Typed, TypeOK
          <6> QED
            BY <6>1 DEF ReqStates
        <5>7. CountInv'
          BY <1>1, <1>2, <4>1, <5>3, <5>5, <5>6 DEF CountInv
        <5> QED
          BY <3>1, <3>2, <4>1, <4>2, <5>7 DEF RegInv
      <4>4. CASE ~ToLog(r)
        <5>1. HasAccount' = HasAccount
          <6>1. CASE hash' = hash
            BY <6>1 DEF HasAccount
          <6>2. CASE hash' # hash
            <7>1. /\ w.user \in Users /\ ToRefresh(r)
                  /\ hash' = [hash EXCEPT ![w.user] = hash[w.user] + 1]
              BY <1>4, <4>4, <6>2, HashTurn
            <7>2. hash[w.user] # 0
              BY <7>1 DEF ToRefresh, Update, LiveInv, UpdateInv
            <7>3. hash[w.user] > 0 /\ hash[w.user] + 1 > 0
              BY <1>1, <7>1, <7>2, Bounds DEF Versions
            <7> QED
              BY <1>1, <7>1, <7>3 DEF HasAccount
          <6> QED
            BY <6>1, <6>2
        <5>2. CASE w.pc # "log"
          BY <1>1, <2>1, <2>5, <3>1, <3>2, <4>1, <4>2, <5>1, <5>2 DEF CountInv, Alike, RegInv
        <5>3. CASE w.pc = "log"
          <6>1. Dies(r)
            BY <1>4, <3>4, <5>3 DEF Step, Solve, Spend, FindFree, Create, Token, Verify,
               Fail, Note, Reset, Destroy, Read, Open, Update, Refresh
          <6> QED
            BY <5>3, <6>1 DEF Dies, RegInv
        <5> QED
          BY <5>2, <5>3
      <4> QED
        BY <4>3, <4>4
    <3> QED
      BY <3>3, <3>4
  <2> QED
    BY <1>1, <2>4, <2>5
<1>5. ASSUME UNCHANGED <<hash, iplog, req, raced>> PROVE RegInv'
  BY <1>5 DEF RegInv, SingleInv, RoomInv, CountInv, HasAccount, Registering
<1>6. ASSUME NEW s \in Sids, Logout(s) \/ ResetToken(s) \/ SessionEnds(s) PROVE RegInv'
  BY <1>5, <1>6 DEF Logout, ResetToken, SessionEnds, ghosts
<1>7. ASSUME NEW p \in Challenges, Issue(p) \/ ChallengeEnds(p) PROVE RegInv'
  BY <1>5, <1>7 DEF Issue, ChallengeEnds, ghosts
<1>8. ASSUME NEW k \in Counters, LockEnds(k) PROVE RegInv'
  BY <1>5, <1>8 DEF LockEnds
<1>9. UNCHANGED vars => RegInv'
  BY <1>5 DEF vars, store
<1> QED
  BY <1>3, <1>4, <1>6, <1>7, <1>8, <1>9 DEF Next

LEMMA RegInit == Init => RegInv
<1> SUFFICES ASSUME Init PROVE RegInv
  OBVIOUS
<1>1. Cardinality(HasAccount) = iplog /\ iplog <= MaxRegisters
  BY DEF Init
<1>2. iplog \in Nat
  BY <1>1, AccountsFinite DEF HasAccount
<1>3. \A r \in Requests : ~Registering(r)
  BY IdleIs DEF Init, Registering
<1> QED
  BY <1>1, <1>2, <1>3, Bounds DEF RegInv, SingleInv, RoomInv, CountInv

\* The accounts of an address exceed the limit only if registrations
\* overlapped or one was cut between the account and its log entry.
THEOREM LimitKept == Spec => []LimitHolds
<1>1. Typed /\ RegInv => LimitHolds
  <2> SUFFICES ASSUME Typed, RegInv, ~raced
               PROVE  Cardinality(HasAccount) <= MaxRegisters
    BY DEF LimitHolds
  <2>1. iplog \in Nat /\ MaxRegisters \in Nat /\ Cardinality(HasAccount) \in Nat
    BY Bounds, AccountsFinite DEF Typed, TypeOK, HasAccount
  <2>2. iplog <= MaxRegisters /\ RoomInv /\ CountInv
    BY DEF RegInv
  <2>3. \A r \in Requests : req[r].pc = "log" => Registering(r)
    BY DEF Typed, Forms, Form, Registering
  <2>4. (\E r \in Requests : req[r].pc = "log") => iplog < MaxRegisters
    BY <2>2, <2>3 DEF RoomInv
  <2> QED
    BY <2>1, <2>2, <2>4 DEF CountInv
<1> QED
  BY <1>1, OldInit, OldKept, LiveInit, LiveKept, RegInit, RegKept, AlwaysTyped, PTL DEF Spec

----------------------------------------------------------------------------
(* Locks.  Every failure is counted once: the requests that have yet to     *)
(* note a failure in a counter, with the count stored or read, never exceed *)
(* the failures, until there are enough of them for the lock.               *)

Noting(q, k)  == req[q].pc \in {"fail", "note"} /\ Among(k, req[q].keys)
Pending(k)    == {q \in Requests : Noting(q, k)}
Adds(n, k)    == fails[k] = MaxFails \/ n + Cardinality(Pending(k)) <= fails[k]
Holds(q, k)   == req[q].pc = "note" /\ Head(req[q].keys) = k
StoredInv(k)  == Adds(count[k], k)
HeldInv(k)    == \A q \in Requests : Holds(q, k) => Adds(req[q].n, k)
LockInv       == \A k \in Counters : StoredInv(k) /\ HeldInv(k)

LEMMA PendingFinite ==
    ASSUME NEW S \in SUBSET Requests
    PROVE  /\ IsFiniteSet(S) /\ Cardinality(S) \in Nat
           /\ \A T \in SUBSET S : Cardinality(T) <= Cardinality(S)
           /\ \A q : q \notin S => Cardinality(S \cup {q}) = Cardinality(S) + 1
           /\ \A q \in S : Cardinality(S \ {q}) = Cardinality(S) - 1
<1>1. IsFiniteSet(S)
  BY AccountsAssumption, FS_Subset
<1> QED
  BY <1>1, FS_CardinalityType, FS_AddElement, FS_RemoveElement, FS_Subset

LEMMA Numbers ==
    ASSUME Typed, NEW k \in Counters
    PROVE  /\ count[k] \in Nat /\ fails[k] \in Nat /\ fails[k] <= MaxFails
           /\ MaxFails \in Nat
           /\ \A q \in Requests : req[q].n \in Nat
           /\ \A q \in Requests : Holds(q, k) => Noting(q, k)
<1>1. /\ count[k] \in 0 .. MaxFails /\ fails[k] \in 0 .. MaxFails
      /\ \A q \in Requests : req[q] \in ReqStates /\ Form(req[q])
  BY DEF Typed, TypeOK, Forms
<1>2. ASSUME NEW q \in Requests PROVE req[q].n \in Nat
  <2>1. req[q].n \in (0 .. MaxFails) \cup Versions
    BY <1>1 DEF ReqStates
  <2> QED
    BY <2>1, Bounds DEF Versions
<1>3. ASSUME NEW q \in Requests, Holds(q, k) PROVE Noting(q, k)
  <2>1. req[q].keys \in Seq(Counters) /\ req[q].keys # <<>> /\ Distinct(req[q].keys)
    BY <1>1, <1>3 DEF Holds, ReqStates, Form
  <2> QED
    BY <1>3, <2>1, TailIsDistinct DEF Holds, Noting
<1> QED
  BY <1>1, <1>2, <1>3, Bounds

\* Nothing is added to the counter, and it may be forgotten.
LEMMA LockQuiet ==
    ASSUME Typed, Typed', NEW k \in Counters, StoredInv(k), HeldInv(k),
           \/ fails'[k] = fails[k] /\ count'[k] \in {count[k], 0}
           \/ count'[k] = 0 /\ fails'[k] = 0 /\ Pending(k) = {},
           \A q \in Requests : Noting(q, k)' => Noting(q, k),
           \A q \in Requests : Holds(q, k)' => Holds(q, k) /\ req'[q].n = req[q].n
    PROVE  StoredInv(k)' /\ HeldInv(k)'
<1> DEFINE S == Pending(k)
           T == Pending(k)'
<1>1. T \in SUBSET S /\ S \in SUBSET Requests
  BY DEF Pending
<1>2. Cardinality(T) <= Cardinality(S) /\ Cardinality(T) \in Nat /\ Cardinality(S) \in Nat
      /\ (S = {} => Cardinality(T) = 0)
  <2> HIDE DEF S, T
  <2>1. S = {} => T = {}
    BY <1>1
  <2> QED
    BY <1>1, <2>1, PendingFinite, FS_EmptySet
<1>3. ASSUME NEW n \in Nat, NEW m \in Nat, m <= n, Adds(n, k), fails'[k] = fails[k]
      PROVE  fails'[k] = MaxFails \/ m + Cardinality(T) <= fails'[k]
  <2>1. fails[k] = MaxFails \/ n + Cardinality(S) <= fails[k]
    BY <1>3 DEF Adds
  <2> HIDE DEF S, T
  <2> QED
    BY <1>2, <1>3, <2>1, Numbers
<1>4. CASE fails'[k] = fails[k] /\ count'[k] \in {count[k], 0}
  <2>1. StoredInv(k)'
    BY <1>3, <1>4, Numbers DEF StoredInv, Adds
  <2>2. ASSUME NEW q \in Requests, Holds(q, k)' PROVE Adds(req[q].n, k)'
    <3>1. Holds(q, k) /\ req'[q].n = req[q].n
      BY <2>2
    <3> QED
      BY <1>3, <1>4, <3>1, Numbers DEF HeldInv, Adds
  <2> QED
    BY <2>1, <2>2 DEF HeldInv
<1>5. CASE count'[k] = 0 /\ fails'[k] = 0 /\ S = {}
  <2>1. StoredInv(k)'
    BY <1>2, <1>5 DEF StoredInv, Adds
  <2>2. \A q \in Requests : ~Holds(q, k)'
    BY <1>5, Numbers DEF Pending
  <2> QED
    BY <2>1, <2>2 DEF HeldInv
<1> QED
  BY <1>4, <1>5

\* A request that was noting nothing starts to note a failure.
LEMMA LockFailing ==
    ASSUME Typed, Typed', NEW r \in Requests, NEW op, NEW u, NEW keys,
           Failing(r, op, u, keys), req[r].pc \notin {"fail", "note"},
           count' = count, NEW k \in Counters, StoredInv(k), HeldInv(k)
    PROVE  StoredInv(k)' /\ HeldInv(k)'
<1>1. /\ req'[r] = [Idle EXCEPT !.pc = "fail", !.op = op, !.user = u, !.keys = keys]
      /\ \A q \in Requests \ {r} : req'[q] = req[q]
      /\ fails' = [j \in Counters |-> IF Among(j, keys) /\ fails[j] < MaxFails
                                      THEN fails[j] + 1 ELSE fails[j]]
  BY DEF Failing, Typed, TypeOK
<1>2. req'[r].pc = "fail" /\ req'[r].keys = keys
  BY <1>1 DEF Idle
<1> DEFINE S == Pending(k)
           T == Pending(k)'
<1>3. /\ S \in SUBSET Requests /\ r \notin S
      /\ T = IF Among(k, keys) THEN S \cup {r} ELSE S
  BY <1>1, <1>2 DEF Pending, Noting
<1>4. /\ Cardinality(S) \in Nat
      /\ Cardinality(T) = Cardinality(S) + (IF Among(k, keys) THEN 1 ELSE 0)
  <2> HIDE DEF S, T
  <2> QED
    BY <1>3, PendingFinite
<1>5. fails'[k] = IF Among(k, keys) /\ fails[k] < MaxFails THEN fails[k] + 1 ELSE fails[k]
  BY <1>1
<1>6. ASSUME NEW n \in Nat, Adds(n, k)
      PROVE  fails'[k] = MaxFails \/ n + Cardinality(T) <= fails'[k]
  <2>1. fails[k] = MaxFails \/ n + Cardinality(S) <= fails[k]
    BY <1>6 DEF Adds
  <2> HIDE DEF S, T
  <2> QED
    BY <1>4, <1>5, <1>6, <2>1, Numbers
<1>7. StoredInv(k)'
  BY <1>6, Numbers DEF StoredInv, Adds
<1>8. ASSUME NEW q \in Requests, Holds(q, k)' PROVE Adds(req[q].n, k)'
  <2>1. q # r
    BY <1>2, <1>8 DEF Holds
  <2>2. req'[q] = req[q] /\ Holds(q, k)
    BY <1>1, <1>8, <2>1 DEF Holds
  <2> QED
    BY <1>6, <2>2, Numbers DEF HeldInv, Adds
<1> QED
  BY <1>7, <1>8 DEF HeldInv

\* The read of a counter, and the write of one more.
LEMMA LockFail ==
    ASSUME Typed, Typed', NEW r \in Requests, Fail(r),
           NEW k \in Counters, StoredInv(k), HeldInv(k)
    PROVE  StoredInv(k)' /\ HeldInv(k)'
<1>1. req[r] \in ReqStates
  BY DEF Typed, TypeOK
<1>2. /\ req'[r] = [req[r] EXCEPT !.pc = "note", !.n = count[Head(req[r].keys)]]
      /\ \A q \in Requests \ {r} : req'[q] = req[q]
      /\ req[r].pc = "fail" /\ count' = count /\ fails' = fails
  <2>1. req' = [req EXCEPT ![r] = [req[r] EXCEPT !.pc = "note",
                                                 !.n = count[Head(req[r].keys)]]]
    BY DEF Fail, Typed, TypeOK
  <2>2. req[r].pc = "fail" /\ count' = count /\ fails' = fails
    BY DEF Fail, store, ghosts
  <2>3. req \in [Requests -> ReqStates]
    BY DEF Typed, TypeOK
  <2> DEFINE X == [req[r] EXCEPT !.pc = "note", !.n = count[Head(req[r].keys)]]
  <2> HIDE DEF X
  <2>4. req' = [req EXCEPT ![r] = X]
    BY <2>1 DEF X
  <2>5. req'[r] = X /\ \A q \in Requests \ {r} : req'[q] = req[q]
    BY <2>3, <2>4
  <2> QED
    BY <2>2, <2>5 DEF X
<1>3. /\ req'[r].pc = "note" /\ req'[r].keys = req[r].keys
      /\ req'[r].n = count[Head(req[r].keys)]
  BY <1>1, <1>2 DEF ReqStates
<1>4. Pending(k)' = Pending(k)
  BY <1>2, <1>3 DEF Pending, Noting
<1>5. StoredInv(k)'
  BY <1>2, <1>4 DEF StoredInv, Adds
<1>6. ASSUME NEW q \in Requests, Holds(q, k)' PROVE Adds(req[q].n, k)'
  <2>1. CASE q = r
    <3>1. req'[q].n = count[k]
      BY <1>3, <1>6, <2>1 DEF Holds
    <3> QED
      BY <1>2, <1>4, <3>1 DEF StoredInv, Adds
  <2>2. CASE q # r
    <3>1. req'[q] = req[q] /\ Holds(q, k)
      BY <1>2, <1>6, <2>2 DEF Holds
    <3> QED
      BY <1>2, <1>4, <3>1 DEF HeldInv, Adds
  <2> QED
    BY <2>1, <2>2
<1> QED
  BY <1>5, <1>6 DEF HeldInv

LEMMA LockNote ==
    ASSUME Typed, Typed', NEW r \in Requests, Note(r),
           NEW k \in Counters, StoredInv(k), HeldInv(k)
    PROVE  StoredInv(k)' /\ HeldInv(k)'
<1> DEFINE w == req[r]
           j == Head(w.keys)
<1>1. /\ w \in ReqStates /\ req \in [Requests -> ReqStates] /\ w.pc = "note"
      /\ w.keys \in Seq(Counters) /\ w.keys # <<>> /\ Distinct(w.keys)
      /\ count \in [Counters -> 0 .. MaxFails]
  BY DEF Typed, TypeOK, Forms, Form, Note, ReqStates
<1>2. /\ j \in Counters /\ Among(j, w.keys)
      /\ Among(k, Tail(w.keys)) <=> Among(k, w.keys) /\ k # j
      /\ Tail(w.keys) \in Seq(Counters)
  BY <1>1, TailIsDistinct
<1>3. /\ count' = [count EXCEPT ![j] = Least(w.n + 1, MaxFails)] /\ fails' = fails
      /\ Noted(r)
  BY DEF Note, ghosts
<1>4. \A q \in Requests \ {r} : req'[q] = req[q]
  BY <1>1, <1>3 DEF Noted, End
<1>5. ~Holds(r, k)' /\ (Noting(r, k)' => Noting(r, k) /\ k # j)
  <2>1. CASE Len(w.keys) = 1
    <3>1. req'[r] = Idle
      BY <1>1, <1>3, <2>1 DEF Noted, End
    <3> QED
      BY <3>1, IdleIs DEF Holds, Noting
  <2>2. CASE Len(w.keys) # 1
    <3>1. req' = [req EXCEPT ![r] = [w EXCEPT !.pc = "fail", !.n = 0, !.keys = Tail(w.keys)]]
      BY <1>1, <1>3, <2>2 DEF Noted
    <3>2. req'[r] = [w EXCEPT !.pc = "fail", !.n = 0, !.keys = Tail(w.keys)]
      BY <1>1, <3>1
    <3>3. req'[r].pc = "fail" /\ req'[r].keys = Tail(w.keys)
      BY <1>1, <3>2 DEF ReqStates
    <3> QED
      BY <1>1, <1>2, <3>3 DEF Holds, Noting
  <2> QED
    BY <2>1, <2>2
<1>6. /\ \A q \in Requests : Noting(q, k)' => Noting(q, k)
      /\ \A q \in Requests : Holds(q, k)' => Holds(q, k) /\ req'[q].n = req[q].n
  BY <1>4, <1>5 DEF Noting, Holds
<1>7. CASE k # j
  <2>1. count'[k] = count[k] /\ fails'[k] = fails[k]
    BY <1>1, <1>2, <1>3, <1>7
  <2> QED
    BY <1>6, <2>1, LockQuiet
<1>8. CASE k = j
  <2> DEFINE S == Pending(k)
             T == Pending(k)'
  <2>1. /\ S \in SUBSET Requests /\ r \in S /\ T = S \ {r}
    BY <1>1, <1>2, <1>4, <1>5, <1>8 DEF Pending, Noting
  <2>2. Cardinality(S) \in Nat /\ Cardinality(T) = Cardinality(S) - 1
    <3> HIDE DEF S, T
    <3> QED
      BY <2>1, PendingFinite
  <2>3. fails[k] = MaxFails \/ w.n + Cardinality(S) <= fails[k]
    BY <1>1, <1>8 DEF HeldInv, Holds, Adds
  <2>4. count'[k] = Least(w.n + 1, MaxFails) /\ fails'[k] = fails[k]
    BY <1>1, <1>2, <1>3, <1>8
  <2>5. fails'[k] = MaxFails \/ count'[k] + Cardinality(T) <= fails'[k]
    <3> HIDE DEF S, T
    <3>1. w.n \in Nat /\ MaxFails \in Nat /\ fails[k] \in Nat
      BY Numbers
    <3> HIDE DEF w
    <3> QED
      BY <2>2, <2>3, <2>4, <3>1 DEF Least
  <2>6. StoredInv(k)'
    BY <2>5 DEF StoredInv, Adds
  <2>7. ASSUME NEW q \in Requests, Holds(q, k)' PROVE Adds(req[q].n, k)'
    <3>1. Holds(q, k) /\ req'[q].n = req[q].n
      BY <1>6, <2>7
    <3>2. fails[k] = MaxFails \/ req[q].n + Cardinality(S) <= fails[k]
      BY <3>1 DEF HeldInv, Adds
    <3>3. req[q].n \in Nat /\ fails[k] \in Nat
      BY Numbers
    <3>4. fails'[k] = MaxFails \/ req'[q].n + Cardinality(T) <= fails'[k]
      <4> HIDE DEF S, T
      <4> QED
        BY <2>2, <2>4, <3>1, <3>2, <3>3
    <3> QED
      BY <3>4 DEF Adds
  <2> QED
    BY <2>6, <2>7 DEF HeldInv
<1> QED
  BY <1>7, <1>8

\* A counter is forgotten, by a login or at its deadline.
LEMMA LockForget ==
    ASSUME Typed, Typed', NEW j \in Counters, Forget(j),
           NEW k \in Counters, StoredInv(k), HeldInv(k),
           \A q \in Requests : Noting(q, k)' => Noting(q, k),
           \A q \in Requests : Holds(q, k)' => Holds(q, k) /\ req'[q].n = req[q].n
    PROVE  StoredInv(k)' /\ HeldInv(k)'
<1>1. /\ count' = [count EXCEPT ![j] = 0]
      /\ fails' = IF Quiet(j) THEN [fails EXCEPT ![j] = 0] ELSE fails
      /\ count \in [Counters -> 0 .. MaxFails] /\ fails \in [Counters -> 0 .. MaxFails]
  BY DEF Forget, Typed, TypeOK
<1>2. Quiet(j) /\ k = j => Pending(k) = {}
  BY DEF Quiet, Pending, Noting
<1>3. \/ fails'[k] = fails[k] /\ count'[k] \in {count[k], 0}
      \/ count'[k] = 0 /\ fails'[k] = 0 /\ Pending(k) = {}
  BY <1>1, <1>2
<1> QED
  BY <1>3, LockQuiet

LEMMA LockStep ==
    ASSUME Typed, Typed', NEW r \in Requests, Step(r) \/ Dies(r),
           NEW k \in Counters, StoredInv(k), HeldInv(k)
    PROVE  StoredInv(k)' /\ HeldInv(k)'
<1> DEFINE w == req[r]
<1>1. /\ w \in ReqStates /\ Form(w) /\ req \in [Requests -> ReqStates]
      /\ \A q \in Requests \ {r} : Alike(req'[q], req[q])
  BY StepShapes DEF Typed, TypeOK, Forms, Shaped
<1>2. ASSUME req'[r].pc \notin {"fail", "note"}
      PROVE  /\ \A q \in Requests : Noting(q, k)' => Noting(q, k)
             /\ \A q \in Requests : Holds(q, k)' => Holds(q, k) /\ req'[q].n = req[q].n
  BY <1>1, <1>2 DEF Alike, Noting, Holds
<1>3. CASE Reset(r)
  <2>1. w.pc = "reset" /\ w.keys \in Seq(Counters) /\ w.keys # <<>> /\ Distinct(w.keys)
    BY <1>1, <1>3 DEF Reset, Form, ReqStates
  <2>2. Head(w.keys) \in Counters /\ Forget(Head(w.keys))
    BY <1>3, <2>1, TailIsDistinct DEF Reset
  <2>3. req' = [req EXCEPT ![r] = [w EXCEPT
                  !.pc = IF Len(w.keys) = 1 THEN "destroy" ELSE "reset",
                  !.keys = Tail(w.keys)]]
    BY <1>1, <1>3, <2>1 DEF Reset
  <2>4. req'[r] = [w EXCEPT !.pc = IF Len(w.keys) = 1 THEN "destroy" ELSE "reset",
                            !.keys = Tail(w.keys)]
    BY <1>1, <2>3
  <2>5. req'[r].pc \notin {"fail", "note"}
    BY <1>1, <2>4 DEF ReqStates
  <2> QED
    BY <1>2, <2>2, <2>5, LockForget
<1>4. CASE Verify(r)
  <2>1. count' = count /\ w.pc = "find"
    BY <1>4 DEF Verify, store
  <2>2. CASE Failing(r, "login", w.user, Keys[w.user])
    BY <2>1, <2>2, LockFailing
  <2>3. CASE fails' = fails /\ req' = [req EXCEPT ![r].pc = "reset", ![r].keys = Keys[w.user]]
    <3>1. req' = [req EXCEPT ![r] = [w EXCEPT !.pc = "reset", !.keys = Keys[w.user]]]
      BY <1>1, <2>3
    <3>2. req'[r] = [w EXCEPT !.pc = "reset", !.keys = Keys[w.user]]
      BY <1>1, <3>1
    <3>3. req'[r].pc = "reset"
      BY <1>1, <3>2 DEF ReqStates
    <3> QED
      BY <1>2, <2>1, <2>3, <3>3, LockQuiet
  <2> QED
    BY <1>4, <2>2, <2>3 DEF Verify
<1>5. CASE Fail(r)
  BY <1>5, LockFail
<1>6. CASE Note(r)
  BY <1>6, LockNote
<1>7. CASE ~(Reset(r) \/ Verify(r) \/ Fail(r) \/ Note(r))
  <2>1. count' = count /\ fails' = fails
    BY <1>7, Frames
  <2>2. req'[r].pc \notin {"fail", "note"}
    <3>1. req'[r].pc \in {"fail", "note"} => ToFail(r) \/ ToNote(r) \/ NoteNext(r)
      BY TurnedTo
    <3>2. ToNote(r) => w.pc = "fail"
      BY DEF ToNote
    <3>3. Step(r) /\ w.pc = "fail" => Fail(r)
      BY DEF Step, Solve, Spend, FindFree, Create, Log, Token, Verify, Note, Reset,
             Destroy, Read, Open, Update, Refresh
    <3>4. Dies(r) => req'[r].pc = "idle"
      BY <1>1, IdleIs DEF Dies, End
    <3> QED
      BY <1>7, <3>1, <3>2, <3>3, <3>4 DEF ToFail, NoteNext
  <2> QED
    BY <1>2, <2>1, <2>2, LockQuiet
<1> QED
  BY <1>3, <1>4, <1>5, <1>6, <1>7

LEMMA BeginLock ==
    ASSUME Typed, NEW r \in Requests, Begin(r)
    PROVE  \/ fails' = fails /\ req'[r].pc \notin {"fail", "note"}
           \/ \E op, u, keys : Failing(r, op, u, keys)
<1>1. /\ req'[r].pc \in {"solve", "update", "fail"} /\ req \in [Requests -> ReqStates]
  BY BeginShapes DEF Typed, TypeOK
<1>2. ASSUME NEW X, X.pc # "fail", req' = [req EXCEPT ![r] = X] PROVE req'[r].pc # "fail"
  BY <1>1, <1>2
<1>3. ASSUME NEW u, Register(r, u) PROVE fails' = fails /\ req'[r].pc # "fail"
  <2> DEFINE X == [Idle EXCEPT !.pc = "solve", !.op = "register", !.user = u]
  <2>1. X.pc # "fail" /\ req' = [req EXCEPT ![r] = X] /\ fails' = fails
    BY <1>3 DEF Register, Idle
  <2> HIDE DEF X
  <2> QED
    BY <1>2, <2>1
<1>4. ASSUME NEW u, NEW v, NEW s, Login(r, u, v, s)
      PROVE  fails' = fails /\ req'[r].pc # "fail"
  <2> DEFINE X == [Idle EXCEPT !.pc = "solve", !.op = "login", !.user = u,
                               !.ver = v, !.sid = s]
  <2>1. X.pc # "fail" /\ req' = [req EXCEPT ![r] = X] /\ fails' = fails
    BY <1>4 DEF Login, Idle, ghosts
  <2> HIDE DEF X
  <2> QED
    BY <1>2, <2>1
<1>5. ASSUME NEW s \in Sids, Change(r, s)
      PROVE  \/ fails' = fails /\ req'[r].pc # "fail"
             \/ \E op, u, keys : Failing(r, op, u, keys)
  <2> DEFINE u == session[s].user
             X == [Idle EXCEPT !.op = "password", !.user = u, !.sid = s,
                               !.ver = hash[u], !.pc = "update"]
  <2>1. \/ fails' = fails /\ req' = [req EXCEPT ![r] = X]
        \/ Failing(r, "password", u, Keys[u])
    BY <1>5 DEF Change
  <2>2. X.pc # "fail"
    BY DEF Idle
  <2> HIDE DEF X, u
  <2> QED
    BY <1>2, <2>1, <2>2
<1>6. Guess(r) => \E op, u, keys : Failing(r, op, u, keys)
  BY DEF Guess
<1> QED
  BY <1>1, <1>3, <1>4, <1>5, <1>6 DEF Begin

LEMMA LockKept ==
    ASSUME Typed, LockInv, [Next]_vars
    PROVE  LockInv'
<1>1. Typed'
  BY TypedKept
<1> SUFFICES ASSUME NEW k \in Counters PROVE StoredInv(k)' /\ HeldInv(k)'
  BY DEF LockInv
<1>2. StoredInv(k) /\ HeldInv(k)
  BY DEF LockInv
<1>3. ASSUME NEW r \in Requests, Begin(r) PROVE StoredInv(k)' /\ HeldInv(k)'
  <2>1. /\ req[r].pc = "idle" /\ count' = count
        /\ \A q \in Requests \ {r} : req'[q] = req[q]
    BY <1>3, BeginShapes, BeginAlone DEF Typed, store
  <2>2. CASE fails' = fails /\ req'[r].pc \notin {"fail", "note"}
    <3>1. /\ \A q \in Requests : Noting(q, k)' => Noting(q, k)
          /\ \A q \in Requests : Holds(q, k)' => Holds(q, k) /\ req'[q].n = req[q].n
      BY <2>1, <2>2 DEF Noting, Holds
    <3> QED
      BY <1>1, <1>2, <2>1, <2>2, <3>1, LockQuiet
  <2>3. CASE \E op, u, keys : Failing(r, op, u, keys)
    BY <1>1, <1>2, <2>1, <2>3, LockFailing
  <2> QED
    BY <1>3, <2>2, <2>3, BeginLock
<1>4. ASSUME NEW r \in Requests, Step(r) \/ Dies(r) PROVE StoredInv(k)' /\ HeldInv(k)'
  BY <1>1, <1>2, <1>4, LockStep
<1>5. ASSUME NEW j \in Counters, LockEnds(j) PROVE StoredInv(k)' /\ HeldInv(k)'
  <2>1. Forget(j) /\ req' = req
    BY <1>5 DEF LockEnds
  <2> QED
    BY <1>1, <1>2, <2>1, LockForget DEF Noting, Holds
<1>6. ASSUME UNCHANGED <<count, fails, req>> PROVE StoredInv(k)' /\ HeldInv(k)'
  <2>1. /\ \A q \in Requests : Noting(q, k)' => Noting(q, k)
        /\ \A q \in Requests : Holds(q, k)' => Holds(q, k) /\ req'[q].n = req[q].n
    BY <1>6 DEF Noting, Holds
  <2> QED
    BY <1>1, <1>2, <1>6, <2>1, LockQuiet
<1>7. ASSUME NEW s \in Sids, Logout(s) \/ ResetToken(s) \/ SessionEnds(s)
      PROVE  UNCHANGED <<count, fails, req>>
  BY <1>7 DEF Logout, ResetToken, SessionEnds, ghosts
<1>8. ASSUME NEW p \in Challenges, Issue(p) \/ ChallengeEnds(p)
      PROVE  UNCHANGED <<count, fails, req>>
  BY <1>8 DEF Issue, ChallengeEnds, ghosts
<1>9. UNCHANGED vars => UNCHANGED <<count, fails, req>>
  BY DEF vars, store
<1> QED
  BY <1>3, <1>4, <1>5, <1>6, <1>7, <1>8, <1>9 DEF Next

LEMMA LockInit == Init => LockInv
<1> SUFFICES ASSUME Init, NEW k \in Counters PROVE StoredInv(k) /\ HeldInv(k)
  BY DEF LockInv
<1>1. Pending(k) = {} /\ \A q \in Requests : ~Holds(q, k)
  BY IdleIs DEF Init, Pending, Noting, Holds
<1>2. Cardinality(Pending(k)) = 0
  BY <1>1, FS_EmptySet
<1> QED
  BY <1>1, <1>2 DEF Init, StoredInv, HeldInv, Adds

\* Nobody is locked out early.
THEOREM LocksEarned == Spec => []LocksAreEarned
<1>1. Typed /\ LockInv => LocksAreEarned
  <2> SUFFICES ASSUME Typed, LockInv, NEW k \in Counters PROVE count[k] <= fails[k]
    BY DEF LocksAreEarned
  <2>1. fails[k] = MaxFails \/ count[k] + Cardinality(Pending(k)) <= fails[k]
    BY DEF LockInv, StoredInv, Adds
  <2>2. count[k] \in 0 .. MaxFails /\ fails[k] \in Nat
    BY Numbers DEF Typed, TypeOK
  <2>3. Cardinality(Pending(k)) \in Nat
    BY PendingFinite DEF Pending
  <2> QED
    BY <2>1, <2>2, <2>3, Bounds
<1> QED
  BY <1>1, LockInit, LockKept, AlwaysTyped, PTL DEF Spec
=============================================================================
