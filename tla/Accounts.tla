------------------------------ MODULE Accounts ------------------------------
(***************************************************************************)
(* Accounts and sessions: registration, login and logout (routes/auth.tsx),*)
(* the change of the password (routes/account.tsx), the sessions of        *)
(* middleware/auth.ts, the failure counters of middleware/rate-limit.ts    *)
(* and the challenges of utils/pow.ts.  Each statement on the database and *)
(* each call of the key-value store is a step; several requests run at     *)
(* once, and an exception or the end of the process may cut any of them.   *)
(* The one-time message that shows a new token is left out.                *)
(*                                                                         *)
(* A password hash is its version: every hash has a fresh salt, which the  *)
(* fingerprint pwv of a session contains, and the passwords of different   *)
(* versions differ.  Version 0 is no account.  The system may start with   *)
(* accounts and sessions of the time before the fingerprint.  Slips of the *)
(* code, which the runs must notice, stand before the definition they      *)
(* would replace.                                                          *)
(***************************************************************************)
EXTENDS Integers, FiniteSets, Sequences

CONSTANTS
    Users, Requests,
    Sids,           \* session ids, each drawn once: bounds the logins
    Challenges,     \* ids of challenges; drawn again once forgotten
    Counters,       \* keys loginfail:... of addresses and of names, and badex:...
    TokenCounters,  \* those of unknown tokens: the address's, or none
    Keys,           \* [Users -> sequence of counters]: a failure of the user
                    \*   is noted in that of the address, then in the name's
    MaxRegisters,   \* 3, MAX_REGISTERS_PER_IP
    MaxFails,       \* 10, MAX_FAILS
    MaxVersion,     \* bound: passwords a user has had
    NoSid

ASSUME AccountsAssumption ==
    /\ IsFiniteSet(Requests) /\ IsFiniteSet(Users)
    /\ MaxRegisters \in Nat /\ MaxFails \in Nat \ {0} /\ MaxVersion \in Nat \ {0}
    /\ NoSid \notin Sids
    /\ Keys \in [Users -> Seq(Counters)] /\ TokenCounters \subseteq Counters
    /\ \A u \in Users :
         /\ Keys[u] # <<>>
         /\ \A i, j \in DOMAIN Keys[u] : Keys[u][i] = Keys[u][j] => i = j

Versions == 0 .. MaxVersion

VARIABLES
    hash,       \* users.password_hash
    iplog,      \* rows of ip_register_log for the address
    token,      \* users with an active gateway token
    session,    \* the entries session:<sid>
    chal,       \* the entries pow:<id>
    count,      \* the entries loginfail:...; MaxFails is the lock
    req,
    spent,      \* ghost: challenges a request has deleted
    ended,      \* ghost: sessions ended while nobody used them
    fails,      \* ghost: failures since the counter was last quiet
    raced       \* ghost: a registration overlapped another or was cut short

store == <<hash, iplog, token, session, chal, count>>
vars  == <<store, req, spent, ended, fails, raced>>

\* proved: version of the password the session's opener gave; late: a change
\* of the password came between that proof and the session.
Fresh == [state |-> "fresh", user |-> "", pwv |-> 0, proved |-> 0, late |-> FALSE]
Gone  == [Fresh EXCEPT !.state = "gone"]

\* A session of before the fingerprint was introduced, which has none.
NoPwv     == -1
Legacy(u) == [Fresh EXCEPT !.state = "open", !.user = u, !.pwv = NoPwv, !.proved = 1]
Sessions == [state : {"fresh", "open", "gone"}, user : Users \cup {""},
             pwv : Versions \cup {NoPwv}, proved : Versions, late : BOOLEAN]

\* ver: the version proved or read; sid: the cookie, then the new session's.
Idle == [pc |-> "idle", op |-> "", user |-> "", ver |-> 0, sid |-> NoSid,
         chal |-> {}, keys |-> <<>>, n |-> 0, late |-> FALSE]
ReqStates ==
    [pc : {"idle", "solve", "spend", "find", "create", "log", "reset", "destroy",
           "read", "open", "token", "fail", "note", "update", "refresh"},
     op : {"", "register", "login", "password", "call"}, user : Users \cup {""},
     ver : Versions, sid : Sids \cup {NoSid}, chal : SUBSET Challenges,
     keys : Seq(Counters), n : (0 .. MaxFails) \cup Versions, late : BOOLEAN]

\* pbkdf2Hash: a version never had before; pbkdf2Verify.
NextHash(v)       == v + 1
Matches(given, v) == v # 0 /\ given = v

\* The first characters of a hash: its cost and part of its salt.
Fingerprint(v) == v

\* userFromSid; a session without a fingerprint passes.
Accepted(s) ==
    /\ session[s].state = "open"
    /\ session[s].pwv \in {NoPwv, Fingerprint(hash[session[s].user])}

\* readCount and its uses: an ended lock counts as none.
Among(k, keys) == \E i \in DOMAIN keys : keys[i] = k
Blocked(u)     == \E k \in Counters : Among(k, Keys[u]) /\ count[k] >= MaxFails

HasAccount == {u \in Users : hash[u] > 0}

\* Some users may have an account, registered at the address within its limit,
\* and sessions of before the fingerprint.
Init ==
    /\ hash \in [Users -> {0, 1}]
    /\ iplog = Cardinality(HasAccount) /\ iplog <= MaxRegisters
    /\ token = HasAccount
    /\ session \in [Sids -> {Fresh} \cup {Legacy(u) : u \in HasAccount}]
    /\ chal = {}
    /\ count = [k \in Counters |-> 0]
    /\ req = [r \in Requests |-> Idle]
    /\ spent = {} /\ ended = {} /\ raced = FALSE
    /\ fails = [k \in Counters |-> 0]

\* The bound Sids.
SidsLeft == \E s \in Sids : session[s].state = "fresh"

Goto(r, pc) == req' = [req EXCEPT ![r].pc = pc]
End(r)      == req' = [req EXCEPT ![r] = Idle]
ghosts      == <<spent, ended, fails, raced>>

----------------------------------------------------------------------------
(* The proof of work.                                                      *)

\* powIssue, with every rendering of the form.
Issue(p) ==
    /\ p \notin chal /\ \A r \in Requests : p \notin req[r].chal
    /\ chal' = chal \cup {p} /\ spent' = spent \ {p}
    /\ UNCHANGED <<hash, iplog, token, session, count, req, ended, fails, raced>>

\* powVerify: the read of the challenge ...
Solve(r) ==
    /\ req[r].pc = "solve"
    /\ \/ \E p \in chal :
            req' = [req EXCEPT ![r].pc = "spend", ![r].chal = {p}]
       \/ End(r)
    /\ UNCHANGED <<store, ghosts>>

SpendKeeps(r) ==
    /\ req[r].pc = "spend"
    /\ req' = [req EXCEPT ![r].pc = "find", ![r].chal = {}]
    /\ spent' = spent \cup req[r].chal
    /\ UNCHANGED <<store, ended, fails, raced>>

\* ... and its deletion; a wrong answer ends the request here.
Spend(r) ==
    /\ req[r].pc = "spend"
    /\ chal' = chal \ req[r].chal
    /\ spent' = spent \cup req[r].chal
    /\ \/ req' = [req EXCEPT ![r].pc = "find", ![r].chal = {}]
       \/ End(r)
    /\ UNCHANGED <<hash, iplog, token, session, count, ended, fails, raced>>

----------------------------------------------------------------------------
(* POST /auth/register.                                                    *)

Registering(r) == /\ req[r].op = "register"
                  /\ req[r].pc \in {"solve", "spend", "find", "create", "log"}

\* countIpRegsTotal; the checks before it are of the form only.
Register(r, u) ==
    /\ req[r].pc = "idle" /\ iplog < MaxRegisters /\ SidsLeft
    /\ req' = [req EXCEPT ![r] =
                 [Idle EXCEPT !.pc = "solve", !.op = "register", !.user = u]]
    /\ raced' = (raced \/ \E q \in Requests : Registering(q))
    /\ UNCHANGED <<store, spent, ended, fails>>

FindFree(r) ==
    /\ req[r].pc = "find" /\ req[r].op = "register"
    /\ IF hash[req[r].user] = 0 THEN Goto(r, "create") ELSE End(r)
    /\ UNCHANGED <<store, ghosts>>

\* createUser; the unique name makes the second of two inserts throw.
Create(r) ==
    LET u == req[r].user
    IN  /\ req[r].pc = "create"
        /\ IF hash[u] = 0
           THEN /\ hash' = [hash EXCEPT ![u] = NextHash(0)]
                /\ req' = [req EXCEPT ![r].pc = "log", ![r].ver = NextHash(0)]
           ELSE End(r) /\ UNCHANGED hash
        /\ UNCHANGED <<iplog, token, session, chal, count, ghosts>>

LogSkipped(r) ==
    req[r].pc = "log" /\ Goto(r, "read") /\ UNCHANGED <<store, ghosts>>

\* insertIpLog.
Log(r) ==
    /\ req[r].pc = "log"
    /\ iplog' = iplog + 1
    /\ Goto(r, "read")
    /\ UNCHANGED <<hash, token, session, chal, count, ghosts>>

\* issueToken: the batch revokes the old token and inserts the new one.
Token(r) ==
    /\ req[r].pc = "token"
    /\ token' = token \cup {req[r].user}
    /\ End(r)
    /\ UNCHANGED <<hash, iplog, session, chal, count, ghosts>>

----------------------------------------------------------------------------
(* POST /auth/login and /auth/logout.                                      *)

\* v: the version whose password the client gives, 0 a password the user never
\* had; s: its cookie.
Login(r, u, v, s) ==
    /\ req[r].pc = "idle" /\ ~Blocked(u) /\ v <= hash[u] /\ SidsLeft
    /\ s # NoSid => session[s].state = "open"
    /\ req' = [req EXCEPT ![r] =
                 [Idle EXCEPT !.pc = "solve", !.op = "login", !.user = u,
                              !.ver = v, !.sid = s]]
    /\ UNCHANGED <<store, ghosts>>

\* A failure of request r is to be noted in the counters keys.
Failing(r, op, user, keys) ==
    /\ req' = [req EXCEPT ![r] = [Idle EXCEPT !.pc = "fail", !.op = op,
                                              !.user = user, !.keys = keys]]
    /\ fails' = [k \in Counters |->
                   IF Among(k, keys) /\ fails[k] < MaxFails
                   THEN fails[k] + 1 ELSE fails[k]]

\* getUserByUsername and pbkdf2Verify.
Verify(r) ==
    /\ req[r].pc = "find" /\ req[r].op = "login"
    /\ IF Matches(req[r].ver, hash[req[r].user])
       THEN /\ req' = [req EXCEPT ![r].pc = "reset", ![r].keys = Keys[req[r].user]]
            /\ UNCHANGED fails
       ELSE Failing(r, "login", req[r].user, Keys[req[r].user])
    /\ UNCHANGED <<store, spent, ended, raced>>

Quiet(k) ==
    \A r \in Requests : req[r].pc \in {"fail", "note"} => ~Among(k, req[r].keys)

Forget(k) ==
    /\ count' = [count EXCEPT ![k] = 0]
    /\ fails' = IF Quiet(k) THEN [fails EXCEPT ![k] = 0] ELSE fails

\* requireBearerToken, for a token nobody has.
Guess(r) ==
    /\ req[r].pc = "idle"
    /\ \E k \in TokenCounters : count[k] < MaxFails /\ Failing(r, "call", "", <<k>>)
    /\ UNCHANGED <<store, spent, ended, raced>>

\* loginFailIncrease, for one counter after the other, and badTokenIncrease:
\* the read ...
Fail(r) ==
    /\ req[r].pc = "fail"
    /\ req' = [req EXCEPT ![r].pc = "note", ![r].n = count[Head(req[r].keys)]]
    /\ UNCHANGED <<store, ghosts>>

Least(a, b) == IF a <= b THEN a ELSE b

\* On to the next counter, or out.
Noted(r) ==
    IF Len(req[r].keys) = 1 THEN End(r)
    ELSE req' = [req EXCEPT ![r].pc = "fail", ![r].n = 0, ![r].keys = Tail(@)]

NoteTwice(r) ==
    /\ req[r].pc = "note"
    /\ count' = [count EXCEPT ![Head(req[r].keys)] = Least(req[r].n + 2, MaxFails)]
    /\ Noted(r)
    /\ UNCHANGED <<hash, iplog, token, session, chal, ghosts>>

\* ... and the write of the count, or of the lock.
Note(r) ==
    /\ req[r].pc = "note"
    /\ count' = [count EXCEPT ![Head(req[r].keys)] = Least(req[r].n + 1, MaxFails)]
    /\ Noted(r)
    /\ UNCHANGED <<hash, iplog, token, session, chal, ghosts>>

\* loginFailReset.
Reset(r) ==
    /\ req[r].pc = "reset"
    /\ Forget(Head(req[r].keys))
    /\ req' = [req EXCEPT ![r].pc = IF Len(req[r].keys) = 1 THEN "destroy" ELSE @,
                          ![r].keys = Tail(@)]
    /\ UNCHANGED <<hash, iplog, token, session, chal, spent, ended, raced>>

Changing(s) == \E q \in Requests : req[q].op = "password" /\ req[q].sid = s

\* destroySession.
Drop(s) ==
    /\ session' = [session EXCEPT ![s] = Gone]
    /\ ended' = IF Changing(s) THEN ended ELSE ended \cup {s}

Destroy(r) ==
    /\ req[r].pc = "destroy"
    /\ IF req[r].sid # NoSid THEN Drop(req[r].sid) ELSE UNCHANGED <<session, ended>>
    /\ req' = [req EXCEPT ![r].pc = "read", ![r].sid = NoSid]
    /\ UNCHANGED <<hash, iplog, token, chal, count, spent, fails, raced>>

ReadFreeSid(r) ==
    LET free == {s \in Sids : /\ session[s].state # "open"
                              /\ \A q \in Requests : req[q].sid # s}
    IN  /\ req[r].pc = "read"
        /\ IF free # {}
           THEN \E s \in free :
                  req' = [req EXCEPT ![r].pc = "open", ![r].sid = s,
                                     ![r].n = Fingerprint(hash[req[r].user])]
           ELSE End(r)
        /\ UNCHANGED <<store, ghosts>>

\* createSession: an id never drawn before and the read of the hash ...
Read(r) ==
    LET new == {s \in Sids : /\ session[s].state = "fresh"
                             /\ \A q \in Requests : req[q].sid # s}
    IN  /\ req[r].pc = "read"
        /\ IF new # {}
           THEN \E s \in new :
                  req' = [req EXCEPT ![r].pc = "open", ![r].sid = s,
                                     ![r].n = Fingerprint(hash[req[r].user])]
           ELSE End(r)       \* beyond the bound Sids
        /\ UNCHANGED <<store, ghosts>>

\* ... and the write of the entry.
Open(r) ==
    /\ req[r].pc = "open"
    /\ session' = [session EXCEPT ![req[r].sid] =
                     [state |-> "open", user |-> req[r].user, pwv |-> req[r].n,
                      proved |-> req[r].ver, late |-> req[r].late]]
    /\ IF req[r].op = "register" THEN Goto(r, "token") ELSE End(r)
    /\ UNCHANGED <<hash, iplog, token, chal, count, ghosts>>

Logout(s) ==
    /\ session[s].state = "open"
    /\ Drop(s)
    /\ UNCHANGED <<hash, iplog, token, chal, count, req, spent, fails, raced>>

\* POST /api/tokens/reset.
ResetToken(s) ==
    /\ Accepted(s)
    /\ token' = token \cup {session[s].user}
    /\ UNCHANGED <<hash, iplog, session, chal, count, req, ghosts>>

----------------------------------------------------------------------------
(* POST /api/account/password.                                             *)

\* requireApiUser, the locks, and the old password against the row read.
Change(r, s) ==
    /\ req[r].pc = "idle" /\ Accepted(s) /\ ~Blocked(session[s].user)
    /\ LET u    == session[s].user
           base == [Idle EXCEPT !.op = "password", !.user = u, !.sid = s,
                                !.ver = hash[u]]
       IN  \/ /\ hash[u] < MaxVersion
              /\ req' = [req EXCEPT ![r] = [base EXCEPT !.pc = "update"]]
              /\ UNCHANGED fails
           \/ Failing(r, "password", u, Keys[u])
    /\ UNCHANGED <<store, spent, ended, raced>>

\* updatePassword, with a fresh salt.
Update(r) ==
    LET u == req[r].user
    IN  /\ req[r].pc = "update"
        /\ IF hash[u] < MaxVersion
           THEN /\ hash' = [hash EXCEPT ![u] = NextHash(@)]
                /\ req' = [q \in Requests |->
                             IF q = r
                             THEN [req[r] EXCEPT !.pc = "refresh", !.ver = NextHash(hash[u])]
                             ELSE [req[q] EXCEPT !.late = @ \/ (req[q].user = u
                                     /\ req[q].pc \in {"reset", "destroy", "read", "log"})]]
           ELSE End(r) /\ UNCHANGED hash        \* beyond the bound MaxVersion
        /\ UNCHANGED <<iplog, token, session, chal, count, ghosts>>

RefreshRereads(r) ==
    /\ req[r].pc = "refresh"
    /\ session' = [session EXCEPT ![req[r].sid] =
                     [state |-> "open", user |-> req[r].user,
                      pwv |-> Fingerprint(hash[req[r].user]),
                      proved |-> req[r].ver, late |-> FALSE]]
    /\ End(r)
    /\ UNCHANGED <<hash, iplog, token, chal, count, ghosts>>

\* refreshSessionPassword: whatever has become of the session.
Refresh(r) ==
    /\ req[r].pc = "refresh"
    /\ session' = [session EXCEPT ![req[r].sid] =
                     [state |-> "open", user |-> req[r].user,
                      pwv |-> Fingerprint(req[r].ver),
                      proved |-> req[r].ver, late |-> FALSE]]
    /\ End(r)
    /\ UNCHANGED <<hash, iplog, token, chal, count, ghosts>>

----------------------------------------------------------------------------
(* Time and failure.                                                       *)

\* The deadline of an entry: counters and locks, sessions, challenges.
LockEnds(k) ==
    /\ count[k] > 0 /\ Forget(k)
    /\ UNCHANGED <<hash, iplog, token, session, chal, req, spent, ended, raced>>

SessionEnds(s) ==
    /\ session[s].state = "open" /\ Drop(s)
    /\ UNCHANGED <<hash, iplog, token, chal, count, req, spent, fails, raced>>

ChallengeEnds(p) ==
    /\ p \in chal /\ chal' = chal \ {p}
    /\ UNCHANGED <<hash, iplog, token, session, count, req, ghosts>>

\* An exception or the end of the process.
Dies(r) ==
    /\ req[r].pc # "idle"
    /\ End(r)
    /\ raced' = (raced \/ req[r].pc = "log")
    /\ UNCHANGED <<store, spent, ended, fails>>

Step(r) == \/ Solve(r) \/ Spend(r) \/ FindFree(r) \/ Create(r) \/ Log(r)
           \/ Token(r) \/ Verify(r) \/ Fail(r) \/ Note(r) \/ Reset(r)
           \/ Destroy(r) \/ Read(r) \/ Open(r) \/ Update(r) \/ Refresh(r)

Begin(r) == \/ \E u \in Users : Register(r, u)
            \/ \E u \in Users, v \in Versions, s \in Sids \cup {NoSid} :
                  Login(r, u, v, s)
            \/ \E s \in Sids : Change(r, s)
            \/ Guess(r)

Next ==
    \/ \E r \in Requests : Begin(r) \/ Step(r) \/ Dies(r)
    \/ \E s \in Sids : Logout(s) \/ ResetToken(s) \/ SessionEnds(s)
    \/ \E p \in Challenges : Issue(p) \/ ChallengeEnds(p)
    \/ \E k \in Counters : LockEnds(k)

Spec == Init /\ [][Next]_vars

----------------------------------------------------------------------------
TypeOK ==
    /\ hash \in [Users -> Versions] /\ iplog \in Nat /\ token \subseteq Users
    /\ session \in [Sids -> Sessions]
    /\ chal \subseteq Challenges /\ spent \subseteq Challenges
    /\ count \in [Counters -> 0 .. MaxFails]
    /\ fails \in [Counters -> 0 .. MaxFails]
    /\ req \in [Requests -> ReqStates]
    /\ ended \subseteq Sids /\ raced \in BOOLEAN

\* The accounts of an address exceed the limit only if registrations
\* overlapped or one was cut between the account and its log entry.
LimitHolds == Cardinality(HasAccount) <= MaxRegisters \/ raced

\* A changed password ends what the old one opened, but for the sessions of
\* before the fingerprint: any other is accepted only if its opener gave the
\* current password, or was logging in at the moment of the change.
OldPasswordsOut ==
    \A s \in Sids : Accepted(s) =>
        \/ session[s].pwv = NoPwv
        \/ session[s].proved = hash[session[s].user]
        \/ session[s].late

\* A session that ends while no change of the password works with it never
\* comes back.
EndedStaysEnded == \A s \in ended : session[s].state = "gone"

\* A challenge that a request has deleted lets no later request pass.
SpentIsSpent ==
    [][\A r \in Requests : req[r].pc = "solve" /\ req'[r].pc = "spend"
          => req'[r].chal \cap spent = {}]_vars

\* Nobody is locked out early: a counter never exceeds the failures since it
\* was last quiet, whatever reads and writes overlap.
LocksAreEarned == \A k \in Counters : count[k] <= fails[k]
=============================================================================
