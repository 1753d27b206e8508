------------------------------ MODULE KvStore ------------------------------
(***************************************************************************)
(* One key of the file key-value store (fileKv of platform/node.ts): a     *)
(* JSON file with a value and a deadline.  A deadline is kept as the time  *)
(* left until it, which Aged counts down; an entry goes lazily, by the     *)
(* read that finds it overdue.                                             *)
(***************************************************************************)
EXTENDS Integers

Never   == -2       \* exp = null
Overdue == -1       \* exp < Date.now()

NoFile == [kind |-> "none"]
Torn   == [kind |-> "torn"]      \* a write that was cut: not JSON
File(v, left) == [kind |-> "file", v |-> v, left |-> left]

Files(Values, Ttl) ==
    {NoFile, Torn}
        \cup [kind : {"file"}, v : Values, left : {Never, Overdue} \cup 0 .. Ttl]

Expired(f) == f.kind = "file" /\ f.left = Overdue
Live(f)    == f.kind = "file" /\ f.left # Overdue

\* Slips of the code, which the runs must notice, stand before the definition
\* they would replace.
PutForever(v, ttl) == File(v, Never)

\* put; a missing or zero expirationTtl is no deadline.
Put(v, ttl) == File(v, IF ttl = 0 THEN Never ELSE ttl)

\* get: what the caller sees ...
GetOr(f, absent) == IF Live(f) THEN f.v ELSE absent

AfterGetEarly(f) ==
    IF f.kind = "file" /\ f.left \in {Overdue, 0} THEN NoFile ELSE f

\* ... and what it leaves: an overdue file is removed, a torn one stays.
AfterGet(f) == IF Expired(f) THEN NoFile ELSE f

\* One unit of time.
Aged(f) == IF Live(f) /\ f.left # Never THEN [f EXCEPT !.left = @ - 1] ELSE f
=============================================================================
