--------------------------- MODULE ServiceProofs ---------------------------
(***************************************************************************)
(* Theorems about Service and the processes of Boot for all values of the  *)
(* constants: any migrations, processes and operators.  Everything about   *)
(* the database follows from who leads: the process at the first migration *)
(* that is not recorded, whose next statement cannot fail.                 *)
(***************************************************************************)
EXTENDS Service, WellFoundedInduction, TLAPS

\* Migrations are recorded, and their statements executed, in order.
RecordedInOrder == \A m \in recorded : 1 .. m - 1 \subseteq recorded
SchemaInOrder   ==
    \A s \in schema : /\ 1 .. s[1] - 1 \subseteq recorded
                      /\ \A j \in 1 .. s[2] : <<s[1], j>> \in schema

\* What a process within its migrations has behind it.
Behind(w, rows, ran) ==
    /\ w.applied \subseteq rows
    /\ 1 .. w.at[1] - 1 \subseteq rows
    /\ \A j \in 1 .. w.at[2] - 1 : <<w.at[1], j>> \in ran
    /\ w.pc = "insert" => {w.at[1]} \X (1 .. Length[w.at[1]]) \subseteq ran
ProcsInOrder ==
    \A p \in Procs :
       proc[p].pc \in Migrating => Behind(proc[p], recorded, schema)

Leads(w) == /\ w.pc \in Migrating /\ w.at[1] \notin recorded
            /\ w.pc = "migrate" => w.at \notin schema
Settled == broken \/ recorded = Migrations \/ \E q \in Procs : Leads(proc[q])

\* Whoever is past the start of its migrations, and whatever is half done, has
\* a leader, unless all is done or a process ended within its migrations.
Led ==
    /\ \A p \in Procs : proc[p].pc \in {"bind", "serve"} \cup Migrating => Settled
    /\ \A s \in schema : s[1] \notin recorded => Settled

BootInv == /\ BootTypeOK /\ RecordedIsWhole /\ RecordedInOrder /\ SchemaInOrder
           /\ ProcsInOrder /\ Led

\* The processes nobody has told to end, by the progress of the one command.
Awake == Alive \ doomed
Held(c, file, awake) ==
    /\ c.pc \in {"idle", "read", "wait"} => awake \subseteq {file}
    /\ c.pc = "wait" => file = c.pid
    /\ c.pc = "write" => awake \subseteq {c.pid}
    /\ c.pc \notin {"idle", "read", "wait", "write"} => awake = {}
OneCommand ==
    ~astray =>
        /\ \A o, q \in Operators :
              op[o].pc # "idle" /\ op[q].pc # "idle" => o = q
        /\ (\A o \in Operators : op[o].pc = "idle") => Awake \subseteq {pidfile}
        /\ \A o \in Operators :
              op[o].pc # "idle" => Held(op[o], pidfile, Awake)

IInv == TypeOK /\ BootInv /\ OneCommand

----------------------------------------------------------------------------
(* Numbers and statements. *)

\* A set of numbers that is not empty has a least member.
LEMMA Least ==
    ASSUME NEW S, S \subseteq Nat, S # {}
    PROVE  \E n \in S : \A k \in S : n <= k
<1> DEFINE R == OpToRel(<, Nat)
<1>1. PICK n \in S : \A k \in S : ~(<<k, n>> \in R)
  BY WFMin, NatLessThanWellFounded
<1>2. ASSUME NEW k \in S PROVE n <= k
  <2>1. k \in Nat /\ n \in Nat
    OBVIOUS
  <2>2. k < n => <<k, n>> \in R
    BY <2>1 DEF OpToRel
  <2>3. ~(k < n)
    BY <1>1, <2>2
  <2> QED
    BY <2>1, <2>3
<1> QED
  BY <1>2

\* What is chosen as the least member is one.
LEMMA LeastChosen ==
    ASSUME NEW S, S \subseteq Nat, S # {},
           NEW n, n = CHOOSE i \in S : \A k \in S : i <= k
    PROVE  n \in S /\ \A k \in S : n <= k
BY Least

\* The migrations are numbered from 1, and none is empty.
LEMMA MigrationFacts ==
    /\ Migrations = 1 .. Len(Length) /\ Len(Length) \in Nat
    /\ \A m \in Migrations : m \in Nat \ {0} /\ Length[m] \in Nat \ {0}
    /\ 1 \in Migrations
    /\ \A m \in Migrations : 1 .. m - 1 \subseteq Migrations
BY BootAssumption DEF Migrations

\* A statement is a migration and a position within it.
LEMMA StatementFacts ==
    /\ \A s \in Statements : /\ s[1] \in Migrations /\ s[2] \in 1 .. Length[s[1]]
                             /\ s = <<s[1], s[2]>>
    /\ \A m \in Migrations : \A i \in 1 .. Length[m] : <<m, i>> \in Statements
<1>1. ASSUME NEW s \in Statements
      PROVE  s[1] \in Migrations /\ s[2] \in 1 .. Length[s[1]] /\ s = <<s[1], s[2]>>
  <2>1. PICK m \in Migrations : s \in {m} \X (1 .. Length[m])
    BY DEF Statements
  <2> QED
    BY <2>1
<1>2. ASSUME NEW m \in Migrations, NEW i \in 1 .. Length[m]
      PROVE  <<m, i>> \in Statements
  BY DEF Statements
<1> QED
  BY <1>1, <1>2

\* Records of processes.
LEMMA ProcRecords ==
    /\ Unborn \in ProcStates /\ Dead \in ProcStates /\ Rejected \in ProcStates
    /\ [Unborn EXCEPT !.pc = "bind"] \in ProcStates
    /\ [Unborn EXCEPT !.pc = "serve"] \in ProcStates
    /\ Dead.pc = "dead" /\ Rejected.pc = "bind"
    /\ [Unborn EXCEPT !.pc = "bind"].pc = "bind"
    /\ [Unborn EXCEPT !.pc = "serve"].pc = "serve"
<1>1. <<1, 1>> \in Statements
  BY MigrationFacts, StatementFacts
<1> QED
  BY <1>1 DEF Unborn, Dead, Rejected, ProcStates, Migrating

\* The next migration is the least that is left, when one is left.
LEMMA FollowingIsLeast ==
    ASSUME NEW p \in Procs, NEW m \in Migrations,
           NEW L, L = {n \in Migrations : n > m /\ n \notin proc[p].applied}
    PROVE  \/ L = {} /\ Following(p, m) = [Unborn EXCEPT !.pc = "bind"]
           \/ \E n \in L : /\ \A k \in L : n <= k
                           /\ Following(p, m) = [pc |-> "migrate",
                                 applied |-> proc[p].applied, at |-> <<n, 1>>]
<1>1. CASE L = {}
  BY <1>1 DEF Following
<1>2. CASE L # {}
  <2> DEFINE n == CHOOSE i \in L : \A k \in L : i <= k
  <2>1. L \subseteq Nat
    BY MigrationFacts
  <2>2. n \in L /\ \A k \in L : n <= k
    <3> HIDE DEF n
    <3>1. n = CHOOSE i \in L : \A k \in L : i <= k
      BY DEF n
    <3> QED
      BY <1>2, <2>1, <3>1, LeastChosen
  <2>3. Following(p, m) = [pc |-> "migrate", applied |-> proc[p].applied, at |-> <<n, 1>>]
    BY <1>2 DEF Following
  <2> QED
    BY <2>2, <2>3
<1> QED
  BY <1>1, <1>2

\* So is the first migration of a process.
LEMMA FirstIsLeast ==
    ASSUME NEW F, F = {m \in Migrations : m \notin recorded}, F # {},
           NEW n, n = CHOOSE i \in F : \A k \in F : i <= k
    PROVE  n \in F /\ \A k \in F : n <= k
<1>1. F \subseteq Nat
  BY MigrationFacts
<1> QED
  BY <1>1, LeastChosen

\* A record of a process about to run statement at.
LEMMA MigratingRecord ==
    ASSUME NEW a, a \in SUBSET Migrations, NEW n \in Migrations
    PROVE  /\ [pc |-> "migrate", applied |-> a, at |-> <<n, 1>>] \in ProcStates
           /\ <<n, 1>> \in Statements
<1>1. 1 \in 1 .. Length[n]
  BY MigrationFacts
<1>2. <<n, 1>> \in Statements
  BY <1>1, StatementFacts
<1> QED
  BY <1>2 DEF ProcStates, Migrating

\* One process moves on: the types, and who is awake.
LEMMA Moves ==
    ASSUME BootTypeOK, NEW p \in Procs, NEW X \in ProcStates,
           proc' = [proc EXCEPT ![p] = X],
           doomed \ {p} \subseteq doomed', doomed' \subseteq doomed,
           p \in doomed' => X.pc \notin {"unborn", "dead"}
    PROVE  /\ proc' \in [Procs -> ProcStates]
           /\ proc'[p] = X
           /\ \A q \in Procs \ {p} : proc'[q] = proc[q]
           /\ doomed' \subseteq Alive'
           /\ Awake' \subseteq Awake \cup {p}
           /\ X.pc \in {"unborn", "dead"} => Awake' \subseteq Awake
           /\ p \in Alive /\ doomed' = doomed => Awake' \subseteq Awake
<1>1. proc' \in [Procs -> ProcStates] /\ proc'[p] = X
      /\ \A q \in Procs \ {p} : proc'[q] = proc[q]
  BY DEF BootTypeOK
<1>2. doomed' \subseteq Alive'
  BY <1>1 DEF BootTypeOK, Alive
<1>3. ASSUME NEW q \in Procs, q \in Awake', q # p PROVE q \in Awake
  BY <1>1, <1>3 DEF Awake, Alive
<1>4. Awake' \subseteq Procs
  BY DEF Awake, Alive
<1>5. ASSUME X.pc \in {"unborn", "dead"} PROVE p \notin Awake'
  BY <1>1, <1>5 DEF Awake, Alive
<1>6. ASSUME p \in Alive, doomed' = doomed, p \in Awake' PROVE p \in Awake
  BY <1>6 DEF Awake
<1> QED
  BY <1>1, <1>2, <1>3, <1>4, <1>5, <1>6

\* What a step leaves true that neither executes nor records anything, whose
\* process is not the leader, and is behind another when it is at work.
LEMMA StillLed ==
    ASSUME BootInv, NEW p \in Procs, NEW X \in ProcStates,
           proc' = [proc EXCEPT ![p] = X],
           UNCHANGED <<schema, recorded>>, broken => broken',
           ~Leads(proc[p]) \/ broken',
           X.pc \in Migrating => Behind(X, recorded, schema),
           X.pc \in {"bind", "serve"} \cup Migrating => Settled \/ Leads(X)
    PROVE  RecordedIsWhole' /\ RecordedInOrder' /\ SchemaInOrder'
           /\ ProcsInOrder' /\ Led'
<1>1. proc'[p] = X /\ \A q \in Procs \ {p} : proc'[q] = proc[q]
  BY DEF BootInv, BootTypeOK
<1>2. RecordedIsWhole' /\ RecordedInOrder' /\ SchemaInOrder'
  BY DEF BootInv, RecordedIsWhole, RecordedInOrder, SchemaInOrder
<1>3. ProcsInOrder'
  <2>1. ASSUME NEW q \in Procs, proc'[q].pc \in Migrating PROVE Behind(proc'[q], recorded, schema)
    BY <1>1, <2>1 DEF BootInv, ProcsInOrder
  <2> QED
    BY <2>1 DEF ProcsInOrder, Behind
<1>4. Settled => Settled'
  <2>1. ASSUME NEW q \in Procs, Leads(proc[q]) PROVE Settled'
    <3>1. CASE q = p
      BY <2>1, <3>1 DEF Settled
    <3>2. CASE q # p
      BY <1>1, <2>1, <3>2 DEF Settled, Leads
    <3> QED
      BY <3>1, <3>2
  <2> QED
    BY <2>1 DEF Settled
<1>5. Leads(X) => Settled'
  BY <1>1 DEF Settled, Leads
<1>6. ASSUME NEW q \in Procs, proc'[q].pc \in {"bind", "serve"} \cup Migrating
      PROVE  Settled'
  BY <1>1, <1>4, <1>5, <1>6 DEF BootInv, Led
<1>7. ASSUME NEW s \in schema', s[1] \notin recorded' PROVE Settled'
  BY <1>4, <1>7 DEF BootInv, Led
<1>8. Led'
  BY <1>6, <1>7 DEF Led
<1> QED
  BY <1>2, <1>3, <1>8

----------------------------------------------------------------------------
(* The steps of a process. *)

LEMMA OpenStep ==
    ASSUME BootInv, NEW p \in Procs, Open(p)
    PROVE  BootInv' /\ Awake' \subseteq Awake
<1> DEFINE F == {m \in Migrations : m \notin recorded}
           n == CHOOSE i \in F : \A k \in F : i <= k
           W == [pc |-> "migrate", applied |-> recorded, at |-> <<n, 1>>]
           X == IF F = {} THEN [Unborn EXCEPT !.pc = "bind"] ELSE W
<1>1. F # {} => n \in F /\ \A k \in F : n <= k
  <2> HIDE DEF n
  <2>1. n = CHOOSE i \in F : \A k \in F : i <= k
    BY DEF n
  <2> HIDE DEF F
  <2> QED
    BY <2>1, FirstIsLeast DEF F
<1>2. proc' = [proc EXCEPT ![p] = X] /\ proc[p].pc = "boot"
      /\ UNCHANGED <<schema, recorded, doomed, crashes, broken>>
  BY DEF Open
<1> HIDE DEF n
<1>3. recorded \in SUBSET Migrations
  BY DEF BootInv, BootTypeOK
<1>4. F # {} => W \in ProcStates /\ <<n, 1>> \in Statements
  BY <1>1, <1>3, MigratingRecord
<1>5. X \in ProcStates /\ X.pc \in {"bind", "migrate"} /\ (F = {} => X.pc = "bind")
  BY <1>4, ProcRecords
<1>6. ~Leads(proc[p])
  BY <1>2 DEF Leads, Migrating
<1>7. F = {} => Settled
  BY <1>3 DEF Settled
<1>8. ASSUME F # {} PROVE Behind(X, recorded, schema) /\ (Settled \/ Leads(X))
  <2>1. n \in Migrations /\ n \notin recorded /\ X = W
    BY <1>1, <1>8
  <2>2. 1 .. n - 1 \subseteq recorded
    <3>1. ASSUME NEW k \in 1 .. n - 1, k \notin recorded PROVE FALSE
      <4>1. k \in Migrations /\ n \in Nat /\ k \in Nat /\ k < n
        BY <2>1, MigrationFacts
      <4>2. n <= k
        BY <1>1, <1>8, <3>1, <4>1
      <4> QED
        BY <4>1, <4>2
    <3> QED
      BY <3>1
  <2>3. Behind(W, recorded, schema)
    BY <2>2 DEF Behind
  <2>4. <<n, 1>> \in schema => Settled
    BY <2>1 DEF BootInv, Led
  <2>5. <<n, 1>> \notin schema => Leads(W)
    BY <2>1 DEF Leads, Migrating
  <2> QED
    BY <2>1, <2>3, <2>4, <2>5
<1>9. X.pc \in Migrating => F # {}
  BY <1>5 DEF Migrating
<1> HIDE DEF X, W, F
<1>10. RecordedIsWhole' /\ RecordedInOrder' /\ SchemaInOrder'
       /\ ProcsInOrder' /\ Led'
  BY <1>2, <1>5, <1>6, <1>7, <1>8, <1>9, StillLed
<1>11. p \in Alive
  BY <1>2 DEF Alive
<1>12. BootTypeOK
  BY DEF BootInv
<1>13. /\ proc' \in [Procs -> ProcStates] /\ doomed' \subseteq Alive'
       /\ Awake' \subseteq Awake
  BY <1>2, <1>5, <1>11, <1>12, Moves
<1> QED
  BY <1>2, <1>10, <1>12, <1>13 DEF BootInv, BootTypeOK

\* A step after which the process is in no migration: it starts, ends, or
\* serves after having been past its migrations.
LEMMA PlainStep ==
    ASSUME BootInv, NEW p \in Procs, NEW X \in ProcStates,
           proc' = [proc EXCEPT ![p] = X],
           UNCHANGED <<schema, recorded>>,
           broken' = (broken \/ (proc[p].pc \in Migrating /\ X.pc = "dead")),
           crashes' \in 0 .. MaxCrashes,
           X.pc \in {"boot", "dead"} \/ (X.pc = "serve" /\ proc[p].pc = "bind"),
           doomed' = doomed \/ doomed' = doomed \ {p},
           X.pc = "dead" => p \notin doomed',
           X.pc # "dead" => proc[p].pc \notin Migrating
    PROVE  /\ BootInv'
           /\ Awake' \subseteq Awake \cup {p}
           /\ X.pc = "dead" \/ (p \in Alive /\ doomed' = doomed)
                => Awake' \subseteq Awake
<1>1. ~Leads(proc[p]) \/ broken'
  BY DEF Leads
<1>2. X.pc \notin Migrating
  BY DEF Migrating
<1>3. X.pc \in {"bind", "serve"} \cup Migrating => Settled
  BY <1>2 DEF BootInv, Led
<1>4. RecordedIsWhole' /\ RecordedInOrder' /\ SchemaInOrder'
      /\ ProcsInOrder' /\ Led'
  BY <1>1, <1>2, <1>3, StillLed
<1>5. BootTypeOK
  BY DEF BootInv
<1>6. p \in doomed' => X.pc \notin {"unborn", "dead"}
  OBVIOUS
<1>7. doomed \ {p} \subseteq doomed' /\ doomed' \subseteq doomed
  OBVIOUS
<1>8. /\ proc' \in [Procs -> ProcStates] /\ doomed' \subseteq Alive'
      /\ Awake' \subseteq Awake \cup {p}
      /\ X.pc \in {"unborn", "dead"} => Awake' \subseteq Awake
      /\ p \in Alive /\ doomed' = doomed => Awake' \subseteq Awake
  BY <1>5, <1>6, <1>7, Moves
<1>9. schema' \subseteq Statements /\ recorded' \subseteq Migrations
  BY <1>5 DEF BootTypeOK
<1>10. broken' \in BOOLEAN
  BY DEF BootTypeOK
<1> QED
  BY <1>4, <1>8, <1>9, <1>10 DEF BootInv, BootTypeOK

LEMMA RefusesStep ==
    ASSUME BootInv, NEW p \in Procs, Refuses(p)
    PROVE  BootInv' /\ Awake' \subseteq Awake
<1>1. /\ proc[p].pc = "boot" /\ proc' = [proc EXCEPT ![p] = Dead]
      /\ doomed' = doomed \ {p}
      /\ UNCHANGED <<schema, recorded, crashes, broken>>
  BY DEF Refuses
<1>2. crashes' \in 0 .. MaxCrashes /\ broken \in BOOLEAN
  BY <1>1 DEF BootInv, BootTypeOK
<1>3. broken' = (broken \/ (proc[p].pc \in Migrating /\ Dead.pc = "dead"))
  BY <1>1, <1>2 DEF Migrating
<1> QED
  BY <1>1, <1>2, <1>3, ProcRecords, PlainStep

LEMMA BindStep ==
    ASSUME BootInv, NEW p \in Procs, Bind(p)
    PROVE  BootInv' /\ Awake' \subseteq Awake
<1> DEFINE S == [Unborn EXCEPT !.pc = "serve"]
           X == IF PortOpen THEN Dead ELSE S
<1>1. /\ proc[p].pc = "bind" /\ proc' = [proc EXCEPT ![p] = X]
      /\ doomed' = IF PortOpen THEN doomed \ {p} ELSE doomed
      /\ UNCHANGED <<schema, recorded, crashes, broken>>
  BY DEF Bind
<1>2. crashes' \in 0 .. MaxCrashes /\ broken \in BOOLEAN
  BY <1>1 DEF BootInv, BootTypeOK
<1>3. p \in Alive
  BY <1>1 DEF Alive
<1>4. X \in ProcStates /\ (PortOpen => X.pc = "dead") /\ (~PortOpen => X.pc = "serve")
  BY ProcRecords
<1> HIDE DEF X
<1>5. broken' = (broken \/ (proc[p].pc \in Migrating /\ X.pc = "dead"))
  BY <1>1, <1>2 DEF Migrating
<1>6. proc[p].pc \notin Migrating
  BY <1>1 DEF Migrating
<1>7. CASE PortOpen
  BY <1>1, <1>2, <1>4, <1>5, <1>6, <1>7, PlainStep
<1>8. CASE ~PortOpen
  BY <1>1, <1>2, <1>3, <1>4, <1>5, <1>6, <1>8, PlainStep
<1> QED
  BY <1>7, <1>8

LEMMA EndStep ==
    ASSUME BootInv, NEW p \in Procs, Killed(p) \/ Crash(p)
    PROVE  BootInv' /\ Awake' \subseteq Awake
<1>1. /\ proc' = [proc EXCEPT ![p] = Dead]
      /\ broken' = (broken \/ proc[p].pc \in Migrating)
      /\ UNCHANGED <<schema, recorded>>
  BY DEF Killed, Crash, Ends
<1>2. (doomed' = doomed \/ doomed' = doomed \ {p}) /\ p \notin doomed'
  BY DEF Killed, Crash
<1>3. crashes' \in 0 .. MaxCrashes
  BY BootAssumption DEF Killed, Crash, BootInv, BootTypeOK
<1>4. broken' = (broken \/ (proc[p].pc \in Migrating /\ Dead.pc = "dead"))
  BY <1>1, ProcRecords
<1> QED
  BY <1>1, <1>2, <1>3, <1>4, ProcRecords, PlainStep

LEMMA LaunchStep ==
    ASSUME BootInv, NEW p \in Procs, proc[p].pc = "unborn", Launch(p),
           UNCHANGED <<schema, recorded, doomed, crashes, broken>>
    PROVE  BootInv' /\ Awake' \subseteq Awake \cup {p}
<1> DEFINE X == [proc[p] EXCEPT !.pc = "boot"]
<1>1. proc[p] \in ProcStates /\ broken \in BOOLEAN
  BY DEF BootInv, BootTypeOK
<1>2. X \in ProcStates /\ X.pc = "boot"
  BY <1>1 DEF ProcStates
<1>3. proc' = [proc EXCEPT ![p] = X]
  BY DEF Launch
<1>4. crashes' \in 0 .. MaxCrashes
  BY DEF BootInv, BootTypeOK
<1> HIDE DEF X
<1>5. broken' = (broken \/ (proc[p].pc \in Migrating /\ X.pc = "dead"))
  BY <1>1, <1>2
<1>6. proc[p].pc \notin Migrating
  BY DEF Migrating
<1> QED
  BY <1>2, <1>3, <1>4, <1>5, <1>6, PlainStep

\* The statement exists: whoever meets it leads nobody.
LEMMA ExecRejected ==
    ASSUME BootInv, NEW p \in Procs, Exec(p), proc[p].at \in schema
    PROVE  BootInv' /\ Awake' \subseteq Awake
<1>1. /\ proc[p].pc = "migrate" /\ proc' = [proc EXCEPT ![p] = Rejected]
      /\ UNCHANGED <<schema, recorded, doomed, crashes, broken>>
  BY DEF Exec
<1>2. ~Leads(proc[p])
  BY <1>1 DEF Leads
<1>3. Settled
  BY <1>1 DEF BootInv, Led, Migrating
<1>4. Rejected.pc \notin Migrating
  BY ProcRecords DEF Migrating
<1>5. RecordedIsWhole' /\ RecordedInOrder' /\ SchemaInOrder'
      /\ ProcsInOrder' /\ Led'
  BY <1>1, <1>2, <1>3, <1>4, ProcRecords, StillLed
<1>6. p \in Alive /\ BootTypeOK
  BY <1>1 DEF Alive, BootInv
<1>7. /\ proc' \in [Procs -> ProcStates] /\ doomed' \subseteq Alive'
      /\ Awake' \subseteq Awake
  BY <1>1, <1>6, ProcRecords, Moves
<1> QED
  BY <1>1, <1>5, <1>6, <1>7 DEF BootInv, BootTypeOK

\* The statement runs: its process led, and leads still.
LEMMA ExecRuns ==
    ASSUME BootInv, NEW p \in Procs, Exec(p), proc[p].at \notin schema
    PROVE  /\ BootInv' /\ Awake' \subseteq Awake
           /\ schema' = schema \cup {proc[p].at}
           /\ 1 .. proc[p].at[1] - 1 \subseteq recorded
<1> DEFINE m == proc[p].at[1]
           i == proc[p].at[2]
           w == proc[p]
           X == IF i = Length[m] THEN [w EXCEPT !.pc = "insert"]
                ELSE [w EXCEPT !.at = <<m, i + 1>>]
<1>1. w \in ProcStates /\ w.pc = "migrate" /\ Behind(w, recorded, schema)
  BY DEF Exec, BootInv, BootTypeOK, ProcsInOrder, Migrating
<1>2. /\ w.at \in Statements /\ m \in Migrations /\ i \in 1 .. Length[m]
      /\ w.at = <<m, i>> /\ Length[m] \in Nat
  <2>1. w.at \in Statements
    BY <1>1 DEF ProcStates
  <2> QED
    BY <2>1, StatementFacts, MigrationFacts
<1>3. /\ schema' = schema \cup {<<m, i>>}
      /\ proc' = [proc EXCEPT ![p] = X]
      /\ UNCHANGED <<recorded, doomed, crashes, broken>>
  BY <1>2 DEF Exec
<1>4. X \in ProcStates
  <2>1. CASE i = Length[m]
    BY <1>1, <2>1 DEF ProcStates, Migrating
  <2>2. CASE i # Length[m]
    <3>1. <<m, i + 1>> \in Statements
      BY <1>2, <2>2, StatementFacts
    <3> QED
      BY <1>1, <2>2, <3>1 DEF ProcStates
  <2> QED
    BY <2>1, <2>2
<1>5. X.at[1] = m /\ X.applied = w.applied /\ X.pc \in {"migrate", "insert"}
      /\ (X.pc = "migrate" => i # Length[m] /\ X.at = <<m, i + 1>>)
      /\ (X.pc = "insert" => i = Length[m] /\ X.at = <<m, i>>)
  BY <1>1, <1>2 DEF ProcStates
<1>6. 1 .. m - 1 \subseteq recorded /\ w.applied \subseteq recorded
      /\ \A j \in 1 .. i - 1 : <<m, j>> \in schema
  BY <1>1 DEF Behind
<1>7. m \notin recorded
  BY <1>2 DEF BootInv, RecordedIsWhole
<1>8. \A j \in 1 .. i : <<m, j>> \in schema'
  BY <1>2, <1>3, <1>6
<1>9. BootTypeOK /\ p \in Alive
  BY <1>1 DEF BootInv, Alive
<1> HIDE DEF X, w, m, i
<1>10. proc'[p] = X /\ \A q \in Procs \ {p} : proc'[q] = proc[q]
  BY <1>3, <1>9 DEF BootTypeOK
<1>11. /\ proc' \in [Procs -> ProcStates] /\ doomed' \subseteq Alive'
       /\ Awake' \subseteq Awake
  <2>1. p \in doomed' => X.pc \notin {"unborn", "dead"}
    BY <1>5
  <2> QED
    BY <1>3, <1>4, <1>9, <2>1, Moves
<1>12. BootTypeOK'
  <2>1. schema' \subseteq Statements
    BY <1>2, <1>3, <1>9 DEF BootTypeOK
  <2> QED
    BY <1>3, <1>9, <1>11, <2>1 DEF BootTypeOK
<1>13. RecordedIsWhole' /\ RecordedInOrder'
  BY <1>3 DEF BootInv, RecordedIsWhole, RecordedInOrder
<1>14. SchemaInOrder'
  <2>1. ASSUME NEW s \in schema'
        PROVE  1 .. s[1] - 1 \subseteq recorded' /\ \A j \in 1 .. s[2] : <<s[1], j>> \in schema'
    <3>1. CASE s \in schema
      BY <1>3, <3>1 DEF BootInv, SchemaInOrder
    <3>2. CASE s = <<m, i>>
      BY <1>3, <1>6, <1>8, <3>2
    <3> QED
      BY <1>3, <2>1, <3>1, <3>2
  <2> QED
    BY <2>1 DEF SchemaInOrder
<1>15. Behind(X, recorded', schema')
  <2>1. X.pc = "insert" => {m} \X (1 .. Length[m]) \subseteq schema'
    BY <1>5, <1>8
  <2>2. \A j \in 1 .. X.at[2] - 1 : <<m, j>> \in schema'
    BY <1>2, <1>5, <1>8
  <2> QED
    BY <1>3, <1>5, <1>6, <2>1, <2>2 DEF Behind, X, w, m, i
<1>16. ProcsInOrder'
  <2>1. ASSUME NEW q \in Procs, q # p, proc'[q].pc \in Migrating
        PROVE  Behind(proc'[q], recorded', schema')
    <3>1. proc[q].pc \in Migrating /\ proc'[q] = proc[q]
      BY <1>10, <2>1
    <3>2. Behind(proc[q], recorded, schema)
      BY <3>1 DEF BootInv, ProcsInOrder
    <3> QED
      BY <1>3, <3>1, <3>2 DEF Behind
  <2> QED
    BY <1>10, <1>15, <2>1 DEF ProcsInOrder, Behind
<1>17. <<m, i + 1>> \notin schema'
  <2>1. SUFFICES ASSUME <<m, i + 1>> \in schema PROVE FALSE
    BY <1>2, <1>3
  <2>2. \A j \in 1 .. i + 1 : <<m, j>> \in schema
    BY <2>1 DEF BootInv, SchemaInOrder
  <2>3. i \in 1 .. i + 1
    BY <1>2
  <2>4. <<m, i>> \notin schema
    BY <1>2 DEF w
  <2> QED
    BY <2>2, <2>3, <2>4
<1>18. Settled'
  BY <1>3, <1>5, <1>7, <1>10, <1>17 DEF Settled, Leads, Migrating
<1>19. Led'
  BY <1>18 DEF Led
<1> QED
  BY <1>2, <1>3, <1>6, <1>11, <1>12, <1>13, <1>14, <1>16, <1>19 DEF BootInv, m, w

\* The row exists: whoever meets it leads nobody.
LEMMA InsertRejected ==
    ASSUME BootInv, NEW p \in Procs, Insert(p), proc[p].at[1] \in recorded
    PROVE  BootInv' /\ Awake' \subseteq Awake
<1>1. /\ proc[p].pc = "insert" /\ proc' = [proc EXCEPT ![p] = Rejected]
      /\ UNCHANGED <<schema, recorded, doomed, crashes, broken>>
  BY DEF Insert
<1>2. ~Leads(proc[p])
  BY DEF Leads
<1>3. Settled
  BY <1>1 DEF BootInv, Led, Migrating
<1>4. Rejected.pc \notin Migrating
  BY ProcRecords DEF Migrating
<1>5. RecordedIsWhole' /\ RecordedInOrder' /\ SchemaInOrder'
      /\ ProcsInOrder' /\ Led'
  BY <1>1, <1>2, <1>3, <1>4, ProcRecords, StillLed
<1>6. p \in Alive /\ BootTypeOK
  BY <1>1 DEF Alive, BootInv
<1>7. /\ proc' \in [Procs -> ProcStates] /\ doomed' \subseteq Alive'
      /\ Awake' \subseteq Awake
  BY <1>1, <1>6, ProcRecords, Moves
<1> QED
  BY <1>1, <1>5, <1>6, <1>7 DEF BootInv, BootTypeOK

\* The row is written: its process led, and leads at the next migration, of
\* which nobody has run a statement.
LEMMA InsertRuns ==
    ASSUME BootInv, NEW p \in Procs, Insert(p), proc[p].at[1] \notin recorded
    PROVE  BootInv' /\ Awake' \subseteq Awake
<1> DEFINE m == proc[p].at[1]
           w == proc[p]
           X == Following(p, m)
           L == {n \in Migrations : n > m /\ n \notin w.applied}
<1>1. w \in ProcStates /\ w.pc = "insert" /\ Behind(w, recorded, schema)
  BY DEF Insert, BootInv, BootTypeOK, ProcsInOrder, Migrating
<1>2. m \in Migrations /\ w.applied \in SUBSET Migrations
  <2>1. w.at \in Statements /\ w.applied \in SUBSET Migrations
    BY <1>1 DEF ProcStates
  <2> QED
    BY <2>1, StatementFacts
<1>3. /\ recorded' = recorded \cup {m}
      /\ proc' = [proc EXCEPT ![p] = X]
      /\ UNCHANGED <<schema, doomed, crashes, broken>>
  BY DEF Insert
<1>4. \/ L = {} /\ X = [Unborn EXCEPT !.pc = "bind"]
      \/ \E n \in L : /\ \A k \in L : n <= k
                      /\ X = [pc |-> "migrate", applied |-> w.applied, at |-> <<n, 1>>]
  <2> HIDE DEF m
  <2> QED
    BY <1>2, FollowingIsLeast
<1>5. /\ 1 .. m - 1 \subseteq recorded /\ w.applied \subseteq recorded
      /\ {m} \X (1 .. Length[m]) \subseteq schema
  BY <1>1 DEF Behind
<1>6. BootTypeOK /\ p \in Alive /\ m \notin recorded
  BY <1>1 DEF BootInv, Alive
<1>7. X \in ProcStates /\ X.pc \in {"bind", "migrate"}
  <2>1. CASE L = {} /\ X = [Unborn EXCEPT !.pc = "bind"]
    BY <2>1, ProcRecords
  <2>2. ASSUME NEW n \in L,
               X = [pc |-> "migrate", applied |-> w.applied, at |-> <<n, 1>>]
        PROVE  X \in ProcStates /\ X.pc = "migrate"
    BY <1>2, <2>2, MigratingRecord
  <2> QED
    BY <1>4, <2>1, <2>2
<1> HIDE DEF X, w, m
<1>8. proc'[p] = X /\ \A q \in Procs \ {p} : proc'[q] = proc[q]
  BY <1>3, <1>6 DEF BootTypeOK
<1>9. /\ proc' \in [Procs -> ProcStates] /\ doomed' \subseteq Alive'
      /\ Awake' \subseteq Awake
  <2>1. p \in doomed' => X.pc \notin {"unborn", "dead"}
    BY <1>7
  <2> QED
    BY <1>3, <1>6, <1>7, <2>1, Moves
<1>10. BootTypeOK'
  BY <1>2, <1>3, <1>6, <1>9 DEF BootTypeOK
<1>11. RecordedIsWhole' /\ RecordedInOrder' /\ SchemaInOrder'
  <2>1. RecordedIsWhole'
    BY <1>3, <1>5 DEF BootInv, RecordedIsWhole
  <2>2. RecordedInOrder'
    BY <1>3, <1>5 DEF BootInv, RecordedInOrder
  <2>3. SchemaInOrder'
    BY <1>3 DEF BootInv, SchemaInOrder
  <2> QED
    BY <2>1, <2>2, <2>3
<1>12. ASSUME NEW n \in L, \A k \in L : n <= k,
              X = [pc |-> "migrate", applied |-> w.applied, at |-> <<n, 1>>]
       PROVE  Behind(X, recorded', schema') /\ Settled'
  <2>1. n \in Migrations /\ n > m /\ n \in Nat /\ m \in Nat
    BY <1>2, MigrationFacts
  <2>2. 1 .. n - 1 \subseteq recorded'
    <3>1. ASSUME NEW k \in 1 .. n - 1 PROVE k \in recorded'
      <4>1. k \in Migrations /\ k \in Nat /\ k < n
        BY <2>1, MigrationFacts
      <4>2. k \notin L
        BY <1>12, <2>1, <4>1
      <4>3. k < m \/ k = m \/ k \in w.applied
        BY <2>1, <4>1, <4>2
      <4>4. k < m => k \in 1 .. m - 1
        BY <2>1
      <4> QED
        BY <1>3, <1>5, <4>3, <4>4
    <3> QED
      BY <3>1
  <2>3. Behind(X, recorded', schema')
    BY <1>3, <1>5, <1>12, <2>2 DEF Behind
  <2>4. m \in 1 .. n - 1
    BY <1>2, <2>1, MigrationFacts
  <2>5. n \notin recorded'
    BY <1>3, <1>6, <2>1, <2>4 DEF BootInv, RecordedInOrder
  <2>6. <<n, 1>> \notin schema'
    BY <1>3, <1>6, <2>4 DEF BootInv, SchemaInOrder
  <2>7. X.pc = "migrate" /\ X.at = <<n, 1>> /\ X.at[1] = n
    BY <1>12
  <2>8. Settled'
    BY <1>8, <2>5, <2>6, <2>7 DEF Settled, Leads, Migrating
  <2> QED
    BY <2>3, <2>8
<1>13. L = {} => Settled'
  <2>1. SUFFICES ASSUME L = {} PROVE Migrations \subseteq recorded'
    BY <1>10 DEF Settled, BootTypeOK
  <2>2. ASSUME NEW k \in Migrations PROVE k \in recorded'
    <3>1. k \in Nat /\ m \in Nat /\ k >= 1
      BY <1>2, MigrationFacts
    <3>2. k < m => k \in 1 .. m - 1
      BY <3>1
    <3>3. k < m \/ k = m \/ k \in w.applied
      BY <2>1, <3>1
    <3> QED
      BY <1>3, <1>5, <3>2, <3>3
  <2> QED
    BY <2>2
<1>14. Settled'
  BY <1>4, <1>12, <1>13
<1>15. X.pc \in Migrating => Behind(X, recorded', schema')
  <2>1. [Unborn EXCEPT !.pc = "bind"].pc \notin Migrating
    BY ProcRecords DEF Migrating
  <2> QED
    BY <1>4, <1>12, <2>1
<1>16. ProcsInOrder'
  <2>1. ASSUME NEW q \in Procs, q # p, proc'[q].pc \in Migrating
        PROVE  Behind(proc'[q], recorded', schema')
    <3>1. proc[q].pc \in Migrating /\ proc'[q] = proc[q]
      BY <1>8, <2>1
    <3>2. Behind(proc[q], recorded, schema)
      BY <3>1 DEF BootInv, ProcsInOrder
    <3> QED
      BY <1>3, <3>1, <3>2 DEF Behind
  <2> QED
    BY <1>8, <1>15, <2>1 DEF ProcsInOrder
<1> QED
  BY <1>9, <1>10, <1>11, <1>14, <1>16 DEF BootInv, Led

\* Every step of a process keeps the invariant of the database and wakes
\* nobody; a statement runs on the outcome of all earlier migrations.
LEMMA SystemStep ==
    ASSUME BootInv, NEW p \in Procs, System(p)
    PROVE  /\ BootInv' /\ Awake' \subseteq Awake
           /\ \A s \in schema' \ schema : 1 .. s[1] - 1 \subseteq recorded
<1>1. CASE Open(p)
  BY <1>1, OpenStep DEF Open
<1>2. CASE Refuses(p)
  BY <1>2, RefusesStep DEF Refuses
<1>3. CASE Exec(p)
  <2>1. CASE proc[p].at \in schema
    BY <1>3, <2>1, ExecRejected DEF Exec
  <2>2. CASE proc[p].at \notin schema
    BY <1>3, <2>2, ExecRuns
  <2> QED
    BY <2>1, <2>2
<1>4. CASE Insert(p)
  <2>1. CASE proc[p].at[1] \in recorded
    BY <1>4, <2>1, InsertRejected DEF Insert
  <2>2. CASE proc[p].at[1] \notin recorded
    BY <1>4, <2>2, InsertRuns DEF Insert
  <2> QED
    BY <2>1, <2>2
<1>5. CASE Bind(p)
  BY <1>5, BindStep DEF Bind
<1>6. CASE Killed(p) \/ Crash(p)
  BY <1>6, EndStep DEF Killed, Crash, Ends
<1> QED
  BY <1>1, <1>2, <1>3, <1>4, <1>5, <1>6 DEF System, BootStep

----------------------------------------------------------------------------
(* The commands. *)

\* What a command does to the processes: nothing, or a signal to one.
LEMMA BootsKept ==
    ASSUME BootInv, UNCHANGED boots
    PROVE  BootInv' /\ Awake' = Awake
BY DEF boots, BootInv, BootTypeOK, RecordedIsWhole, RecordedInOrder, SchemaInOrder,
       ProcsInOrder, Led, Settled, Leads, Behind, Awake, Alive

LEMMA KillStep ==
    ASSUME BootInv, NEW p, Kill(p)
    PROVE  BootInv' /\ Awake' = Awake \ {p}
<1>1. Alive' = Alive /\ UNCHANGED <<schema, recorded, proc, crashes, broken>>
  BY DEF Kill, Alive
<1>2. doomed' \subseteq Alive' /\ Awake' = Awake \ {p}
  BY <1>1 DEF Kill, BootInv, BootTypeOK, Awake
<1>3. BootTypeOK'
  BY <1>1, <1>2 DEF BootInv, BootTypeOK
<1>4. RecordedIsWhole' /\ RecordedInOrder' /\ SchemaInOrder' /\ ProcsInOrder' /\ Led'
  BY <1>1 DEF BootInv, RecordedIsWhole, RecordedInOrder, SchemaInOrder,
              ProcsInOrder, Led, Settled, Leads, Behind
<1> QED
  BY <1>2, <1>3, <1>4 DEF BootInv

\* The states a command can be moved to.
LEMMA CommandRecords ==
    ASSUME NEW w \in OpStates,
           NEW pc \in {"read", "clean", "probe", "build", "launch", "write",
                       "wait", "drop", "down", "port"},
           NEW cmd \in {"start", "stop", "restart"},
           NEW p \in Procs \cup {NoPid}
    PROVE  /\ Idle \in OpStates /\ Idle.pc = "idle"
           /\ [w EXCEPT !.pc = pc] \in OpStates
           /\ [w EXCEPT !.pc = pc].pc = pc /\ [w EXCEPT !.pc = pc].pid = w.pid
           /\ [w EXCEPT !.pc = pc, !.pid = p] \in OpStates
           /\ [w EXCEPT !.pc = pc, !.pid = p].pc = pc
           /\ [w EXCEPT !.pc = pc, !.pid = p].pid = p
           /\ [w EXCEPT !.cmd = cmd] \in OpStates
           /\ [w EXCEPT !.cmd = cmd].pc = w.pc
           /\ [w EXCEPT !.pc = pc, !.cmd = cmd] \in OpStates
           /\ [w EXCEPT !.pc = pc, !.cmd = cmd].pc = pc
           /\ [Idle EXCEPT !.cmd = cmd, !.pc = "read"] \in OpStates
           /\ [Idle EXCEPT !.cmd = cmd, !.pc = "read"].pc = "read"
BY DEF OpStates, Idle

\* The one command under way moves on.
LEMMA OneCommandMoves ==
    ASSUME TypeOK, OneCommand, NEW o \in Operators, NEW X \in OpStates,
           op' = [op EXCEPT ![o] = X], op[o].pc # "idle", astray => astray',
           ~astray' => Held(X, pidfile', Awake')
    PROVE  op' \in [Operators -> OpStates] /\ OneCommand'
<1>1. /\ op' \in [Operators -> OpStates] /\ op'[o] = X
      /\ \A q \in Operators \ {o} : op'[q] = op[q]
  BY DEF TypeOK
<1>2. OneCommand'
  <2>1. SUFFICES ASSUME ~astray'
        PROVE  /\ \A r, q \in Operators :
                     op'[r].pc # "idle" /\ op'[q].pc # "idle" => r = q
               /\ (\A r \in Operators : op'[r].pc = "idle")
                     => Awake' \subseteq {pidfile'}
               /\ \A r \in Operators :
                     op'[r].pc # "idle" => Held(op'[r], pidfile', Awake')
    BY DEF OneCommand
  <2>2. \A q \in Operators \ {o} : op'[q].pc = "idle"
    BY <1>1, <2>1 DEF OneCommand
  <2>3. X.pc = "idle" => Awake' \subseteq {pidfile'}
    BY <2>1 DEF Held
  <2> QED
    BY <1>1, <2>1, <2>2, <2>3
<1> QED
  BY <1>1, <1>2

\* What OneCommand says of a command under way.
LEMMA HeldNow ==
    ASSUME TypeOK, OneCommand, NEW o \in Operators, op[o].pc # "idle"
    PROVE  /\ ~astray => Held(op[o], pidfile, Awake)
           /\ op[o] \in OpStates /\ op[o].pid \in Procs \cup {NoPid}
           /\ Awake \subseteq Procs /\ NoPid \notin Procs
<1>1. op[o] \in OpStates
  BY DEF TypeOK
<1>2. op[o].pid \in Procs \cup {NoPid}
  BY <1>1 DEF OpStates
<1> QED
  BY <1>1, <1>2, ServiceAssumption DEF OneCommand, Awake, Alive

\* The two ways on: to another line of the script, and out of it.
LEMMA GotoMoves ==
    ASSUME IInv, BootInv', NEW o \in Operators, op[o].pc # "idle",
           NEW pc \in {"read", "clean", "probe", "build", "launch", "write",
                       "wait", "drop", "down", "port"},
           Goto(o, pc), UNCHANGED astray, pidfile' \in Procs \cup {NoPid},
           ~astray => Held([op[o] EXCEPT !.pc = pc], pidfile', Awake')
    PROVE  IInv'
<1> DEFINE X == [op[o] EXCEPT !.pc = pc]
<1>1. TypeOK /\ OneCommand /\ op[o] \in OpStates
  BY DEF IInv, TypeOK
<1>2. X \in OpStates
  BY <1>1 DEF OpStates
<1>3. op' = [op EXCEPT ![o] = X]
  BY DEF Goto
<1> HIDE DEF X
<1>4. op' \in [Operators -> OpStates] /\ OneCommand'
  <2>1. ~astray' => Held(X, pidfile', Awake')
    BY DEF X
  <2> QED
    BY <1>1, <1>2, <1>3, <2>1, OneCommandMoves
<1>5. TypeOK'
  BY <1>1, <1>4 DEF TypeOK, BootInv
<1> QED
  BY <1>4, <1>5 DEF IInv

LEMMA ExitMoves ==
    ASSUME IInv, BootInv', NEW o \in Operators, op[o].pc # "idle", Exit(o),
           astray => astray', astray' \in BOOLEAN,
           pidfile' \in Procs \cup {NoPid},
           ~astray' => Awake' \subseteq {pidfile'}
    PROVE  IInv'
<1>1. TypeOK /\ OneCommand
  BY DEF IInv
<1>2. Idle \in OpStates /\ op' = [op EXCEPT ![o] = Idle]
  BY DEF OpStates, Idle, Exit
<1>3. ~astray' => Held(Idle, pidfile', Awake')
  BY DEF Held, Idle
<1>4. op' \in [Operators -> OpStates] /\ OneCommand'
  BY <1>1, <1>2, <1>3, OneCommandMoves
<1>5. TypeOK'
  BY <1>4 DEF TypeOK, BootInv
<1> QED
  BY <1>4, <1>5 DEF IInv

\* The general move, to another command.
LEMMA OtherMoves ==
    ASSUME IInv, BootInv', NEW o \in Operators, op[o].pc # "idle",
           NEW X \in OpStates, op' = [op EXCEPT ![o] = X],
           UNCHANGED astray, pidfile' \in Procs \cup {NoPid},
           ~astray => Held(X, pidfile', Awake')
    PROVE  IInv'
<1>1. TypeOK /\ OneCommand
  BY DEF IInv
<1>2. op' \in [Operators -> OpStates] /\ OneCommand'
  BY <1>1, OneCommandMoves
<1>3. TypeOK'
  BY <1>1, <1>2 DEF TypeOK, BootInv
<1> QED
  BY <1>2, <1>3 DEF IInv

LEMMA StartReadStep ==
    ASSUME IInv, NEW o \in Operators, StartRead(o)
    PROVE  IInv'
<1>1. op[o].pc = "read" /\ UNCHANGED <<boots, pidfile, astray>>
  BY DEF StartRead
<1>2. BootInv' /\ Awake' = Awake
  BY <1>1, BootsKept DEF IInv
<1>3. /\ ~astray => Held(op[o], pidfile, Awake)
      /\ op[o] \in OpStates /\ Awake \subseteq Procs /\ NoPid \notin Procs
  BY <1>1, HeldNow DEF IInv
<1>4. ~astray => Awake' \subseteq {pidfile'}
  BY <1>1, <1>2, <1>3 DEF Held
<1>5. pidfile' \in Procs \cup {NoPid} /\ astray' \in BOOLEAN
  BY <1>1 DEF IInv, TypeOK
<1>6. CASE pidfile \in Alive
  <2>1. Exit(o)
    BY <1>6 DEF StartRead
  <2> QED
    BY <1>1, <1>2, <1>4, <1>5, <2>1, ExitMoves
<1>7. CASE pidfile \notin Alive
  <2>1. ~astray => Awake' = {}
    BY <1>1, <1>2, <1>4, <1>7 DEF Awake
  <2>2. ASSUME NEW pc \in {"probe", "clean"}, Goto(o, pc) PROVE IInv'
    <3>1. [op[o] EXCEPT !.pc = pc].pc = pc
      BY <1>3 DEF OpStates
    <3>2. ~astray => Held([op[o] EXCEPT !.pc = pc], pidfile', Awake')
      BY <2>1, <3>1 DEF Held
    <3> QED
      BY <1>1, <1>2, <1>5, <2>2, <3>2, GotoMoves
  <2> QED
    BY <1>7, <2>2 DEF StartRead
<1> QED
  BY <1>6, <1>7

\* A line that moves on while nobody is awake.
LEMMA EmptyStep ==
    ASSUME IInv, NEW o \in Operators,
           op[o].pc \notin {"idle", "read", "write", "wait"},
           NEW pc \in {"clean", "probe", "build", "launch", "drop", "down", "port"},
           Goto(o, pc) \/ Exit(o),
           UNCHANGED <<boots, astray>>, pidfile' \in Procs \cup {NoPid}
    PROVE  IInv'
<1>1. BootInv' /\ Awake' = Awake
  BY BootsKept DEF IInv
<1>2. /\ ~astray => Held(op[o], pidfile, Awake)
      /\ op[o] \in OpStates
  BY HeldNow DEF IInv
<1>3. ~astray => Awake' = {}
  BY <1>1, <1>2 DEF Held
<1>4. astray' \in BOOLEAN
  BY DEF IInv, TypeOK
<1>5. CASE Goto(o, pc)
  <2>1. [op[o] EXCEPT !.pc = pc].pc = pc
    BY <1>2 DEF OpStates
  <2>2. ~astray => Held([op[o] EXCEPT !.pc = pc], pidfile', Awake')
    BY <1>3, <2>1 DEF Held
  <2> QED
    BY <1>1, <1>5, <2>2, GotoMoves
<1>6. CASE Exit(o)
  BY <1>1, <1>3, <1>4, <1>6, ExitMoves
<1> QED
  BY <1>5, <1>6

LEMMA SpawnStep ==
    ASSUME IInv, NEW o \in Operators, Spawn(o)
    PROVE  IInv'
<1>1. /\ op[o].pc = "launch"
      /\ UNCHANGED <<schema, recorded, doomed, crashes, broken, pidfile, astray>>
  BY DEF Spawn
<1>2. /\ ~astray => Awake = {}
      /\ op[o] \in OpStates
  BY <1>1, HeldNow DEF IInv, Held
<1>3. pidfile' \in Procs \cup {NoPid}
  BY <1>1 DEF IInv, TypeOK
<1>4. CASE \E p \in Procs : proc[p].pc = "unborn"
  <2>1. PICK p \in Procs : /\ proc[p].pc = "unborn" /\ Launch(p)
                           /\ op' = [op EXCEPT ![o].pc = "write", ![o].pid = p]
    BY <1>4 DEF Spawn
  <2>2. BootInv' /\ Awake' \subseteq Awake \cup {p}
    BY <1>1, <2>1, LaunchStep DEF IInv
  <2> DEFINE X == [op[o] EXCEPT !.pc = "write", !.pid = p]
  <2>3. X \in OpStates /\ X.pc = "write" /\ X.pid = p
    BY <1>2 DEF OpStates
  <2>4. op' = [op EXCEPT ![o] = X]
    BY <2>1, <1>2 DEF IInv, TypeOK
  <2> HIDE DEF X
  <2>5. ~astray => Held(X, pidfile', Awake')
    BY <1>2, <2>2, <2>3 DEF Held
  <2> QED
    BY <1>1, <1>3, <2>2, <2>3, <2>4, <2>5, OtherMoves
<1>5. CASE ~ \E p \in Procs : proc[p].pc = "unborn"
  <2>1. Exit(o) /\ UNCHANGED <<boots, astray>>
    BY <1>1, <1>5 DEF Spawn, boots
  <2>2. op[o].pc \notin {"idle", "read", "write", "wait"}
    BY <1>1
  <2> QED
    BY <1>3, <2>1, <2>2, EmptyStep
<1> QED
  BY <1>4, <1>5

LEMMA WriteStep ==
    ASSUME IInv, NEW o \in Operators, Write(o)
    PROVE  IInv'
<1>1. /\ op[o].pc = "write" /\ pidfile' = op[o].pid /\ Goto(o, "wait")
      /\ UNCHANGED <<boots, astray>>
  BY DEF Write
<1>2. BootInv' /\ Awake' = Awake
  BY <1>1, BootsKept DEF IInv
<1>3. /\ ~astray => Awake \subseteq {op[o].pid}
      /\ op[o] \in OpStates /\ op[o].pid \in Procs \cup {NoPid}
  BY <1>1, HeldNow DEF IInv, Held
<1>4. [op[o] EXCEPT !.pc = "wait"].pc = "wait" /\ [op[o] EXCEPT !.pc = "wait"].pid = op[o].pid
  BY <1>3 DEF OpStates
<1>5. ~astray => Held([op[o] EXCEPT !.pc = "wait"], pidfile', Awake')
  BY <1>1, <1>2, <1>3, <1>4 DEF Held
<1> QED
  BY <1>1, <1>2, <1>3, <1>5, GotoMoves

\* The wait for the port, and the signal to a server that did not open it.
LEMMA WaitUpStep ==
    ASSUME IInv, NEW o \in Operators, WaitUp(o)
    PROVE  IInv'
<1>1. op[o].pc = "wait" /\ UNCHANGED <<pidfile, astray>>
  BY DEF WaitUp
<1>2. /\ ~astray => Awake \subseteq {pidfile} /\ pidfile = op[o].pid
      /\ op[o] \in OpStates
  BY <1>1, HeldNow DEF IInv, Held
<1>3. pidfile' \in Procs \cup {NoPid} /\ astray' \in BOOLEAN
  BY <1>1 DEF IInv, TypeOK
<1>4. CASE PortOpen
  <2>1. Exit(o) /\ UNCHANGED boots
    BY <1>4 DEF WaitUp
  <2>2. BootInv' /\ Awake' = Awake
    BY <2>1, BootsKept DEF IInv
  <2> QED
    BY <1>1, <1>2, <1>3, <2>1, <2>2, ExitMoves
<1>5. CASE ~PortOpen
  <2>1. /\ Goto(o, "drop")
        /\ IF op[o].pid \in Alive THEN Kill(op[o].pid) ELSE UNCHANGED boots
    BY <1>5 DEF WaitUp
  <2>2. BootInv' /\ Awake' = Awake \ {op[o].pid}
    <3>1. CASE op[o].pid \in Alive
      BY <2>1, <3>1, KillStep DEF IInv
    <3>2. CASE op[o].pid \notin Alive
      <4>1. BootInv' /\ Awake' = Awake
        BY <2>1, <3>2, BootsKept DEF IInv
      <4> QED
        BY <3>2, <4>1 DEF Awake
    <3> QED
      BY <3>1, <3>2
  <2>3. [op[o] EXCEPT !.pc = "drop"].pc = "drop"
    BY <1>2 DEF OpStates
  <2>4. ~astray => Held([op[o] EXCEPT !.pc = "drop"], pidfile', Awake')
    BY <1>2, <2>2, <2>3 DEF Held
  <2> QED
    BY <1>1, <1>3, <2>1, <2>2, <2>4, GotoMoves
<1> QED
  BY <1>4, <1>5

LEMMA DropStep ==
    ASSUME IInv, NEW o \in Operators, Drop(o)
    PROVE  IInv'
<1>1. /\ op[o].pc = "drop" /\ pidfile' = NoPid /\ UNCHANGED <<boots, astray>>
  BY DEF Drop
<1>2. BootInv' /\ Awake' = Awake
  BY <1>1, BootsKept DEF IInv
<1>3. ~astray => Awake' = {}
  BY <1>1, <1>2, HeldNow DEF IInv, Held
<1>4. CASE op[o].cmd = "restart"
  <2> DEFINE X == [Idle EXCEPT !.cmd = "start", !.pc = "read"]
  <2>1. op' = [op EXCEPT ![o] = X]
    BY <1>4 DEF Drop
  <2>2. X \in OpStates /\ X.pc = "read"
    BY DEF OpStates, Idle
  <2> HIDE DEF X
  <2>3. ~astray => Held(X, pidfile', Awake')
    BY <1>3, <2>2 DEF Held
  <2> QED
    BY <1>1, <1>2, <2>1, <2>2, <2>3, OtherMoves
<1>5. CASE op[o].cmd # "restart"
  <2>1. Exit(o)
    BY <1>5 DEF Drop
  <2>2. op[o].pc \notin {"idle", "read", "write", "wait"}
    BY <1>1
  <2> QED
    BY <1>1, <2>1, <2>2, EmptyStep
<1> QED
  BY <1>4, <1>5

LEMMA StopReadStep ==
    ASSUME IInv, NEW o \in Operators, StopRead(o)
    PROVE  IInv'
<1>1. op[o].pc = "read" /\ UNCHANGED <<pidfile, astray>>
  BY DEF StopRead
<1>2. /\ ~astray => Awake \subseteq {pidfile}
      /\ op[o] \in OpStates /\ Awake \subseteq Procs /\ NoPid \notin Procs
  BY <1>1, HeldNow DEF IInv, Held
<1>3. pidfile' \in Procs \cup {NoPid} /\ astray' \in BOOLEAN
  BY <1>1 DEF IInv, TypeOK
<1>4. CASE pidfile = NoPid
  <2>1. /\ UNCHANGED boots
        /\ IF op[o].cmd = "restart" THEN op' = [op EXCEPT ![o].cmd = "start"] ELSE Exit(o)
    BY <1>4 DEF StopRead
  <2>2. BootInv' /\ Awake' = Awake
    BY <2>1, BootsKept DEF IInv
  <2>3. CASE op[o].cmd = "restart"
    <3> DEFINE X == [op[o] EXCEPT !.cmd = "start"]
    <3>1. X \in OpStates /\ X.pc = "read"
      BY <1>1, <1>2 DEF OpStates
    <3>2. op' = [op EXCEPT ![o] = X]
      BY <2>1, <2>3
    <3> HIDE DEF X
    <3>3. ~astray => Held(X, pidfile', Awake')
      BY <1>1, <1>2, <2>2, <3>1 DEF Held
    <3> QED
      BY <1>1, <1>3, <2>2, <3>1, <3>2, <3>3, OtherMoves
  <2>4. CASE op[o].cmd # "restart"
    BY <1>1, <1>2, <1>3, <2>1, <2>2, <2>4, ExitMoves
  <2> QED
    BY <2>3, <2>4
<1>5. CASE pidfile # NoPid /\ pidfile \in Alive
  <2>1. Kill(pidfile) /\ op' = [op EXCEPT ![o].pc = "down", ![o].pid = pidfile]
    BY <1>5 DEF StopRead
  <2>2. BootInv' /\ Awake' = Awake \ {pidfile}
    BY <2>1, KillStep DEF IInv
  <2> DEFINE X == [op[o] EXCEPT !.pc = "down", !.pid = pidfile]
  <2>3. X \in OpStates /\ X.pc = "down"
    BY <1>1, <1>2, <1>3 DEF OpStates
  <2>4. op' = [op EXCEPT ![o] = X]
    BY <2>1 DEF IInv, TypeOK
  <2> HIDE DEF X
  <2>5. ~astray => Held(X, pidfile', Awake')
    BY <1>2, <2>2, <2>3 DEF Held
  <2> QED
    BY <1>1, <1>3, <2>2, <2>3, <2>4, <2>5, OtherMoves
<1>6. CASE pidfile # NoPid /\ pidfile \notin Alive
  <2>1. Goto(o, "drop") /\ UNCHANGED boots
    BY <1>6 DEF StopRead
  <2>2. BootInv' /\ Awake' = Awake
    BY <2>1, BootsKept DEF IInv
  <2>3. ~astray => Awake' = {}
    BY <1>2, <1>6, <2>2 DEF Awake
  <2>4. [op[o] EXCEPT !.pc = "drop"].pc = "drop"
    BY <1>2 DEF OpStates
  <2>5. ~astray => Held([op[o] EXCEPT !.pc = "drop"], pidfile', Awake')
    BY <2>3, <2>4 DEF Held
  <2> QED
    BY <1>1, <1>3, <2>1, <2>2, <2>5, GotoMoves
<1> QED
  BY <1>4, <1>5, <1>6

LEMMA WaitDownStep ==
    ASSUME IInv, NEW o \in Operators, WaitDown(o)
    PROVE  IInv'
<1>1. op[o].pc = "down" /\ UNCHANGED <<pidfile, astray>>
  BY DEF WaitDown
<1>2. /\ ~astray => Awake = {}
      /\ op[o] \in OpStates
  BY <1>1, HeldNow DEF IInv, Held
<1>3. pidfile' \in Procs \cup {NoPid}
  BY <1>1 DEF IInv, TypeOK
<1>4. CASE op[o].pid \in Alive
  <2>1. Kill(op[o].pid) /\ Goto(o, "drop")
    BY <1>4 DEF WaitDown
  <2>2. BootInv' /\ Awake' = Awake \ {op[o].pid}
    BY <2>1, KillStep DEF IInv
  <2>3. [op[o] EXCEPT !.pc = "drop"].pc = "drop"
    BY <1>2 DEF OpStates
  <2>4. ~astray => Held([op[o] EXCEPT !.pc = "drop"], pidfile', Awake')
    BY <1>2, <2>2, <2>3 DEF Held
  <2> QED
    BY <1>1, <1>3, <2>1, <2>2, <2>4, GotoMoves
<1>5. CASE op[o].pid \notin Alive
  <2>1. Goto(o, "port") /\ UNCHANGED <<boots, astray>>
    BY <1>1, <1>5 DEF WaitDown
  <2>2. op[o].pc \notin {"idle", "read", "write", "wait"}
    BY <1>1
  <2> QED
    BY <1>3, <2>1, <2>2, EmptyStep
<1> QED
  BY <1>4, <1>5

LEMMA WaitPortStep ==
    ASSUME IInv, NEW o \in Operators, WaitPort(o)
    PROVE  IInv'
<1>1. op[o].pc = "port" /\ UNCHANGED <<boots, pidfile, astray>>
  BY DEF WaitPort
<1>2. BootInv' /\ Awake' = Awake
  BY <1>1, BootsKept DEF IInv
<1>3. /\ ~astray => Awake = {}
      /\ op[o] \in OpStates
  BY <1>1, HeldNow DEF IInv, Held
<1>4. pidfile' \in Procs \cup {NoPid}
  BY <1>1 DEF IInv, TypeOK
<1> DEFINE X == [op[o] EXCEPT !.pc = "drop",
                              !.cmd = IF PortOpen THEN "stop" ELSE op[o].cmd]
<1>5. X \in OpStates /\ X.pc = "drop"
  BY <1>3 DEF OpStates
<1>6. op' = [op EXCEPT ![o] = X]
  BY <1>3 DEF WaitPort, OpStates, IInv, TypeOK
<1> HIDE DEF X
<1>7. ~astray => Held(X, pidfile', Awake')
  BY <1>2, <1>3, <1>5 DEF Held
<1> QED
  BY <1>1, <1>2, <1>4, <1>5, <1>6, <1>7, OtherMoves

LEMMA CommandStep ==
    ASSUME IInv, NEW o \in Operators, Command(o)
    PROVE  IInv'
<1>1. CASE Clean(o)
  <2>1. /\ op[o].pc \notin {"idle", "read", "write", "wait"}
        /\ Goto(o, "probe") /\ UNCHANGED <<boots, astray>>
        /\ pidfile' \in Procs \cup {NoPid}
    BY <1>1 DEF Clean
  <2> QED
    BY <2>1, EmptyStep
<1>2. CASE Probe(o)
  <2>1. /\ op[o].pc \notin {"idle", "read", "write", "wait"}
        /\ Goto(o, "build") \/ Exit(o)
        /\ UNCHANGED <<boots, astray>> /\ pidfile' \in Procs \cup {NoPid}
    BY <1>2 DEF Probe, IInv, TypeOK
  <2> QED
    BY <2>1, EmptyStep
<1>3. CASE Build(o)
  <2>1. /\ op[o].pc \notin {"idle", "read", "write", "wait"}
        /\ Goto(o, "launch") \/ Exit(o)
        /\ UNCHANGED <<boots, astray>> /\ pidfile' \in Procs \cup {NoPid}
    BY <1>3 DEF Build, IInv, TypeOK
  <2> QED
    BY <2>1, EmptyStep
<1> QED
  BY <1>1, <1>2, <1>3, StartReadStep, SpawnStep, WriteStep, WaitUpStep, DropStep,
     StopReadStep, WaitDownStep, WaitPortStep DEF Command

\* A second command begun meanwhile goes astray; a first one finds nobody awake
\* but the server the pid file names.
LEMMA BeginStep ==
    ASSUME IInv, NEW o \in Operators, NEW cmd \in {"start", "stop", "restart"},
           Begin(o, cmd)
    PROVE  IInv'
<1> DEFINE X == [Idle EXCEPT !.cmd = cmd, !.pc = "read"]
<1>1. /\ op' = [op EXCEPT ![o] = X] /\ UNCHANGED <<boots, pidfile>>
      /\ astray' = (astray \/ \E q \in Operators : op[q].pc # "idle")
  BY DEF Begin
<1>2. BootInv' /\ Awake' = Awake
  BY <1>1, BootsKept DEF IInv
<1>3. X \in OpStates /\ X.pc = "read"
  BY DEF OpStates, Idle
<1> HIDE DEF X
<1>4. op' \in [Operators -> OpStates] /\ op'[o] = X
      /\ \A q \in Operators \ {o} : op'[q] = op[q]
  BY <1>1, <1>3 DEF IInv, TypeOK
<1>5. astray' \in BOOLEAN
  BY <1>1 DEF IInv, TypeOK
<1>6. OneCommand'
  <2>1. SUFFICES ASSUME ~astray'
        PROVE  /\ \A r, q \in Operators :
                     op'[r].pc # "idle" /\ op'[q].pc # "idle" => r = q
               /\ (\A r \in Operators : op'[r].pc = "idle")
                     => Awake' \subseteq {pidfile'}
               /\ \A r \in Operators :
                     op'[r].pc # "idle" => Held(op'[r], pidfile', Awake')
    BY DEF OneCommand
  <2>2. ~astray /\ \A q \in Operators : op[q].pc = "idle"
    BY <1>1, <2>1
  <2>3. Awake' \subseteq {pidfile'}
    BY <1>1, <1>2, <2>2 DEF IInv, OneCommand
  <2>4. Held(X, pidfile', Awake')
    BY <1>3, <2>3 DEF Held
  <2> QED
    BY <1>3, <1>4, <2>2, <2>3, <2>4
<1> QED
  BY <1>1, <1>2, <1>4, <1>5, <1>6 DEF IInv, TypeOK, BootInv

LEMMA InterruptStep ==
    ASSUME IInv, NEW o \in Operators, Interrupt(o)
    PROVE  IInv'
<1>1. /\ op[o].pc # "idle" /\ Exit(o) /\ UNCHANGED <<boots, pidfile>>
      /\ astray' = (astray \/ op[o].pc = "write")
  BY DEF Interrupt
<1>2. BootInv' /\ Awake' = Awake
  BY <1>1, BootsKept DEF IInv
<1>3. ~astray => Held(op[o], pidfile, Awake)
  BY <1>1, HeldNow DEF IInv
<1>4. ~astray' => Awake' \subseteq {pidfile'}
  BY <1>1, <1>2, <1>3 DEF Held
<1>5. /\ pidfile' \in Procs \cup {NoPid} /\ astray' \in BOOLEAN
      /\ astray => astray'
  BY <1>1 DEF IInv, TypeOK
<1> QED
  BY <1>1, <1>2, <1>4, <1>5, ExitMoves

\* A process that moves on by itself wakes nobody, which disturbs no command.
LEMMA SystemKeeps ==
    ASSUME IInv, NEW p \in Procs, System(p)
    PROVE  IInv'
<1>1. BootInv' /\ Awake' \subseteq Awake
  BY SystemStep DEF IInv
<1>2. UNCHANGED <<pidfile, op, astray>>
  BY DEF System
<1>3. \A o \in Operators : Held(op[o], pidfile, Awake) => Held(op[o], pidfile, Awake')
  BY <1>1 DEF Held
<1>4. OneCommand'
  BY <1>1, <1>2, <1>3 DEF IInv, OneCommand
<1> QED
  BY <1>1, <1>2, <1>4 DEF IInv, TypeOK, BootInv

----------------------------------------------------------------------------
(* The theorems. *)

LEMMA InitIInv == Init => IInv
<1> SUFFICES ASSUME Init PROVE IInv
  OBVIOUS
<1>1. PICK k \in 0 .. Len(Length) :
         recorded = 1 .. k /\ schema = {s \in Statements : s[1] <= k}
  BY DEF Init, BootInit
<1>2. /\ doomed = {} /\ crashes = 0 /\ broken = FALSE
      /\ proc = [p \in Procs |-> Unborn] /\ pidfile = NoPid /\ astray = FALSE
      /\ op = [o \in Operators |-> Idle]
  BY DEF Init, BootInit
<1>3. k \in Nat /\ recorded \subseteq Migrations
  BY <1>1, MigrationFacts
<1>4. BootTypeOK
  <2>1. schema \subseteq Statements /\ doomed \subseteq Alive
    BY <1>1, <1>2
  <2>2. proc \in [Procs -> ProcStates]
    BY <1>2, ProcRecords
  <2>3. crashes \in 0 .. MaxCrashes
    BY <1>2, BootAssumption
  <2>4. broken \in BOOLEAN
    BY <1>2
  <2> QED
    BY <1>3, <2>1, <2>2, <2>3, <2>4 DEF BootTypeOK
<1>5. \A p \in Procs : proc[p].pc = "unborn"
  BY <1>2 DEF Unborn
<1>6. Awake = {}
  BY <1>5 DEF Awake, Alive
<1>7. RecordedIsWhole
  <2>1. ASSUME NEW m \in recorded, NEW i \in 1 .. Length[m] PROVE <<m, i>> \in schema
    <3>1. <<m, i>> \in Statements /\ m <= k
      BY <1>1, <1>3, StatementFacts
    <3> QED
      BY <1>1, <3>1
  <2> QED
    BY <2>1 DEF RecordedIsWhole
<1>8. RecordedInOrder
  BY <1>1, <1>3 DEF RecordedInOrder
<1>9. SchemaInOrder
  <2>1. ASSUME NEW s \in schema
        PROVE  1 .. s[1] - 1 \subseteq recorded /\ \A j \in 1 .. s[2] : <<s[1], j>> \in schema
    <3>1. s[1] \in Migrations /\ s[2] \in 1 .. Length[s[1]] /\ s[1] <= k
      BY <1>1, StatementFacts
    <3>2. s[1] \in Nat /\ Length[s[1]] \in Nat
      BY <3>1, MigrationFacts
    <3>3. ASSUME NEW j \in 1 .. s[2] PROVE <<s[1], j>> \in schema
      <4>1. <<s[1], j>> \in Statements
        BY <3>1, <3>2, StatementFacts
      <4> QED
        BY <1>1, <3>1, <4>1
    <3> QED
      BY <1>1, <1>3, <3>1, <3>2, <3>3
  <2> QED
    BY <2>1 DEF SchemaInOrder
<1>10. ProcsInOrder /\ Led
  <2>1. ASSUME NEW s \in schema PROVE s[1] \in recorded
    <3>1. s[1] \in Migrations /\ s[1] <= k
      BY <1>1, StatementFacts
    <3> QED
      BY <1>1, <1>3, <3>1, MigrationFacts
  <2> QED
    BY <1>5, <2>1 DEF ProcsInOrder, Led, Migrating
<1>11. Idle \in OpStates /\ Idle.pc = "idle"
  BY DEF OpStates, Idle
<1>12. TypeOK
  BY <1>2, <1>4, <1>11 DEF TypeOK
<1>13. OneCommand
  BY <1>2, <1>6, <1>11 DEF OneCommand
<1> QED
  BY <1>4, <1>7, <1>8, <1>9, <1>10, <1>12, <1>13 DEF IInv, BootInv

LEMMA NextIInv == IInv /\ [Next]_vars => IInv'
<1> SUFFICES ASSUME IInv, [Next]_vars PROVE IInv'
  OBVIOUS
<1>1. ASSUME UNCHANGED vars PROVE IInv'
  <2>1. UNCHANGED <<boots, pidfile, op, astray>>
    BY <1>1 DEF vars, bootVars, boots
  <2>2. BootInv' /\ Awake' = Awake
    BY <2>1, BootsKept DEF IInv
  <2> QED
    BY <2>1, <2>2 DEF IInv, TypeOK, OneCommand, BootInv
<1> QED
  BY <1>1, BeginStep, CommandStep, InterruptStep, SystemKeeps DEF Next

\* Commands execute nothing: a statement that runs is a process's step.
LEMMA StepsInOrder ==
    IInv /\ [Next]_vars => [\A s \in schema' \ schema : 1 .. s[1] - 1 \subseteq recorded]_vars
<1> SUFFICES ASSUME IInv, Next
             PROVE  \A s \in schema' \ schema : 1 .. s[1] - 1 \subseteq recorded
  OBVIOUS
<1>1. CASE \E p \in Procs : System(p)
  BY <1>1, SystemStep DEF IInv
<1>2. ASSUME NEW o \in Operators,
             Command(o) \/ Interrupt(o) \/ \E cmd \in {"start", "stop", "restart"} : Begin(o, cmd)
      PROVE  schema' = schema
  BY <1>2 DEF Command, Interrupt, Begin, StartRead, Clean, Probe, Build, Spawn, Write,
       WaitUp, Drop, StopRead, WaitDown, WaitPort, Kill, boots
<1> QED
  BY <1>1, <1>2 DEF Next

THEOREM Invariance == Spec => []IInv
BY InitIInv, NextIInv, PTL DEF Spec

\* Every variable keeps its type (Service and Boot).
THEOREM TypeCorrect == Spec => []TypeOK
<1>1. IInv => TypeOK
  BY DEF IInv
<1> QED
  BY <1>1, Invariance, PTL

\* A row of _migrations is never written before all statements of its file
\* have run (platform/node.ts, runMigrations).
THEOREM RecordsAreWhole == Spec => []RecordedIsWhole
<1>1. IInv => RecordedIsWhole
  BY DEF IInv, BootInv
<1> QED
  BY <1>1, Invariance, PTL

\* Whatever processes start together, a statement runs only on the outcome of
\* all earlier migrations.
THEOREM MigratesInOrder == Spec => MigrationsInOrder
BY Invariance, StepsInOrder, PTL DEF Spec, MigrationsInOrder

\* A server over an incomplete schema has a process at work on the migrations,
\* or one that ended within them.
THEOREM ServesSchema == Spec => []ServesWholeSchema
<1>1. IInv => ServesWholeSchema
  <2> SUFFICES ASSUME IInv, PortOpen PROVE ServesWholeSchema
    BY DEF ServesWholeSchema
  <2>1. Settled
    BY DEF IInv, BootInv, Led, PortOpen
  <2>2. recorded = Migrations => schema = Statements
    <3>1. SUFFICES ASSUME recorded = Migrations, NEW s \in Statements PROVE s \in schema
      BY DEF IInv, BootInv, BootTypeOK
    <3>2. s[1] \in recorded /\ s \in {s[1]} \X (1 .. Length[s[1]])
      BY <3>1, StatementFacts
    <3> QED
      BY <3>2 DEF IInv, BootInv, RecordedIsWhole
  <2> QED
    BY <2>1, <2>2 DEF ServesWholeSchema, Settled, Leads
<1> QED
  BY <1>1, Invariance, PTL

\* Commands of service.sh run one after the other leave no server the pid file
\* does not name, whatever crashed, timed out or was interrupted.
THEOREM ServersAreNamed == Spec => []ServerIsNamed
<1>1. IInv => ServerIsNamed
  BY DEF IInv, OneCommand, ServerIsNamed, Awake
<1> QED
  BY <1>1, Invariance, PTL

----------------------------------------------------------------------------
(* Commands end: the part of CommandsEnd that is not fairness. *)

\* The lines of the script that can still follow a line of one of its
\* functions; a restart has those of cmd_start after those of cmd_stop.
Line(pc) ==
    CASE pc = "read"  -> 8  [] pc = "clean"  -> 7  [] pc = "probe" -> 6
      [] pc = "build" -> 5  [] pc = "launch" -> 4  [] pc = "write" -> 3
      [] pc = "wait"  -> 2  [] pc = "down"   -> 3  [] pc = "port"  -> 2
      [] pc = "drop"  -> 1  [] pc = "idle"   -> 0

LinesLeft(w) == Line(w.pc) + (IF w.cmd = "restart" THEN 8 ELSE 0)

\* A command moves forwards in the script only, and nobody else moves it.
CommandsAdvance ==
    [][\A o \in Operators : op[o].pc # "idle" =>
          IF Command(o) \/ Interrupt(o) THEN LinesLeft(op'[o]) < LinesLeft(op[o])
                                        ELSE op'[o] = op[o]]_vars

LEMMA LineType ==
    \A pc \in {"idle", "read", "clean", "probe", "build", "launch", "write",
               "wait", "drop", "down", "port"} :
       Line(pc) \in 0 .. 8 /\ (pc # "idle" => Line(pc) > 0)
<1>1. /\ Line("read") = 8 /\ Line("clean") = 7 /\ Line("probe") = 6
      /\ Line("build") = 5 /\ Line("launch") = 4 /\ Line("write") = 3
      /\ Line("wait") = 2 /\ Line("down") = 3 /\ Line("port") = 2
      /\ Line("drop") = 1 /\ Line("idle") = 0
  BY DEF Line
<1> QED  BY <1>1

LEMMA LinesLeftType ==
    ASSUME NEW w \in OpStates
    PROVE  LinesLeft(w) \in 0 .. 16 /\ (w.pc # "idle" => LinesLeft(w) > 0)
<1>1. Line(w.pc) \in 0 .. 8 /\ (w.pc # "idle" => Line(w.pc) > 0)
  BY LineType DEF OpStates
<1>2. LinesLeft(w) = Line(w.pc) + 0 \/ LinesLeft(w) = Line(w.pc) + 8
  BY DEF LinesLeft
<1> QED  BY <1>1, <1>2

\* Fewer lines are left at a later line of the same command, and of stop
\* after restart.
LEMMA LaterLine ==
    ASSUME NEW v \in OpStates, NEW w \in OpStates, Line(w.pc) < Line(v.pc),
           w.cmd = "restart" => v.cmd = "restart"
    PROVE  LinesLeft(w) < LinesLeft(v)
<1>1. PICK i \in 0 .. 8, j \in 0 .. 8 : i = Line(w.pc) /\ j = Line(v.pc)
  BY LineType DEF OpStates
<1>2. \/ LinesLeft(w) = i + 8 /\ LinesLeft(v) = j + 8
      \/ LinesLeft(w) = i + 0 /\ (LinesLeft(v) = j + 0 \/ LinesLeft(v) = j + 8)
  BY <1>1 DEF LinesLeft
<1> QED  BY <1>1, <1>2

LEMMA CommandAdvances ==
    ASSUME TypeOK, NEW o \in Operators, op[o].pc # "idle",
           Command(o) \/ Interrupt(o)
    PROVE  LinesLeft(op'[o]) < LinesLeft(op[o])
<1> DEFINE w == op[o]
<1>1. w \in OpStates /\ op \in [Operators -> OpStates] /\ LinesLeft(w) > 0
  BY LinesLeftType DEF TypeOK
<1>2. ASSUME Exit(o) PROVE LinesLeft(op'[o]) < LinesLeft(w)
  <2>1. op'[o] = Idle  BY <1>1, <1>2 DEF Exit
  <2>2. LinesLeft(Idle) = 0  BY DEF LinesLeft, Line, Idle
  <2> QED  BY <1>1, <2>1, <2>2
<1>3. ASSUME NEW pc \in {"read", "clean", "probe", "build", "launch", "write",
                         "wait", "drop", "down", "port"},
             Goto(o, pc), Line(pc) < Line(w.pc)
      PROVE  LinesLeft(op'[o]) < LinesLeft(w)
  <2>1. op'[o] = [w EXCEPT !.pc = pc]  BY <1>1, <1>3 DEF Goto
  <2>2. [w EXCEPT !.pc = pc] \in OpStates  BY <1>1 DEF OpStates
  <2>3. [w EXCEPT !.pc = pc].pc = pc /\ [w EXCEPT !.pc = pc].cmd = w.cmd
    BY <1>1 DEF OpStates
  <2> QED  BY <1>1, <1>3, <2>1, <2>2, <2>3, LaterLine
<1>4. CASE w.cmd = "restart" /\ op'[o].cmd = "start" /\ op'[o].pc = "read"
           /\ op'[o] \in OpStates
  <2>1. LinesLeft(op'[o]) = 8  BY <1>4 DEF LinesLeft, Line
  <2>2. LinesLeft(w) = Line(w.pc) + 8  BY <1>4 DEF LinesLeft
  <2>3. Line(w.pc) \in 0 .. 8 /\ Line(w.pc) > 0  BY <1>1, LineType DEF OpStates
  <2> QED  BY <2>1, <2>2, <2>3
<1>5. CASE StartRead(o) \/ Clean(o) \/ Probe(o) \/ Build(o) \/ Write(o)
  BY <1>2, <1>3, <1>5 DEF StartRead, Clean, Probe, Build, Write, Line
<1>6. CASE WaitUp(o) \/ WaitDown(o)
  BY <1>2, <1>3, <1>6 DEF WaitUp, WaitDown, Line
<1>7. CASE Spawn(o)
  <2>1. CASE Exit(o)  BY <1>2, <2>1
  <2>2. ASSUME NEW p \in Procs, op' = [op EXCEPT ![o].pc = "write", ![o].pid = p]
        PROVE  LinesLeft(op'[o]) < LinesLeft(w)
    <3> DEFINE v == [w EXCEPT !.pc = "write", !.pid = p]
    <3>1. op'[o] = v  BY <1>1, <2>2
    <3>2. v \in OpStates /\ v.pc = "write" /\ v.cmd = w.cmd  BY <1>1 DEF OpStates
    <3>3. Line("write") < Line(w.pc)  BY <1>7 DEF Spawn, Line
    <3> HIDE DEF v
    <3> QED  BY <1>1, <3>1, <3>2, <3>3, LaterLine
  <2>3. Exit(o) \/ \E p \in Procs : op' = [op EXCEPT ![o].pc = "write", ![o].pid = p]
    BY <1>7 DEF Spawn
  <2> QED  BY <2>1, <2>2, <2>3
<1>8. CASE Drop(o)
  <2>1. CASE w.cmd = "restart"
    <3>1. op'[o] = [Idle EXCEPT !.cmd = "start", !.pc = "read"]
      BY <1>1, <1>8, <2>1 DEF Drop
    <3> QED  BY <1>4, <2>1, <3>1, ServiceAssumption DEF Idle, OpStates
  <2>2. CASE w.cmd # "restart"  BY <1>2, <1>8, <2>2 DEF Drop
  <2> QED  BY <2>1, <2>2
<1>9. CASE StopRead(o)
  <2>1. CASE w.cmd = "restart" /\ op' = [op EXCEPT ![o].cmd = "start"]
    <3>1. op'[o] = [w EXCEPT !.cmd = "start"] /\ w.pc = "read"
      BY <1>1, <1>9, <2>1 DEF StopRead
    <3> QED  BY <1>1, <1>4, <2>1, <3>1 DEF OpStates
  <2>2. CASE pidfile \in Alive /\ op' = [op EXCEPT ![o].pc = "down", ![o].pid = pidfile]
    <3> DEFINE v == [w EXCEPT !.pc = "down", !.pid = pidfile]
    <3>1. op'[o] = v  BY <1>1, <2>2
    <3>2. v \in OpStates /\ v.pc = "down" /\ v.cmd = w.cmd
      BY <1>1 DEF OpStates, TypeOK
    <3>3. Line("down") < Line(w.pc)  BY <1>9 DEF StopRead, Line
    <3> HIDE DEF v
    <3> QED  BY <1>1, <3>1, <3>2, <3>3, LaterLine
  <2>3. CASE Goto(o, "drop")
    <3>1. Line("drop") < Line(w.pc)  BY <1>9 DEF StopRead, Line
    <3> QED  BY <1>3, <2>3, <3>1
  <2> QED  BY <1>2, <1>9, <2>1, <2>2, <2>3 DEF StopRead
<1>10. CASE WaitPort(o)
  <2>1. PICK cmd \in {w.cmd, "stop"} :
           op' = [op EXCEPT ![o].pc = "drop", ![o].cmd = cmd]
    BY <1>10 DEF WaitPort
  <2> DEFINE v == [w EXCEPT !.pc = "drop", !.cmd = cmd]
  <2>2. op'[o] = v  BY <1>1, <2>1
  <2>3. v \in OpStates /\ v.pc = "drop" /\ v.cmd = cmd  BY <1>1 DEF OpStates
  <2>4. Line("drop") < Line(w.pc)  BY <1>10 DEF WaitPort, Line
  <2> HIDE DEF v
  <2> QED  BY <1>1, <2>2, <2>3, <2>4, LaterLine
<1>11. CASE Interrupt(o)  BY <1>2, <1>11 DEF Interrupt
<1> QED
  BY <1>5, <1>6, <1>7, <1>8, <1>9, <1>10, <1>11 DEF Command

\* Other commands, and the processes, leave a command where it is.
LEMMA CommandRests ==
    ASSUME TypeOK, [Next]_vars, NEW o \in Operators, op[o].pc # "idle",
           ~(Command(o) \/ Interrupt(o))
    PROVE  op'[o] = op[o]
<1>1. op \in [Operators -> OpStates]  BY DEF TypeOK
<1>2. CASE UNCHANGED vars \/ \E p \in Procs : System(p)
  BY <1>2 DEF vars, System
<1>3. ASSUME NEW q \in Operators, NEW cmd, Begin(q, cmd) PROVE op'[o] = op[o]
  <2>1. q # o  BY <1>3 DEF Begin
  <2> QED  BY <1>1, <1>3, <2>1 DEF Begin
<1>4. ASSUME NEW q \in Operators, Command(q) \/ Interrupt(q)
      PROVE  op'[o] = op[o]
  <2>1. q # o  BY <1>4
  <2>2. CASE StartRead(q) \/ Clean(q) \/ Probe(q) \/ Build(q) \/ Spawn(q) \/ Write(q)
    BY <1>1, <2>1, <2>2
       DEF StartRead, Clean, Probe, Build, Spawn, Write, Goto, Exit
  <2>3. CASE WaitUp(q) \/ Drop(q) \/ StopRead(q) \/ WaitDown(q) \/ WaitPort(q)
             \/ Interrupt(q)
    BY <1>1, <2>1, <2>3
       DEF WaitUp, Drop, StopRead, WaitDown, WaitPort, Interrupt, Goto, Exit
  <2> QED  BY <1>4, <2>2, <2>3 DEF Command
<1> QED  BY <1>2, <1>3, <1>4 DEF Next

\* No command of service.sh loops: a start passes at most eight of its lines,
\* a restart sixteen, whatever the processes, the pid file and other operators
\* do meanwhile, and each of its own steps brings it nearer to its end: what
\* CommandsEnd needs beside an operator's shell that goes on running.
THEOREM CommandsGetOn ==
    Spec => /\ [](\A o \in Operators : LinesLeft(op[o]) \in 0 .. 16)
            /\ CommandsAdvance
<1>1. TypeOK /\ [Next]_vars
        => [\A o \in Operators : op[o].pc # "idle" =>
              IF Command(o) \/ Interrupt(o)
              THEN LinesLeft(op'[o]) < LinesLeft(op[o])
              ELSE op'[o] = op[o]]_vars
  BY CommandAdvances, CommandRests
<1>2. TypeOK => \A o \in Operators : LinesLeft(op[o]) \in 0 .. 16
  BY LinesLeftType DEF TypeOK
<1> QED
  BY <1>1, <1>2, TypeCorrect, PTL DEF Spec, CommandsAdvance
=============================================================================
