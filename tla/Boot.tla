-------------------------------- MODULE Boot --------------------------------
(***************************************************************************)
(* The life of a Node process (node/entry.ts, main) and the migrations of  *)
(* the database file (platform/node.ts, runMigrations).  Processes share   *)
(* the file and the port; the statements of a migration are committed one  *)
(* by one, a failure of the migrations is logged and nothing more, and any *)
(* process may end at any moment.                                          *)
(*                                                                         *)
(* Every statement creates a table or an index and fails when it exists.   *)
(* Slips of the code, which the runs must notice, stand before the         *)
(* definition they would replace.                                          *)
(***************************************************************************)
EXTENDS Integers, Sequences, FiniteSets

CONSTANTS
    Procs,          \* process ids; each is given once: bounds the launches
    Length,         \* number of statements of each migration, in file order
    MaxCrashes      \* bound: processes that end without being told to

ASSUME BootAssumption ==
    Length \in Seq(Nat \ {0}) /\ Len(Length) > 0 /\ IsFiniteSet(Procs) /\ MaxCrashes \in Nat

Migrations == DOMAIN Length
Statements == UNION {{m} \X (1 .. Length[m]) : m \in Migrations}

VARIABLES
    schema,     \* statements executed
    recorded,   \* rows of _migrations
    proc,       \* [pc, applied, at]: at is the statement to run next
    doomed,     \* processes that have been sent a signal
    crashes,    \* processes that have crashed
    broken      \* ghost: a process has ended within its migrations

bootVars == <<schema, recorded, proc, doomed, crashes, broken>>

Unborn == [pc |-> "unborn", applied |-> {}, at |-> <<1, 1>>]
Dead   == [Unborn EXCEPT !.pc = "dead"]
Migrating == {"migrate", "insert"}

ProcStates == [pc : {"unborn", "boot", "bind", "serve", "dead"} \cup Migrating,
               applied : SUBSET Migrations,
               at : Statements]

Alive    == {p \in Procs : proc[p].pc \notin {"unborn", "dead"}}
PortOpen == \E p \in Procs : proc[p].pc = "serve"

\* An earlier release has applied the first migrations, or none.
BootInit ==
    /\ \E k \in 0 .. Len(Length) :
          /\ recorded = 1 .. k
          /\ schema = {s \in Statements : s[1] <= k}
    /\ doomed = {} /\ crashes = 0
    /\ proc = [p \in Procs |-> Unborn] /\ broken = FALSE

\* The next migration in the order of the names, or the end of the list.
Following(p, m) ==
    LET left == {n \in Migrations : n > m /\ n \notin proc[p].applied}
    IN  IF left = {} THEN [Unborn EXCEPT !.pc = "bind"]
        ELSE [pc |-> "migrate", applied |-> proc[p].applied,
              at |-> <<CHOOSE n \in left : \A k \in left : n <= k, 1>>]

\* The rejected promise of runMigrations: main goes on to listen.
Rejected == [Unborn EXCEPT !.pc = "bind"]

Launch(p) == proc' = [proc EXCEPT ![p].pc = "boot"]

OpenStopsAtApplied(p) ==
    /\ proc[p].pc = "boot"
    /\ proc' = [proc EXCEPT ![p] =
         IF recorded # {} THEN [Unborn EXCEPT !.pc = "bind"]
         ELSE [pc |-> "migrate", applied |-> recorded, at |-> <<1, 1>>]]
    /\ UNCHANGED <<schema, recorded, doomed, crashes, broken>>

\* sqliteDb: the names already applied.
Open(p) ==
    /\ proc[p].pc = "boot"
    /\ LET first == {m \in Migrations : m \notin recorded}
       IN  proc' = [proc EXCEPT ![p] =
             IF first = {} THEN [Unborn EXCEPT !.pc = "bind"]
             ELSE [pc |-> "migrate", applied |-> recorded,
                   at |-> <<CHOOSE n \in first : \A k \in first : n <= k, 1>>]]
    /\ UNCHANGED <<schema, recorded, doomed, crashes, broken>>

ExecCarriesOn(p) ==
    LET m == proc[p].at[1]
        i == proc[p].at[2]
    IN  /\ proc[p].pc = "migrate"
        /\ IF proc[p].at \in schema
           THEN proc' = [proc EXCEPT ![p] = Following(p, m)] /\ UNCHANGED schema
           ELSE /\ schema' = schema \cup {proc[p].at}
                /\ proc' = IF i = Length[m]
                           THEN [proc EXCEPT ![p].pc = "insert"]
                           ELSE [proc EXCEPT ![p].at = <<m, i + 1>>]
        /\ UNCHANGED <<recorded, doomed, crashes, broken>>

\* db.exec: one statement of the file.
Exec(p) ==
    LET m == proc[p].at[1]
        i == proc[p].at[2]
    IN  /\ proc[p].pc = "migrate"
        /\ IF proc[p].at \in schema
           THEN proc' = [proc EXCEPT ![p] = Rejected] /\ UNCHANGED schema
           ELSE /\ schema' = schema \cup {proc[p].at}
                /\ proc' = IF i = Length[m]
                           THEN [proc EXCEPT ![p].pc = "insert"]
                           ELSE [proc EXCEPT ![p].at = <<m, i + 1>>]
        /\ UNCHANGED <<recorded, doomed, crashes, broken>>

InsertAll(p) ==
    /\ proc[p].pc = "insert"
    /\ recorded' = Migrations
    /\ proc' = [proc EXCEPT ![p] = Following(p, proc[p].at[1])]
    /\ UNCHANGED <<schema, doomed, crashes, broken>>

\* The row of the migration; its name is the primary key.
Insert(p) ==
    LET m == proc[p].at[1]
    IN  /\ proc[p].pc = "insert"
        /\ recorded' = recorded \cup {m}
        /\ proc' = [proc EXCEPT ![p] = IF m \in recorded THEN Rejected
                                       ELSE Following(p, m)]
        /\ UNCHANGED <<schema, doomed, crashes, broken>>

\* An exception before that, as for a missing ENCRYPTION_KEY or a file that
\* cannot be opened, ends the process.
Refuses(p) ==
    /\ proc[p].pc = "boot"
    /\ proc' = [proc EXCEPT ![p] = Dead]
    /\ doomed' = doomed \ {p}
    /\ UNCHANGED <<schema, recorded, crashes, broken>>

\* server.listen; an occupied port is an error event nobody handles.
Bind(p) ==
    /\ proc[p].pc = "bind"
    /\ proc' = [proc EXCEPT ![p] = IF PortOpen THEN Dead
                                   ELSE [Unborn EXCEPT !.pc = "serve"]]
    /\ doomed' = IF PortOpen THEN doomed \ {p} ELSE doomed
    /\ UNCHANGED <<schema, recorded, crashes, broken>>

Ends(p) ==
    /\ proc' = [proc EXCEPT ![p] = Dead]
    /\ broken' = (broken \/ proc[p].pc \in Migrating)
    /\ UNCHANGED <<schema, recorded>>

\* A signal arrives.
Killed(p) ==
    /\ p \in doomed /\ Ends(p)
    /\ doomed' = doomed \ {p} /\ UNCHANGED crashes

\* The host, the memory, an exception outside of any promise ...
Crash(p) ==
    /\ p \in Alive \ doomed /\ crashes < MaxCrashes /\ Ends(p)
    /\ crashes' = crashes + 1 /\ UNCHANGED doomed

BootStep(p) == Open(p) \/ Refuses(p) \/ Exec(p) \/ Insert(p) \/ Bind(p)

BootTypeOK ==
    /\ schema \subseteq Statements /\ recorded \subseteq Migrations
    /\ proc \in [Procs -> ProcStates]
    /\ doomed \subseteq Alive /\ crashes \in 0 .. MaxCrashes
    /\ broken \in BOOLEAN
=============================================================================
