------------------------------ MODULE Service -------------------------------
(***************************************************************************)
(* The commands of scripts/service.sh (start, stop, restart) over the      *)
(* processes of Boot: the pid file, the probe of the port, the build, the  *)
(* launch and the waits.  Several operators may run a command at once and  *)
(* may interrupt it; waiting a bounded time is a choice between seeing the *)
(* event and giving up.  A pid is never given twice.                       *)
(***************************************************************************)
EXTENDS Boot

CONSTANTS Operators, NoPid

ASSUME ServiceAssumption == NoPid \notin Procs

VARIABLES
    pidfile,
    op,         \* [cmd, pc, pid] of every operator's command
    astray      \* ghost: commands overlapped, or a start was interrupted

vars == <<bootVars, pidfile, op, astray>>

Idle == [cmd |-> "none", pc |-> "idle", pid |-> NoPid]
OpStates == [cmd : {"none", "start", "stop", "restart"},
             pc : {"idle", "read", "clean", "probe", "build", "launch", "write",
                   "wait", "drop", "down", "port"},
             pid : Procs \cup {NoPid}]

Init ==
    /\ BootInit /\ pidfile = NoPid
    /\ op = [o \in Operators |-> Idle] /\ astray = FALSE

Goto(o, pc) == op' = [op EXCEPT ![o].pc = pc]
Exit(o)     == op' = [op EXCEPT ![o] = Idle]
boots       == <<schema, recorded, proc, doomed, crashes, broken>>

\* kill: the signal is sent, the process not awaited.
Kill(p) ==
    /\ doomed' = IF p \in Alive THEN doomed \cup {p} ELSE doomed
    /\ UNCHANGED <<schema, recorded, proc, crashes, broken>>

Begin(o, cmd) ==
    /\ op[o].pc = "idle"
    /\ op' = [op EXCEPT ![o] = [Idle EXCEPT !.cmd = cmd, !.pc = "read"]]
    /\ astray' = (astray \/ \E q \in Operators : op[q].pc # "idle")
    /\ UNCHANGED <<boots, pidfile>>

Starting(o) == op[o].cmd = "start"

\* cmd_start up to the launch.
StartRead(o) ==
    /\ op[o].pc = "read" /\ Starting(o)
    /\ IF pidfile \in Alive THEN Exit(o)
       ELSE Goto(o, IF pidfile = NoPid THEN "probe" ELSE "clean")
    /\ UNCHANGED <<boots, pidfile, astray>>

Clean(o) ==
    /\ op[o].pc = "clean" /\ pidfile' = NoPid
    /\ Goto(o, "probe") /\ UNCHANGED <<boots, astray>>

Probe(o) ==
    /\ op[o].pc = "probe"
    /\ IF PortOpen THEN Exit(o) ELSE Goto(o, "build")
    /\ UNCHANGED <<boots, pidfile, astray>>

Build(o) ==
    /\ op[o].pc = "build"
    /\ Goto(o, "launch") \/ Exit(o)
    /\ UNCHANGED <<boots, pidfile, astray>>

\* setsid node ... &, beyond the bound Procs nothing.
Spawn(o) ==
    /\ op[o].pc = "launch"
    /\ IF \E p \in Procs : proc[p].pc = "unborn"
       THEN LET p == CHOOSE q \in Procs : proc[q].pc = "unborn"
            IN  Launch(p) /\ op' = [op EXCEPT ![o].pc = "write", ![o].pid = p]
       ELSE Exit(o) /\ UNCHANGED proc
    /\ UNCHANGED <<schema, recorded, doomed, crashes, broken, pidfile, astray>>

Write(o) ==
    /\ op[o].pc = "write" /\ pidfile' = op[o].pid
    /\ Goto(o, "wait") /\ UNCHANGED <<boots, astray>>

WaitUpNoKill(o) ==
    /\ op[o].pc = "wait"
    /\ IF PortOpen THEN Exit(o) ELSE Goto(o, "drop")
    /\ UNCHANGED <<boots, pidfile, astray>>

\* The port answers, the process has ended, or 20 seconds have passed.
WaitUp(o) ==
    /\ op[o].pc = "wait"
    /\ IF PortOpen THEN Exit(o) /\ UNCHANGED boots
       ELSE /\ Goto(o, "drop")
            /\ IF op[o].pid \in Alive THEN Kill(op[o].pid) ELSE UNCHANGED boots
    /\ UNCHANGED <<pidfile, astray>>

\* rm -f of the pid file, the end of a start that failed and of a stop.
Drop(o) ==
    /\ op[o].pc = "drop" /\ pidfile' = NoPid
    /\ IF op[o].cmd = "restart"
       THEN op' = [op EXCEPT ![o] = [Idle EXCEPT !.cmd = "start", !.pc = "read"]]
       ELSE Exit(o)
    /\ UNCHANGED <<boots, astray>>

\* cmd_stop.
StopRead(o) ==
    /\ op[o].pc = "read" /\ ~Starting(o)
    /\ IF pidfile = NoPid
       THEN /\ IF op[o].cmd = "restart"
               THEN op' = [op EXCEPT ![o].cmd = "start"]
               ELSE Exit(o)
            /\ UNCHANGED boots
       ELSE IF pidfile \in Alive
            THEN /\ Kill(pidfile)
                 /\ op' = [op EXCEPT ![o].pc = "down", ![o].pid = pidfile]
            ELSE Goto(o, "drop") /\ UNCHANGED boots
    /\ UNCHANGED <<pidfile, astray>>

\* The process ends, or is sent SIGKILL after 10 seconds.
WaitDown(o) ==
    /\ op[o].pc = "down"
    /\ IF op[o].pid \in Alive
       THEN Kill(op[o].pid) /\ Goto(o, "drop")
       ELSE Goto(o, "port") /\ UNCHANGED boots
    /\ UNCHANGED <<pidfile, astray>>

WaitPortForever(o) ==
    /\ op[o].pc = "port" /\ ~PortOpen
    /\ Goto(o, "drop")
    /\ UNCHANGED <<boots, pidfile, astray>>

\* wait_port_closed; a port that stays open makes stop fail, and with it a
\* restart.
WaitPort(o) ==
    /\ op[o].pc = "port"
    /\ op' = [op EXCEPT ![o].pc = "drop", ![o].cmd = IF PortOpen THEN "stop" ELSE @]
    /\ UNCHANGED <<boots, pidfile, astray>>

\* Ctrl-C; a server already launched lives on in a session of its own.
Interrupt(o) ==
    /\ op[o].pc # "idle" /\ Exit(o)
    /\ astray' = (astray \/ op[o].pc = "write")
    /\ UNCHANGED <<boots, pidfile>>

Command(o) ==
    \/ StartRead(o) \/ Clean(o) \/ Probe(o) \/ Build(o) \/ Spawn(o) \/ Write(o)
    \/ WaitUp(o) \/ Drop(o) \/ StopRead(o) \/ WaitDown(o) \/ WaitPort(o)

System(p) ==
    /\ BootStep(p) \/ Killed(p) \/ Crash(p)
    /\ UNCHANGED <<pidfile, op, astray>>

Next ==
    \/ \E o \in Operators :
          \/ \E cmd \in {"start", "stop", "restart"} : Begin(o, cmd)
          \/ Command(o) \/ Interrupt(o)
    \/ \E p \in Procs : System(p)

Signalled(p) == Killed(p) /\ UNCHANGED <<pidfile, op, astray>>

Spec ==
    /\ Init /\ [][Next]_vars
    /\ \A o \in Operators : WF_vars(Command(o))
    /\ \A p \in Procs : WF_vars(Signalled(p))

----------------------------------------------------------------------------
TypeOK ==
    /\ BootTypeOK /\ astray \in BOOLEAN
    /\ pidfile \in Procs \cup {NoPid}
    /\ op \in [Operators -> OpStates]

\* A row of _migrations says that all statements of that migration ran: the
\* next start may skip it (platform/node.ts:199).
RecordedIsWhole ==
    \A m \in recorded : {m} \X (1 .. Length[m]) \subseteq schema

\* Migrations run in the order of their names, each on the outcome of all
\* earlier ones, whatever processes start together.
MigrationsInOrder ==
    [][\A s \in schema' \ schema : 1 .. s[1] - 1 \subseteq recorded]_vars

\* A process serves over an incomplete schema only while another is still
\* migrating, or once a process has ended within its migrations: then the
\* failure of every later start is logged and nothing more.
ServesWholeSchema ==
    PortOpen => \/ schema = Statements \/ broken
                \/ \E p \in Procs : proc[p].pc \in Migrating

\* Commands one after the other never lose a server: whatever crashed, timed
\* out or was interrupted, a process that has not been told to end is the one
\* the pid file names.
ServerIsNamed ==
    (~astray /\ \A o \in Operators : op[o].pc = "idle")
        => Alive \ doomed \subseteq {pidfile}

\* Every command ends, also when a server it does not know holds the port.
CommandsEnd == \A o \in Operators : op[o].pc # "idle" ~> op[o].pc = "idle"
=============================================================================
