------------------------------- MODULE KvMap -------------------------------
(***************************************************************************)
(* What a key of the store promises its callers: a register whose entry    *)
(* ages with the clock and with nothing else and goes exactly at its       *)
(* deadline.  A put that is under way sets it in the end, whatever else    *)
(* goes on, or the process dies: only then are puts, and with them the     *)
(* entry, lost.  A read changes nothing.                                   *)
(***************************************************************************)
EXTENDS Integers

CONSTANTS Values, Ttl

VARIABLES
    entry,
    writing,    \* the values of the puts under way
    clock,      \* changes whenever a unit of time passes
    deaths      \* changes whenever the process dies

vars == <<entry, writing, clock, deaths>>

Absent == [held |-> FALSE]
Held(v, left) == [held |-> TRUE, v |-> v, left |-> left]

Init == entry = Absent /\ writing = {}

Age ==
    /\ clock' # clock /\ deaths' = deaths
    /\ writing \subseteq writing'
    /\ entry' = IF ~entry.held \/ entry.left = 0 THEN Absent
                ELSE Held(entry.v, entry.left - 1)

Set ==
    /\ clock' = clock /\ deaths' = deaths
    /\ \E v \in writing : entry' = Held(v, Ttl) /\ writing \ {v} \subseteq writing'

\* The end of the process, in a put or elsewhere.
Lose ==
    /\ clock' = clock /\ deaths' # deaths
    /\ writing' = {}
    /\ entry' = entry \/ (writing # {} /\ entry' = Absent)

\* Reads, and puts that begin.
Keep ==
    /\ clock' = clock /\ deaths' = deaths
    /\ writing \subseteq writing'
    /\ entry' = entry

Next == writing' \subseteq Values /\ (Age \/ Set \/ Lose \/ Keep)

Spec == Init /\ [][Next]_vars
=============================================================================
