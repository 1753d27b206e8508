----------------------------- MODULE CallGuard -----------------------------
(***************************************************************************)
(* What the quota guard promises about the calls of a day, without a       *)
(* table, a purge, a cron or penalties: one indivisible decision for each  *)
(* call, against a ledger nothing is ever taken out of.  Quota implements  *)
(* it (Quota!ImplementsGuard).                                             *)
(***************************************************************************)
EXTENDS Naturals

CONSTANTS Users, Requests, UserOf, Days, Reps,
          Calls             \* [Users -> [Reps -> Nat]], the daily allowance

VARIABLES
    day,
    spent,                  \* calls served, by user and day
    stage, rep, date        \* per call: how far it is, the reputation and
                            \* the date it is judged by

guardVars == <<day, spent, stage, rep, date>>

Move(r, s) == stage' = [stage EXCEPT ![r] = s]

Init ==
    /\ day = 0
    /\ spent = [x \in Users \X Days |-> 0]
    /\ stage = [r \in Requests |-> "new"]
    /\ rep = [r \in Requests |-> 0]
    /\ date = [r \in Requests |-> 0]

\* A call is judged by the reputation of its user when it came ...
Enter(r) ==
    /\ stage[r] = "new"
    /\ \E p \in Reps : rep' = [rep EXCEPT ![r] = p]
    /\ Move(r, "entered")
    /\ UNCHANGED <<day, spent, date>>

\* ... and counts for the day on which the guard got to it.
Date(r) ==
    /\ stage[r] = "entered"
    /\ date' = [date EXCEPT ![r] = day]
    /\ Move(r, "dated")
    /\ UNCHANGED <<day, spent, rep>>

Left(r) == spent[UserOf[r], date[r]] < Calls[UserOf[r]][rep[r]]

Admit(r) ==
    /\ stage[r] = "dated"
    /\ Left(r)
    /\ spent' = [spent EXCEPT ![<<UserOf[r], date[r]>>] = @ + 1]
    /\ Move(r, "admitted")
    /\ UNCHANGED <<day, rep, date>>

Refuse(r) ==
    /\ stage[r] = "dated"
    /\ ~Left(r)
    /\ Move(r, "refused")
    /\ UNCHANGED <<day, spent, rep, date>>

\* A call that was not admitted may be lost; it has cost nothing.
Vanish(r) ==
    /\ stage[r] \in {"entered", "dated", "refused"}
    /\ Move(r, "gone")
    /\ UNCHANGED <<day, spent, rep, date>>

Midnight ==
    /\ day' = day + 1
    /\ UNCHANGED <<spent, stage, rep, date>>

Next ==
    \/ \E r \in Requests :
          Enter(r) \/ Date(r) \/ Admit(r) \/ Refuse(r) \/ Vanish(r)
    \/ Midnight

Spec == Init /\ [][Next]_guardVars
=============================================================================
