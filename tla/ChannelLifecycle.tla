-------------------------- MODULE ChannelLifecycle --------------------------
(***************************************************************************)
(* What the pool promises about one channel, without counters, requests or *)
(* cron runs: the life cycle of docs/PLAN.md appendix B as the code has    *)
(* it.  ChannelPool implements it (ChannelPool!ImplementsLifecycle).       *)
(***************************************************************************)
CONSTANT Channels

VARIABLE status

\* "serving" channels get traffic, "cooling" ones have an open circuit,
\* "retired" ones too many marks; "offline" is every other listed channel.
Status == {"unlisted", "serving", "offline", "cooling", "retired", "deleted"}
Usable == {"serving", "offline"}
Listed == Usable \cup {"cooling", "retired"}

Move(c, from, to) ==
    /\ status[c] \in from
    /\ \E s \in to : status' = [status EXCEPT ![c] = s]

Init == status = [c \in Channels |-> "unlisted"]

\* The owner submits, reactivates or deletes the channel.
List(c)       == Move(c, {"unlisted"}, Usable)
Reactivate(c) == Move(c, Listed, Usable)
Delete(c)     == Move(c, Listed, {"deleted"})

\* A probe, by the owner or by the cron, decides between the usable states
\* and touches neither an open circuit nor a retirement.
Probe(c) == Move(c, Usable, Usable)

\* A failing call opens the circuit or, with the last mark, retires the
\* channel; a call that was under way may still do so when the channel has
\* gone offline or its circuit is open already.
Trip(c) == Move(c, Usable \cup {"cooling"}, {"cooling", "retired"})

\* The cron closes the circuits that have cooled down, all at once.
Recover(S) ==
    /\ \A c \in S : status[c] = "cooling"
    /\ status' \in [Channels -> Status]
    /\ \A c \in Channels :
          IF c \in S THEN status'[c] \in Usable ELSE status'[c] = status[c]

Next ==
    \/ \E c \in Channels : List(c) \/ Reactivate(c) \/ Delete(c)
                             \/ Probe(c) \/ Trip(c)
    \/ \E S \in SUBSET Channels : Recover(S)

Spec == Init /\ [][Next]_status
=============================================================================
