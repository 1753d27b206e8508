--------------------------- MODULE MCChannelPool ---------------------------
(***************************************************************************)
(* Small instances of ChannelPool.  Every request names a model that all   *)
(* channels serve.                                                         *)
(***************************************************************************)
EXTENDS ChannelPool, TLC

CONSTANTS c1, c2, r1, r2, r3

\* A 4xx does to a channel what a 5xx does, and ends its call.
NoClientErrors == Statuses \ {"client"}

ServesAll == [r \in Requests |-> Channels]

Symmetry == Permutations(Requests) \cup Permutations(Crons)
=============================================================================
