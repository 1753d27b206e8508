----------------------------- MODULE MCAccounts -----------------------------
(***************************************************************************)
(* accounts: two users of one address whose failures share a counter; one  *)
(* account is allowed, a failure locks, and a password may change twice,   *)
(* by two requests at once.                                                *)
(* locks: one user, with all three counters, and unknown tokens from the   *)
(* address; two failures lock, and two requests overlap.                   *)
(***************************************************************************)
EXTENDS Accounts, TLC

CONSTANTS u1, u2, r1, r2, r3, s1, s2, p1

SharedKey == [u \in Users |-> <<"ip">>]
TwoKeys   == [u \in Users |-> <<"ip", "name">>]

Symmetry == Permutations(Users) \cup Permutations(Requests) \cup Permutations(Sids)
=============================================================================
