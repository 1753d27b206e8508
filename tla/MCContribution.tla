--------------------------- MODULE MCContribution ---------------------------
(***************************************************************************)
(* A small instance of Contribution: two users with a channel each, two    *)
(* days for the week.                                                      *)
(***************************************************************************)
EXTENDS Contribution

CONSTANTS u1, u2, c1, c2, k1

OwnerOf == (c1 :> u1) @@ (c2 :> u2)
ServesOne == (c1 :> {"m"}) @@ (c2 :> {"*"})
WeightOf == (c1 :> 2) @@ (c2 :> 0)

SmallThresholds == <<1, 2, 2, 2>>
=============================================================================
