------------------------------ MODULE MCBudget ------------------------------
(***************************************************************************)
(* Two requests over a sampling of one in two and a budget of four: the    *)
(* second sample of a day pauses the service.                              *)
(***************************************************************************)
EXTENDS Budget

CONSTANTS r1, r2
=============================================================================
