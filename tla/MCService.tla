----------------------------- MODULE MCService ------------------------------
(***************************************************************************)
(* Two operators, two launches and two migrations, one of two              *)
(* statements.                                                             *)
(***************************************************************************)
EXTENDS Service

Script == <<2, 1>>
=============================================================================
