---------------------------- MODULE MCTransaction ----------------------------
(***************************************************************************)
(* Transaction for TLC: two transactions and two operations.               *)
(***************************************************************************)
EXTENDS Transaction
=============================================================================
