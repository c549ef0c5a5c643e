----------------------------- MODULE MCTcpSession -----------------------------
(***************************************************************************)
(* TcpSession with a few application and io threads.                       *)
(***************************************************************************)
EXTENDS TcpSession

=============================================================================
