--------------------------- MODULE MCClientProtocol ---------------------------
(***************************************************************************)
(* ClientProtocol for TLC: packets with bodies of one and of two bytes.    *)
(***************************************************************************)
EXTENDS ClientProtocol

MCBodyLen == [t \in Topics |-> t]
=============================================================================
