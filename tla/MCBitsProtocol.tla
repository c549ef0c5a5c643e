---------------------------- MODULE MCBitsProtocol ----------------------------
(***************************************************************************)
(* BitsProtocol for TLC: a packet without modifiers, one with a number and *)
(* a checksum, and an empty one with a checksum.                           *)
(***************************************************************************)
EXTENDS BitsProtocol

MCTopics == <<[fields |-> 1, seq |-> FALSE, sum |-> FALSE],
              [fields |-> 1, seq |-> TRUE, sum |-> TRUE],
              [fields |-> 0, seq |-> FALSE, sum |-> TRUE]>>
=============================================================================
