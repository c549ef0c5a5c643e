------------------------------ MODULE MCTcpNode ------------------------------
(***************************************************************************)
(* TcpNode for TLC: a new node, and one whose table has had MaxSlot        *)
(* protocols at once, all gone, with the keys back in their first order.   *)
(***************************************************************************)
EXTENDS TcpNode

Worn ==
    /\ slots = [i \in 1..MaxSlot |-> [sp |-> Null, seq |-> 1 % SeqLimit]]
    /\ freeSlots = [i \in 1..MaxSlot |-> i]
    /\ usedCount = 0

Start ==
    /\ SlotInit \/ Worn
    /\ NodeInit

NodeSpec == Start /\ [][Next]_vars /\ Fairness
=============================================================================
