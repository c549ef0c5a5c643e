------------------------------- MODULE MCChannel -------------------------------
(***************************************************************************)
(* The instance of Channel for TLC: the topic that is not valid, a group   *)
(* topic and a topic of the group.                                         *)
(***************************************************************************)
EXTENDS Channel

MCTopics == {<<0, 0>>, <<1, 0>>, <<1, 1>>}

=============================================================================
