------------------------------ MODULE MCCluster ------------------------------
(***************************************************************************)
(* ActorCluster and DbService for TLC.  A behaviour is either one of two   *)
(* servers, of which the second has the first as its remote, with two      *)
(* connections one after the other; or one of a database service with two  *)
(* runners.                                                                *)
(***************************************************************************)
EXTENDS ActorCluster, DbService, TLC

VARIABLE serving    \* it is the service

MCRemotesOf == (1 :> {}) @@ (2 :> {1})

\* two transactions of one key, and one that any runner may execute
MCKeyOf == (1 :> 1) @@ (2 :> 1) @@ (4 :> 0)

Begin == serving \in BOOLEAN /\ AInit /\ BInit

Step ==
    /\ UNCHANGED serving
    /\ \/ ~serving /\ ANext /\ UNCHANGED bvars
       \/ serving /\ BNext /\ UNCHANGED avars

ClusterSpec == Begin /\ [][Step]_<<serving, avars, bvars>> /\ AFair /\ BFair
=============================================================================
