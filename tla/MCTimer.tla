-------------------------------- MODULE MCTimer --------------------------------
(***************************************************************************)
(* Instances of Timer and TimerHolder for TLC.  A behaviour is either one  *)
(* of a timer with a table of three intervals and requests that run once,  *)
(* for ever and for a time, or one of a timer and a holder with two        *)
(* intervals and two requests.                                             *)
(***************************************************************************)
EXTENDS Timer

VARIABLES
    holding,                        \* there is a holder
    hid, gone, repeated, owned      \* TimerHolder

MCIntervals == <<1, 2, 3>>
Once(n) == [interval |-> n, duration |-> 0, after |-> 0, repeat |-> FALSE]
Forever == [interval |-> 1, duration |-> 0, after |-> 0, repeat |-> TRUE]
MCRequests ==
    {Once(1), Once(3), Forever,
     [interval |-> 2, duration |-> 3, after |-> 1, repeat |-> FALSE]}

Holder == INSTANCE TimerHolder WITH
    Requests <- {Once(1), Forever}, Intervals <- <<1, 2>>, MaxReqs <- 2

Start == holding \in BOOLEAN /\ Holder!HInit

Step ==
    \/ ~holding /\ Next /\ UNCHANGED <<holding, hid, gone, repeated, owned>>
    \/ holding /\ Holder!HNext /\ UNCHANGED holding

TimerSpec ==
    Start /\ [][Step]_<<vars, holding, hid, gone, repeated, owned>> /\ WF_vars(Running)

\* Timer: the action of a request that was cancelled is not called again.
\* TimerHolder: nor one of a holder used with once() after its destructor.
NoLateRun == NoRunAfterCancel /\ Holder!NoCallAfterDestroy
=============================================================================
