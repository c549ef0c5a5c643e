------------------------------ MODULE MCServer ------------------------------
(***************************************************************************)
(* Parts of the server that several threads call, for TLC, side by side:   *)
(* ActorIdGenerator, ActorDirectory, Transaction and a TaskScheduler whose *)
(* task is called in every way and fails in every way.  They share no      *)
(* state.  A behaviour is one of the part chosen at the start, while the   *)
(* others stay as they are initially.                                      *)
(***************************************************************************)
EXTENDS ActorIdGenerator, ActorDirectory, Transaction

CONSTANTS t1, t2, n1, n2, x1, x2, o1, o2, task, NoTask

VARIABLES
    part,       \* the part that moves
    state, prio, queue, hand, at, stop, main, idx, pend, added, begun, nfin, lost \* TaskScheduler

\* one task, two runners
Calls == INSTANCE TaskScheduler WITH
    Tasks <- {task}, RunnerCount <- 2, Priorities <- 0..3,
    AppCalls <- {"cancelled", "paused", "started"}, Faults <- {"throw", "start_fail"}, pc <- at

taskvars == <<state, prio, queue, hand, at, stop, main, idx, pend, added, begun, nfin, lost>>

Start ==
    /\ part \in {"ids", "directory", "work", "tasks"}
    /\ Init /\ DInit /\ TInit /\ Calls!Init
    /\ part # "tasks" => prio[task] = 0

Step ==
    /\ UNCHANGED part
    /\ \/ part = "ids" /\ Next /\ UNCHANGED <<dvars, tvars, taskvars>>
       \/ part = "directory" /\ DNext /\ UNCHANGED <<vars, tvars, taskvars>>
       \/ part = "work" /\ TNext /\ UNCHANGED <<vars, dvars, taskvars>>
       \/ part = "tasks" /\ Calls!Next /\ UNCHANGED <<vars, dvars, tvars>>

ServerSpec == Start /\ [][Step]_<<part, vars, dvars, tvars, taskvars>>

\* TaskScheduler: a task is in a queue, with a thread, finished or let go after a fault.
NeverForgotten == Calls!NeverForgotten
=============================================================================
