---------------------------- MODULE TaskScheduler ----------------------------
(***************************************************************************)
(* task, task_runner and task_scheduler (core/task).                       *)
(*                                                                         *)
(* Threads: the runners 1..RunnerCount, the main thread (which calls       *)
(* schedule() until it calls finish()), and application threads, which add *)
(* tasks and call cancel(), pause(), resume() and set_priority() on them   *)
(* at any time.  Each step below is one access of a shared variable (the   *)
(* atomic state_ of a task, a concurrent queue, stop_) or one callback.    *)
(***************************************************************************)
EXTENDS Integers, Sequences, FiniteSets

CONSTANTS
    Tasks,          \* the tasks the application adds, each of them once
    NoTask,         \* an empty task::ptr
    RunnerCount,    \* config.runner_count
    Priorities,     \* the levels used: 0 realtime, 1..3 level_1..level_3
    AppCalls,       \* the states application calls may store
    Faults          \* subset of {"throw", "start_fail"}: what callbacks do

ASSUME TasksAssumption == NoTask \notin Tasks
ASSUME RunnerAssumption == RunnerCount \in Nat \ {0}
ASSUME PriorityAssumption == Priorities \subseteq 0..3
ASSUME CallsAssumption == AppCalls \subseteq {"cancelled", "paused", "started"}

VARIABLES
    state,      \* task::state_
    prio,       \* task::priority_
    queue,      \* 0: run_queue_, 1..3: wait_queue_1_ .. wait_queue_3_
    hand,       \* the task::ptr a runner (1..) or the main thread (0) works on
    pc,         \* where a runner is in run()
    stop,       \* task_runner::stop_
    main,       \* where the main thread is: schedule(), then finish()
    idx,        \* the runner, then the queue, finish() is at
    pend,       \* stores of cancel/pause/resume calls past their check
    added,      \* history: tasks given to add()
    begun,      \* history: tasks whose on_start() returned true
    nfin,       \* history: calls of on_finish(), counted up to 2
    lost        \* history: tasks a runner let go after a throw or a failed start

vars == <<state, prio, queue, hand, pc, stop, main, idx, pend,
          added, begun, nfin, lost>>

Runners == 1..RunnerCount
Holders == 0..RunnerCount      \* the runners and the main thread
Queues == 0..3
States == {"constructed", "started", "cancelled", "paused", "finished"}
RunnerPcs == {"loop", "pop", "popped", "on_start", "store_started", "start_ret",
              "execute", "on_execute", "pass", "finish", "self_finish",
              "store_finished", "exited"}
MainPcs == {"schedule", "stopping", "joining", "draining", "store_finished", "done"}

(***************************************************************************)
(* task_scheduler::start() has created the runners and their threads.      *)
(***************************************************************************)
Init ==
    /\ state = [t \in Tasks |-> "constructed"]
    /\ prio \in [Tasks -> Priorities]
    /\ queue = [q \in Queues |-> <<>>]
    /\ hand = [h \in Holders |-> NoTask]
    /\ pc = [r \in Runners |-> "loop"]
    /\ stop = [r \in Runners |-> FALSE]
    /\ main = "schedule"
    /\ idx = 1
    /\ pend = [t \in Tasks |-> {}]
    /\ added = {}
    /\ begun = {}
    /\ nfin = [t \in Tasks |-> 0]
    /\ lost = {}

Push(q, t) == queue' = [queue EXCEPT ![q] = Append(@, t)]

Pop(q) == queue' = [queue EXCEPT ![q] = Tail(@)]

Goto(r, l) == pc' = [pc EXCEPT ![r] = l]

\* The runner leaves the body of its inner loop and holds no task any more.
Release(r) ==
    /\ Goto(r, "loop")
    /\ hand' = [hand EXCEPT ![r] = NoTask]

\* on_finish() is called: the count saturates at 2.
OnFinish(t) == nfin' = [nfin EXCEPT ![t] = IF @ < 2 THEN @ + 1 ELSE @]

(***************************************************************************)
(* Application threads.                                                    *)
(***************************************************************************)

\* task_scheduler::add
Add(t) ==
    /\ t \notin added
    /\ added' = added \cup {t}
    /\ Push(0, t)
    /\ UNCHANGED <<state, prio, hand, pc, stop, main, idx, pend, begun, nfin, lost>>

\* cancel() and pause() read state_ and return when it is finished; resume()
\* asserts that it is paused.
CallChecks(t, s) == IF s = "started" THEN state[t] = "paused"
                                     ELSE state[t] # "finished"

\* cancel(), pause() or resume() up to its store
CallBegin(t, s) ==
    /\ t \in added
    /\ CallChecks(t, s)
    /\ pend' = [pend EXCEPT ![t] = @ \cup {s}]
    /\ UNCHANGED <<state, prio, queue, hand, pc, stop, main, idx, added, begun, nfin, lost>>

\* the store of a call that passed its check earlier
CallStore(t, s) ==
    /\ s \in pend[t]
    /\ pend' = [pend EXCEPT ![t] = @ \ {s}]
    /\ state' = [state EXCEPT ![t] = s]
    /\ UNCHANGED <<prio, queue, hand, pc, stop, main, idx, added, begun, nfin, lost>>

\* task::set_priority
SetPriority(t, p) ==
    /\ prio' = [prio EXCEPT ![t] = p]
    /\ UNCHANGED <<state, queue, hand, pc, stop, main, idx, pend, added, begun, nfin, lost>>

(***************************************************************************)
(* task_runner::run().  The statistics and the sleeps of the idle loop     *)
(* change nothing the properties see; single_loop_run_limit only leaves    *)
(* the inner loop for the outer one, which goes on in the same way.        *)
(***************************************************************************)

\* Faulty variant of RunnerLoop: stop_ is never read.
LoopIgnoresStop(r) ==
    /\ pc[r] = "loop"
    /\ Goto(r, "pop")
    /\ UNCHANGED <<state, prio, queue, hand, stop, main, idx, pend, added, begun, nfin, lost>>

\* while (!stop_): both loops read stop_ before the pop
RunnerLoop(r) ==
    /\ pc[r] = "loop"
    /\ Goto(r, IF stop[r] THEN "exited" ELSE "pop")
    /\ UNCHANGED <<state, prio, queue, hand, stop, main, idx, pend, added, begun, nfin, lost>>

\* scheduler_.pop(task)
RunnerPop(r) ==
    /\ pc[r] = "pop"
    /\ IF queue[0] = <<>>
         THEN Goto(r, "loop") /\ UNCHANGED <<queue, hand>>
         ELSE /\ hand' = [hand EXCEPT ![r] = Head(queue[0])]
              /\ Pop(0)
              /\ Goto(r, "popped")
    /\ UNCHANGED <<state, prio, stop, main, idx, pend, added, begun, nfin, lost>>

\* Faulty variant of RunnerPopped: a task that is not constructed any more is
\* started, a constructed one is executed.
PoppedSwapped(r) ==
    /\ pc[r] = "popped"
    /\ Goto(r, IF state[hand[r]] = "constructed" THEN "execute" ELSE "on_start")
    /\ UNCHANGED <<state, prio, queue, hand, stop, main, idx, pend, added, begun, nfin, lost>>

\* a constructed task is started, any other goes on to be executed
RunnerPopped(r) ==
    /\ pc[r] = "popped"
    /\ Goto(r, IF state[hand[r]] = "constructed" THEN "on_start" ELSE "execute")
    /\ UNCHANGED <<state, prio, queue, hand, stop, main, idx, pend, added, begun, nfin, lost>>

\* on_start() returns true
RunnerOnStart(r) ==
    /\ pc[r] = "on_start"
    /\ Goto(r, "store_started")
    /\ begun' = begun \cup {hand[r]}
    /\ UNCHANGED <<state, prio, queue, hand, stop, main, idx, pend, added, nfin, lost>>

\* on_start() returns false
RunnerOnStartFails(r) ==
    /\ "start_fail" \in Faults
    /\ pc[r] = "on_start"
    /\ Goto(r, "start_ret")
    /\ UNCHANGED <<state, prio, queue, hand, stop, main, idx, pend, added, begun, nfin, lost>>

\* state_ = state::started in start()
RunnerStoreStarted(r) ==
    /\ pc[r] = "store_started"
    /\ state' = [state EXCEPT ![hand[r]] = "started"]
    /\ Goto(r, "start_ret")
    /\ UNCHANGED <<prio, queue, hand, stop, main, idx, pend, added, begun, nfin, lost>>

\* start() returns state_ == state::started; when it does not hold, the runner
\* logs an error and lets the task go
RunnerStartReturns(r) ==
    /\ pc[r] = "start_ret"
    /\ IF state[hand[r]] = "started"
         THEN Goto(r, "execute") /\ UNCHANGED <<hand, lost>>
         ELSE Release(r) /\ lost' = lost \cup {hand[r]}
    /\ UNCHANGED <<state, prio, queue, stop, main, idx, pend, added, begun, nfin>>

\* Faulty variant of ExecuteDecides: a cancelled task is executed again.
ExecuteIgnoresCancel(s) == IF s = "paused" THEN "pass" ELSE "on_execute"

\* What execute() and the runner's own test of paused make of the state.
ExecuteDecides(s) ==
    CASE s = "cancelled" -> "finish"
      [] s = "paused"    -> "pass"
      [] OTHER           -> "on_execute"

\* execute() up to on_execute().  A finished task gives result::finished and is
\* let go.
RunnerExecute(r) ==
    /\ pc[r] = "execute"
    /\ IF state[hand[r]] = "finished"
         THEN Release(r)
         ELSE Goto(r, ExecuteDecides(state[hand[r]])) /\ UNCHANGED hand
    /\ UNCHANGED <<state, prio, queue, stop, main, idx, pend, added, begun, nfin, lost>>

\* on_execute() returns success (pass), fail or exit (finish), or has called
\* finish() on itself and returns finished (self_finish)
RunnerOnExecute(r, l) ==
    /\ pc[r] = "on_execute"
    /\ l \in {"pass", "finish", "self_finish"}
    /\ Goto(r, l)
    /\ UNCHANGED <<state, prio, queue, hand, stop, main, idx, pend, added, begun, nfin, lost>>

\* on_start() or on_execute() throws: the runner logs and lets the task go
RunnerThrows(r) ==
    /\ "throw" \in Faults
    /\ pc[r] \in {"on_start", "on_execute"}
    /\ lost' = lost \cup {hand[r]}
    /\ Release(r)
    /\ UNCHANGED <<state, prio, queue, stop, main, idx, pend, added, begun, nfin>>

\* Faulty variants of RunnerPass: the case of level_2 lacks its break, and the
\* switch lacks its default.
PassFallsThrough(r) ==
    /\ pc[r] = "pass"
    /\ queue' = [queue EXCEPT ![prio[hand[r]]] = Append(@, hand[r]),
                              ![3] = IF prio[hand[r]] = 2 THEN Append(@, hand[r]) ELSE @]
    /\ Release(r)
    /\ UNCHANGED <<state, prio, stop, main, idx, pend, added, begun, nfin, lost>>

PassWithoutDefault(r) ==
    /\ pc[r] = "pass"
    /\ IF prio[hand[r]] = 3 THEN UNCHANGED queue ELSE Push(prio[hand[r]], hand[r])
    /\ Release(r)
    /\ UNCHANGED <<state, prio, stop, main, idx, pend, added, begun, nfin, lost>>

\* scheduler_.pass(task)
RunnerPass(r) ==
    /\ pc[r] = "pass"
    /\ Push(prio[hand[r]], hand[r])
    /\ Release(r)
    /\ UNCHANGED <<state, prio, stop, main, idx, pend, added, begun, nfin, lost>>

\* task->finish() up to the store: on_finish()
RunnerFinish(r) ==
    /\ pc[r] \in {"finish", "self_finish"}
    /\ OnFinish(hand[r])
    /\ Goto(r, "store_finished")
    /\ UNCHANGED <<state, prio, queue, hand, stop, main, idx, pend, added, begun, lost>>

\* Faulty variant of RunnerStoreFinished: the case of exit lacks its break.
ExitFallsThrough(r) ==
    /\ pc[r] = "store_finished"
    /\ state' = [state EXCEPT ![hand[r]] = "finished"]
    /\ Goto(r, "pass")
    /\ UNCHANGED <<prio, queue, hand, stop, main, idx, pend, added, begun, nfin, lost>>

\* state_ = state::finished; the result finish() was called for is fail, exit or
\* finished, none of which passes the task on
RunnerStoreFinished(r) ==
    /\ pc[r] = "store_finished"
    /\ state' = [state EXCEPT ![hand[r]] = "finished"]
    /\ Release(r)
    /\ UNCHANGED <<prio, queue, stop, main, idx, pend, added, begun, nfin, lost>>

(***************************************************************************)
(* The main thread: schedule(), then finish().                             *)
(***************************************************************************)

\* schedule(): a level has timed out and its queue is not drained yet.  When a
\* level times out is up to the clock.
ScheduleTake(q) ==
    /\ main = "schedule"
    /\ hand[0] = NoTask
    /\ queue[q] # <<>>
    /\ hand' = [hand EXCEPT ![0] = Head(queue[q])]
    /\ Pop(q)
    /\ UNCHANGED <<state, prio, pc, stop, main, idx, pend, added, begun, nfin, lost>>

SchedulePut ==
    /\ main = "schedule"
    /\ hand[0] # NoTask
    /\ Push(0, hand[0])
    /\ hand' = [hand EXCEPT ![0] = NoTask]
    /\ UNCHANGED <<state, prio, pc, stop, main, idx, pend, added, begun, nfin, lost>>

\* finish() is called between two calls of schedule()
FinishBegin ==
    /\ main = "schedule"
    /\ hand[0] = NoTask
    /\ main' = "stopping"
    /\ UNCHANGED <<state, prio, queue, hand, pc, stop, idx, pend, added, begun, nfin, lost>>

\* task_runner::finish(): stop_ = true
FinishStop ==
    /\ main = "stopping"
    /\ stop' = [stop EXCEPT ![idx] = TRUE]
    /\ main' = "joining"
    /\ UNCHANGED <<state, prio, queue, hand, pc, idx, pend, added, begun, nfin, lost>>

\* Faulty variant of FinishJoin: the thread is detached, not joined.
JoinDoesNotWait ==
    /\ main = "joining"
    /\ IF idx < RunnerCount
         THEN idx' = idx + 1 /\ main' = "stopping"
         ELSE idx' = 0 /\ main' = "draining"
    /\ UNCHANGED <<state, prio, queue, hand, pc, stop, pend, added, begun, nfin, lost>>

\* thread_.join(), then the next runner or the queues
FinishJoin ==
    /\ main = "joining"
    /\ pc[idx] = "exited"
    /\ IF idx < RunnerCount
         THEN idx' = idx + 1 /\ main' = "stopping"
         ELSE idx' = 0 /\ main' = "draining"
    /\ UNCHANGED <<state, prio, queue, hand, pc, stop, pend, added, begun, nfin, lost>>

\* finish_queue(): pop
DrainTake ==
    /\ main = "draining"
    /\ hand[0] = NoTask
    /\ queue[idx] # <<>>
    /\ hand' = [hand EXCEPT ![0] = Head(queue[idx])]
    /\ Pop(idx)
    /\ UNCHANGED <<state, prio, pc, stop, main, idx, pend, added, begun, nfin, lost>>

\* Faulty variant of Finishes: a cancelled task is dropped.
FinishesStarted(s) == s = "started"

\* finish_queue(): only started and cancelled tasks are finished
Finishes(s) == s \in {"started", "cancelled"}

DrainTest ==
    /\ main = "draining"
    /\ hand[0] # NoTask
    /\ IF Finishes(state[hand[0]])
         THEN OnFinish(hand[0]) /\ main' = "store_finished" /\ UNCHANGED hand
         ELSE hand' = [hand EXCEPT ![0] = NoTask] /\ UNCHANGED <<nfin, main>>
    /\ UNCHANGED <<state, prio, queue, pc, stop, idx, pend, added, begun, lost>>

DrainStore ==
    /\ main = "store_finished"
    /\ state' = [state EXCEPT ![hand[0]] = "finished"]
    /\ hand' = [hand EXCEPT ![0] = NoTask]
    /\ main' = "draining"
    /\ UNCHANGED <<prio, queue, pc, stop, idx, pend, added, begun, nfin, lost>>

\* the queue is empty: the next one
DrainNext ==
    /\ main = "draining"
    /\ hand[0] = NoTask
    /\ queue[idx] = <<>>
    /\ IF idx < 3 THEN idx' = idx + 1 /\ UNCHANGED main
                  ELSE idx' = idx /\ main' = "done"
    /\ UNCHANGED <<state, prio, queue, hand, pc, stop, pend, added, begun, nfin, lost>>

(***************************************************************************)
(* The specification.                                                      *)
(***************************************************************************)
App(t) ==
    \/ Add(t)
    \/ \E s \in AppCalls : CallBegin(t, s) \/ CallStore(t, s)
    \/ \E p \in Priorities : SetPriority(t, p)

Runner(r) ==
    \/ RunnerLoop(r)
    \/ RunnerPop(r)
    \/ RunnerPopped(r)
    \/ RunnerOnStart(r)
    \/ RunnerOnStartFails(r)
    \/ RunnerStoreStarted(r)
    \/ RunnerStartReturns(r)
    \/ RunnerExecute(r)
    \/ \E l \in {"pass", "finish", "self_finish"} : RunnerOnExecute(r, l)
    \/ RunnerThrows(r)
    \/ RunnerPass(r)
    \/ RunnerFinish(r)
    \/ RunnerStoreFinished(r)

Finish ==
    \/ FinishStop
    \/ FinishJoin
    \/ DrainTake
    \/ DrainTest
    \/ DrainStore
    \/ DrainNext

Next ==
    \/ \E t \in Tasks : App(t)
    \/ \E r \in Runners : Runner(r)
    \/ \E q \in 1..3 : ScheduleTake(q)
    \/ SchedulePut
    \/ FinishBegin
    \/ Finish

Spec == Init /\ [][Next]_vars

\* Every thread that can go on eventually does; schedule() is called again and
\* again until finish() is; a call past its check reaches its store.  on_start
\* and on_execute return.  Nobody has to call finish(), add() or cancel().
Fairness ==
    /\ \A r \in Runners : WF_vars(Runner(r))
    /\ \A q \in 1..3 : WF_vars(ScheduleTake(q))
    /\ WF_vars(SchedulePut)
    /\ WF_vars(Finish)
    /\ \A t \in Tasks, s \in AppCalls : WF_vars(CallStore(t, s))

FairSpec == Spec /\ Fairness

(***************************************************************************)
(* Properties.                                                             *)
(***************************************************************************)

\* A task is at most once in the queues qs.
Distinct(qs) ==
    \A a, b \in Queues : \A i \in 1..Len(qs[a]), j \in 1..Len(qs[b]) :
        qs[a][i] = qs[b][j] => a = b /\ i = j

InQueue(qs, t) == \E q \in Queues : \E i \in 1..Len(qs[q]) : qs[q][i] = t

\* Every variable has its type; a runner or the main thread holds a task
\* exactly where the code of run(), schedule() and finish_queue() does.
TypeOK ==
    /\ state \in [Tasks -> States]
    /\ prio \in [Tasks -> Priorities]
    /\ queue \in [Queues -> Seq(Tasks)]
    /\ hand \in [Holders -> Tasks \cup {NoTask}]
    /\ pc \in [Runners -> RunnerPcs]
    /\ stop \in [Runners -> BOOLEAN]
    /\ main \in MainPcs
    /\ idx \in Nat
    /\ main \in {"schedule", "stopping", "joining"} => idx \in Runners
    /\ main \in {"draining", "store_finished"} => idx \in Queues
    /\ pend \in [Tasks -> SUBSET AppCalls]
    /\ added \subseteq Tasks
    /\ begun \subseteq Tasks
    /\ nfin \in [Tasks -> 0..2]
    /\ lost \subseteq Tasks
    /\ \A r \in Runners : hand[r] = NoTask <=> pc[r] \in {"loop", "pop", "exited"}
    /\ main = "store_finished" => hand[0] # NoTask

\* A task is in one place only: no two positions of the run queue and the wait
\* queues hold it, no two threads hold it, and a task some thread holds is in no
\* queue.  This is why on_start, on_execute and on_finish of one task never run
\* on two runners at once, whatever pass(), schedule() and finish() interleave.
SingleOwner ==
    /\ Distinct(queue)
    /\ \A g, h \in Holders : hand[g] = hand[h] /\ hand[g] # NoTask => g = h
    /\ \A h \in Holders : ~InQueue(queue, hand[h])

Owned(t) == InQueue(queue, t) \/ \E h \in Holders : hand[h] = t

\* The thread that calls on_finish() holds the task until it has stored finished.
BeingFinished(t) ==
    \/ \E r \in Runners : pc[r] = "store_finished" /\ hand[r] = t
    \/ main = "store_finished" /\ hand[0] = t

\* on_finish() is called at most once for a task, and after it neither a queue
\* nor a runner has the task, even when a late cancel(), pause() or resume()
\* overwrites the finished state.
FinishedOnce ==
    \A t \in Tasks : nfin[t] > 0 =>
        /\ nfin[t] = 1
        /\ Owned(t) => BeingFinished(t)

\* Only a task given to add() is in the scheduler or was finished by it.
OnlyAdded == \A t \in Tasks : Owned(t) \/ nfin[t] > 0 => t \in added

\* The scheduler forgets a task only after on_finish() was called, after a throw
\* or a failed start, or at shutdown.
NeverForgotten ==
    \A t \in added : Owned(t) \/ nfin[t] = 1 \/ t \in lost \/ main \in {"draining", "store_finished", "done"}

\* on_execute() runs only on a task whose on_start() returned true, also when a
\* cancel() meets the start, as long as nobody calls resume(): resume() stores
\* started whatever the task was before.
ExecutesOnlyStarted ==
    "started" \notin AppCalls =>
        \A r \in Runners : pc[r] = "on_execute" => hand[r] \in begun

\* When task_scheduler::finish() returns, every runner thread is joined and holds
\* no task, the wait queues are empty, and every task whose on_start() succeeded
\* had its on_finish() or was let go by a runner earlier, as long as nobody calls
\* pause(): a task that is paused then is dropped.  Only a task added during the
\* shutdown can be left, in the run queue.
ShutdownFinishesAll ==
    [][main # "done" /\ main' = "done" =>
         /\ \A r \in Runners : pc[r] = "exited" /\ hand[r] = NoTask
         /\ \A q \in 1..3 : queue[q] = <<>>
         /\ "paused" \notin AppCalls => \A t \in begun' : nfin'[t] = 1 \/ t \in lost']_vars

\* finish() of the scheduler returns: every join is answered and the queues run
\* empty.
ShutdownReturns == main = "stopping" ~> main = "done"

Starting(t) == \E r \in Runners :
    hand[r] = t /\ pc[r] \in {"on_start", "store_started", "start_ret"}

\* A task the scheduler has, cancelled while no runner is inside its start(), is
\* finished by a runner or by the shutdown, even one that begins later, when
\* nobody pauses or resumes it; a task whose on_execute() throws is let go.
CancelledIsFinished ==
    \A t \in Tasks : state[t] = "cancelled" /\ Owned(t) /\ ~Starting(t) /\ main = "schedule"
                       ~> nfin[t] = 1 \/ t \in lost

=============================================================================
