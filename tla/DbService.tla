----------------------------- MODULE DbService -----------------------------
(***************************************************************************)
(* The database service (src/server/service/db): on_tx puts a transaction   *)
(* into the queue of one of the runners, chosen by its key; a runner's      *)
(* thread executes the queue in order and posts every transaction back as   *)
(* its own answer.  The service's start and finish run beside on_tx, which  *)
(* is called on the thread that publishes the transaction.                  *)
(*                                                                          *)
(* The database is external: a command for a transaction exists or not, and *)
(* whatever its execution gives is an answer.                               *)
(***************************************************************************)
EXTENDS Integers, Sequences, FiniteSets

CONSTANTS
    RunnerCount,    \* runner_count_
    Txs,            \* transactions, each published once
    KeyOf           \* context::key of a transaction; 0 chooses any runner

ASSUME RunnerAssumption == RunnerCount \in Nat \ {0}
ASSUME KeyAssumption == KeyOf \in [Txs -> Nat]

VARIABLES
    phase,      \* of the service: "new", "sized", "starting", "ready", "failed", "finishing", "cleared"
    stop,       \* stop_ of a runner
    thread,     \* where the thread of a runner is
    q,          \* q_ of a runner: transactions
    st,         \* the life of a transaction
    target,     \* the runner on_tx has chosen for a transaction
    echo,       \* answers that on_tx will see, as they have the same topic
    late,       \* history: transactions put into a queue whose runner was told to stop
    pushed,     \* history: transactions in the order they were queued
    executed    \* history: transactions in the order they were executed

bvars == <<phase, stop, thread, q, st, target, echo, late, pushed, executed>>

Runners == 0 .. RunnerCount - 1

BInit ==
    /\ phase = "new"
    /\ stop = [r \in Runners |-> TRUE]
    /\ thread = [r \in Runners |-> "none"]
    /\ q = [r \in Runners |-> <<>>]
    /\ st = [x \in Txs |-> "new"]
    /\ target = [x \in Txs |-> 0]
    /\ echo = {}
    /\ late = {}
    /\ pushed = <<>> /\ executed = <<>>

(* on_start: the topics are subscribed, the vector of runners is resized    *)
(* and then filled.                                                         *)
CreateRunners ==
    /\ phase \in {"new", "sized"}
    /\ phase' = IF phase = "new" THEN "sized" ELSE "starting"
    /\ UNCHANGED <<stop, thread, q, st, target, echo, late, pushed, executed>>

(* db_runner::start, called for one runner after the other; ok is the       *)
(* result of connecting its databases.                                      *)
StartRunner(r, ok) ==
    /\ phase = "starting"
    /\ thread[r] = "none" /\ \A p \in Runners : p < r => thread[p] # "none"
    /\ IF ok
       THEN /\ stop' = [stop EXCEPT ![r] = FALSE]
            /\ thread' = [thread EXCEPT ![r] = "loop"]
            /\ phase' = IF r = RunnerCount - 1 THEN "ready" ELSE phase
       ELSE /\ phase' = "failed"
            /\ UNCHANGED <<stop, thread>>
    /\ UNCHANGED <<q, st, target, echo, late, pushed, executed>>

(* db_service::on_finish and db_runner::finish: tell a runner to stop, join *)
(* its thread, go on to the next.                                           *)
StopRunner(r) ==
    /\ phase \in {"ready", "failed", "finishing"}
    /\ ~stop[r]
    /\ \A p \in Runners : p < r => stop[p] /\ thread[p] \in {"none", "ended"}
    /\ phase' = "finishing"
    /\ stop' = [stop EXCEPT ![r] = TRUE]
    /\ UNCHANGED <<thread, q, st, target, echo, late, pushed, executed>>

ClearRunners ==
    /\ phase \in {"failed", "finishing"}
    /\ \A r \in Runners : stop[r] /\ thread[r] \in {"none", "ended"}
    /\ phase' = "cleared"
    /\ UNCHANGED <<stop, thread, q, st, target, echo, late, pushed, executed>>

(* The answer goes back to where the transaction came from. *)
Posted(x) ==
    /\ st' = [st EXCEPT ![x] = "answered"]
    /\ echo' = echo \cup {x}

(* A choice by chance for every transaction. *)
OnTxAny(x) ==
    /\ st[x] = "new"
    /\ phase \notin {"new", "cleared"}
    /\ \E r \in Runners : target' = [target EXCEPT ![x] = r]
    /\ st' = [st EXCEPT ![x] = "chosen"]
    /\ UNCHANGED <<phase, stop, thread, q, echo, late, pushed, executed>>

(* on_tx with a request: no runners is an answer at once, else it chooses   *)
(* one, which may be null while on_start fills the vector.                  *)
OnTx(x) ==
    /\ st[x] = "new"
    /\ IF phase \in {"new", "cleared"}
       THEN Posted(x) /\ UNCHANGED target
       ELSE /\ \E r \in Runners :
                   /\ KeyOf[x] > 0 => r = KeyOf[x] % RunnerCount
                   /\ target' = [target EXCEPT ![x] = r]
            /\ \/ st' = [st EXCEPT ![x] = "chosen"]
               \/ phase = "sized" /\ st' = [st EXCEPT ![x] = "wild"]
            /\ UNCHANGED echo
    /\ UNCHANGED <<phase, stop, thread, q, late, pushed, executed>>

(* db_runner::schedule; its assertion that the runner runs does not stop    *)
(* the release build.  A runner destroyed meanwhile is not there any more.  *)
Schedule(x) ==
    LET r == target[x]
    IN  /\ st[x] = "chosen"
        /\ IF phase = "cleared"
           THEN /\ st' = [st EXCEPT ![x] = "wild"]
                /\ UNCHANGED <<q, late, pushed>>
           ELSE /\ st' = [st EXCEPT ![x] = "queued"]
                /\ q' = [q EXCEPT ![r] = Append(@, x)]
                /\ late' = IF stop[r] THEN late \cup {x} ELSE late
                /\ pushed' = Append(pushed, x)
        /\ UNCHANGED <<phase, stop, thread, target, echo, executed>>

(* on_tx with an answer returns: the service processes requests only. *)
OnAnswer(x) ==
    /\ x \in echo
    /\ echo' = echo \ {x}
    /\ UNCHANGED <<phase, stop, thread, q, st, target, late, pushed, executed>>

(* The runner's thread takes a transaction, in run() or complete_queue(). *)
Pop(r) ==
    /\ thread[r] \in {"loop", "complete"}
    /\ q[r] # <<>>
    /\ \A x \in Txs : ~(st[x] = "running" /\ target[x] = r)
    /\ st' = [st EXCEPT ![Head(q[r])] = "running"]
    /\ q' = [q EXCEPT ![r] = Tail(@)]
    /\ UNCHANGED <<phase, stop, thread, target, echo, late, pushed, executed>>

(* execute_query: a transaction without a command is only logged, every     *)
(* other one is posted back.                                                *)
ExecuteQuery(x, command) ==
    /\ st[x] = "running"
    /\ IF command
       THEN /\ Posted(x)
            /\ executed' = Append(executed, x)
       ELSE /\ st' = [st EXCEPT ![x] = "logged"]
            /\ UNCHANGED <<echo, executed>>
    /\ UNCHANGED <<phase, stop, thread, q, target, late, pushed>>

(* A thread that ends without completing its queue. *)
EmptyNoComplete(r) ==
    /\ thread[r] \in {"loop", "check", "complete"}
    /\ \A x \in Txs : ~(st[x] = "running" /\ target[x] = r)
    /\ thread' = [thread EXCEPT ![r] = IF stop[r] THEN "ended" ELSE "loop"]
    /\ UNCHANGED <<phase, stop, q, st, target, echo, late, pushed, executed>>

(* The queue is empty: run() looks at stop_, and completes the queue once   *)
(* more before the thread ends.                                             *)
Empty(r) ==
    /\ \/ /\ thread[r] \in {"loop", "complete"}
          /\ q[r] = <<>>
          /\ \A x \in Txs : ~(st[x] = "running" /\ target[x] = r)
          /\ thread' = [thread EXCEPT ![r] = IF @ = "loop" THEN "check" ELSE "ended"]
       \/ /\ thread[r] = "check"
          /\ thread' = [thread EXCEPT ![r] = IF stop[r] THEN "complete" ELSE "loop"]
    /\ UNCHANGED <<phase, stop, q, st, target, echo, late, pushed, executed>>

Runner(r) ==
    \/ Pop(r) \/ Empty(r)
    \/ \E x \in Txs, command \in BOOLEAN : target[x] = r /\ ExecuteQuery(x, command)

BNext ==
    \/ CreateRunners \/ ClearRunners
    \/ \E r \in Runners, ok \in BOOLEAN : StartRunner(r, ok)
    \/ \E r \in Runners : StopRunner(r) \/ Runner(r)
    \/ \E x \in Txs : OnTx(x) \/ Schedule(x) \/ OnAnswer(x)

(* A runner's thread goes on while it has something to do. *)
BFair == \A r \in Runners : WF_bvars(Runner(r))

BSpec == BInit /\ [][BNext]_bvars

---------------------------------------------------------------------------

(* Transactions of one key are executed in the order they were queued, each *)
(* at most once (db_service.cpp:84), and a runner whose thread has ended    *)
(* has left behind only what was queued after it was told to stop           *)
(* (db_runner.hpp:42, "completes tx before exit").                          *)
TxInOrder ==
    /\ \A i, j \in 1 .. Len(executed) : i # j => executed[i] # executed[j]
    /\ \A i, j \in 1 .. Len(executed) :
           /\ i < j
           /\ KeyOf[executed[i]] = KeyOf[executed[j]] /\ KeyOf[executed[i]] > 0
           => \E m, n \in 1 .. Len(pushed) :
                  m < n /\ pushed[m] = executed[i] /\ pushed[n] = executed[j]
    /\ \A r \in Runners : thread[r] = "ended" => \A i \in 1 .. Len(q[r]) : q[r][i] \in late

(* A transaction that a thread has still to execute. *)
Waiting(x) ==
    \/ st[x] = "running"
    \/ st[x] = "queued" /\ thread[target[x]] \in {"loop", "check", "complete"}

(* Whenever the thread of some runner has transactions to execute, there is *)
(* a time when no thread has, also while the service finishes               *)
(* (db_runner.cpp:64, 82): all that were queued have been executed by then, *)
(* but for ones queued after their runner was told to stop.                 *)
TxAnswered ==
    (\E x \in Txs : Waiting(x))
        ~> (\A x \in Txs : ~Waiting(x) /\ (st[x] = "queued" => x \in late))
============================================================================
