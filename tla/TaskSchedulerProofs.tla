------------------------- MODULE TaskSchedulerProofs -------------------------
(***************************************************************************)
(* Proofs about TaskScheduler, for any number of tasks and runners: the    *)
(* types and the owners of the tasks, and, resting on them, the life of a  *)
(* task (started, executed, finished) and the shutdown.                    *)
(***************************************************************************)
EXTENDS TaskScheduler, TLAPS

\* Zenon proves what needs no arithmetic; the other leaves say SMT.
USE Zenon

Queueing == [Queues -> Seq(Tasks)]

(***************************************************************************)
(* The queues: what a push and a pop do to the tasks in them.              *)
(***************************************************************************)

\* A push adds a task that is in no queue: the queues stay free of duplicates
\* and hold that task and the former ones.
LEMMA PushLemma ==
    ASSUME NEW qs \in Queueing, NEW q \in Queues, NEW t \in Tasks,
           Distinct(qs), ~InQueue(qs, t)
    PROVE  LET new == [qs EXCEPT ![q] = Append(qs[q], t)]
           IN  /\ new \in Queueing
               /\ Distinct(new)
               /\ \A u : InQueue(new, u) <=> InQueue(qs, u) \/ u = t
<1> DEFINE new == [qs EXCEPT ![q] = Append(qs[q], t)]
<1>1. qs[q] \in Seq(Tasks) /\ Len(qs[q]) \in Nat
  BY SMT DEF Queueing
<1>2. Append(qs[q], t) \in Seq(Tasks)
  BY SMT, <1>1
<1>3. new \in Queueing
  BY <1>2 DEF Queueing
<1>4. /\ new[q] = Append(qs[q], t)
      /\ \A a \in Queues : a # q => new[a] = qs[a]
  BY DEF Queueing
<1> HIDE DEF new
<1>5. /\ Len(new[q]) = Len(qs[q]) + 1
      /\ new[q][Len(qs[q]) + 1] = t
      /\ \A i \in 1..Len(qs[q]) : new[q][i] = qs[q][i]
  BY SMT, <1>1, <1>4
<1>6. \A a \in Queues : Len(qs[a]) \in Nat
  BY SMT DEF Queueing
<1>7. ASSUME NEW u, NEW a \in Queues, NEW i \in 1..Len(new[a]), new[a][i] = u
      PROVE  \/ a = q /\ i = Len(qs[q]) + 1 /\ u = t
             \/ i \in 1..Len(qs[a]) /\ qs[a][i] = u /\ u # t
  <2>1. CASE a = q
    BY SMT, <1>1, <1>5, <1>7, <2>1 DEF InQueue
  <2>2. CASE a # q
    BY <1>4, <1>6, <1>7, <2>2 DEF InQueue
  <2> QED
    BY <2>1, <2>2
<1>8. Distinct(new)
  <2> SUFFICES ASSUME NEW a \in Queues, NEW b \in Queues,
                      NEW i \in 1..Len(new[a]), NEW j \in 1..Len(new[b]),
                      new[a][i] = new[b][j]
               PROVE  a = b /\ i = j
    BY DEF Distinct
  <2>1. \/ a = q /\ i = Len(qs[q]) + 1 /\ new[a][i] = t
        \/ i \in 1..Len(qs[a]) /\ qs[a][i] = new[a][i] /\ new[a][i] # t
    BY <1>7
  <2>2. \/ b = q /\ j = Len(qs[q]) + 1 /\ new[b][j] = t
        \/ j \in 1..Len(qs[b]) /\ qs[b][j] = new[b][j] /\ new[b][j] # t
    BY <1>7
  <2> QED
    BY SMT, <2>1, <2>2 DEF Distinct
<1>9. ASSUME NEW u PROVE InQueue(new, u) <=> InQueue(qs, u) \/ u = t
  <2>1. InQueue(new, u) => InQueue(qs, u) \/ u = t
    BY ZenonT(30), <1>7 DEF InQueue
  <2>2. u = t => InQueue(new, u)
    BY SMT, <1>1, <1>5 DEF InQueue
  <2>3. ASSUME NEW a \in Queues, NEW i \in 1..Len(qs[a]), qs[a][i] = u
        PROVE  i \in 1..Len(new[a]) /\ new[a][i] = u
    <3>1. CASE a = q
      BY SMT, <1>1, <1>5, <2>3, <3>1
    <3>2. CASE a # q
      BY <1>4, <2>3, <3>2
    <3> QED
      BY <3>1, <3>2
  <2> QED
    BY <2>1, <2>2, <2>3 DEF InQueue
<1> QED
  BY <1>3, <1>8, <1>9 DEF new

\* A pop takes the head out: it is in no queue any more, and the others stay.
LEMMA PopLemma ==
    ASSUME NEW qs \in Queueing, NEW q \in Queues, qs[q] # <<>>, Distinct(qs)
    PROVE  LET new == [qs EXCEPT ![q] = Tail(qs[q])]
               h == Head(qs[q])
           IN  /\ new \in Queueing
               /\ Distinct(new)
               /\ h \in Tasks
               /\ InQueue(qs, h)
               /\ \A u : InQueue(new, u) <=> InQueue(qs, u) /\ u # h
<1> DEFINE new == [qs EXCEPT ![q] = Tail(qs[q])]
           h == Head(qs[q])
<1>1. /\ qs[q] \in Seq(Tasks)
      /\ Len(qs[q]) \in Nat \ {0}
  BY SMT DEF Queueing
<1>2. /\ h = qs[q][1]
      /\ h \in Tasks
      /\ Tail(qs[q]) \in Seq(Tasks)
      /\ Len(Tail(qs[q])) = Len(qs[q]) - 1
      /\ \A i \in 1..(Len(qs[q]) - 1) : Tail(qs[q])[i] = qs[q][i + 1]
  BY SMT, <1>1
<1>3. new \in Queueing
  BY <1>2 DEF Queueing
<1>4. /\ new[q] = Tail(qs[q])
      /\ \A a \in Queues : a # q => new[a] = qs[a]
  BY DEF Queueing
<1> HIDE DEF new
<1>5. \A a \in Queues : Len(qs[a]) \in Nat
  BY SMT DEF Queueing
<1>6. InQueue(qs, h)
  BY SMT, <1>1, <1>2 DEF InQueue
<1> DEFINE From(a, i) == IF a = q THEN i + 1 ELSE i
<1>7. ASSUME NEW a \in Queues, NEW i \in 1..Len(new[a])
      PROVE  /\ From(a, i) \in 1..Len(qs[a])
             /\ new[a][i] = qs[a][From(a, i)]
             /\ ~(a = q /\ From(a, i) = 1)
  <2>1. CASE a = q
    <3>1. Len(new[a]) = Len(qs[q]) - 1
      BY <1>2, <1>4, <2>1
    <3>2. i \in 1..(Len(qs[q]) - 1)
      BY <3>1
    <3>3. Tail(qs[q])[i] = qs[q][i + 1]
      BY <1>2, <3>2
    <3>4. i + 1 \in 1..Len(qs[q]) /\ i + 1 # 1
      BY SMT, <1>1, <3>2
    <3> QED
      BY <1>4, <2>1, <3>3, <3>4
  <2>2. CASE a # q
    BY <1>4, <1>5, <2>2
  <2> QED
    BY <2>1, <2>2
<1>8. Distinct(new)
  <2> SUFFICES ASSUME NEW a \in Queues, NEW b \in Queues,
                      NEW i \in 1..Len(new[a]), NEW j \in 1..Len(new[b]),
                      new[a][i] = new[b][j]
               PROVE  a = b /\ i = j
    BY DEF Distinct
  <2>1. /\ From(a, i) \in 1..Len(qs[a]) /\ From(b, j) \in 1..Len(qs[b])
        /\ qs[a][From(a, i)] = qs[b][From(b, j)]
    BY <1>7
  <2> HIDE DEF From
  <2>2. a = b /\ From(a, i) = From(b, j)
    BY SMT, <2>1 DEF Distinct
  <2>3. i \in Int /\ j \in Int
    BY SMT
  <2> QED
    BY SMT, <2>2, <2>3 DEF From
<1>9. ASSUME NEW u PROVE InQueue(new, u) <=> InQueue(qs, u) /\ u # h
  <2>1. ASSUME InQueue(new, u) PROVE InQueue(qs, u) /\ u # h
    <3>1. PICK a \in Queues : \E i \in 1..Len(new[a]) : new[a][i] = u
      BY <2>1 DEF InQueue
    <3> PICK i \in 1..Len(new[a]) : new[a][i] = u
      BY <3>1
    <3>2. InQueue(qs, u)
      BY <1>7 DEF InQueue
    <3>3. u # h
      BY SMTT(20), <1>1, <1>2, <1>7 DEF Distinct
    <3> QED
      BY <3>2, <3>3
  <2>2. ASSUME InQueue(qs, u), u # h PROVE InQueue(new, u)
    <3>1. PICK a \in Queues : \E i \in 1..Len(qs[a]) : qs[a][i] = u
      BY <2>2 DEF InQueue
    <3> PICK i \in 1..Len(qs[a]) : qs[a][i] = u
      BY <3>1
    <3>2. CASE a # q
      BY <1>4, <3>2 DEF InQueue
    <3>3. CASE a = q
      <4>1. i # 1 /\ i \in Nat
        BY SMT, <1>2, <2>2, <3>3
      <4>2. i - 1 \in 1..(Len(qs[q]) - 1) /\ (i - 1) + 1 = i
        BY SMT, <1>1, <3>3, <4>1
      <4>3. i - 1 \in 1..Len(new[q]) /\ new[q][i - 1] = u
        BY <1>2, <1>4, <3>3, <4>2
      <4> QED
        BY <4>3 DEF InQueue
    <3> QED
      BY <3>2, <3>3
  <2> QED
    BY <2>1, <2>2
<1> QED
  BY <1>2, <1>3, <1>6, <1>8, <1>9 DEF new

\* The main thread and the runners are different holders of tasks.
LEMMA HolderLemma ==
    /\ 0 \in Holders /\ 0 \notin Runners
    /\ \A r \in Runners : r \in Holders /\ r # 0
    /\ \A h \in Holders : h = 0 \/ h \in Runners
    /\ 0 \in Queues
    /\ \A q \in 1..3 : q \in Queues /\ q # 0
    /\ Priorities \subseteq Queues
BY SMT, RunnerAssumption, PriorityAssumption DEF Holders, Runners, Queues

(***************************************************************************)
(* Type correctness.                                                       *)
(***************************************************************************)

\* The initial state has the types of TypeOK.
LEMMA TypeInit == Init => TypeOK
<1> SUFFICES ASSUME Init PROVE TypeOK
  OBVIOUS
<1>1. queue \in [Queues -> Seq(Tasks)]
  BY SMT DEF Init
<1> QED
  BY SMT, <1>1, RunnerAssumption
     DEF Init, TypeOK, States, RunnerPcs, MainPcs, Runners, Holders

\* on_finish() keeps the counts in range.
LEMMA OnFinishLemma ==
    ASSUME TypeOK, NEW t \in Tasks, OnFinish(t)
    PROVE  nfin' \in [Tasks -> 0..2]
<1>1. nfin[t] \in 0..2 /\ nfin \in [Tasks -> 0..2]
  BY DEF TypeOK
<1>2. (IF nfin[t] < 2 THEN nfin[t] + 1 ELSE nfin[t]) \in 0..2
  BY SMT, <1>1
<1> QED
  BY <1>1, <1>2 DEF OnFinish

\* What TypeOK says of hand and pc survives the end of the loop body.
LEMMA ReleaseLemma ==
    ASSUME TypeOK, NEW r \in Runners, Release(r)
    PROVE  /\ hand' \in [Holders -> Tasks \cup {NoTask}]
           /\ pc' \in [Runners -> RunnerPcs]
           /\ \A u \in Runners : hand'[u] = NoTask <=> pc'[u] \in {"loop", "pop", "exited"}
           /\ hand'[0] = hand[0]
BY HolderLemma DEF TypeOK, Release, Goto, RunnerPcs

\* Every step keeps the types: in particular a runner holds a task between its
\* pop and the end of the loop body, and nowhere else.
LEMMA TypeStep == TypeOK /\ [Next]_vars => TypeOK'
<1> SUFFICES ASSUME TypeOK, [Next]_vars PROVE TypeOK'
  OBVIOUS
<1> USE HolderLemma, TasksAssumption, CallsAssumption
    DEF TypeOK, States, RunnerPcs, MainPcs
<1>1. ASSUME NEW t \in Tasks, Add(t) PROVE TypeOK'
  <2>1. queue' \in [Queues -> Seq(Tasks)]
    BY SMT, <1>1 DEF Add, Push
  <2> QED
    BY <1>1, <2>1 DEF Add
<1>2. ASSUME NEW t \in Tasks, NEW s \in AppCalls, CallBegin(t, s) PROVE TypeOK'
  BY <1>2 DEF CallBegin
<1>3. ASSUME NEW t \in Tasks, NEW s \in AppCalls, CallStore(t, s) PROVE TypeOK'
  BY <1>3 DEF CallStore
<1>4. ASSUME NEW t \in Tasks, NEW p \in Priorities, SetPriority(t, p) PROVE TypeOK'
  BY <1>4 DEF SetPriority
<1>5. ASSUME NEW r \in Runners, RunnerLoop(r) PROVE TypeOK'
  BY <1>5 DEF RunnerLoop, Goto
<1>6. ASSUME NEW r \in Runners, RunnerPop(r) PROVE TypeOK'
  <2>1. CASE queue[0] = <<>>
    BY ZenonT(30), <1>6, <2>1 DEF RunnerPop, Goto
  <2>2. CASE queue[0] # <<>>
    <3>1. queue[0] \in Seq(Tasks)
      OBVIOUS
    <3>2. Head(queue[0]) \in Tasks /\ Tail(queue[0]) \in Seq(Tasks)
      BY SMT, <2>2, <3>1
    <3>3. queue' \in [Queues -> Seq(Tasks)]
      BY <1>6, <2>2, <3>2 DEF RunnerPop, Pop
    <3>4. /\ hand' = [hand EXCEPT ![r] = Head(queue[0])]
          /\ pc' = [pc EXCEPT ![r] = "popped"]
          /\ UNCHANGED <<state, prio, stop, main, idx, pend, added, begun, nfin, lost>>
      BY <1>6, <2>2 DEF RunnerPop, Goto
    <3>5. Head(queue[0]) # NoTask
      BY <3>2
    <3> QED
      BY <3>2, <3>3, <3>4, <3>5
  <2> QED
    BY <2>1, <2>2
<1>7. ASSUME NEW r \in Runners, RunnerPopped(r) PROVE TypeOK'
  BY <1>7 DEF RunnerPopped, Goto
<1>8. ASSUME NEW r \in Runners, RunnerOnStart(r) PROVE TypeOK'
  BY <1>8 DEF RunnerOnStart, Goto
<1>9. ASSUME NEW r \in Runners, RunnerOnStartFails(r) PROVE TypeOK'
  BY <1>9 DEF RunnerOnStartFails, Goto
<1>10. ASSUME NEW r \in Runners, RunnerStoreStarted(r) PROVE TypeOK'
  BY <1>10 DEF RunnerStoreStarted, Goto
<1>11. ASSUME NEW r \in Runners, RunnerStartReturns(r) PROVE TypeOK'
  <2>1. CASE state[hand[r]] = "started"
    <3>1. pc' = [pc EXCEPT ![r] = "execute"] /\ UNCHANGED <<hand, lost>>
      BY <1>11, <2>1 DEF RunnerStartReturns, Goto
    <3> QED
      BY <1>11, <3>1 DEF RunnerStartReturns
  <2>2. CASE state[hand[r]] # "started"
    <3>1. Release(r) /\ lost' = lost \cup {hand[r]} /\ hand[r] \in Tasks
      BY <1>11, <2>2 DEF RunnerStartReturns
    <3> QED
      BY <1>11, <3>1, ReleaseLemma DEF RunnerStartReturns
  <2> QED
    BY <2>1, <2>2
<1>12. ASSUME NEW r \in Runners, RunnerExecute(r) PROVE TypeOK'
  <2>1. CASE state[hand[r]] = "finished"
    BY <1>12, <2>1, ReleaseLemma DEF RunnerExecute
  <2>2. CASE state[hand[r]] # "finished"
    <3>1. ExecuteDecides(state[hand[r]]) \in {"finish", "pass", "on_execute"}
      BY DEF ExecuteDecides
    <3> QED
      BY ZenonT(30), <1>12, <2>2, <3>1 DEF RunnerExecute, Goto
  <2> QED
    BY <2>1, <2>2
<1>13. ASSUME NEW r \in Runners, NEW l \in {"pass", "finish", "self_finish"},
              RunnerOnExecute(r, l)
       PROVE  TypeOK'
  BY <1>13 DEF RunnerOnExecute, Goto
<1>14. ASSUME NEW r \in Runners, RunnerThrows(r) PROVE TypeOK'
  BY <1>14 DEF RunnerThrows, Release, Goto
<1>15. ASSUME NEW r \in Runners, RunnerPass(r) PROVE TypeOK'
  <2>1. hand[r] \in Tasks
    BY <1>15 DEF RunnerPass
  <2>2. queue' \in [Queues -> Seq(Tasks)]
    BY SMT, <1>15, <2>1 DEF RunnerPass, Push
  <2> QED
    BY <1>15, <2>2 DEF RunnerPass, Release, Goto
<1>16. ASSUME NEW r \in Runners, RunnerFinish(r) PROVE TypeOK'
  <2>1. nfin' \in [Tasks -> 0..2]
    <3>1. hand[r] \in Tasks
      BY <1>16 DEF RunnerFinish
    <3> QED
      BY <1>16, <3>1, OnFinishLemma DEF RunnerFinish
  <2> QED
    BY <1>16, <2>1 DEF RunnerFinish, Goto
<1>17. ASSUME NEW r \in Runners, RunnerStoreFinished(r) PROVE TypeOK'
  BY <1>17 DEF RunnerStoreFinished, Release, Goto
<1>18. ASSUME NEW q \in 1..3, ScheduleTake(q) PROVE TypeOK'
  <2>1. queue[q] \in Seq(Tasks) /\ queue[q] # <<>>
    BY <1>18 DEF ScheduleTake
  <2>2. Head(queue[q]) \in Tasks /\ Tail(queue[q]) \in Seq(Tasks)
    BY SMT, <2>1
  <2>3. queue' \in [Queues -> Seq(Tasks)]
    BY <1>18, <2>2 DEF ScheduleTake, Pop
  <2> QED
    BY <1>18, <2>2, <2>3 DEF ScheduleTake
<1>19. CASE SchedulePut
  <2>1. hand[0] \in Tasks
    BY <1>19 DEF SchedulePut
  <2>2. queue' \in [Queues -> Seq(Tasks)]
    BY SMT, <1>19, <2>1 DEF SchedulePut, Push
  <2> QED
    BY <1>19, <2>2 DEF SchedulePut
<1>20. CASE FinishBegin
  BY <1>20 DEF FinishBegin
<1>21. CASE FinishStop
  BY <1>21 DEF FinishStop
<1>22. CASE FinishJoin
  <2>1. CASE idx < RunnerCount
    <3>1. idx + 1 \in Runners
      BY SMT, <1>22, <2>1, RunnerAssumption DEF FinishJoin, Runners
    <3> QED
      BY SMT, <1>22, <2>1, <3>1, RunnerAssumption DEF FinishJoin
  <2>2. CASE ~(idx < RunnerCount)
    BY SMT, <1>22, <2>2 DEF FinishJoin
  <2> QED
    BY <2>1, <2>2
<1>23. CASE DrainTake
  <2>1. queue[idx] \in Seq(Tasks) /\ queue[idx] # <<>>
    BY <1>23 DEF DrainTake
  <2>2. Head(queue[idx]) \in Tasks /\ Tail(queue[idx]) \in Seq(Tasks)
    BY SMT, <2>1
  <2>3. queue' \in [Queues -> Seq(Tasks)]
    BY <1>23, <2>2 DEF DrainTake, Pop
  <2> QED
    BY <1>23, <2>2, <2>3 DEF DrainTake
<1>24. CASE DrainTest
  <2>1. CASE Finishes(state[hand[0]])
    <3>1. nfin' \in [Tasks -> 0..2]
      BY <1>24, <2>1, OnFinishLemma DEF DrainTest
    <3> QED
      BY <1>24, <2>1, <3>1 DEF DrainTest
  <2>2. CASE ~Finishes(state[hand[0]])
    BY <1>24, <2>2 DEF DrainTest
  <2> QED
    BY <2>1, <2>2
<1>25. CASE DrainStore
  BY <1>25 DEF DrainStore
<1>26. CASE DrainNext
  <2>1. CASE idx < 3
    BY SMT, <1>26, <2>1 DEF DrainNext, Queues
  <2>2. CASE ~(idx < 3)
    BY <1>26, <2>2 DEF DrainNext
  <2> QED
    BY <2>1, <2>2
<1>27. CASE UNCHANGED vars
  BY <1>27 DEF vars
<1> HIDE DEF TypeOK
<1> QED
  BY <1>1, <1>2, <1>3, <1>4, <1>5, <1>6, <1>7, <1>8, <1>9, <1>10, <1>11, <1>12,
     <1>13, <1>14, <1>15, <1>16, <1>17, <1>18, <1>19, <1>20, <1>21, <1>22,
     <1>23, <1>24, <1>25, <1>26, <1>27
     DEF Next, App, Runner, Finish

\* Type correctness of the scheduler for any tasks and number of runners.
THEOREM TypeCorrect == Spec => []TypeOK
BY TypeInit, TypeStep, PTL DEF Spec

(***************************************************************************)
(* Ownership.  Every step leaves the queues and hands alone or does one of *)
(* four moves: a thread takes the head of a queue, puts the task it holds  *)
(* into a queue or drops it, or an application thread adds a new task.     *)
(***************************************************************************)

Take(h, q) ==
    /\ hand[h] = NoTask
    /\ queue[q] # <<>>
    /\ hand' = [hand EXCEPT ![h] = Head(queue[q])]
    /\ queue' = [queue EXCEPT ![q] = Tail(queue[q])]

Put(h, q) ==
    /\ hand[h] # NoTask
    /\ queue' = [queue EXCEPT ![q] = Append(queue[q], hand[h])]
    /\ hand' = [hand EXCEPT ![h] = NoTask]

Drop(h) ==
    /\ hand' = [hand EXCEPT ![h] = NoTask]
    /\ UNCHANGED queue

\* Taking keeps every task in one place and changes the owner only.
LEMMA TakeLemma ==
    ASSUME TypeOK, SingleOwner, NEW h \in Holders, NEW q \in Queues, Take(h, q)
    PROVE  /\ SingleOwner'
           /\ \A t \in Tasks : Owned(t)' <=> Owned(t)
<1> DEFINE x == Head(queue[q])
<1>1. queue \in Queueing /\ queue[q] # <<>> /\ Distinct(queue)
  BY DEF TypeOK, Queueing, Take, SingleOwner
<1>2. /\ Distinct(queue')
      /\ x \in Tasks
      /\ InQueue(queue, x)
      /\ \A u : InQueue(queue', u) <=> InQueue(queue, u) /\ u # x
  BY <1>1, PopLemma DEF Take
<1> HIDE DEF x
<1>3. /\ hand \in [Holders -> Tasks \cup {NoTask}]
      /\ hand' = [hand EXCEPT ![h] = x]
      /\ hand[h] = NoTask
  BY DEF Take, TypeOK, x
<1>4. \A g \in Holders : hand[g] # x
  BY <1>2 DEF SingleOwner
<1>5. SingleOwner'
  BY <1>2, <1>3, <1>4 DEF SingleOwner
<1>6. ASSUME NEW t \in Tasks PROVE Owned(t)' <=> Owned(t)
  BY <1>2, <1>3, TasksAssumption DEF Owned
<1> QED
  BY <1>5, <1>6

\* So does putting.
LEMMA PutLemma ==
    ASSUME TypeOK, SingleOwner, NEW h \in Holders, NEW q \in Queues, Put(h, q)
    PROVE  /\ SingleOwner'
           /\ \A t \in Tasks : Owned(t)' <=> Owned(t)
<1> DEFINE x == hand[h]
<1>1. /\ queue \in Queueing /\ Distinct(queue)
      /\ x \in Tasks /\ ~InQueue(queue, x)
  BY DEF TypeOK, Queueing, Put, SingleOwner
<1>2. /\ Distinct(queue')
      /\ \A u : InQueue(queue', u) <=> InQueue(queue, u) \/ u = x
  BY <1>1, PushLemma DEF Put
<1>3. /\ hand \in [Holders -> Tasks \cup {NoTask}]
      /\ hand' = [hand EXCEPT ![h] = NoTask]
      /\ hand[h] = x
  BY DEF Put, TypeOK
<1> HIDE DEF x
<1>4. ~InQueue(queue, NoTask)
  BY SMT, <1>1, TasksAssumption DEF InQueue, Queueing
<1>5. SingleOwner'
  BY <1>1, <1>2, <1>3, <1>4, TasksAssumption DEF SingleOwner
<1>6. ASSUME NEW t \in Tasks PROVE Owned(t)' <=> Owned(t)
  BY <1>2, <1>3, TasksAssumption DEF Owned
<1> QED
  BY <1>5, <1>6

\* A dropped task is in no place at all.
LEMMA DropLemma ==
    ASSUME TypeOK, SingleOwner, NEW h \in Holders, Drop(h)
    PROVE  /\ SingleOwner'
           /\ \A t \in Tasks : Owned(t)' <=> Owned(t) /\ t # hand[h]
<1>1. /\ hand \in [Holders -> Tasks \cup {NoTask}]
      /\ hand' = [hand EXCEPT ![h] = NoTask]
      /\ queue' = queue
  BY DEF Drop, TypeOK
<1>2. ~InQueue(queue, NoTask)
  BY SMT, TasksAssumption DEF TypeOK, InQueue
<1>3. SingleOwner'
  BY <1>1, <1>2 DEF SingleOwner
<1>4. ASSUME NEW t \in Tasks PROVE Owned(t)' <=> Owned(t) /\ t # hand[h]
  BY <1>1, TasksAssumption DEF Owned, SingleOwner
<1> QED
  BY <1>3, <1>4

\* An added task was nowhere before and is in the run queue after.
LEMMA AddLemma ==
    ASSUME TypeOK, SingleOwner, OnlyAdded, NEW t \in Tasks, Add(t)
    PROVE  /\ SingleOwner'
           /\ \A u \in Tasks : Owned(u)' <=> Owned(u) \/ u = t
<1>1. /\ queue \in Queueing /\ Distinct(queue) /\ 0 \in Queues
      /\ ~InQueue(queue, t)
      /\ \A h \in Holders : hand[h] # t
  BY HolderLemma DEF TypeOK, Queueing, Add, SingleOwner, OnlyAdded, Owned
<1>2. queue' = [queue EXCEPT ![0] = Append(queue[0], t)] /\ hand' = hand
  BY DEF Add, Push
<1>3. /\ Distinct(queue')
      /\ \A u : InQueue(queue', u) <=> InQueue(queue, u) \/ u = t
  BY <1>1, <1>2, PushLemma
<1>4. SingleOwner'
  BY <1>1, <1>2, <1>3 DEF SingleOwner
<1>5. ASSUME NEW u \in Tasks PROVE Owned(u)' <=> Owned(u) \/ u = t
  BY <1>2, <1>3 DEF Owned
<1> QED
  BY <1>4, <1>5

\* Nothing moves when the queues and the hands stay as they are.
LEMMA StayLemma ==
    ASSUME SingleOwner, UNCHANGED <<queue, hand>>
    PROVE  /\ SingleOwner'
           /\ \A t \in Tasks : Owned(t)' <=> Owned(t)
BY SMT DEF SingleOwner, Owned, Distinct, InQueue

(***************************************************************************)
(* The inductive invariant: FinishedOnce needs SingleOwner (the thread that *)
(* calls on_finish is the only owner), and both need OnlyAdded (a task that *)
(* is added is neither owned nor finished).                                 *)
(***************************************************************************)
OwnerInv == SingleOwner /\ OnlyAdded /\ FinishedOnce

\* Initially no thread and no queue has a task and none is finished.
LEMMA OwnerInit == Init => OwnerInv
<1> SUFFICES ASSUME Init PROVE OwnerInv
  OBVIOUS
<1>1. \A q \in Queues : Len(queue[q]) = 0
  BY DEF Init
<1>2. \A t : ~InQueue(queue, t)
  BY SMT, <1>1 DEF InQueue
<1>3. Distinct(queue)
  BY SMT, <1>1 DEF Distinct
<1> QED
  BY SMT, <1>2, <1>3, TasksAssumption DEF Init, OwnerInv, SingleOwner, OnlyAdded, FinishedOnce, Owned

\* A step that neither counts an on_finish() nor stores finished keeps the
\* invariant when it is one of the moves.
LEMMA MoveLemma ==
    ASSUME TypeOK, OwnerInv, SingleOwner',
           \A t \in Tasks : Owned(t)' => Owned(t),
           \A t \in Tasks : BeingFinished(t) => BeingFinished(t)',
           UNCHANGED <<added, nfin>>
    PROVE  OwnerInv'
BY DEF OwnerInv, OnlyAdded, FinishedOnce

\* Every step keeps the invariant.
LEMMA OwnerStep ==
    ASSUME TypeOK, TypeOK', OwnerInv, [Next]_vars
    PROVE  OwnerInv'
<1> USE HolderLemma
<1>0. SingleOwner /\ OnlyAdded /\ FinishedOnce
  BY DEF OwnerInv
<1>1. ASSUME NEW t \in Tasks, Add(t) PROVE OwnerInv'
  <2>1. SingleOwner' /\ \A u \in Tasks : Owned(u)' <=> Owned(u) \/ u = t
    BY <1>0, <1>1, AddLemma
  <2>2. t \notin added /\ added' = added \cup {t} /\ UNCHANGED <<nfin, pc, hand, main>>
    BY <1>1 DEF Add
  <2>3. nfin[t] \in 0..2 /\ ~(nfin[t] > 0)
    BY <1>0, <2>2 DEF OnlyAdded, TypeOK
  <2>4. OnlyAdded'
    BY <1>0, <2>1, <2>2 DEF OnlyAdded
  <2>5. FinishedOnce'
    BY <1>0, <2>1, <2>2, <2>3 DEF FinishedOnce, BeingFinished
  <2> QED
    BY <2>1, <2>4, <2>5 DEF OwnerInv
<1>2. ASSUME UNCHANGED <<queue, hand, added, nfin, pc, main>> PROVE OwnerInv'
  <2>1. \A t \in Tasks : BeingFinished(t) => BeingFinished(t)'
    BY <1>2 DEF BeingFinished
  <2> QED
    BY <1>0, <1>2, <2>1, StayLemma, MoveLemma
<1>3. ASSUME NEW r \in Runners, pc[r] # "store_finished",
             UNCHANGED <<queue, hand, added, nfin, main>>,
             \A u \in Runners : u # r => pc'[u] = pc[u]
      PROVE  OwnerInv'
  <2>1. \A t \in Tasks : BeingFinished(t) => BeingFinished(t)'
    BY <1>3 DEF BeingFinished
  <2> QED
    BY <1>0, <1>3, <2>1, StayLemma, MoveLemma
<1>4. ASSUME NEW r \in Runners, pc[r] # "store_finished",
             UNCHANGED <<added, nfin, main>>,
             \A u \in Runners : u # r => pc'[u] = pc[u] /\ hand'[u] = hand[u],
             hand'[0] = hand[0],
             Drop(r) \/ Take(r, 0) \/ Put(r, prio[hand[r]]),
             Put(r, prio[hand[r]]) => prio[hand[r]] \in Queues
      PROVE  OwnerInv'
  <2>1. \A t \in Tasks : BeingFinished(t) => BeingFinished(t)'
    BY <1>4 DEF BeingFinished
  <2>2. SingleOwner' /\ \A t \in Tasks : Owned(t)' => Owned(t)
    BY <1>0, <1>4, DropLemma, TakeLemma, PutLemma
  <2> QED
    BY <1>4, <2>1, <2>2, MoveLemma
<1>5. ASSUME NEW r \in Runners, Runner(r) PROVE OwnerInv'
  <2> USE DEF TypeOK
  <2>1. CASE RunnerLoop(r) \/ RunnerPopped(r) \/ RunnerOnStart(r)
             \/ RunnerOnStartFails(r) \/ RunnerStoreStarted(r)
             \/ \E l \in {"pass", "finish", "self_finish"} : RunnerOnExecute(r, l)
    BY <1>3, <2>1 DEF RunnerLoop, RunnerPopped, RunnerOnStart, RunnerOnStartFails,
       RunnerStoreStarted, RunnerOnExecute, Goto
  <2>2. CASE RunnerPop(r)
    <3>1. CASE queue[0] = <<>>
      BY <1>3, <2>2, <3>1 DEF RunnerPop, Goto
    <3>2. CASE queue[0] # <<>>
      <4>1. Take(r, 0)
        BY <2>2, <3>2 DEF RunnerPop, Pop, Take
      <4> QED
        BY ZenonT(30), <1>4, <2>2, <3>2, <4>1 DEF RunnerPop, Goto, Put
    <3> QED
      BY <3>1, <3>2
  <2>3. CASE RunnerStartReturns(r)
    <3>1. CASE state[hand[r]] = "started"
      BY <1>3, <2>3, <3>1 DEF RunnerStartReturns, Goto
    <3>2. CASE state[hand[r]] # "started"
      <4>1. Drop(r)
        BY <2>3, <3>2 DEF RunnerStartReturns, Release, Drop
      <4> QED
        BY ZenonT(30), <1>4, <2>3, <3>2, <4>1 DEF RunnerStartReturns, Release, Goto
    <3> QED
      BY <3>1, <3>2
  <2>4. CASE RunnerExecute(r)
    <3>1. CASE state[hand[r]] # "finished"
      BY <1>3, <2>4, <3>1 DEF RunnerExecute, Goto
    <3>2. CASE state[hand[r]] = "finished"
      <4>1. Drop(r)
        BY <2>4, <3>2 DEF RunnerExecute, Release, Drop
      <4> QED
        <5>1. /\ pc[r] # "store_finished"
              /\ UNCHANGED <<added, nfin, main>>
              /\ \A u \in Runners : u # r => pc'[u] = pc[u] /\ hand'[u] = hand[u]
              /\ hand'[0] = hand[0]
          BY SMTT(20), <2>4, <3>2 DEF RunnerExecute, Release, Goto
        <5>2. ~Put(r, prio[hand[r]])
          BY SMTT(20), <4>1 DEF Drop, Put
        <5> QED
          BY <1>4, <4>1, <5>1, <5>2
    <3> QED
      BY <3>1, <3>2
  <2>5. CASE RunnerThrows(r)
    <3>1. Drop(r)
      BY <2>5 DEF RunnerThrows, Release, Drop
    <3> QED
      BY <1>4, <2>5, <3>1 DEF RunnerThrows, Release, Goto
  <2>6. CASE RunnerPass(r)
    <3>1. hand[r] \in Tasks
      BY <2>6 DEF RunnerPass
    <3>2. Put(r, prio[hand[r]]) /\ prio[hand[r]] \in Queues
      BY <2>6, <3>1, TasksAssumption DEF RunnerPass, Push, Release, Put
    <3> QED
      BY <1>4, <2>6, <3>2 DEF RunnerPass, Release, Goto
  <2>7. CASE RunnerFinish(r)
    <3>0. PICK x \in Tasks : x = hand[r]
      BY <2>7 DEF RunnerFinish
    <3>1. Owned(x)
      BY <3>0 DEF Owned
    <3>2. ~BeingFinished(x)
      BY <1>0, <2>7, <3>0, TasksAssumption DEF RunnerFinish, BeingFinished, SingleOwner
    <3>3. nfin[x] = 0
      <4>1. nfin[x] \in 0..2
        BY <3>1
      <4>2. ~(nfin[x] > 0)
        BY <1>0, <3>1, <3>2 DEF FinishedOnce
      <4> QED
        BY SMT, <4>1, <4>2
    <3>4. nfin' = [nfin EXCEPT ![x] = 1]
      BY SMTT(20), <2>7, <3>0, <3>3 DEF RunnerFinish, OnFinish
    <3>5. SingleOwner' /\ \A t \in Tasks : Owned(t)' <=> Owned(t)
      BY <1>0, <2>7, StayLemma DEF RunnerFinish
    <3>6. OnlyAdded'
      <4>1. x \in added  BY <1>0, <3>1 DEF OnlyAdded
      <4>2. \A t \in Tasks : t # x => nfin'[t] = nfin[t]  BY <3>4
      <4>3. added' = added  BY <2>7 DEF RunnerFinish
      <4> QED  BY <1>0, <3>5, <4>1, <4>2, <4>3 DEF OnlyAdded
    <3>7. BeingFinished(x)' /\ \A t \in Tasks : BeingFinished(t) => BeingFinished(t)'
      BY <2>7, <3>0 DEF RunnerFinish, BeingFinished, Goto
    <3>8. FinishedOnce'
      <4> SUFFICES ASSUME NEW t \in Tasks, nfin'[t] > 0
                   PROVE  nfin'[t] = 1 /\ (Owned(t)' => BeingFinished(t)')
        BY DEF FinishedOnce
      <4>1. CASE t = x
        BY <3>1, <3>4, <3>7, <4>1
      <4>2. CASE t # x
        <5>1. nfin'[t] = nfin[t]
          BY <3>4, <4>2
        <5> QED
          BY <1>0, <3>5, <3>7, <5>1 DEF FinishedOnce
      <4> QED
        BY <4>1, <4>2
    <3> QED
      BY <3>5, <3>6, <3>8 DEF OwnerInv
  <2>8. CASE RunnerStoreFinished(r)
    <3>1. Drop(r)
      BY <2>8 DEF RunnerStoreFinished, Release, Drop
    <3>2. SingleOwner' /\ \A t \in Tasks : Owned(t)' <=> Owned(t) /\ t # hand[r]
      BY <1>0, <3>1, DropLemma
    <3>3. ASSUME NEW t \in Tasks, t # hand[r], BeingFinished(t) PROVE BeingFinished(t)'
      BY <2>8, <3>3 DEF RunnerStoreFinished, Release, BeingFinished, Goto
    <3>4. UNCHANGED <<added, nfin>>
      BY <2>8 DEF RunnerStoreFinished
    <3>5. OnlyAdded'
      BY <1>0, <3>2, <3>4 DEF OnlyAdded
    <3>6. FinishedOnce'
      BY <1>0, <3>2, <3>3, <3>4 DEF FinishedOnce
    <3> QED
      BY <3>2, <3>5, <3>6 DEF OwnerInv
  <2> HIDE DEF TypeOK
  <2> QED
    BY <1>5, <2>1, <2>2, <2>3, <2>4, <2>5, <2>6, <2>7, <2>8 DEF Runner
<1>6. ASSUME NEW q \in Queues, Take(0, q), main # "store_finished",
             UNCHANGED <<pc, main, added, nfin>>
      PROVE  OwnerInv'
  <2>1. \A t \in Tasks : BeingFinished(t) => BeingFinished(t)'
    BY <1>6 DEF BeingFinished, Take, TypeOK
  <2> QED
    BY <1>0, <1>6, <2>1, TakeLemma, MoveLemma
<1>7. ASSUME NEW q \in 1..3, ScheduleTake(q) PROVE OwnerInv'
  <2>1. Take(0, q)
    BY <1>7 DEF ScheduleTake, Take, Pop
  <2> QED
    BY <1>6, <1>7, <2>1 DEF ScheduleTake
<1>8. CASE SchedulePut
  <2>1. Put(0, 0)
    BY <1>8 DEF SchedulePut, Put, Push
  <2>2. \A t \in Tasks : BeingFinished(t) => BeingFinished(t)'
    BY <1>8 DEF SchedulePut, BeingFinished, TypeOK
  <2> QED
    BY <1>0, <1>8, <2>1, <2>2, PutLemma, MoveLemma DEF SchedulePut
<1>9. ASSUME UNCHANGED <<queue, hand, added, nfin, pc>>, main # "store_finished"
      PROVE  OwnerInv'
  <2>1. \A t \in Tasks : BeingFinished(t) => BeingFinished(t)'
    BY <1>9 DEF BeingFinished
  <2> QED
    BY <1>0, <1>9, <2>1, StayLemma, MoveLemma
<1>10. CASE DrainTake
  <2>1. Take(0, idx) /\ idx \in Queues
    BY <1>10 DEF DrainTake, Take, Pop, TypeOK
  <2> QED
    BY <1>6, <1>10, <2>1 DEF DrainTake
<1>11. CASE DrainTest
  <2>0. PICK x \in Tasks : x = hand[0]
    BY <1>11 DEF DrainTest, TypeOK
  <2>1. Owned(x)
    BY <2>0 DEF Owned
  <2>2. CASE ~Finishes(state[x])
    <3>1. Drop(0)
      BY <1>11, <2>0, <2>2 DEF DrainTest, Drop
    <3>2. \A t \in Tasks : BeingFinished(t) => BeingFinished(t)'
      BY <1>11, <2>0, <2>2 DEF DrainTest, BeingFinished, TypeOK
    <3> QED
      BY <1>0, <1>11, <2>0, <2>2, <3>1, <3>2, DropLemma, MoveLemma DEF DrainTest
  <2>3. CASE Finishes(state[x])
    <3>1. ~BeingFinished(x)
      BY <1>0, <1>11, <2>0, <2>1, TasksAssumption DEF DrainTest, BeingFinished, SingleOwner
    <3>2. nfin[x] = 0
      <4>1. nfin[x] \in 0..2
        BY <2>1 DEF TypeOK
      <4>2. ~(nfin[x] > 0)
        BY <1>0, <2>1, <3>1 DEF FinishedOnce
      <4> QED
        BY SMT, <4>1, <4>2
    <3>3. nfin' = [nfin EXCEPT ![x] = 1]
      <4>1. OnFinish(x)
        BY <1>11, <2>0, <2>3 DEF DrainTest
      <4>2. (IF nfin[x] < 2 THEN nfin[x] + 1 ELSE nfin[x]) = 1
        BY SMT, <3>2
      <4> QED
        BY <4>1, <4>2 DEF OnFinish
    <3>4. SingleOwner' /\ \A t \in Tasks : Owned(t)' <=> Owned(t)
      BY <1>0, <1>11, <2>0, <2>3, StayLemma DEF DrainTest
    <3>5. OnlyAdded'
      BY <1>0, <1>11, <2>1, <3>3, <3>4 DEF OnlyAdded, DrainTest, TypeOK
    <3>6. BeingFinished(x)' /\ \A t \in Tasks : BeingFinished(t) => BeingFinished(t)'
      BY <1>11, <2>0, <2>3 DEF DrainTest, BeingFinished
    <3>7. FinishedOnce'
      <4> SUFFICES ASSUME NEW t \in Tasks, nfin'[t] > 0
                   PROVE  nfin'[t] = 1 /\ (Owned(t)' => BeingFinished(t)')
        BY DEF FinishedOnce
      <4>1. CASE t = x
        BY <2>1, <3>3, <3>6, <4>1 DEF TypeOK
      <4>2. CASE t # x
        <5>1. nfin'[t] = nfin[t]
          BY <3>3, <4>2 DEF TypeOK
        <5> QED
          BY <1>0, <3>4, <3>6, <5>1 DEF FinishedOnce
      <4> QED
        BY <4>1, <4>2
    <3> QED
      BY <3>4, <3>5, <3>7 DEF OwnerInv
  <2> QED
    BY <2>2, <2>3
<1>12. CASE DrainStore
  <2>1. Drop(0)
    BY <1>12 DEF DrainStore, Drop
  <2>2. SingleOwner' /\ \A t \in Tasks : Owned(t)' <=> Owned(t) /\ t # hand[0]
    BY <1>0, <2>1, DropLemma
  <2>3. ASSUME NEW t \in Tasks, t # hand[0], BeingFinished(t) PROVE BeingFinished(t)'
    BY <1>12, <2>3 DEF DrainStore, BeingFinished, TypeOK
  <2>4. UNCHANGED <<added, nfin>>
    BY <1>12 DEF DrainStore
  <2>5. OnlyAdded'
    BY <1>0, <2>2, <2>4 DEF OnlyAdded
  <2>6. FinishedOnce'
    BY <1>0, <2>2, <2>3, <2>4 DEF FinishedOnce
  <2> QED
    BY <2>2, <2>5, <2>6 DEF OwnerInv
<1>13. CASE FinishBegin \/ FinishStop \/ FinishJoin \/ DrainNext
  BY <1>9, <1>13 DEF FinishBegin, FinishStop, FinishJoin, DrainNext
<1>14. ASSUME NEW t \in Tasks, NEW s \in AppCalls, CallBegin(t, s) \/ CallStore(t, s)
       PROVE  OwnerInv'
  BY <1>2, <1>14 DEF CallBegin, CallStore
<1>15. ASSUME NEW t \in Tasks, NEW p \in Priorities, SetPriority(t, p) PROVE OwnerInv'
  BY <1>2, <1>15 DEF SetPriority
<1>16. CASE UNCHANGED vars
  BY <1>2, <1>16 DEF vars
<1> QED
  BY <1>1, <1>5, <1>7, <1>8, <1>10, <1>11, <1>12, <1>13, <1>14, <1>15, <1>16
     DEF Next, App, Finish

\* A task is always in one place only: one queue position or one thread.
THEOREM OneOwner == Spec => []SingleOwner
<1>1. TypeOK /\ OwnerInv /\ [Next]_vars => TypeOK' /\ OwnerInv'
  BY TypeStep, OwnerStep
<1>2. OwnerInv => SingleOwner
  BY DEF OwnerInv
<1> QED
  BY <1>1, <1>2, TypeInit, OwnerInit, PTL DEF Spec

\* on_finish() is called at most once for every task, and nothing has the task
\* afterwards.
THEOREM OneFinish == Spec => []FinishedOnce
<1>1. TypeOK /\ OwnerInv /\ [Next]_vars => TypeOK' /\ OwnerInv'
  BY TypeStep, OwnerStep
<1>2. OwnerInv => FinishedOnce
  BY DEF OwnerInv
<1> QED
  BY <1>1, <1>2, TypeInit, OwnerInit, PTL DEF Spec

(***************************************************************************)
(* The life of a task, and the shutdown.                                   *)
(***************************************************************************)

\* A task that is begun was added, and has left the state constructed unless its
\* runner is about to store started.  A task that is executed is not constructed,
\* so that its state tells whether it was begun, when nobody calls resume().
BegunInv ==
    /\ begun \subseteq added
    /\ \A r \in Runners : pc[r] = "store_started" => hand[r] \in begun
    /\ \A t \in begun : state[t] = "constructed" =>
          \E r \in Runners : pc[r] = "store_started" /\ hand[r] = t
    /\ \A r \in Runners : pc[r] = "execute" => state[hand[r]] # "constructed"
    /\ "started" \notin AppCalls => \A t \in Tasks : state[t] = "started" => t \in begun
    /\ ExecutesOnlyStarted

\* A task whose state is finished had its on_finish(): it may be let go.
EndInv ==
    /\ \A t \in Tasks : BeingFinished(t) \/ state[t] = "finished" => nfin[t] = 1
    /\ NeverForgotten
    /\ "paused" \notin AppCalls =>
          /\ \A t \in Tasks : state[t] # "paused"
          /\ \A t \in begun : Owned(t) \/ nfin[t] = 1 \/ t \in lost

\* finish() joins the runners one after the other, then no runner fills a queue
\* again, and the run queue gets only tasks that were never begun.
ShutInv ==
    /\ main = "schedule" => idx = 1
    /\ main \in {"stopping", "joining"} => \A r \in Runners : r < idx => pc[r] = "exited"
    /\ main \in {"draining", "store_finished", "done"} =>
          /\ \A r \in Runners : pc[r] = "exited"
          /\ \A q \in 1..3 : q < idx => queue[q] = <<>>
          /\ idx > 0 => \A i \in 1..Len(queue[0]) : queue[0][i] \notin begun

\* What a step may store as the state of a task.
StoresSoundly ==
    \A t \in Tasks :
        \/ state'[t] = state[t]
        \/ state'[t] \in {"cancelled", "paused", "finished"}
        \/ state'[t] = "started" /\ ("started" \in AppCalls \/ t \in begun)

\* A step that begins no task keeps BegunInv when what it stores is sound and the
\* one runner it moves reaches execute() and on_execute() soundly.
LEMMA BegunMoves ==
    ASSUME TypeOK, TypeOK', BegunInv, StoresSoundly, begun' = begun, added \subseteq added',
           NEW r \in Runners,
           \A u \in Runners : u # r => pc'[u] = pc[u] /\ hand'[u] = hand[u],
           \/ pc'[r] = pc[r] /\ hand'[r] = hand[r]
           \/ /\ pc[r] = "store_started" => state'[hand[r]] # "constructed"
              /\ pc'[r] # "store_started"
              /\ pc'[r] = "execute" => state'[hand'[r]] # "constructed"
              /\ pc'[r] = "on_execute" /\ "started" \notin AppCalls => hand'[r] \in begun
    PROVE  BegunInv'
<1>1. (begun \subseteq added)'  BY DEF BegunInv
<1>2. \A u \in Runners : pc'[u] = "store_started" => hand'[u] \in begun'  BY SMT DEF BegunInv
<1>3. \A t \in begun' : state'[t] = "constructed" =>
          \E u \in Runners : pc'[u] = "store_started" /\ hand'[u] = t
  <2> SUFFICES ASSUME NEW t \in begun, state'[t] = "constructed"
               PROVE  \E u \in Runners : pc'[u] = "store_started" /\ hand'[u] = t
    OBVIOUS
  <2>1. t \in Tasks /\ state[t] = "constructed"  BY DEF StoresSoundly, TypeOK
  <2>2. PICK u \in Runners : pc[u] = "store_started" /\ hand[u] = t  BY <2>1 DEF BegunInv
  <2>3. pc'[u] = "store_started" /\ hand'[u] = t  BY <2>2
  <2> QED  BY <2>3
<1>4. \A u \in Runners : pc'[u] = "execute" => state'[hand'[u]] # "constructed"
  <2> SUFFICES ASSUME NEW u \in Runners, pc'[u] = "execute"
               PROVE  state'[hand'[u]] # "constructed"
    OBVIOUS
  <2>1. CASE pc'[u] = pc[u] /\ hand'[u] = hand[u]
    <3>1. hand[u] \in Tasks  BY <2>1, HolderLemma DEF TypeOK
    <3>2. state[hand[u]] # "constructed"  BY <2>1 DEF BegunInv
    <3> QED  BY <2>1, <3>1, <3>2 DEF StoresSoundly
  <2>2. CASE ~(pc'[u] = pc[u] /\ hand'[u] = hand[u])  BY <2>2
  <2> QED  BY <2>1, <2>2
<1>5. "started" \notin AppCalls => \A t \in Tasks : state'[t] = "started" => t \in begun'
  BY DEF BegunInv, StoresSoundly
<1>6. ExecutesOnlyStarted'  BY DEF BegunInv, ExecutesOnlyStarted
<1> QED  BY <1>1, <1>2, <1>3, <1>4, <1>5, <1>6 DEF BegunInv

\* A step of one runner leaves the others where they are, and reads what they hold.
LEMMA OneRunner ==
    ASSUME TypeOK, NEW r \in Runners, Runner(r)
    PROVE  /\ \A u \in Runners : u # r => pc'[u] = pc[u] /\ hand'[u] = hand[u]
           /\ hand'[0] = hand[0] /\ UNCHANGED <<main, idx, added>>
           /\ pc[r] # "exited"
<1>1. PICK l : Goto(r, l)
  BY DEF Runner, RunnerLoop, RunnerPop, RunnerPopped, RunnerOnStart, RunnerOnStartFails,
         RunnerStoreStarted, RunnerStartReturns, RunnerExecute, RunnerOnExecute,
         RunnerThrows, RunnerPass, RunnerFinish, RunnerStoreFinished, Release
<1>2. \/ UNCHANGED hand \/ hand' = [hand EXCEPT ![r] = NoTask]
      \/ hand' = [hand EXCEPT ![r] = Head(queue[0])]
  BY DEF Runner, RunnerLoop, RunnerPop, RunnerPopped, RunnerOnStart, RunnerOnStartFails,
         RunnerStoreStarted, RunnerStartReturns, RunnerExecute, RunnerOnExecute,
         RunnerThrows, RunnerPass, RunnerFinish, RunnerStoreFinished, Release
<1>3. UNCHANGED <<main, idx, added>> /\ pc[r] # "exited"
  BY DEF Runner, RunnerLoop, RunnerPop, RunnerPopped, RunnerOnStart, RunnerOnStartFails,
         RunnerStoreStarted, RunnerStartReturns, RunnerExecute, RunnerOnExecute,
         RunnerThrows, RunnerPass, RunnerFinish, RunnerStoreFinished
<1>4. \A u \in Runners : u # r => pc'[u] = pc[u]  BY <1>1 DEF TypeOK, Goto
<1>5. \A u \in Holders : u # r => hand'[u] = hand[u]  BY <1>2 DEF TypeOK
<1> QED  BY <1>3, <1>4, <1>5, HolderLemma

\* Every step keeps BegunInv.
LEMMA BegunStep ==
    ASSUME TypeOK, TypeOK', OwnerInv, BegunInv, [Next]_vars
    PROVE  BegunInv'
<1> USE HolderLemma
<1>1. CASE \/ \E t \in Tasks : Add(t) \/ \E s \in AppCalls : CallBegin(t, s)
           \/ \E t \in Tasks, p \in Priorities : SetPriority(t, p)
           \/ \E q \in 1..3 : ScheduleTake(q)
           \/ SchedulePut \/ FinishBegin \/ FinishStop \/ FinishJoin
           \/ DrainTake \/ DrainTest \/ DrainNext
           \/ UNCHANGED vars
  <2>1. UNCHANGED <<state, pc, begun>> /\ added \subseteq added'
    BY <1>1 DEF Add, CallBegin, SetPriority, ScheduleTake, SchedulePut, FinishBegin, FinishStop,
                FinishJoin, DrainTake, DrainTest, DrainNext, vars
  <2>2. \A u \in Runners : hand'[u] = hand[u]
    BY <1>1 DEF TypeOK, Add, CallBegin, SetPriority, ScheduleTake, SchedulePut, FinishBegin,
                FinishStop, FinishJoin, DrainTake, DrainTest, DrainNext, vars
  <2>3. StoresSoundly  BY <2>1 DEF StoresSoundly
  <2>4. 1 \in Runners  BY SMT, RunnerAssumption DEF Runners
  <2> QED  BY <2>1, <2>2, <2>3, <2>4, BegunMoves
<1>2. ASSUME NEW t \in Tasks, NEW s \in AppCalls, CallStore(t, s) PROVE BegunInv'
  <2>1. UNCHANGED <<pc, hand, begun, added>> /\ state' = [state EXCEPT ![t] = s]
    BY <1>2 DEF CallStore
  <2>2. StoresSoundly  BY <2>1, CallsAssumption DEF StoresSoundly, TypeOK
  <2>3. 1 \in Runners  BY SMT, RunnerAssumption DEF Runners
  <2> QED  BY <2>1, <2>2, <2>3, BegunMoves
<1>3. CASE DrainStore
  <2>1. /\ UNCHANGED <<pc, begun, added>> /\ state' = [state EXCEPT ![hand[0]] = "finished"]
        /\ hand' = [hand EXCEPT ![0] = NoTask]
    BY <1>3 DEF DrainStore
  <2>2. StoresSoundly  BY <2>1 DEF StoresSoundly, TypeOK
  <2>3. \A u \in Runners : hand'[u] = hand[u]  BY <2>1 DEF TypeOK
  <2>4. 1 \in Runners  BY SMT, RunnerAssumption DEF Runners
  <2> QED  BY <2>1, <2>2, <2>3, <2>4, BegunMoves
<1>4. ASSUME NEW r \in Runners, Runner(r) PROVE BegunInv'
  <2>0. \A u \in Runners : u # r => pc'[u] = pc[u] /\ hand'[u] = hand[u]
    BY <1>4, OneRunner
  <2>1. CASE \/ RunnerLoop(r) \/ RunnerPop(r) \/ RunnerOnStartFails(r) \/ RunnerThrows(r)
             \/ \E l \in {"pass", "finish", "self_finish"} : RunnerOnExecute(r, l)
             \/ RunnerPass(r) \/ RunnerFinish(r)
    <3>1. UNCHANGED <<state, begun, added>>
      BY <2>1 DEF RunnerLoop, RunnerPop, RunnerOnStartFails, RunnerThrows, RunnerOnExecute,
           RunnerPass, RunnerFinish
    <3>2. pc[r] # "store_started" /\ pc'[r] \notin {"store_started", "execute", "on_execute"}
      BY <2>1 DEF TypeOK, RunnerLoop, RunnerPop, RunnerOnStartFails, RunnerThrows,
           RunnerOnExecute, RunnerPass, RunnerFinish, Goto, Release
    <3>3. StoresSoundly  BY <3>1 DEF StoresSoundly
    <3> QED  BY <2>0, <3>1, <3>2, <3>3, BegunMoves
  <2>2. CASE RunnerPopped(r)
    <3>1. UNCHANGED <<state, begun, added, hand>> /\ pc[r] = "popped"
      BY <2>2 DEF RunnerPopped
    <3>2. /\ pc'[r] \in {"on_start", "execute"}
          /\ pc'[r] = "execute" => state[hand[r]] # "constructed"
      BY <2>2 DEF RunnerPopped, Goto, TypeOK
    <3>3. StoresSoundly  BY <3>1 DEF StoresSoundly
    <3> QED  BY <2>0, <3>1, <3>2, <3>3, BegunMoves
  <2>3. CASE RunnerOnStart(r)
    <3>0. PICK x \in Tasks : x = hand[r]  BY <2>3 DEF RunnerOnStart, TypeOK
    <3>1. /\ UNCHANGED <<state, added, hand>> /\ pc[r] = "on_start"
          /\ begun' = begun \cup {x} /\ pc'[r] = "store_started"
      BY <2>3, <3>0 DEF RunnerOnStart, Goto, TypeOK
    <3>2. x \in added
      <4>1. Owned(x)  BY <3>0 DEF Owned
      <4> QED  BY <4>1 DEF OwnerInv, OnlyAdded
    <3>3. (begun \subseteq added)'  BY <3>1, <3>2 DEF BegunInv
    <3>4. \A u \in Runners : pc'[u] = "store_started" => hand'[u] \in begun'
      BY <2>0, <3>0, <3>1 DEF BegunInv
    <3>5. \A t \in begun' : state'[t] = "constructed" =>
            \E u \in Runners : pc'[u] = "store_started" /\ hand'[u] = t
      <4> SUFFICES ASSUME NEW t \in begun', state'[t] = "constructed"
                   PROVE  \E u \in Runners : pc'[u] = "store_started" /\ hand'[u] = t
        OBVIOUS
      <4>1. CASE t = x  BY <3>0, <3>1, <4>1
      <4>2. CASE t # x
        <5>1. t \in begun /\ state[t] = "constructed"  BY <3>1, <4>2
        <5>2. PICK u \in Runners : pc[u] = "store_started" /\ hand[u] = t  BY <5>1 DEF BegunInv
        <5>3. u # r  BY <3>1, <5>2
        <5> QED  BY <2>0, <5>2, <5>3
      <4> QED  BY <4>1, <4>2
    <3>6. \A u \in Runners : pc'[u] = "execute" => state'[hand'[u]] # "constructed"
      BY <2>0, <3>1 DEF BegunInv
    <3>7. "started" \notin AppCalls => \A t \in Tasks : state'[t] = "started" => t \in begun'
      BY <3>1 DEF BegunInv
    <3>8. ExecutesOnlyStarted'  BY <2>0, <3>1 DEF BegunInv, ExecutesOnlyStarted
    <3> QED  BY <3>3, <3>4, <3>5, <3>6, <3>7, <3>8 DEF BegunInv
  <2>4. CASE RunnerStoreStarted(r)
    <3>0. PICK x \in Tasks : x = hand[r]  BY <2>4 DEF RunnerStoreStarted, TypeOK
    <3>1. /\ UNCHANGED <<begun, added, hand>> /\ state' = [state EXCEPT ![x] = "started"]
          /\ x \in begun /\ pc'[r] = "start_ret"
      <4>1. /\ UNCHANGED <<begun, added, hand>> /\ state' = [state EXCEPT ![x] = "started"]
            /\ pc[r] = "store_started" /\ pc' = [pc EXCEPT ![r] = "start_ret"]
        BY <2>4, <3>0 DEF RunnerStoreStarted, Goto
      <4>2. pc'[r] = "start_ret"  BY <4>1 DEF TypeOK
      <4>3. x \in begun  BY <3>0, <4>1 DEF BegunInv
      <4> QED  BY <4>1, <4>2, <4>3
    <3>2. StoresSoundly  BY <3>1 DEF StoresSoundly, TypeOK
    <3>3. state'[hand[r]] # "constructed"  BY <3>0, <3>1 DEF TypeOK
    <3> QED  BY <2>0, <3>1, <3>2, <3>3, BegunMoves
  <2>5. CASE RunnerStartReturns(r)
    <3>1. UNCHANGED <<state, begun, added>> /\ pc[r] = "start_ret"
      BY <2>5 DEF RunnerStartReturns
    <3>2. /\ pc'[r] \in {"loop", "execute"}
          /\ pc'[r] = "execute" => state[hand[r]] = "started" /\ hand' = hand
      <4>1. CASE state[hand[r]] = "started"
        BY SMT, <2>5, <4>1 DEF RunnerStartReturns, Goto, TypeOK
      <4>2. CASE state[hand[r]] # "started"
        BY <2>5, <4>2 DEF RunnerStartReturns, Release, Goto, TypeOK
      <4> QED  BY <4>1, <4>2
    <3>3. StoresSoundly  BY <3>1 DEF StoresSoundly
    <3> QED  BY <2>0, <3>1, <3>2, <3>3, BegunMoves
  <2>6. CASE RunnerExecute(r)
    <3>0. PICK x \in Tasks : x = hand[r]  BY <2>6 DEF RunnerExecute, TypeOK
    <3>1. UNCHANGED <<state, begun, added>> /\ pc[r] = "execute" /\ state[x] \in States
      BY <2>6, <3>0 DEF RunnerExecute, TypeOK
    <3>2. state[x] # "constructed"  BY <3>0, <3>1 DEF BegunInv
    <3>3. StoresSoundly  BY <3>1 DEF StoresSoundly
    <3>4. CASE state[x] = "finished"
      <4>1. pc'[r] = "loop"  BY <2>6, <3>0, <3>4 DEF RunnerExecute, Release, Goto, TypeOK
      <4> QED  BY <2>0, <3>1, <3>3, <4>1, BegunMoves
    <3>5. CASE state[x] # "finished"
      <4>1. pc'[r] = ExecuteDecides(state[x]) /\ hand' = hand
        BY <2>6, <3>0, <3>5 DEF RunnerExecute, Goto, TypeOK
      <4>2. ExecuteDecides(state[x]) \in {"finish", "pass", "on_execute"}  BY DEF ExecuteDecides
      <4>3. ExecuteDecides(state[x]) = "on_execute" => state[x] = "started"
        BY <3>1, <3>2, <3>5 DEF ExecuteDecides, States
      <4>4. pc'[r] = "on_execute" /\ "started" \notin AppCalls => hand'[r] \in begun
        BY <3>0, <4>1, <4>3 DEF BegunInv
      <4> QED  BY <2>0, <3>1, <3>3, <4>1, <4>2, <4>4, BegunMoves
    <3> QED  BY <3>4, <3>5
  <2>7. CASE RunnerStoreFinished(r)
    <3>1. /\ UNCHANGED <<begun, added>> /\ state' = [state EXCEPT ![hand[r]] = "finished"]
          /\ pc[r] = "store_finished" /\ pc'[r] = "loop"
      BY <2>7 DEF RunnerStoreFinished, Release, Goto, TypeOK
    <3>2. StoresSoundly  BY <3>1 DEF StoresSoundly, TypeOK
    <3> QED  BY <2>0, <3>1, <3>2, BegunMoves
  <2> QED  BY <1>4, <2>1, <2>2, <2>3, <2>4, <2>5, <2>6, <2>7 DEF Runner
<1> QED  BY <1>1, <1>2, <1>3, <1>4 DEF Next, App, Finish

Draining == {"draining", "store_finished", "done"}

\* Every step keeps the order of the shutdown.
LEMMA ShutStep ==
    ASSUME TypeOK, TypeOK', BegunInv, ShutInv, [Next]_vars
    PROVE  ShutInv'
<1> USE HolderLemma
<1>1. ASSUME UNCHANGED <<main, idx, pc, queue, begun>> PROVE ShutInv'
  BY <1>1 DEF ShutInv
<1>2. ASSUME NEW t \in Tasks, Add(t) PROVE ShutInv'
  <2>1. /\ UNCHANGED <<main, idx, pc, begun>> /\ t \notin begun
        /\ queue' = [queue EXCEPT ![0] = Append(queue[0], t)]
    BY <1>2 DEF Add, Push, BegunInv
  <2>2. queue'[0] = Append(queue[0], t) /\ \A q \in 1..3 : queue'[q] = queue[q]
    BY <2>1 DEF TypeOK
  <2>3. ASSUME \A i \in 1..Len(queue[0]) : queue[0][i] \notin begun
        PROVE  \A i \in 1..Len(queue'[0]) : queue'[0][i] \notin begun'
    <3>1. queue[0] \in Seq(Tasks)  BY DEF TypeOK
    <3>2. \A i \in 1..Len(queue'[0]) :
            \/ i \in 1..Len(queue[0]) /\ queue'[0][i] = queue[0][i]
            \/ queue'[0][i] = t
      BY SMT, <2>2, <3>1
    <3> QED  BY SMT, <2>1, <2>3, <3>2
  <2> QED  BY <2>1, <2>2, <2>3 DEF ShutInv
<1>3. ASSUME NEW r \in Runners, Runner(r) PROVE ShutInv'
  <2>1. /\ \A u \in Runners : u # r => pc'[u] = pc[u]
        /\ UNCHANGED <<main, idx>> /\ pc[r] # "exited"
    BY <1>3, OneRunner
  <2>2. main \notin Draining  BY <2>1 DEF ShutInv, Draining
  <2>3. \A u \in Runners : pc[u] = "exited" => pc'[u] = "exited"  BY <2>1
  <2> QED  BY <2>1, <2>2, <2>3 DEF ShutInv, Draining
<1>4. CASE (\E q \in 1..3 : ScheduleTake(q)) \/ SchedulePut
  <2>1. UNCHANGED <<main, idx, pc>> /\ main = "schedule"
    BY <1>4 DEF ScheduleTake, SchedulePut
  <2> QED  BY <2>1 DEF ShutInv
<1>5. CASE FinishBegin
  <2>1. main' = "stopping" /\ UNCHANGED <<idx, pc>> /\ idx = 1
    BY <1>5 DEF FinishBegin, ShutInv
  <2>2. \A r \in Runners : ~(r < 1)  BY SMT DEF Runners
  <2> QED  BY <2>1, <2>2 DEF ShutInv
<1>6. CASE FinishStop
  <2>1. main = "stopping" /\ main' = "joining" /\ UNCHANGED <<idx, pc>>  BY <1>6 DEF FinishStop
  <2> QED  BY <2>1 DEF ShutInv
<1>7. CASE FinishJoin
  <2>1. /\ main = "joining" /\ pc[idx] = "exited" /\ UNCHANGED pc /\ idx \in Runners
        /\ \A r \in Runners : r < idx => pc[r] = "exited"
    BY <1>7 DEF FinishJoin, ShutInv, TypeOK
  <2>2. \A r \in Runners : r < idx + 1 => pc[r] = "exited"  BY SMT, <2>1 DEF Runners
  <2>3. CASE idx < RunnerCount
    <3>1. idx' = idx + 1 /\ main' = "stopping"  BY <1>7, <2>3 DEF FinishJoin
    <3> QED  BY <2>1, <2>2, <3>1 DEF ShutInv
  <2>4. CASE ~(idx < RunnerCount)
    <3>1. idx' = 0 /\ main' = "draining"  BY <1>7, <2>4 DEF FinishJoin
    <3>2. \A r \in Runners : r < idx + 1  BY SMT, <2>1, <2>4, RunnerAssumption DEF Runners
    <3>3. \A r \in Runners : pc'[r] = "exited"  BY <2>1, <2>2, <3>2
    <3>4. \A q \in 1..3 : ~(q < 0)  BY SMT
    <3> QED  BY SMT, <3>1, <3>3, <3>4 DEF ShutInv
  <2> QED  BY <2>3, <2>4
<1>8. CASE DrainTake
  <2>1. /\ main = "draining" /\ UNCHANGED <<main, idx, pc, begun>> /\ idx \in Queues
        /\ queue[idx] # <<>> /\ queue' = [queue EXCEPT ![idx] = Tail(queue[idx])]
    BY <1>8 DEF DrainTake, Pop, TypeOK
  <2>2. \A q \in Queues : q # idx => queue'[q] = queue[q]  BY <2>1 DEF TypeOK
  <2>3. \A q \in 1..3 : q < idx => queue'[q] = <<>>
    BY <2>1, <2>2 DEF ShutInv, Queues
  <2>4. idx > 0 => queue'[0] = queue[0]  BY SMT, <2>1, <2>2 DEF Queues
  <2> QED  BY SMT, <2>1, <2>3, <2>4 DEF ShutInv
<1>9. CASE DrainTest \/ DrainStore
  <2>1. /\ main \in {"draining", "store_finished"} /\ main' \in {"draining", "store_finished"}
        /\ UNCHANGED <<idx, pc, queue, begun>>
    BY <1>9 DEF DrainTest, DrainStore
  <2> QED  BY <2>1 DEF ShutInv
<1>10. CASE DrainNext
  <2>1. main = "draining" /\ UNCHANGED <<pc, queue, begun>> /\ queue[idx] = <<>> /\ idx \in 0..3
    BY <1>10 DEF DrainNext, TypeOK, Queues
  <2>2. idx = 0 => \A i \in 1..Len(queue[0]) : queue[0][i] \notin begun  BY SMT, <2>1
  <2>3. main' \in Draining \ {"store_finished"} /\ idx' \in {idx, idx + 1}
    BY <1>10, <2>1 DEF DrainNext, Draining
  <2>4. \A q \in 1..3 : q < idx' => queue[q] = <<>>
    <3>1. \A q \in 1..3 : q < idx => queue[q] = <<>>  BY <2>1 DEF ShutInv
    <3>2. \A q \in 1..3 : q < idx' => q < idx \/ q = idx  BY SMT, <2>1, <2>3
    <3> QED  BY <2>1, <3>1, <3>2
  <2>5. \A i \in 1..Len(queue[0]) : queue[0][i] \notin begun  BY SMT, <2>1, <2>2 DEF ShutInv
  <2> QED  BY <2>1, <2>3, <2>4, <2>5 DEF ShutInv, Draining
<1>11. ASSUME NEW t \in Tasks, App(t) PROVE ShutInv'
  <2>1. CASE Add(t)  BY <1>2, <2>1
  <2>2. CASE ~Add(t)
    BY <1>1, <1>11, <2>2 DEF App, CallBegin, CallStore, SetPriority
  <2> QED  BY <2>1, <2>2
<1>12. CASE UNCHANGED vars  BY <1>1, <1>12 DEF vars
<1> QED
  BY <1>3, <1>4, <1>5, <1>6, <1>7, <1>8, <1>9, <1>10, <1>11, <1>12 DEF Next, Finish

\* A step keeps EndInv when it takes a task from its owner only after on_finish(),
\* to let it go, or in the shutdown.
LEMMA EndMoves ==
    ASSUME TypeOK, TypeOK', EndInv,
           \A t \in Tasks : nfin[t] = 1 => nfin'[t] = 1,
           \A t \in Tasks : BeingFinished(t)' \/ state'[t] = "finished" => nfin'[t] = 1,
           lost \subseteq lost',
           \A t \in added' : t \in added \/ Owned(t)',
           \A t \in begun' : t \in begun \/ Owned(t)',
           \A t \in Tasks : Owned(t) =>
               \/ Owned(t)' \/ nfin'[t] = 1 \/ t \in lost'
               \/ main' \in Draining /\ ("paused" \in AppCalls \/ t \notin begun'),
           \A t \in Tasks : state'[t] = "paused" => state[t] = "paused" \/ "paused" \in AppCalls,
           main \in Draining => main' \in Draining
    PROVE  EndInv'
<1>1. NeverForgotten'  BY DEF EndInv, NeverForgotten, Draining, TypeOK
<1>2. ASSUME "paused" \notin AppCalls
      PROVE  /\ \A t \in Tasks : state'[t] # "paused"
             /\ \A t \in begun' : Owned(t)' \/ nfin'[t] = 1 \/ t \in lost'
  <2>1. \A t \in Tasks : state'[t] # "paused"  BY <1>2 DEF EndInv
  <2>2. ASSUME NEW t \in begun' PROVE Owned(t)' \/ nfin'[t] = 1 \/ t \in lost'
    <3>1. t \in Tasks  BY DEF TypeOK
    <3>2. CASE t \in begun  BY <1>2, <3>1, <3>2 DEF EndInv
    <3> QED  BY <3>2
  <2> QED  BY <2>1, <2>2
<1> QED  BY <1>1, <1>2 DEF EndInv

\* A call of on_finish() is the first for its task, when FinishedOnce holds after it.
LEMMA CountedOnce ==
    ASSUME TypeOK, FinishedOnce', NEW x \in Tasks, OnFinish(x)
    PROVE  nfin'[x] = 1 /\ \A t \in Tasks : t # x => nfin'[t] = nfin[t]
<1>1. PICK n \in 0..2 : n = nfin[x]  BY DEF TypeOK
<1>2. PICK m : m = IF n < 2 THEN n + 1 ELSE n  OBVIOUS
<1>3. nfin' = [nfin EXCEPT ![x] = m] /\ nfin \in [Tasks -> 0..2]
  BY <1>1, <1>2 DEF OnFinish, TypeOK
<1>4. nfin'[x] = m /\ \A t \in Tasks : t # x => nfin'[t] = nfin[t]  BY <1>3
<1>5. m > 0  BY SMT, <1>1, <1>2
<1> QED  BY <1>4, <1>5 DEF FinishedOnce

\* Every step keeps EndInv.
LEMMA EndStep ==
    ASSUME TypeOK, TypeOK', OwnerInv, OwnerInv', BegunInv, ShutInv, EndInv, [Next]_vars
    PROVE  EndInv'
<1> USE HolderLemma
<1>0. /\ SingleOwner /\ OnlyAdded /\ FinishedOnce /\ FinishedOnce'
      /\ \A t \in Tasks : nfin[t] \in 0..2 /\ nfin'[t] \in 0..2
  BY DEF OwnerInv, TypeOK
<1>1. ASSUME UNCHANGED <<queue, hand, pc, nfin, lost, begun>>, added' = added,
             main' = main \/ (main # "store_finished" /\ main' # "store_finished"
                                /\ (main \in Draining => main' \in Draining)),
             \A t \in Tasks : \/ state'[t] = state[t]
                              \/ state'[t] \in AppCalls
                              \/ state'[t] = "started"
      PROVE  EndInv'
  <2>1. \A t \in Tasks : (Owned(t)' <=> Owned(t)) /\ (BeingFinished(t)' => BeingFinished(t))
    BY <1>1 DEF Owned, InQueue, BeingFinished
  <2>2. \A t \in Tasks : state'[t] = "finished" => state[t] = "finished"
    BY <1>1, CallsAssumption
  <2>3. \A t \in Tasks : BeingFinished(t)' \/ state'[t] = "finished" => nfin'[t] = 1
    BY <1>1, <2>1, <2>2 DEF EndInv
  <2>4. \A t \in Tasks : state'[t] = "paused" => state[t] = "paused" \/ "paused" \in AppCalls
    BY <1>1
  <2> QED  BY <1>1, <2>1, <2>3, <2>4, EndMoves
<1>2. ASSUME NEW t \in Tasks, Add(t) PROVE EndInv'
  <2>1. SingleOwner' /\ \A u \in Tasks : Owned(u)' <=> Owned(u) \/ u = t
    BY <1>0, <1>2, AddLemma
  <2>2. /\ added' = added \cup {t}
        /\ UNCHANGED <<hand, pc, nfin, lost, begun, main, state>>
    BY <1>2 DEF Add
  <2>3. \A u \in Tasks : BeingFinished(u)' <=> BeingFinished(u)  BY <2>2 DEF BeingFinished
  <2>4. \A u \in Tasks : BeingFinished(u)' \/ state'[u] = "finished" => nfin'[u] = 1
    BY <2>2, <2>3 DEF EndInv
  <2>5. \A u \in added' : u \in added \/ Owned(u)'  BY <2>1, <2>2
  <2> QED  BY <2>1, <2>2, <2>4, <2>5, EndMoves
<1>3. ASSUME NEW t \in Tasks, App(t) PROVE EndInv'
  <2>1. CASE \E s \in AppCalls : CallStore(t, s)
    <3>1. PICK s \in AppCalls : CallStore(t, s)  BY <2>1
    <3>2. state' = [state EXCEPT ![t] = s]  BY <3>1 DEF CallStore
    <3>3. \A u \in Tasks : state'[u] = state[u] \/ state'[u] \in AppCalls
      BY <3>2 DEF TypeOK
    <3> QED  BY <1>1, <3>1, <3>3 DEF CallStore
  <2>2. CASE \/ \E s \in AppCalls : CallBegin(t, s)
             \/ \E p \in Priorities : SetPriority(t, p)
    BY <1>1, <2>2 DEF CallBegin, SetPriority
  <2> QED  BY <1>2, <1>3, <2>1, <2>2 DEF App
<1>4. ASSUME NEW r \in Runners, Runner(r), pc[r] # "store_finished", pc'[r] # "store_finished",
             UNCHANGED nfin, begun' = begun \/ (begun' = begun \cup {hand[r]} /\ hand' = hand),
             lost \subseteq lost',
             \A t \in Tasks : state'[t] = state[t] \/ state'[t] = "started",
             \/ UNCHANGED <<queue, hand>>
             \/ Take(r, 0)
             \/ Put(r, prio[hand[r]]) /\ prio[hand[r]] \in Queues
             \/ Drop(r) /\ hand[r] \in Tasks
                  /\ (hand[r] \in lost' \/ state[hand[r]] = "finished")
      PROVE  EndInv'
  <2>1. /\ \A u \in Runners : u # r => pc'[u] = pc[u] /\ hand'[u] = hand[u]
        /\ hand'[0] = hand[0] /\ UNCHANGED <<main, idx, added>>
    BY <1>4, OneRunner
  <2>2. \A t \in Tasks : BeingFinished(t)' => BeingFinished(t)
    BY <1>4, <2>1 DEF BeingFinished
  <2>3. \A t \in Tasks : BeingFinished(t)' \/ state'[t] = "finished" => nfin'[t] = 1
    BY <1>4, <2>2 DEF EndInv
  <2>4. \A t \in Tasks : Owned(t) => Owned(t)' \/ nfin'[t] = 1 \/ t \in lost'
    <3>1. CASE UNCHANGED <<queue, hand>>  BY <3>1 DEF Owned, InQueue
    <3>2. CASE Take(r, 0)  BY <1>0, <3>2, TakeLemma
    <3>3. CASE Put(r, prio[hand[r]]) /\ prio[hand[r]] \in Queues  BY <1>0, <3>3, PutLemma
    <3>4. CASE Drop(r) /\ hand[r] \in Tasks
                 /\ (hand[r] \in lost' \/ state[hand[r]] = "finished")
      <4>1. \A t \in Tasks : Owned(t)' <=> Owned(t) /\ t # hand[r]  BY <1>0, <3>4, DropLemma
      <4>2. hand[r] \in lost' \/ nfin'[hand[r]] = 1  BY <1>4, <3>4 DEF EndInv
      <4> QED  BY <4>1, <4>2
    <3> QED  BY <1>4, <3>1, <3>2, <3>3, <3>4
  <2>5. \A t \in begun' : t \in begun \/ Owned(t)'  BY <1>4 DEF Owned
  <2>6. \A t \in Tasks : state'[t] = "paused" => state[t] = "paused"  BY <1>4
  <2> QED  BY <1>4, <2>1, <2>3, <2>4, <2>5, <2>6, EndMoves
<1>5. ASSUME NEW r \in Runners, Runner(r) PROVE EndInv'
  <2>1. CASE \/ RunnerLoop(r) \/ RunnerPopped(r) \/ RunnerOnStart(r)
             \/ RunnerOnStartFails(r) \/ RunnerStoreStarted(r)
             \/ \E l \in {"pass", "finish", "self_finish"} : RunnerOnExecute(r, l)
    <3>1. pc[r] # "store_finished" /\ pc'[r] # "store_finished"
      BY <2>1 DEF TypeOK, RunnerLoop, RunnerPopped, RunnerOnStart, RunnerOnStartFails,
           RunnerStoreStarted, RunnerOnExecute, Goto
    <3>2. \A t \in Tasks : state'[t] = state[t] \/ state'[t] = "started"
      BY <2>1 DEF TypeOK, RunnerLoop, RunnerPopped, RunnerOnStart, RunnerOnStartFails,
           RunnerStoreStarted, RunnerOnExecute
    <3>3. /\ UNCHANGED <<queue, hand, nfin, lost>>
          /\ begun' = begun \/ begun' = begun \cup {hand[r]}
      BY <2>1 DEF RunnerLoop, RunnerPopped, RunnerOnStart, RunnerOnStartFails,
           RunnerStoreStarted, RunnerOnExecute
    <3> QED  BY <1>4, <1>5, <3>1, <3>2, <3>3
  <2>2. CASE RunnerPop(r)
    <3>1. /\ pc[r] # "store_finished" /\ pc'[r] # "store_finished"
          /\ UNCHANGED <<nfin, lost, begun, state>>
      BY <2>2 DEF RunnerPop, Goto, TypeOK
    <3>2. UNCHANGED <<queue, hand>> \/ Take(r, 0)
      BY <2>2 DEF RunnerPop, Pop, Take, TypeOK
    <3> QED  BY <1>4, <1>5, <3>1, <3>2
  <2>3. CASE RunnerStartReturns(r)
    <3>1. /\ pc[r] # "store_finished" /\ pc'[r] # "store_finished"
          /\ UNCHANGED <<nfin, begun, state>> /\ lost \subseteq lost'
      BY <2>3 DEF RunnerStartReturns, Release, Goto, TypeOK
    <3>2. hand[r] \in Tasks
      <4>1. pc[r] = "start_ret"  BY <2>3 DEF RunnerStartReturns
      <4> QED  BY <4>1 DEF TypeOK
    <3>3. UNCHANGED <<queue, hand>> \/ (Drop(r) /\ hand[r] \in lost')
      BY <2>3 DEF RunnerStartReturns, Release, Drop
    <3> QED  BY <1>4, <1>5, <3>1, <3>2, <3>3
  <2>4. CASE RunnerExecute(r)
    <3>1. pc[r] # "store_finished" /\ UNCHANGED <<nfin, begun, state, lost>>
      BY <2>4 DEF RunnerExecute
    <3>2. hand[r] \in Tasks  BY <2>4 DEF RunnerExecute, TypeOK
    <3>3. ExecuteDecides(state[hand[r]]) \in {"finish", "pass", "on_execute"}
      BY DEF ExecuteDecides
    <3>4. pc'[r] # "store_finished"
      BY <2>4, <3>3 DEF RunnerExecute, Release, Goto, TypeOK
    <3>5. UNCHANGED <<queue, hand>> \/ (Drop(r) /\ state[hand[r]] = "finished")
      BY <2>4 DEF RunnerExecute, Release, Drop
    <3> QED  BY <1>4, <1>5, <3>1, <3>2, <3>4, <3>5
  <2>5. CASE RunnerThrows(r)
    <3>1. /\ pc[r] # "store_finished" /\ pc'[r] # "store_finished"
          /\ UNCHANGED <<nfin, begun, state>> /\ lost' = lost \cup {hand[r]}
      BY <2>5 DEF RunnerThrows, Release, Goto, TypeOK
    <3>2. hand[r] \in Tasks  BY <2>5 DEF RunnerThrows, TypeOK
    <3>3. Drop(r)  BY <2>5 DEF RunnerThrows, Release, Drop
    <3> QED  BY <1>4, <1>5, <3>1, <3>2, <3>3
  <2>6. CASE RunnerPass(r)
    <3>1. /\ pc[r] # "store_finished" /\ pc'[r] # "store_finished"
          /\ UNCHANGED <<nfin, begun, state, lost>>
      BY <2>6 DEF RunnerPass, Release, Goto, TypeOK
    <3>2. hand[r] \in Tasks  BY <2>6 DEF RunnerPass, TypeOK
    <3>3. Put(r, prio[hand[r]]) /\ prio[hand[r]] \in Queues
      BY <2>6, <3>2, TasksAssumption DEF RunnerPass, Push, Release, Put, TypeOK
    <3> QED  BY <1>4, <1>5, <3>1, <3>3
  <2>7. CASE RunnerFinish(r)
    <3>0. PICK x \in Tasks : x = hand[r]  BY <2>7 DEF RunnerFinish, TypeOK
    <3>1. /\ UNCHANGED <<state, queue, hand, main, added, begun, lost>>
          /\ pc' = [pc EXCEPT ![r] = "store_finished"]
          /\ OnFinish(x)
      BY <2>7, <3>0 DEF RunnerFinish, Goto
    <3>2. nfin'[x] = 1  BY <1>0, <3>1, CountedOnce
    <3>3. \A t \in Tasks : t # x => nfin'[t] = nfin[t]  BY <1>0, <3>1, CountedOnce
    <3>4. \A t \in Tasks : Owned(t)' <=> Owned(t)  BY <3>1 DEF Owned, InQueue
    <3>5. \A t \in Tasks : BeingFinished(t)' => BeingFinished(t) \/ t = x
      BY <3>0, <3>1 DEF BeingFinished, TypeOK
    <3>6. \A t \in Tasks : BeingFinished(t)' \/ state'[t] = "finished" => nfin'[t] = 1
      BY <3>1, <3>2, <3>3, <3>5 DEF EndInv
    <3> QED  BY <3>1, <3>2, <3>3, <3>4, <3>6, EndMoves
  <2>8. CASE RunnerStoreFinished(r)
    <3>0. PICK x \in Tasks : x = hand[r]  BY <2>8 DEF RunnerStoreFinished, TypeOK
    <3>1. /\ UNCHANGED <<main, added, begun, nfin, lost>> /\ Drop(r)
          /\ state' = [state EXCEPT ![x] = "finished"] /\ pc[r] = "store_finished"
          /\ pc'[r] = "loop"
      BY <2>8, <3>0 DEF RunnerStoreFinished, Release, Drop, Goto, TypeOK
    <3>2. nfin[x] = 1  BY <3>0, <3>1 DEF EndInv, BeingFinished
    <3>3. \A t \in Tasks : Owned(t)' <=> Owned(t) /\ t # x  BY <1>0, <3>0, <3>1, DropLemma
    <3>4. /\ \A u \in Runners : u # r => pc'[u] = pc[u] /\ hand'[u] = hand[u]
          /\ hand'[0] = hand[0]
      BY <1>5, OneRunner
    <3>5. \A t \in Tasks : BeingFinished(t)' => BeingFinished(t)
      BY <3>1, <3>4 DEF BeingFinished
    <3>6. \A t \in Tasks : state'[t] = state[t] \/ (t = x /\ state'[t] = "finished")
      BY <3>1 DEF TypeOK
    <3>7. \A t \in Tasks : BeingFinished(t)' \/ state'[t] = "finished" => nfin'[t] = 1
      BY <3>1, <3>2, <3>5, <3>6 DEF EndInv
    <3>8. \A t \in Tasks : Owned(t) => Owned(t)' \/ nfin'[t] = 1  BY <3>1, <3>2, <3>3
    <3>9. \A t \in Tasks : state'[t] = "paused" => state[t] = "paused"  BY <3>6
    <3> QED  BY <3>1, <3>7, <3>8, <3>9, EndMoves
  <2> QED  BY <1>5, <2>1, <2>2, <2>3, <2>4, <2>5, <2>6, <2>7, <2>8 DEF Runner
<1>6. ASSUME UNCHANGED <<pc, main, state, nfin, lost, begun, added>>, main # "store_finished",
             \A u \in Runners : hand'[u] = hand[u],
             \A t \in Tasks : Owned(t)' <=> Owned(t)
      PROVE  EndInv'
  <2>1. \A t \in Tasks : BeingFinished(t)' <=> BeingFinished(t)  BY <1>6 DEF BeingFinished
  <2>2. \A t \in Tasks : BeingFinished(t)' \/ state'[t] = "finished" => nfin'[t] = 1
    BY <1>6, <2>1 DEF EndInv
  <2> QED  BY <1>6, <2>2, EndMoves
<1>7. ASSUME NEW q \in 1..3, ScheduleTake(q) PROVE EndInv'
  <2>1. Take(0, q) /\ main = "schedule"  BY <1>7 DEF ScheduleTake, Take, Pop
  <2>2. \A u \in Runners : hand'[u] = hand[u]  BY <2>1 DEF Take, TypeOK
  <2> QED  BY <1>0, <1>6, <1>7, <2>1, <2>2, TakeLemma DEF ScheduleTake
<1>8. CASE SchedulePut
  <2>1. Put(0, 0) /\ main = "schedule"  BY <1>8 DEF SchedulePut, Put, Push
  <2>2. \A u \in Runners : hand'[u] = hand[u]  BY <2>1 DEF Put, TypeOK
  <2> QED  BY <1>0, <1>6, <1>8, <2>1, <2>2, PutLemma DEF SchedulePut
<1>9. CASE FinishBegin \/ FinishStop \/ FinishJoin \/ DrainNext
  BY <1>1, <1>9 DEF FinishBegin, FinishStop, FinishJoin, DrainNext, Draining
<1>10. CASE DrainTake
  <2>1. Take(0, idx) /\ idx \in Queues /\ main = "draining"
    BY <1>10 DEF DrainTake, Take, Pop, TypeOK
  <2>2. \A u \in Runners : hand'[u] = hand[u]  BY <2>1 DEF Take, TypeOK
  <2> QED  BY <1>0, <1>6, <1>10, <2>1, <2>2, TakeLemma DEF DrainTake
<1>11. CASE DrainTest
  <2>0. PICK x \in Tasks : x = hand[0]  BY <1>11 DEF DrainTest, TypeOK
  <2>1. main = "draining" /\ UNCHANGED <<state, queue, pc, added, begun, lost>>
    BY <1>11 DEF DrainTest
  <2>2. CASE Finishes(state[x])
    <3>1. OnFinish(x) /\ main' = "store_finished" /\ UNCHANGED hand
      BY <1>11, <2>0, <2>2 DEF DrainTest
    <3>2. nfin'[x] = 1  BY <1>0, <3>1, CountedOnce
    <3>3. \A t \in Tasks : t # x => nfin'[t] = nfin[t]  BY <1>0, <3>1, CountedOnce
    <3>4. \A t \in Tasks : Owned(t)' <=> Owned(t)  BY <2>1, <3>1 DEF Owned, InQueue
    <3>5. \A t \in Tasks : BeingFinished(t)' => BeingFinished(t) \/ t = x
      BY <2>0, <2>1, <3>1 DEF BeingFinished
    <3>6. \A t \in Tasks : BeingFinished(t)' \/ state'[t] = "finished" => nfin'[t] = 1
      BY <2>1, <3>2, <3>3, <3>5 DEF EndInv
    <3>7. main' \in Draining  BY <3>1 DEF Draining
    <3> QED  BY <2>1, <3>2, <3>3, <3>4, <3>6, <3>7, EndMoves
  <2>3. CASE ~Finishes(state[x])
    <3>1. Drop(0) /\ UNCHANGED <<nfin, main>>  BY <1>11, <2>0, <2>1, <2>3 DEF DrainTest, Drop
    <3>2. \A t \in Tasks : Owned(t)' <=> Owned(t) /\ t # x  BY <1>0, <2>0, <3>1, DropLemma
    <3>3. \A u \in Runners : hand'[u] = hand[u]  BY <3>1 DEF Drop, TypeOK
    <3>4. \A t \in Tasks : BeingFinished(t)' => BeingFinished(t)
      BY <2>1, <3>1, <3>3 DEF BeingFinished
    <3>5. \A t \in Tasks : BeingFinished(t)' \/ state'[t] = "finished" => nfin'[t] = 1
      BY <2>1, <3>1, <3>4 DEF EndInv
    <3>6. \A r \in Runners : pc[r] # "store_started"  BY <2>1 DEF ShutInv
    <3>7. x \in begun => state[x] # "constructed"  BY <3>6 DEF BegunInv
    <3>8. state[x] \in {"constructed", "paused", "finished"}
      BY <2>3 DEF Finishes, TypeOK, States
    <3>9. nfin[x] = 1 \/ "paused" \in AppCalls \/ x \notin begun  BY <3>7, <3>8 DEF EndInv
    <3>10. main' \in Draining  BY <2>1, <3>1 DEF Draining
    <3>11. \A t \in Tasks : Owned(t) =>
               \/ Owned(t)' \/ nfin'[t] = 1
               \/ main' \in Draining /\ ("paused" \in AppCalls \/ t \notin begun')
      BY <2>1, <3>1, <3>2, <3>9, <3>10
    <3> QED  BY <2>1, <3>1, <3>5, <3>10, <3>11, EndMoves
  <2> QED  BY <2>2, <2>3
<1>12. CASE DrainStore
  <2>0. PICK x \in Tasks : x = hand[0]  BY <1>12 DEF DrainStore, TypeOK
  <2>1. /\ main = "store_finished" /\ main' = "draining"
        /\ UNCHANGED <<queue, pc, added, begun, lost, nfin>>
        /\ state' = [state EXCEPT ![x] = "finished"] /\ Drop(0)
    BY <1>12, <2>0 DEF DrainStore, Drop
  <2>2. nfin[x] = 1  BY <2>0, <2>1 DEF EndInv, BeingFinished
  <2>3. \A t \in Tasks : Owned(t)' <=> Owned(t) /\ t # x  BY <1>0, <2>0, <2>1, DropLemma
  <2>4. \A u \in Runners : hand'[u] = hand[u]  BY <2>1 DEF Drop, TypeOK
  <2>5. \A t \in Tasks : BeingFinished(t)' => BeingFinished(t)  BY <2>1, <2>4 DEF BeingFinished
  <2>6. \A t \in Tasks : state'[t] = state[t] \/ (t = x /\ state'[t] = "finished")
    BY <2>1 DEF TypeOK
  <2>7. \A t \in Tasks : BeingFinished(t)' \/ state'[t] = "finished" => nfin'[t] = 1
    BY <2>1, <2>2, <2>5, <2>6 DEF EndInv
  <2>8. \A t \in Tasks : Owned(t) => Owned(t)' \/ nfin'[t] = 1  BY <2>1, <2>2, <2>3
  <2>9. \A t \in Tasks : state'[t] = "paused" => state[t] = "paused"  BY <2>6
  <2>10. main' \in Draining  BY <2>1 DEF Draining
  <2> QED  BY <2>1, <2>7, <2>8, <2>9, <2>10, EndMoves
<1>13. CASE UNCHANGED vars  BY <1>1, <1>13 DEF vars
<1> QED
  BY <1>3, <1>5, <1>7, <1>8, <1>9, <1>10, <1>11, <1>12, <1>13 DEF Next, Finish

\* The invariant of the life of the tasks.
LifeInv == TypeOK /\ OwnerInv /\ BegunInv /\ ShutInv /\ EndInv

\* It holds when task_scheduler::start() has returned.
LEMMA LifeInit == Init => LifeInv
<1> SUFFICES ASSUME Init PROVE LifeInv
  OBVIOUS
<1>1. TypeOK /\ OwnerInv  BY TypeInit, OwnerInit
<1>2. BegunInv  BY DEF Init, BegunInv, ExecutesOnlyStarted
<1>3. ShutInv  BY DEF Init, ShutInv
<1>4. EndInv
  <2>1. \A t \in Tasks : ~BeingFinished(t)  BY DEF Init, BeingFinished
  <2> QED  BY <2>1 DEF Init, EndInv, NeverForgotten
<1> QED  BY <1>1, <1>2, <1>3, <1>4 DEF LifeInv

\* Every step keeps it.
LEMMA LifeStep == LifeInv /\ [Next]_vars => LifeInv'
<1> SUFFICES ASSUME LifeInv, [Next]_vars PROVE LifeInv'
  OBVIOUS
<1>0. TypeOK /\ OwnerInv /\ BegunInv /\ ShutInv /\ EndInv  BY DEF LifeInv
<1>1. TypeOK'  BY <1>0, TypeStep
<1>2. OwnerInv'  BY <1>0, <1>1, OwnerStep
<1>3. BegunInv'  BY <1>0, <1>1, BegunStep
<1>4. ShutInv'  BY <1>0, <1>1, ShutStep
<1>5. EndInv'  BY <1>0, <1>1, <1>2, EndStep
<1> QED  BY <1>1, <1>2, <1>3, <1>4, <1>5 DEF LifeInv

\* on_execute() runs only on tasks whose on_start() returned true, when nobody calls
\* resume(), for any number of tasks and runners (task::execute, task_runner::run).
THEOREM OnlyStartedExecute == Spec => []ExecutesOnlyStarted
<1>1. LifeInv => ExecutesOnlyStarted  BY DEF LifeInv, BegunInv
<1> QED  BY LifeInit, LifeStep, <1>1, PTL DEF Spec

\* The scheduler keeps every task it was given until it finished it, a callback threw
\* or a start failed, or the shutdown drained the queues (task_runner::run, pass,
\* schedule).
THEOREM NothingForgotten == Spec => []NeverForgotten
<1>1. LifeInv => NeverForgotten  BY DEF LifeInv, EndInv
<1> QED  BY LifeInit, LifeStep, <1>1, PTL DEF Spec

\* When task_scheduler::finish() returns the runners are joined, the wait queues are
\* empty and every task that was begun is finished or was let go, when nobody calls
\* pause().
THEOREM ShutdownComplete == Spec => ShutdownFinishesAll
<1>1. ASSUME LifeInv, [Next]_vars, main # "done", main' = "done"
      PROVE  /\ \A r \in Runners : pc[r] = "exited" /\ hand[r] = NoTask
             /\ \A q \in 1..3 : queue[q] = <<>>
             /\ "paused" \notin AppCalls => \A t \in begun' : nfin'[t] = 1 \/ t \in lost'
  <2>0. TypeOK /\ BegunInv /\ ShutInv /\ EndInv  BY <1>1 DEF LifeInv
  <2>1. DrainNext
    <3>1. \A r \in Runners : ~Runner(r)  BY <1>1, <2>0, OneRunner
    <3>2. \A t \in Tasks : ~App(t)
      BY <1>1 DEF App, Add, CallBegin, CallStore, SetPriority
    <3>3. /\ \A q \in 1..3 : ~ScheduleTake(q)
          /\ ~SchedulePut /\ ~FinishBegin /\ ~FinishStop /\ ~FinishJoin /\ ~DrainTake
          /\ ~DrainTest /\ ~DrainStore
      BY <1>1 DEF ScheduleTake, SchedulePut, FinishBegin, FinishStop, FinishJoin, DrainTake,
                  DrainTest, DrainStore
    <3> QED  BY <1>1, <3>1, <3>2, <3>3 DEF Next, Finish, vars
  <2>2. /\ main = "draining" /\ hand[0] = NoTask /\ queue[idx] = <<>> /\ idx = 3
        /\ UNCHANGED <<begun, nfin, lost>>
    <3>0. /\ main = "draining" /\ hand[0] = NoTask /\ queue[idx] = <<>>
          /\ UNCHANGED <<begun, nfin, lost>>
      BY <2>1 DEF DrainNext
    <3>1. idx \in 0..3  BY <2>0, <3>0 DEF TypeOK, Queues
    <3>2. ~(idx < 3)  BY <1>1, <2>1 DEF DrainNext
    <3>3. idx = 3  BY SMT, <3>1, <3>2
    <3> QED  BY <3>0, <3>3
  <2>3. \A r \in Runners : pc[r] = "exited" /\ hand[r] = NoTask
    BY <2>0, <2>2 DEF ShutInv, TypeOK
  <2>4. \A q \in 1..3 : queue[q] = <<>>
    <3>1. \A q \in 1..3 : q < 3 => queue[q] = <<>>  BY <2>0, <2>2 DEF ShutInv
    <3> QED  BY SMT, <2>2, <3>1
  <2>5. \A t \in begun : ~Owned(t)
    <3> SUFFICES ASSUME NEW t \in begun, Owned(t) PROVE FALSE
      OBVIOUS
    <3>1. t \in Tasks /\ t # NoTask  BY <2>0, TasksAssumption DEF TypeOK
    <3>2. \A h \in Holders : hand[h] # t  BY <2>2, <2>3, <3>1, HolderLemma
    <3>3. PICK q \in Queues : \E i \in 1..Len(queue[q]) : queue[q][i] = t
      BY <3>2 DEF Owned, InQueue
    <3>4. CASE q = 0
      <4>1. 3 > 0  BY SMT
      <4>2. \A i \in 1..Len(queue[0]) : queue[0][i] \notin begun  BY <2>0, <2>2, <4>1 DEF ShutInv
      <4> QED  BY <3>3, <3>4, <4>2
    <3>5. CASE q # 0
      <4>1. queue[q] = <<>>  BY SMT, <2>4, <3>5 DEF Queues
      <4> QED  BY SMT, <3>3, <4>1
    <3> QED  BY <3>4, <3>5
  <2>6. "paused" \notin AppCalls => \A t \in begun' : nfin'[t] = 1 \/ t \in lost'
    BY <2>0, <2>2, <2>5 DEF EndInv
  <2> QED  BY <2>3, <2>4, <2>6
<1>2. LifeInv /\ [Next]_vars =>
        [main # "done" /\ main' = "done" =>
           /\ \A r \in Runners : pc[r] = "exited" /\ hand[r] = NoTask
           /\ \A q \in 1..3 : queue[q] = <<>>
           /\ "paused" \notin AppCalls => \A t \in begun' : nfin'[t] = 1 \/ t \in lost']_vars
  BY <1>1
<1> QED  BY LifeInit, LifeStep, <1>2, PTL DEF Spec, ShutdownFinishesAll

=============================================================================
