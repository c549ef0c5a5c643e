----------------------------- MODULE OrderProofs -----------------------------
(***************************************************************************)
(* Proofs that what is queued goes out in order.  DbService, for any       *)
(* number of runners, any transactions and any keys: transactions of one   *)
(* key are executed in the order they were queued.  TcpSession, for any    *)
(* number of application and io threads and of sends: the bytes leave in   *)
(* order, and a session ends once.                                         *)
(***************************************************************************)
EXTENDS DbService, TcpSession, TLAPS

\* Zenon proves what needs no arithmetic; the other leaves say SMT.
USE Zenon

(***************************************************************************)
(* The transactions of db_service.                                         *)
(***************************************************************************)

(* x was queued before y, in the history p; x was queued. *)
Before(p, x, y) == \E m, n \in 1 .. Len(p) : m < n /\ p[m] = x /\ p[n] = y
In(p, x) == \E m \in 1 .. Len(p) : p[m] = x

States == {"new", "chosen", "wild", "queued", "running", "answered", "logged"}

Types ==
    /\ stop \in [Runners -> BOOLEAN]
    /\ thread \in [Runners -> {"none", "loop", "check", "complete", "ended"}]
    /\ q \in [Runners -> Seq(Txs)]
    /\ st \in [Txs -> States]
    /\ target \in [Txs -> Runners]
    /\ late \subseteq Txs
    /\ pushed \in Seq(Txs) /\ executed \in Seq(Txs)

(* A transaction goes to the runner of its key, and stays with it. *)
Keyed ==
    \A x \in Txs :
        (st[x] \in {"chosen", "queued", "running"} \/ In(executed, x)) /\ KeyOf[x] > 0
            => target[x] = KeyOf[x] % RunnerCount

(* A queue holds the transactions of its runner in the order of the pushes. *)
QueueSorted ==
    \A r \in Runners :
        /\ \A i \in 1 .. Len(q[r]) : /\ st[q[r][i]] = "queued" /\ target[q[r][i]] = r
                                     /\ In(pushed, q[r][i])
        /\ \A i, j \in 1 .. Len(q[r]) : i < j => /\ q[r][i] # q[r][j]
                                                  /\ Before(pushed, q[r][i], q[r][j])

(* A runner executes one transaction, which was queued before all that wait. *)
RunningFirst ==
    \A x \in Txs : st[x] = "running" =>
        /\ In(pushed, x)
        /\ \A i \in 1 .. Len(q[target[x]]) : Before(pushed, x, q[target[x]][i])
        /\ \A y \in Txs : st[y] = "running" /\ target[y] = target[x] => y = x

(* What was executed was queued before all that the runner still has. *)
ExecutedFirst ==
    \A k \in 1 .. Len(executed) :
        LET x == executed[k]
        IN  /\ st[x] = "answered"
            /\ In(pushed, x)
            /\ \A y \in Txs : st[y] = "running" /\ target[y] = target[x] => Before(pushed, x, y)
            /\ \A i \in 1 .. Len(q[target[x]]) : Before(pushed, x, q[target[x]][i])

ExecutedSorted ==
    \A i, j \in 1 .. Len(executed) : i < j =>
        /\ executed[i] # executed[j]
        /\ target[executed[i]] = target[executed[j]] => Before(pushed, executed[i], executed[j])

(* A thread ends when it was told to stop and has emptied its queue. *)
StoppedEmpty ==
    \A r \in Runners :
        /\ thread[r] \in {"complete", "ended"} => stop[r]
        /\ thread[r] = "ended" => \A i \in 1 .. Len(q[r]) : q[r][i] \in late

BInv ==
    /\ Types /\ Keyed /\ QueueSorted /\ RunningFirst /\ ExecutedFirst /\ ExecutedSorted
    /\ StoppedEmpty

(* Pushing a transaction keeps the order of the earlier ones, and is after  *)
(* them.                                                                    *)
LEMMA PushOrder ==
    ASSUME NEW p \in Seq(Txs), NEW z \in Txs
    PROVE  /\ \A x, y : Before(p, x, y) => Before(Append(p, z), x, y)
           /\ \A x : In(p, x) => In(Append(p, z), x) /\ Before(Append(p, z), x, z)
           /\ In(Append(p, z), z)
<1> DEFINE p2 == Append(p, z)
<1>1. /\ Len(p) \in Nat /\ Len(p2) = Len(p) + 1
      /\ \A m \in 1 .. Len(p) : p2[m] = p[m]
      /\ p2[Len(p) + 1] = z
  BY SMT
<1> HIDE DEF p2
<1>2. ASSUME NEW x, NEW y, Before(p, x, y) PROVE Before(p2, x, y)
  BY SMT, <1>1, <1>2 DEF Before
<1>3. ASSUME NEW x, In(p, x) PROVE In(p2, x) /\ Before(p2, x, z)
  <2>1. PICK m \in 1 .. Len(p) : p[m] = x BY <1>3 DEF In
  <2>2. m \in 1 .. Len(p2) /\ Len(p2) \in 1 .. Len(p2) /\ m < Len(p2) /\ p2[m] = x /\ p2[Len(p2)] = z
    BY SMT, <1>1, <2>1
  <2> QED BY <2>2 DEF In, Before
<1>4. In(p2, z)
  <2>1. Len(p) + 1 \in 1 .. Len(p2) BY SMT, <1>1
  <2> QED BY <1>1, <2>1 DEF In
<1> QED BY <1>2, <1>3, <1>4 DEF p2

(* Before start() nothing is queued. *)
LEMMA ServiceInit == BInit => BInv
<1> SUFFICES ASSUME BInit PROVE BInv OBVIOUS
<1>1. 0 \in Runners BY SMT, RunnerAssumption DEF Runners
<1>2. Types BY SMT, <1>1 DEF BInit, Types, States
<1>3. Len(executed) = 0 /\ \A r \in Runners : Len(q[r]) = 0 BY DEF BInit
<1>4. Keyed BY SMT, <1>3 DEF BInit, Keyed, In
<1>5. QueueSorted BY SMT, <1>3 DEF QueueSorted
<1>6. RunningFirst BY DEF BInit, RunningFirst
<1>7. ExecutedFirst /\ ExecutedSorted BY SMT, <1>3 DEF ExecutedFirst, ExecutedSorted
<1>8. StoppedEmpty BY DEF BInit, StoppedEmpty
<1> QED BY <1>2, <1>4, <1>5, <1>6, <1>7, <1>8 DEF BInv

(* The invariant gives the order of each key. *)
LEMMA ServiceOrder == BInv => TxInOrder
<1> SUFFICES ASSUME BInv PROVE TxInOrder OBVIOUS
<1> USE DEF BInv
<1>0. Len(executed) \in Nat /\ \A i \in 1 .. Len(executed) : executed[i] \in Txs
  BY SMT DEF Types
<1>1. ASSUME NEW i \in 1 .. Len(executed), NEW j \in 1 .. Len(executed), i # j
      PROVE  executed[i] # executed[j]
  <2>1. i < j \/ j < i BY SMT, <1>0, <1>1
  <2> QED BY <2>1 DEF ExecutedSorted
<1>2. ASSUME NEW i \in 1 .. Len(executed), NEW j \in 1 .. Len(executed), i < j,
             KeyOf[executed[i]] = KeyOf[executed[j]], KeyOf[executed[i]] > 0
      PROVE  Before(pushed, executed[i], executed[j])
  <2>1. In(executed, executed[i]) /\ In(executed, executed[j]) BY DEF In
  <2>2. target[executed[i]] = target[executed[j]] BY <1>0, <1>2, <2>1 DEF Keyed
  <2> QED BY <1>2, <2>2 DEF ExecutedSorted
<1>3. \A r \in Runners : thread[r] = "ended" => \A i \in 1 .. Len(q[r]) : q[r][i] \in late
  BY DEF StoppedEmpty
<1> QED BY <1>1, <1>2, <1>3 DEF TxInOrder, Before

(* Steps that move no transaction: those of start() and finish(), of a thread *)
(* that finds its queue empty, and of an answer.                              *)
LEMMA QuietStep ==
    ASSUME BInv, UNCHANGED <<q, st, target, pushed, executed, late>>, Types', StoppedEmpty'
    PROVE  BInv'
BY SMT DEF BInv, Keyed, QueueSorted, RunningFirst, ExecutedFirst, ExecutedSorted

(* Every step of the service and of its runners keeps the invariant. *)
LEMMA ServiceStep == BInv /\ [BNext]_bvars => BInv'
<1> SUFFICES ASSUME BInv, [BNext]_bvars PROVE BInv' OBVIOUS
<1> USE DEF BInv
<1>1. CASE CreateRunners \/ ClearRunners \/ UNCHANGED bvars
  BY <1>1, QuietStep DEF CreateRunners, ClearRunners, bvars, Types, StoppedEmpty
<1>2. ASSUME NEW r \in Runners, NEW ok \in BOOLEAN, StartRunner(r, ok) PROVE BInv'
  <2>1. UNCHANGED <<q, st, target, pushed, executed, late>> BY <1>2 DEF StartRunner
  <2>2. Types' BY <1>2 DEF StartRunner, Types
  <2>3. StoppedEmpty' BY <1>2 DEF StartRunner, Types, StoppedEmpty
  <2> QED BY <2>1, <2>2, <2>3, QuietStep
<1>3. ASSUME NEW r \in Runners, StopRunner(r) PROVE BInv'
  <2>1. UNCHANGED <<q, st, target, pushed, executed, late>> BY <1>3 DEF StopRunner
  <2>2. Types' BY <1>3 DEF StopRunner, Types
  <2>3. StoppedEmpty' BY <1>3 DEF StopRunner, Types, StoppedEmpty
  <2> QED BY <2>1, <2>2, <2>3, QuietStep
<1>4. ASSUME NEW r \in Runners, Empty(r) PROVE BInv'
  <2>1. UNCHANGED <<q, st, target, pushed, executed, late, stop>> BY <1>4 DEF Empty
  <2>2. CASE thread[r] \in {"loop", "complete"}
    <3>1. /\ q[r] = <<>>
          /\ thread' = [thread EXCEPT ![r] = IF @ = "loop" THEN "check" ELSE "ended"]
      BY <1>4, <2>2 DEF Empty
    <3>2. Types' BY <2>1, <3>1 DEF Types
    <3>3. StoppedEmpty' BY SMT, <2>1, <2>2, <3>1 DEF Types, StoppedEmpty
    <3> QED BY <2>1, <3>2, <3>3, QuietStep
  <2>3. CASE thread[r] = "check"
    <3>1. thread' = [thread EXCEPT ![r] = IF stop[r] THEN "complete" ELSE "loop"]
      BY <1>4, <2>3 DEF Empty
    <3>2. Types' BY <2>1, <3>1 DEF Types
    <3>3. StoppedEmpty' BY <2>1, <3>1 DEF Types, StoppedEmpty
    <3> QED BY <2>1, <3>2, <3>3, QuietStep
  <2> QED BY <1>4, <2>2, <2>3 DEF Empty
<1>5. ASSUME NEW x \in Txs, OnAnswer(x) PROVE BInv'
  BY <1>5, QuietStep DEF OnAnswer, Types, StoppedEmpty
<1>6. ASSUME NEW x \in Txs, OnTx(x) PROVE BInv'
  <2>1. /\ st[x] = "new"
        /\ \E s \in {"answered", "chosen", "wild"} : st' = [st EXCEPT ![x] = s]
        /\ \E r \in Runners : target' = [target EXCEPT ![x] = r]
        /\ st'[x] = "chosen" /\ KeyOf[x] > 0 => target'[x] = KeyOf[x] % RunnerCount
        /\ UNCHANGED <<stop, thread, q, late, pushed, executed>>
    <3>1. CASE phase \in {"new", "cleared"}
      <4>1. target' = [target EXCEPT ![x] = target[x]] /\ target[x] \in Runners
        BY <1>6, <3>1 DEF OnTx, Types
      <4> QED BY <1>6, <3>1, <4>1 DEF OnTx, Posted, Types
    <3>2. CASE phase \notin {"new", "cleared"}
      BY <1>6, <3>2 DEF OnTx, Types
    <3> QED BY <3>1, <3>2
  <2>2. \A y \in Txs : y # x => st'[y] = st[y] /\ target'[y] = target[y]
    BY <2>1 DEF Types
  <2>3. st'[x] \in {"answered", "chosen", "wild"} BY <2>1 DEF Types
  <2>4. ~In(executed, x) BY <2>1 DEF ExecutedFirst, In
  <2>5. \A r \in Runners : \A i \in 1 .. Len(q[r]) : q[r][i] \in Txs /\ q[r][i] # x
    BY SMT, <2>1 DEF QueueSorted, Types
  <2>6. \A k \in 1 .. Len(executed) : executed[k] \in Txs /\ executed[k] # x
    BY SMT, <2>4 DEF In, Types
  <2>7. Types' BY <2>1 DEF Types, States
  <2>8. Keyed' BY <2>1, <2>2, <2>3, <2>4 DEF Keyed
  <2>9. QueueSorted' BY SMT, <2>1, <2>2, <2>5 DEF QueueSorted
  <2>10. RunningFirst'
    <3>1. \A y \in Txs : st'[y] = "running" => st[y] = "running" /\ target'[y] = target[y] BY <2>2, <2>3
    <3>2. q' = q /\ pushed' = pushed BY <2>1
    <3> QED BY <3>1, <3>2 DEF RunningFirst
  <2>11. ExecutedFirst' BY SMT, <2>1, <2>2, <2>3, <2>6 DEF ExecutedFirst
  <2>12. ExecutedSorted' BY SMT, <2>1, <2>2, <2>6 DEF ExecutedSorted
  <2>13. StoppedEmpty' BY <2>1 DEF StoppedEmpty
  <2> QED BY <2>7, <2>8, <2>9, <2>10, <2>11, <2>12, <2>13
<1>7. ASSUME NEW x \in Txs, Schedule(x) PROVE BInv'
  <2> DEFINE r == target[x]
  <2>1. st[x] = "chosen" /\ r \in Runners /\ UNCHANGED <<stop, thread, target, executed>>
    BY <1>7 DEF Schedule, Types
  <2>2. \E s \in {"wild", "queued"} : st' = [st EXCEPT ![x] = s]
    BY <1>7 DEF Schedule
  <2>3. \A y \in Txs : y # x => st'[y] = st[y]
    BY <2>2 DEF Types
  <2>4. st'[x] \in {"wild", "queued"} BY <2>2 DEF Types
  <2>5. \A k \in 1 .. Len(executed) : executed[k] \in Txs /\ executed[k] # x
    <3>1. \A k \in 1 .. Len(executed) : executed[k] \in Txs BY SMT DEF Types
    <3>2. \A k \in 1 .. Len(executed) : st[executed[k]] = "answered" BY DEF ExecutedFirst
    <3> QED BY <2>1, <3>1, <3>2
  <2>6. \A s \in Runners : \A i \in 1 .. Len(q[s]) : q[s][i] \in Txs /\ q[s][i] # x
    BY SMT, <2>1 DEF QueueSorted, Types
  <2>7. Keyed' BY <2>1, <2>3 DEF Keyed
  <2>8. CASE phase = "cleared"
    <3>1. UNCHANGED <<q, late, pushed>> BY <1>7, <2>8 DEF Schedule
    <3>2. Types' BY <2>1, <2>2, <3>1 DEF Types, States
    <3>3. QueueSorted'
      <4>1. \A s \in Runners : \A i \in 1 .. Len(q[s]) : st'[q[s][i]] = st[q[s][i]] BY <2>3, <2>6
      <4>2. q' = q /\ target' = target /\ pushed' = pushed BY <2>1, <3>1
      <4>3. ASSUME NEW s \in Runners
            PROVE  /\ \A i \in 1 .. Len(q[s]) : /\ st'[q[s][i]] = "queued" /\ target[q[s][i]] = s
                                                /\ In(pushed, q[s][i])
                   /\ \A i, j \in 1 .. Len(q[s]) :
                        i < j => q[s][i] # q[s][j] /\ Before(pushed, q[s][i], q[s][j])
        BY SMT, <4>1 DEF QueueSorted
      <4> QED BY SMT, <4>2, <4>3 DEF QueueSorted
    <3>4. RunningFirst' BY <2>1, <2>3, <2>4, <3>1 DEF RunningFirst
    <3>5. ExecutedFirst' BY SMT, <2>1, <2>3, <2>4, <2>5, <3>1 DEF ExecutedFirst
    <3>6. ExecutedSorted' BY <2>1, <3>1 DEF ExecutedSorted
    <3>7. StoppedEmpty' BY <2>1, <3>1 DEF StoppedEmpty
    <3> QED BY <2>7, <3>2, <3>3, <3>4, <3>5, <3>6, <3>7
  <2>9. CASE phase # "cleared"
    <3>1. /\ st' = [st EXCEPT ![x] = "queued"]
          /\ q' = [q EXCEPT ![r] = Append(@, x)]
          /\ late' = IF stop[r] THEN late \cup {x} ELSE late
          /\ pushed' = Append(pushed, x)
      BY <1>7, <2>9 DEF Schedule
    <3>2. /\ \A y, z : Before(pushed, y, z) => Before(pushed', y, z)
          /\ \A y : In(pushed, y) => In(pushed', y) /\ Before(pushed', y, x)
          /\ In(pushed', x)
      BY <3>1, PushOrder DEF Types
    <3>3. /\ Len(q[r]) \in Nat /\ Len(q'[r]) = Len(q[r]) + 1 /\ q'[r][Len(q[r]) + 1] = x
          /\ \A i \in 1 .. Len(q[r]) : q'[r][i] = q[r][i]
          /\ \A s \in Runners : s # r => q'[s] = q[s]
      BY SMT, <2>1, <3>1 DEF Types
    <3>4. Types' BY SMT, <2>1, <3>1 DEF Types, States
    <3>5. st'[x] = "queued" BY <3>1 DEF Types
    <3> HIDE DEF r
    <3>6. \A s \in Runners : \A i \in 1 .. Len(q'[s]) :
              (i \in 1 .. Len(q[s]) /\ q'[s][i] = q[s][i]) \/ (s = r /\ i = Len(q[r]) + 1 /\ q'[s][i] = x)
      BY SMT, <2>1, <3>3
    <3>7. QueueSorted'
      <4>1. ASSUME NEW s \in Runners, NEW i \in 1 .. Len(q'[s])
            PROVE  st'[q'[s][i]] = "queued" /\ target[q'[s][i]] = s /\ In(pushed', q'[s][i])
        <5>1. CASE i \in 1 .. Len(q[s]) /\ q'[s][i] = q[s][i]
          BY SMT, <2>3, <2>6, <3>2, <5>1 DEF QueueSorted
        <5>2. CASE s = r /\ i = Len(q[r]) + 1 /\ q'[s][i] = x
          BY <3>2, <3>5, <5>2 DEF r
        <5> QED BY <3>6, <5>1, <5>2
      <4>2. ASSUME NEW s \in Runners, NEW i \in 1 .. Len(q'[s]), NEW j \in 1 .. Len(q'[s]), i < j
            PROVE  q'[s][i] # q'[s][j] /\ Before(pushed', q'[s][i], q'[s][j])
        <5>1. i \in 1 .. Len(q[s]) /\ q'[s][i] = q[s][i]
          BY SMT, <2>1, <3>3, <3>6, <4>2
        <5>2. CASE j \in 1 .. Len(q[s]) /\ q'[s][j] = q[s][j]
          BY SMT, <3>2, <4>2, <5>1, <5>2 DEF QueueSorted
        <5>3. CASE q'[s][j] = x
          BY SMT, <2>6, <3>2, <5>1, <5>3 DEF QueueSorted
        <5> QED BY <3>6, <5>2, <5>3
      <4> QED BY SMT, <2>1, <4>1, <4>2 DEF QueueSorted
    <3>8. RunningFirst'
      <4> SUFFICES ASSUME NEW y \in Txs, st'[y] = "running"
                   PROVE  /\ In(pushed', y)
                          /\ \A i \in 1 .. Len(q'[target[y]]) : Before(pushed', y, q'[target[y]][i])
                          /\ \A z \in Txs : st'[z] = "running" /\ target[z] = target[y] => z = y
        BY <2>1 DEF RunningFirst
      <4>1. y # x /\ st[y] = "running" /\ target[y] \in Runners BY <2>3, <3>5 DEF Types
      <4>2. In(pushed, y) BY <4>1 DEF RunningFirst
      <4>3. ASSUME NEW i \in 1 .. Len(q'[target[y]]) PROVE Before(pushed', y, q'[target[y]][i])
        <5>1. CASE i \in 1 .. Len(q[target[y]]) /\ q'[target[y]][i] = q[target[y]][i]
          BY <3>2, <4>1, <5>1 DEF RunningFirst
        <5>2. CASE q'[target[y]][i] = x BY <3>2, <4>2, <5>2
        <5> QED BY <3>6, <4>1, <5>1, <5>2
      <4>4. \A z \in Txs : st'[z] = "running" /\ target[z] = target[y] => z = y
        BY <2>3, <3>5, <4>1 DEF RunningFirst
      <4> QED BY <3>2, <4>2, <4>3, <4>4
    <3>9. ExecutedFirst'
      <4> SUFFICES ASSUME NEW k \in 1 .. Len(executed)
                   PROVE  LET y == executed[k]
                          IN  /\ st'[y] = "answered"
                              /\ In(pushed', y)
                              /\ \A z \in Txs : st'[z] = "running" /\ target[z] = target[y]
                                                    => Before(pushed', y, z)
                              /\ \A i \in 1 .. Len(q'[target[y]]) : Before(pushed', y, q'[target[y]][i])
        BY <2>1 DEF ExecutedFirst
      <4> DEFINE y == executed[k]
      <4>1. y \in Txs /\ y # x /\ target[y] \in Runners BY <2>5 DEF Types
      <4>2. st'[y] = "answered" /\ In(pushed, y) BY <2>3, <4>1 DEF ExecutedFirst
      <4>3. \A z \in Txs : st'[z] = "running" /\ target[z] = target[y] => Before(pushed', y, z)
        BY <2>3, <3>2, <3>5 DEF ExecutedFirst
      <4>4. ASSUME NEW i \in 1 .. Len(q'[target[y]]) PROVE Before(pushed', y, q'[target[y]][i])
        <5>1. CASE i \in 1 .. Len(q[target[y]]) /\ q'[target[y]][i] = q[target[y]][i]
          BY <3>2, <5>1 DEF ExecutedFirst
        <5>2. CASE q'[target[y]][i] = x BY <3>2, <4>2, <5>2
        <5> QED BY <3>6, <4>1, <5>1, <5>2
      <4> QED BY <3>2, <4>2, <4>3, <4>4
    <3>10. ExecutedSorted' BY <2>1, <3>2 DEF ExecutedSorted
    <3>11. StoppedEmpty'
      <4> SUFFICES ASSUME NEW s \in Runners, thread[s] = "ended", NEW i \in 1 .. Len(q'[s])
                   PROVE  q'[s][i] \in late'
        BY <2>1 DEF StoppedEmpty
      <4>1. stop[s] BY DEF StoppedEmpty
      <4> QED BY SMT, <3>1, <3>6, <4>1 DEF StoppedEmpty
    <3> QED BY <2>7, <3>4, <3>7, <3>8, <3>9, <3>10, <3>11
  <2> QED BY <2>8, <2>9
<1>8. ASSUME NEW r \in Runners, Pop(r) PROVE BInv'
  <2> DEFINE x == Head(q[r])
  <2>1. /\ thread[r] \in {"loop", "complete"} /\ q[r] # <<>>
        /\ \A y \in Txs : ~(st[y] = "running" /\ target[y] = r)
        /\ st' = [st EXCEPT ![x] = "running"]
        /\ q' = [q EXCEPT ![r] = Tail(@)]
        /\ UNCHANGED <<stop, thread, target, late, pushed, executed>>
    BY <1>8 DEF Pop
  <2>2. /\ Len(q[r]) \in Nat /\ Len(q[r]) > 0 /\ x = q[r][1] /\ x \in Txs
        /\ Len(q'[r]) = Len(q[r]) - 1
        /\ \A i \in 1 .. Len(q'[r]) : i + 1 \in 1 .. Len(q[r]) /\ q'[r][i] = q[r][i + 1]
        /\ \A s \in Runners : s # r => q'[s] = q[s]
    BY SMT, <2>1 DEF Types
  <2> HIDE DEF x
  <2>3. st[x] = "queued" /\ target[x] = r /\ In(pushed, x)
    BY SMT, <2>2 DEF QueueSorted
  <2>4. st'[x] = "running" /\ \A y \in Txs : y # x => st'[y] = st[y]
    BY <2>1, <2>2 DEF Types
  <2>5. \A k \in 1 .. Len(executed) : executed[k] \in Txs /\ executed[k] # x
    <3>1. \A k \in 1 .. Len(executed) : executed[k] \in Txs BY SMT DEF Types
    <3>2. \A k \in 1 .. Len(executed) : st[executed[k]] = "answered" BY DEF ExecutedFirst
    <3> QED BY <2>3, <3>1, <3>2
  <2>6. \A i \in 1 .. Len(q'[r]) : q'[r][i] # x /\ Before(pushed, x, q'[r][i])
    <3> TAKE i \in 1 .. Len(q'[r])
    <3>1. i + 1 \in 1 .. Len(q[r]) /\ 1 \in 1 .. Len(q[r]) /\ 1 < i + 1 BY SMT, <2>2
    <3> QED BY SMT, <2>2, <3>1 DEF QueueSorted
  <2>7. \A s \in Runners : \A i \in 1 .. Len(q'[s]) : \E j \in 1 .. Len(q[s]) : q'[s][i] = q[s][j]
    BY <2>2
  <2>8. Types' BY SMT, <2>1, <2>2 DEF Types, States
  <2>9. Keyed' BY <2>1, <2>3, <2>4 DEF Keyed
  <2>10. QueueSorted'
    <3>1. ASSUME NEW s \in Runners, NEW i \in 1 .. Len(q'[s]), NEW j \in 1 .. Len(q'[s]), i < j
          PROVE  q'[s][i] # q'[s][j] /\ Before(pushed, q'[s][i], q'[s][j])
      <4>1. CASE s = r
        <5>1. i + 1 \in 1 .. Len(q[r]) /\ q'[r][i] = q[r][i + 1] BY <2>2, <4>1
        <5>2. j + 1 \in 1 .. Len(q[r]) /\ q'[r][j] = q[r][j + 1] BY <2>2, <4>1
        <5>3. i + 1 < j + 1
          <6>1. i \in Nat /\ j \in Nat BY SMT, <2>2, <4>1
          <6> QED BY SMT, <3>1, <6>1
        <5>4. q[r][i + 1] # q[r][j + 1] /\ Before(pushed, q[r][i + 1], q[r][j + 1])
          BY <5>1, <5>2, <5>3 DEF QueueSorted
        <5> QED BY <4>1, <5>1, <5>2, <5>4
      <4>2. CASE s # r BY SMT, <2>2, <3>1, <4>2 DEF QueueSorted
      <4> QED BY <4>1, <4>2
    <3>2. ASSUME NEW s \in Runners, NEW i \in 1 .. Len(q'[s])
          PROVE  st'[q'[s][i]] = "queued" /\ target[q'[s][i]] = s /\ In(pushed, q'[s][i])
      <4>1. PICK j \in 1 .. Len(q[s]) : q'[s][i] = q[s][j] BY <2>7
      <4>2. q[s][j] \in Txs BY SMT DEF Types
      <4>3. q'[s][i] # x
        <5>1. CASE s # r BY SMT, <2>3, <4>1, <5>1 DEF QueueSorted
        <5>2. CASE s = r BY <2>6, <5>2
        <5> QED BY <5>1, <5>2
      <4> QED BY SMT, <2>4, <4>1, <4>2, <4>3 DEF QueueSorted
    <3>3. target' = target /\ pushed' = pushed BY <2>1
    <3>4. ASSUME NEW s \in Runners
          PROVE  /\ \A i \in 1 .. Len(q'[s]) : /\ st'[q'[s][i]] = "queued" /\ target[q'[s][i]] = s
                                               /\ In(pushed, q'[s][i])
                 /\ \A i, j \in 1 .. Len(q'[s]) :
                      i < j => q'[s][i] # q'[s][j] /\ Before(pushed, q'[s][i], q'[s][j])
      BY <3>1, <3>2
    <3> QED BY SMT, <3>3, <3>4 DEF QueueSorted
  <2>11. RunningFirst'
    <3> SUFFICES ASSUME NEW y \in Txs, st'[y] = "running"
                 PROVE  /\ In(pushed, y)
                        /\ \A i \in 1 .. Len(q'[target[y]]) : Before(pushed, y, q'[target[y]][i])
                        /\ \A z \in Txs : st'[z] = "running" /\ target[z] = target[y] => z = y
      BY <2>1 DEF RunningFirst
    <3>1. CASE y = x BY <2>1, <2>3, <2>4, <2>6, <3>1
    <3>2. CASE y # x
      <4>1. st[y] = "running" /\ target[y] # r /\ target[y] \in Runners
        BY <2>1, <2>4, <3>2 DEF Types
      <4> QED BY <2>2, <2>3, <2>4, <4>1 DEF RunningFirst
    <3> QED BY <3>1, <3>2
  <2>12. ExecutedFirst'
    <3> SUFFICES ASSUME NEW k \in 1 .. Len(executed)
                 PROVE  LET y == executed[k]
                        IN  /\ st'[y] = "answered"
                            /\ In(pushed, y)
                            /\ \A z \in Txs : st'[z] = "running" /\ target[z] = target[y]
                                                  => Before(pushed, y, z)
                            /\ \A i \in 1 .. Len(q'[target[y]]) : Before(pushed, y, q'[target[y]][i])
      BY <2>1 DEF ExecutedFirst
    <3> DEFINE y == executed[k]
    <3>1. y \in Txs /\ y # x /\ target[y] \in Runners BY <2>5 DEF Types
    <3>2. st'[y] = "answered" /\ In(pushed, y) BY <2>4, <3>1 DEF ExecutedFirst
    <3>3. \A i \in 1 .. Len(q'[target[y]]) : Before(pushed, y, q'[target[y]][i])
      BY <2>7, <3>1 DEF ExecutedFirst
    <3>4. ASSUME NEW z \in Txs, st'[z] = "running", target[z] = target[y] PROVE Before(pushed, y, z)
      <4>1. CASE z = x
        <5>1. 1 \in 1 .. Len(q[target[y]]) /\ x = q[target[y]][1] BY SMT, <2>2, <2>3, <3>4, <4>1
        <5> QED BY <4>1, <5>1 DEF ExecutedFirst
      <4>2. CASE z # x BY <2>4, <3>4, <4>2 DEF ExecutedFirst
      <4> QED BY <4>1, <4>2
    <3> QED BY <3>2, <3>3, <3>4
  <2>13. ExecutedSorted' BY <2>1 DEF ExecutedSorted
  <2>14. StoppedEmpty' BY SMT, <2>1, <2>2 DEF StoppedEmpty
  <2> QED BY <2>8, <2>9, <2>10, <2>11, <2>12, <2>13, <2>14
<1>9. ASSUME NEW x \in Txs, NEW command \in BOOLEAN, ExecuteQuery(x, command) PROVE BInv'
  <2>1. /\ st[x] = "running"
        /\ UNCHANGED <<stop, thread, q, target, late, pushed>>
        /\ \/ st' = [st EXCEPT ![x] = "answered"] /\ executed' = Append(executed, x)
           \/ st' = [st EXCEPT ![x] = "logged"] /\ executed' = executed
    BY <1>9 DEF ExecuteQuery, Posted
  <2>2. \A y \in Txs : y # x => st'[y] = st[y]
    BY <2>1 DEF Types
  <2>3. st'[x] \in {"answered", "logged"} BY <2>1 DEF Types
  <2>4. \A r \in Runners : \A i \in 1 .. Len(q[r]) : q[r][i] \in Txs /\ q[r][i] # x
    BY SMT, <2>1 DEF QueueSorted, Types
  <2>5. \A k \in 1 .. Len(executed) : executed[k] \in Txs /\ executed[k] # x
    <3>1. \A k \in 1 .. Len(executed) : executed[k] \in Txs BY SMT DEF Types
    <3>2. \A k \in 1 .. Len(executed) : st[executed[k]] = "answered" BY DEF ExecutedFirst
    <3> QED BY <2>1, <3>1, <3>2
  <2>6. Len(executed) \in Nat BY SMT DEF Types
  <2>7. \A k \in 1 .. Len(executed') :
            \/ k \in 1 .. Len(executed) /\ executed'[k] = executed[k]
            \/ k = Len(executed) + 1 /\ executed'[k] = x /\ st'[x] = "answered"
    <3>1. CASE st' = [st EXCEPT ![x] = "answered"] /\ executed' = Append(executed, x)
      <4>1. st'[x] = "answered" BY <3>1 DEF Types
      <4>2. /\ Len(executed') = Len(executed) + 1 /\ executed'[Len(executed) + 1] = x
            /\ \A k \in 1 .. Len(executed) : executed'[k] = executed[k]
        BY SMT, <3>1 DEF Types
      <4> QED BY SMT, <2>6, <4>1, <4>2
    <3>2. CASE executed' = executed BY <3>2
    <3> QED BY <2>1, <3>1, <3>2
  <2>8. Types'
    <3>1. st' \in [Txs -> States] BY <2>1 DEF Types, States
    <3>2. executed \in Seq(Txs) /\ Append(executed, x) \in Seq(Txs) BY SMT DEF Types
    <3>3. executed' \in {executed, Append(executed, x)} BY <2>1
    <3>4. executed' \in Seq(Txs) BY <3>2, <3>3
    <3> QED BY <2>1, <3>1, <3>4 DEF Types
  <2>9. Keyed'
    <3>1. \A y \in Txs : In(executed', y) => In(executed, y) \/ y = x
      BY <2>7 DEF In
    <3> QED BY <2>1, <2>2, <2>3, <3>1 DEF Keyed
  <2>10. QueueSorted' BY SMTT(20), <2>1, <2>2, <2>4 DEF QueueSorted
  <2>11. RunningFirst' BY <2>1, <2>2, <2>3 DEF RunningFirst
  <2>12. ExecutedFirst'
    <3> SUFFICES ASSUME NEW k \in 1 .. Len(executed')
                 PROVE  LET y == executed'[k]
                        IN  /\ st'[y] = "answered"
                            /\ In(pushed, y)
                            /\ \A z \in Txs : st'[z] = "running" /\ target[z] = target[y]
                                                  => Before(pushed, y, z)
                            /\ \A i \in 1 .. Len(q[target[y]]) : Before(pushed, y, q[target[y]][i])
      BY <2>1 DEF ExecutedFirst
    <3>1. CASE k \in 1 .. Len(executed) /\ executed'[k] = executed[k]
      BY <2>2, <2>3, <2>5, <3>1 DEF ExecutedFirst
    <3>2. CASE executed'[k] = x /\ st'[x] = "answered"
      BY <2>1, <2>2, <2>3, <3>2 DEF RunningFirst
    <3> QED BY <2>7, <3>1, <3>2
  <2>13. ExecutedSorted'
    <3> SUFFICES ASSUME NEW i \in 1 .. Len(executed'), NEW j \in 1 .. Len(executed'), i < j
                 PROVE  /\ executed'[i] # executed'[j]
                        /\ target[executed'[i]] = target[executed'[j]]
                               => Before(pushed, executed'[i], executed'[j])
      BY <2>1 DEF ExecutedSorted
    <3>1. i \in 1 .. Len(executed) /\ executed'[i] = executed[i]
      BY SMT, <2>6, <2>7
    <3>2. CASE j \in 1 .. Len(executed) /\ executed'[j] = executed[j]
      BY <3>1, <3>2 DEF ExecutedSorted
    <3>3. CASE executed'[j] = x
      BY <2>1, <2>5, <3>1, <3>3 DEF ExecutedFirst
    <3> QED BY <2>7, <3>2, <3>3
  <2>14. StoppedEmpty' BY <2>1 DEF StoppedEmpty
  <2> QED BY <2>8, <2>9, <2>10, <2>11, <2>12, <2>13, <2>14
<1> QED
  BY <1>1, <1>2, <1>3, <1>4, <1>5, <1>6, <1>7, <1>8, <1>9 DEF BNext, Runner

(* The transactions of one key are executed in the order in which they were *)
(* queued, each once, and a thread that ends leaves only what was queued    *)
(* after the runner was told to stop: on_tx, db_runner::schedule and run.   *)
THEOREM TxsInOrder == BSpec => []TxInOrder
BY ServiceInit, ServiceStep, ServiceOrder, PTL DEF BSpec

(***************************************************************************)
(* The stream of tcp_session.                                              *)
(***************************************************************************)

\* what the segments hold that the socket has not taken
Unsent == IF wr = "ok" THEN 0 ELSE Len(segs)

\* The calls of send() are numbered; the buffer has the last of them, the segments
\* those before, and the socket took the first ones: all that is in neither, as
\* long as no write failed.
Numbered ==
    /\ \A i \in 1..Len(wire) : wire[i] = i
    /\ \A i \in 1..Len(segs) : segs[i] = nsent - Len(buf) - Len(segs) + i
    /\ \A i \in 1..Len(buf) : buf[i] = nsent - Len(buf) + i
    /\ Len(wire) + Len(buf) <= nsent
    /\ ~failed => Len(wire) + Unsent + Len(buf) = nsent

\* A write fails only on a socket that is closed or broken, and stays so.
Failing ==
    /\ failed => ~open \/ broken
    /\ wr = "err" => failed

\* Segments are there only for a send that writes.
Held == segs # <<>> => wr # "none" \/ \E t \in Threads : pc[t] = "write"

SendInv == TypeOK /\ OneSend /\ Numbered /\ Failing /\ Held

(***************************************************************************)
(* The chain of receives: begin() starts it, each completion goes on with  *)
(* it, and on_error() of the node ends it.                                 *)
(***************************************************************************)
RecvInv ==
    /\ recving <=> bpc = "read" \/ rd # "none" \/ rpc \in {"on_recv", "read"}
    /\ bpc \in {"setup", "request", "read"} => rd = "none" /\ rpc = "idle" /\ registered
    /\ rd # "none" => rpc = "idle" /\ registered
    /\ rpc \in {"on_recv", "request", "read", "error", "on_error"} => registered
    /\ registered => nerr = 0
    /\ ~registered => nerr = 1 /\ ~open
    /\ rpc = "on_error" => ~open
    /\ destroyed => ~open /\ ~sending /\ ~recving

SessionInv == SendInv /\ RecvInv

-----------------------------------------------------------------------------
\* The length and the elements of what send() appends to.
LEMMA AppendIs ==
    ASSUME NEW s \in Seq(Nat), NEW k \in Nat
    PROVE  /\ Append(s, k) \in Seq(Nat) /\ Len(Append(s, k)) = Len(s) + 1
           /\ \A i \in 1..Len(s) + 1 : Append(s, k)[i] = IF i <= Len(s) THEN s[i] ELSE k
BY SMT

\* The length and the elements of what a write adds to the wire.
LEMMA ConcatIs ==
    ASSUME NEW s \in Seq(Nat), NEW u \in Seq(Nat)
    PROVE  /\ s \o u \in Seq(Nat) /\ Len(s \o u) = Len(s) + Len(u)
           /\ \A i \in 1..Len(s) + Len(u) :
                (s \o u)[i] = IF i <= Len(s) THEN s[i] ELSE u[i - Len(s)]
BY SMT

\* The length and the elements of the part of the segments that a write takes.
LEMMA PrefixIs ==
    ASSUME NEW u \in Seq(Nat), NEW n \in 0..Len(u)
    PROVE  /\ SubSeq(u, 1, n) \in Seq(Nat) /\ Len(SubSeq(u, 1, n)) = n
           /\ \A i \in 1..n : SubSeq(u, 1, n)[i] = u[i]
BY SMT

-----------------------------------------------------------------------------
\* close() shuts the socket, and sets destroyed_ when nothing is outstanding.
LEMMA CloseShuts ==
    ASSUME TypeOK, RecvInv, Close
    PROVE  /\ open' = FALSE /\ destroyed' \in BOOLEAN
           /\ destroyed' => ~sending /\ ~recving
<1>1. CASE destroyed  BY <1>1 DEF TypeOK, RecvInv, Close
<1>2. CASE ~destroyed  BY <1>2 DEF TypeOK, Close
<1>3. QED  BY <1>1, <1>2

\* A step of one thread leaves the others where they are.
LEMMA OneMoves ==
    ASSUME TypeOK, NEW t \in Threads,
           NEW w \in {"idle", "append", "request", "transfer", "write", "clear"},
           pc' = [pc EXCEPT ![t] = w]
    PROVE  /\ pc' \in [Threads -> {"idle", "append", "request", "transfer", "write", "clear"}]
           /\ pc'[t] = w
           /\ \A u \in Threads : u # t => pc'[u] = pc[u]
BY DEF TypeOK

\* A step that leaves what the sends use keeps their invariant, whatever it does to
\* the receives, when it opens no socket and mends none.
LEMMA OtherStep ==
    ASSUME SendInv, UNCHANGED sendVars, UNCHANGED failed,
           open' => open, broken => broken', TypeOK'
    PROVE  SendInv'
<1> USE DEF SendInv, sendVars
<1>1. OneSend'  BY DEF OneSend, Working
<1>2. Numbered'  BY DEF Numbered, Unsent
<1>3. Failing'  BY DEF Failing
<1>4. Held'  BY DEF Held
<1>5. QED  BY <1>1, <1>2, <1>3, <1>4

\* send() and the append change no segment, and the append adds the next number.
LEMMA AppStep ==
    ASSUME SendInv, NEW t \in Threads, Send(t) \/ AppendData(t)
    PROVE  SendInv'
<1> USE DEF SendInv
<1>0. TypeOK /\ OneSend /\ Numbered /\ Failing /\ Held  OBVIOUS
<1>1. /\ pc' \in [Threads -> {"idle", "append", "request", "transfer", "write", "clear"}]
      /\ \A u \in Threads : Working(u)' <=> Working(u)
      /\ \A u \in Threads : pc'[u] = "transfer" => pc[u] = "transfer"
      /\ \A u \in Threads : pc[u] = "write" => pc'[u] = "write"
  <2>1. PICK w \in {"append", "request"} : pc' = [pc EXCEPT ![t] = w]
    BY DEF Send, AppendData
  <2>2. pc[t] \in {"idle", "append"}  BY DEF Send, AppendData
  <2>3. /\ pc' \in [Threads -> {"idle", "append", "request", "transfer", "write", "clear"}]
        /\ pc'[t] = w
        /\ \A u \in Threads : u # t => pc'[u] = pc[u]
    BY <1>0, <2>1, OneMoves
  <2>4. QED  BY <2>2, <2>3 DEF Working
<1>2. UNCHANGED <<open, broken, failed, sending, segs, wr, wire, destroyed, recvVars, refs>>
  BY DEF Send, AppendData, sockVars
<1>3. CASE Send(t)
  <2>1. UNCHANGED <<buf, nsent>>  BY <1>3 DEF Send
  <2>2. TypeOK'  BY <1>0, <1>1, <1>2, <2>1 DEF TypeOK, recvVars
  <2>3. OneSend'  BY <1>0, <1>1, <1>2, <2>1 DEF OneSend
  <2>4. Numbered'  BY <1>0, <1>2, <2>1 DEF Numbered, Unsent
  <2>5. Failing'  BY <1>0, <1>2 DEF Failing
  <2>6. Held'  BY <1>0, <1>1, <1>2 DEF Held
  <2>7. QED  BY <2>2, <2>3, <2>4, <2>5, <2>6
<1>4. CASE AppendData(t)
  <2>1. nsent' = nsent + 1 /\ buf' = Append(buf, nsent + 1)  BY <1>4 DEF AppendData
  <2>2. /\ buf \in Seq(Nat) /\ segs \in Seq(Nat) /\ wire \in Seq(Nat) /\ nsent \in Nat
        /\ Len(segs) \in Nat /\ Len(wire) \in Nat /\ Len(buf) \in Nat
    BY SMT, <1>0 DEF TypeOK
  <2>3. /\ buf' \in Seq(Nat) /\ Len(buf') = Len(buf) + 1
        /\ \A i \in 1..Len(buf) + 1 : buf'[i] = IF i <= Len(buf) THEN buf[i] ELSE nsent + 1
    <3>1. nsent + 1 \in Nat  BY SMT, <2>2
    <3>2. QED  BY SMT, <2>1, <2>2, <3>1, AppendIs
  <2>4. TypeOK'  BY SMT, <1>0, <1>1, <1>2, <2>1, <2>2, <2>3 DEF TypeOK, recvVars
  <2>5. OneSend'
    <3>1. buf' # <<>>  BY SMT, <2>2, <2>3
    <3>2. QED  BY <1>0, <1>1, <1>2, <3>1 DEF OneSend
  <2>6. Numbered'
    <3>1. \A i \in 1..Len(segs') : segs'[i] = nsent' - Len(buf') - Len(segs') + i
      BY SMT, <1>0, <1>2, <2>1, <2>2, <2>3 DEF Numbered
    <3>2. \A i \in 1..Len(buf') : buf'[i] = nsent' - Len(buf') + i
      <4>1. TAKE i \in 1..Len(buf')
      <4>2. i \in 1..Len(buf) + 1  BY <2>3
      <4>3. CASE i <= Len(buf)
        <5>1. buf[i] = nsent - Len(buf) + i  BY SMT, <1>0, <2>2, <4>2, <4>3 DEF Numbered
        <5>2. QED  BY SMT, <2>1, <2>2, <2>3, <4>2, <4>3, <5>1
      <4>4. CASE ~(i <= Len(buf))
        <5>1. i = Len(buf) + 1  BY SMT, <2>2, <4>2, <4>4
        <5>2. QED  BY SMT, <2>1, <2>2, <2>3, <4>2, <4>4, <5>1
      <4>5. QED  BY <4>3, <4>4
    <3>3. Len(wire') + Len(buf') <= nsent'
      BY SMT, <1>0, <1>2, <2>1, <2>2, <2>3 DEF Numbered
    <3>4. ~failed' => Len(wire') + Unsent' + Len(buf') = nsent'
      <4>1. Unsent' = Unsent /\ Unsent \in Nat  BY <1>2, <2>2 DEF Unsent
      <4>2. ~failed => Len(wire) + Unsent + Len(buf) = nsent  BY <1>0 DEF Numbered
      <4>3. Len(wire') + Unsent' + Len(buf') = Len(wire) + Unsent + Len(buf) + 1
        BY SMT, <1>2, <2>2, <2>3, <4>1
      <4>4. QED  BY <1>2, <2>1, <4>2, <4>3
    <3>5. \A i \in 1..Len(wire') : wire'[i] = i  BY <1>0, <1>2 DEF Numbered
    <3>6. QED  BY <3>1, <3>2, <3>3, <3>4, <3>5 DEF Numbered
  <2>7. Failing'  BY <1>0, <1>2 DEF Failing
  <2>8. Held'  BY <1>0, <1>1, <1>2 DEF Held
  <2>9. QED  BY <2>4, <2>5, <2>6, <2>7, <2>8
<1>5. QED  BY <1>3, <1>4

\* A thread that takes sending_ is the only one that has it.
LEMMA RequestStep ==
    ASSUME SendInv, NEW t \in Threads, RequestSend(t)
    PROVE  SendInv'
<1> USE DEF SendInv
<1>0. TypeOK /\ OneSend /\ Numbered /\ Failing /\ Held  OBVIOUS
<1>1. /\ UNCHANGED <<open, broken, failed, destroyed, recvVars, refs, buf, segs, wr, nsent, wire>>
      /\ pc[t] = "request"
  BY DEF RequestSend, sockVars
<1>2. Numbered' /\ Failing'  BY <1>0, <1>1 DEF Numbered, Unsent, Failing
<1>3. CASE sending \/ ~open \/ buf = <<>>
  <2>1. UNCHANGED sending /\ pc' = [pc EXCEPT ![t] = "idle"]  BY <1>3 DEF RequestSend
  <2>2. /\ pc' \in [Threads -> {"idle", "append", "request", "transfer", "write", "clear"}]
        /\ pc'[t] = "idle"
        /\ \A u \in Threads : u # t => pc'[u] = pc[u]
    BY <1>0, <2>1, OneMoves
  <2>3. TypeOK'  BY <1>0, <1>1, <2>1, <2>2 DEF TypeOK, recvVars
  <2>4. \A u \in Threads : Working(u)' <=> Working(u)  BY <1>1, <2>2 DEF Working
  <2>5. OneSend'  BY <1>0, <1>1, <2>1, <2>2, <2>4 DEF OneSend
  <2>6. Held'  BY <1>0, <1>1, <2>2 DEF Held
  <2>7. QED  BY <1>2, <2>3, <2>5, <2>6
<1>4. CASE ~(sending \/ ~open \/ buf = <<>>)
  <2>1. sending' = TRUE /\ pc' = [pc EXCEPT ![t] = "transfer"]  BY <1>4 DEF RequestSend
  <2>2. /\ pc' \in [Threads -> {"idle", "append", "request", "transfer", "write", "clear"}]
        /\ pc'[t] = "transfer"
        /\ \A u \in Threads : u # t => pc'[u] = pc[u]
    BY <1>0, <2>1, OneMoves
  <2>3. TypeOK'  BY <1>0, <1>1, <2>1, <2>2 DEF TypeOK, recvVars
  <2>4. wr = "none" /\ \A u \in Threads : ~Working(u)  BY <1>0, <1>4 DEF OneSend
  <2>5. segs = <<>>
    <3>1. \A u \in Threads : pc[u] # "write"  BY <2>4 DEF Working
    <3>2. QED  BY <1>0, <2>4, <3>1 DEF Held
  <2>6. \A u \in Threads : Working(u)' <=> u = t  BY <2>2, <2>4 DEF Working
  <2>7. \A u \in Threads : pc'[u] = "transfer" => u = t  BY <2>2, <2>4 DEF Working
  <2>8. OneSend'  BY <1>1, <1>4, <2>1, <2>4, <2>5, <2>6 DEF OneSend
  <2>9. Held'  BY <1>1, <2>5 DEF Held
  <2>10. QED  BY <1>2, <2>3, <2>8, <2>9
<1>5. QED  BY <1>3, <1>4

\* The segments take over the buffer, which held the last numbers.
LEMMA TransferStep ==
    ASSUME SendInv, NEW t \in Threads, Transfer(t)
    PROVE  SendInv'
<1> USE DEF SendInv
<1>0. TypeOK /\ OneSend /\ Numbered /\ Failing /\ Held  OBVIOUS
<1>1. /\ UNCHANGED <<open, broken, failed, destroyed, recvVars, refs, sending, wr, nsent, wire>>
      /\ pc[t] = "transfer" /\ segs' = buf /\ buf' = <<>>
      /\ pc' = [pc EXCEPT ![t] = "write"]
  BY DEF Transfer, sockVars
<1>2. /\ pc' \in [Threads -> {"idle", "append", "request", "transfer", "write", "clear"}]
      /\ pc'[t] = "write"
      /\ \A u \in Threads : u # t => pc'[u] = pc[u]
  BY <1>0, <1>1, OneMoves
<1>3. Working(t) /\ wr = "none" /\ segs = <<>>  BY <1>0, <1>1 DEF OneSend, Working
<1>4. \A u \in Threads : Working(u)' <=> Working(u)  BY <1>1, <1>2 DEF Working
<1>5. \A u \in Threads : pc'[u] # "transfer"  BY <1>0, <1>1, <1>2 DEF OneSend, Working
<1>6. TypeOK'
  <2>1. buf' \in Seq(Nat) /\ segs' \in Seq(Nat)  BY SMT, <1>0, <1>1 DEF TypeOK
  <2>2. QED  BY <1>0, <1>1, <1>2, <2>1 DEF TypeOK, recvVars
<1>7. OneSend'  BY <1>0, <1>1, <1>4, <1>5 DEF OneSend
<1>8. Numbered'
  <2>1. /\ buf \in Seq(Nat) /\ wire \in Seq(Nat) /\ nsent \in Nat
        /\ Len(buf) \in Nat /\ Len(wire) \in Nat
        /\ Len(buf') = 0 /\ Len(segs') = Len(buf) /\ Len(segs) = 0
    BY SMT, <1>0, <1>1, <1>3 DEF TypeOK
  <2>2. Unsent = 0 /\ Unsent' = Len(buf)  BY <1>1, <1>3, <2>1 DEF Unsent
  <2>3. \A i \in 1..Len(segs') : segs'[i] = nsent' - Len(buf') - Len(segs') + i
    <3>1. TAKE i \in 1..Len(segs')
    <3>2. i \in Nat /\ i \in 1..Len(buf)  BY SMT, <2>1
    <3>3. buf[i] = nsent - Len(buf) + i  BY <1>0, <3>2 DEF Numbered
    <3>4. segs'[i] = buf[i]  BY <1>1
    <3>5. nsent' - Len(buf') - Len(segs') + i = nsent - Len(buf) + i  BY SMT, <1>1, <2>1, <3>2
    <3>6. QED  BY <3>3, <3>4, <3>5
  <2>4. \A i \in 1..Len(buf') : buf'[i] = nsent' - Len(buf') + i  BY SMT, <2>1
  <2>5. Len(wire') + Len(buf') <= nsent'  BY SMT, <1>0, <1>1, <2>1 DEF Numbered
  <2>6. ~failed' => Len(wire') + Unsent' + Len(buf') = nsent'
    BY SMT, <1>0, <1>1, <2>1, <2>2 DEF Numbered
  <2>7. \A i \in 1..Len(wire') : wire'[i] = i  BY <1>0, <1>1 DEF Numbered
  <2>8. QED  BY <2>3, <2>4, <2>5, <2>6, <2>7 DEF Numbered
<1>9. Failing'  BY <1>0, <1>1 DEF Failing
<1>10. Held'  BY <1>2 DEF Held
<1>11. QED  BY <1>6, <1>7, <1>8, <1>9, <1>10

\* The write is posted for the segments of the one send.
LEMMA AsyncWriteStep ==
    ASSUME SendInv, NEW t \in Threads, AsyncWrite(t)
    PROVE  SendInv'
<1> USE DEF SendInv
<1>0. TypeOK /\ OneSend /\ Numbered /\ Failing /\ Held  OBVIOUS
<1>1. /\ UNCHANGED <<open, broken, failed, destroyed, recvVars, refs, sending, buf, segs, nsent, wire>>
      /\ pc[t] = "write" /\ wr' = "posted"
      /\ pc' = [pc EXCEPT ![t] = "idle"]
  BY DEF AsyncWrite, sockVars
<1>2. /\ pc' \in [Threads -> {"idle", "append", "request", "transfer", "write", "clear"}]
      /\ pc'[t] = "idle"
      /\ \A u \in Threads : u # t => pc'[u] = pc[u]
  BY <1>0, <1>1, OneMoves
<1>3. Working(t) /\ wr = "none" /\ sending  BY <1>0, <1>1 DEF OneSend, Working
<1>4. \A u \in Threads : ~Working(u)'  BY <1>0, <1>2, <1>3 DEF OneSend, Working
<1>5. \A u \in Threads : pc'[u] # "transfer"  BY <1>4 DEF Working
<1>6. TypeOK'  BY <1>0, <1>1, <1>2 DEF TypeOK, recvVars
<1>7. OneSend'  BY <1>1, <1>3, <1>4, <1>5 DEF OneSend
<1>8. Numbered'
  <2>1. Unsent' = Unsent  BY <1>1, <1>3 DEF Unsent
  <2>2. QED  BY <1>0, <1>1, <2>1 DEF Numbered
<1>9. Failing'  BY <1>0, <1>1 DEF Failing
<1>10. Held'  BY <1>1 DEF Held
<1>11. QED  BY <1>6, <1>7, <1>8, <1>9, <1>10

\* A completion takes the send over; when it failed, its segments are lost.
LEMMA CompletedStep ==
    ASSUME SendInv, NEW t \in Threads, SendCompleted(t)
    PROVE  SendInv'
<1> USE DEF SendInv
<1>0. TypeOK /\ OneSend /\ Numbered /\ Failing /\ Held  OBVIOUS
<1>1. /\ UNCHANGED <<open, broken, failed, destroyed, recvVars, refs, sending, buf, nsent, wire>>
      /\ wr \in {"ok", "err"} /\ wr' = "none" /\ segs' = <<>>
      /\ pc' = [pc EXCEPT ![t] = "clear"]
  BY DEF SendCompleted, sockVars
<1>2. /\ pc' \in [Threads -> {"idle", "append", "request", "transfer", "write", "clear"}]
      /\ pc'[t] = "clear"
      /\ \A u \in Threads : u # t => pc'[u] = pc[u]
  BY <1>0, <1>1, OneMoves
<1>3. sending /\ \A u \in Threads : ~Working(u)  BY <1>0, <1>1 DEF OneSend
<1>4. \A u \in Threads : Working(u)' <=> u = t  BY <1>2, <1>3 DEF Working
<1>5. \A u \in Threads : pc'[u] # "transfer"  BY <1>2, <1>3 DEF Working
<1>6. TypeOK'  BY SMT, <1>0, <1>1, <1>2 DEF TypeOK, recvVars
<1>7. OneSend'  BY <1>1, <1>3, <1>4, <1>5 DEF OneSend
<1>8. Numbered'
  <2>1. ~failed => Unsent' = Unsent
    BY <1>0, <1>1 DEF Unsent, Failing
  <2>2. \A i \in 1..Len(segs') : segs'[i] = nsent' - Len(buf') - Len(segs') + i  BY SMT, <1>1
  <2>3. QED  BY <1>0, <1>1, <2>1, <2>2 DEF Numbered
<1>9. Failing'  BY <1>0, <1>1 DEF Failing
<1>10. Held'  BY <1>1 DEF Held
<1>11. QED  BY <1>6, <1>7, <1>8, <1>9, <1>10

\* sending_ is cleared by the thread that has it.
LEMMA ClearStep ==
    ASSUME SendInv, NEW t \in Threads, ClearSending(t)
    PROVE  SendInv'
<1> USE DEF SendInv
<1>0. TypeOK /\ OneSend /\ Numbered /\ Failing /\ Held  OBVIOUS
<1>1. /\ UNCHANGED <<open, broken, failed, destroyed, recvVars, refs, buf, segs, wr, nsent, wire>>
      /\ pc[t] = "clear" /\ sending' = FALSE
      /\ pc' = [pc EXCEPT ![t] = "request"]
  BY DEF ClearSending, sockVars
<1>2. /\ pc' \in [Threads -> {"idle", "append", "request", "transfer", "write", "clear"}]
      /\ pc'[t] = "request"
      /\ \A u \in Threads : u # t => pc'[u] = pc[u]
  BY <1>0, <1>1, OneMoves
<1>3. Working(t) /\ wr = "none"  BY <1>0, <1>1 DEF OneSend, Working
<1>4. \A u \in Threads : ~Working(u)'  BY <1>0, <1>2, <1>3 DEF OneSend, Working
<1>5. \A u \in Threads : pc'[u] # "transfer"  BY <1>4 DEF Working
<1>6. TypeOK'  BY <1>0, <1>1, <1>2 DEF TypeOK, recvVars
<1>7. OneSend'  BY <1>1, <1>3, <1>4, <1>5 DEF OneSend
<1>8. Numbered'  BY <1>0, <1>1 DEF Numbered, Unsent
<1>9. Failing'  BY <1>0, <1>1 DEF Failing
<1>10. Held'
  <2>1. \A u \in Threads : pc[u] # "write"  BY <1>0, <1>1, <1>3 DEF OneSend, Working
  <2>2. segs = <<>>  BY <1>0, <1>3, <2>1 DEF Held
  <2>3. QED  BY <1>1, <2>2 DEF Held
<1>11. QED  BY <1>6, <1>7, <1>8, <1>9, <1>10

\* A write of n segments, all of them when it succeeds, puts the next n numbers on
\* the wire.
LEMMA WriteStep ==
    ASSUME SendInv, WriteEnds
    PROVE  SendInv'
<1> USE DEF SendInv
<1>0. TypeOK /\ OneSend /\ Numbered /\ Failing /\ Held  OBVIOUS
<1>1. /\ UNCHANGED <<open, broken, destroyed, recvVars, refs, sending, buf, segs, pc, nsent>>
      /\ wr = "posted" /\ wr' \in {"ok", "err"}
  BY DEF WriteEnds
<1>2. /\ buf \in Seq(Nat) /\ segs \in Seq(Nat) /\ wire \in Seq(Nat) /\ nsent \in Nat
      /\ Len(segs) \in Nat /\ Len(wire) \in Nat /\ Len(buf) \in Nat /\ failed \in BOOLEAN
      /\ segs = SubSeq(segs, 1, Len(segs))
  BY SMT, <1>0 DEF TypeOK
<1>3. PICK n \in 0..Len(segs) :
        /\ wire' = wire \o SubSeq(segs, 1, n)
        /\ failed => n = 0
        /\ wr' = "ok" => n = Len(segs) /\ failed' = failed /\ ~failed
        /\ wr' = "err" => failed' = TRUE /\ (~open \/ broken)
  <2>1. CASE open /\ ~broken
    <3>1. wr' = "ok" /\ wire' = wire \o segs /\ failed' = failed  BY <2>1 DEF WriteEnds
    <3>2. ~failed  BY <1>0, <2>1 DEF Failing
    <3>3. Len(segs) \in 0..Len(segs)  BY SMT, <1>2
    <3>4. QED  BY <1>2, <3>1, <3>2, <3>3
  <2>2. CASE ~open \/ broken
    <3>1. wr' = "err" /\ failed' = TRUE  BY <2>2 DEF WriteEnds
    <3>2. PICK n \in 0..(IF failed THEN 0 ELSE Len(segs)) : wire' = wire \o SubSeq(segs, 1, n)
      BY <2>2 DEF WriteEnds
    <3>3. n \in 0..Len(segs) /\ (failed => n = 0)  BY SMT, <1>2, <3>2
    <3>4. QED  BY <2>2, <3>1, <3>2, <3>3
  <2>3. QED  BY <2>1, <2>2
<1>4. /\ SubSeq(segs, 1, n) \in Seq(Nat) /\ Len(SubSeq(segs, 1, n)) = n
      /\ \A i \in 1..n : SubSeq(segs, 1, n)[i] = segs[i]
  BY <1>2, PrefixIs
<1>5. /\ wire' \in Seq(Nat) /\ Len(wire') = Len(wire) + n
      /\ \A i \in 1..Len(wire) + n :
            wire'[i] = IF i <= Len(wire) THEN wire[i] ELSE segs[i - Len(wire)]
  <2>1. wire' \in Seq(Nat) /\ Len(wire') = Len(wire) + n
    BY <1>2, <1>3, <1>4, ConcatIs
  <2>2. \A i \in 1..Len(wire) + n :
          wire'[i] = IF i <= Len(wire) THEN wire[i] ELSE SubSeq(segs, 1, n)[i - Len(wire)]
    <3>1. PICK u \in Seq(Nat) : u = SubSeq(segs, 1, n) /\ Len(u) = n  BY <1>4
    <3>2. \A i \in 1..Len(wire) + Len(u) :
            (wire \o u)[i] = IF i <= Len(wire) THEN wire[i] ELSE u[i - Len(wire)]
      BY <1>2, ConcatIs
    <3>3. QED  BY <1>3, <3>1, <3>2
  <2>3. \A i \in 1..Len(wire) + n : ~(i <= Len(wire)) => i - Len(wire) \in 1..n  BY SMT, <1>2
  <2>4. QED  BY <1>4, <2>1, <2>2, <2>3
<1>6. failed' \in BOOLEAN  BY <1>1, <1>2, <1>3
<1>7. TypeOK'  BY <1>0, <1>1, <1>5, <1>6 DEF TypeOK, recvVars
<1>8. OneSend'  BY <1>0, <1>1 DEF OneSend, Working
<1>9. Numbered'
  <2>0. n \in Nat /\ n <= Len(segs)  BY SMT, <1>2
  <2>1. Unsent = Len(segs)  BY <1>1 DEF Unsent
  <2>2. n # 0 => Len(wire) + Len(segs) + Len(buf) = nsent  BY <1>0, <1>3, <2>1 DEF Numbered
  <2>3. \A i \in 1..Len(wire') : wire'[i] = i
    <3>1. TAKE i \in 1..Len(wire')
    <3>2. i \in 1..Len(wire) + n /\ i \in Nat  BY SMT, <1>2, <1>5
    <3>3. CASE i <= Len(wire)
      <4>1. wire[i] = i  BY SMT, <1>0, <1>2, <3>2, <3>3 DEF Numbered
      <4>2. QED  BY <1>5, <3>2, <3>3, <4>1
    <3>4. CASE ~(i <= Len(wire))
      <4>1. PICK j : j = i - Len(wire)  OBVIOUS
      <4>0. j \in 1..Len(segs) /\ j \in Int  BY SMT, <1>2, <3>2, <3>4, <4>1, <2>0
      <4>2. segs[j] = nsent - Len(buf) - Len(segs) + j  BY <1>0, <4>0 DEF Numbered
      <4>3. Len(wire) + Len(segs) + Len(buf) = nsent  BY SMT, <1>2, <2>0, <2>2, <3>2, <3>4
      <4>4. nsent - Len(buf) - Len(segs) + j = i
        <5>1. nsent - Len(buf) - Len(segs) = Len(wire)  BY SMT, <1>2, <4>3
        <5>2. Len(wire) + j = i  BY SMT, <1>2, <3>2, <4>0, <4>1
        <5>3. QED  BY <5>1, <5>2
      <4>5. QED  BY <1>5, <3>2, <3>4, <4>1, <4>2, <4>4
    <3>5. QED  BY <3>3, <3>4
  <2>4. Len(wire') + Len(buf') <= nsent'
    <3>1. CASE n = 0  BY SMT, <1>0, <1>1, <1>2, <1>5, <3>1 DEF Numbered
    <3>2. CASE n # 0
      <4>1. Len(wire) + Len(segs) + Len(buf) = nsent  BY <2>2, <3>2
      <4>2. Len(wire) + n + Len(buf) <= nsent  BY SMT, <1>2, <2>0, <4>1
      <4>3. QED  BY <1>1, <1>5, <4>2
    <3>3. QED  BY <3>1, <3>2
  <2>5. ~failed' => Len(wire') + Unsent' + Len(buf') = nsent'
    <3>1. SUFFICES ASSUME ~failed' PROVE Len(wire') + Unsent' + Len(buf') = nsent'  OBVIOUS
    <3>2. wr' = "ok" /\ n = Len(segs) /\ ~failed  BY <1>1, <1>3, <3>1
    <3>3. Unsent' = 0  BY <3>2 DEF Unsent
    <3>4. Len(wire) + Len(segs) + Len(buf) = nsent  BY <1>0, <2>1, <3>2 DEF Numbered
    <3>5. QED  BY SMT, <1>1, <1>2, <1>5, <3>2, <3>3, <3>4
  <2>6. \A i \in 1..Len(segs') : segs'[i] = nsent' - Len(buf') - Len(segs') + i
    BY <1>0, <1>1 DEF Numbered
  <2>7. \A i \in 1..Len(buf') : buf'[i] = nsent' - Len(buf') + i  BY <1>0, <1>1 DEF Numbered
  <2>8. QED  BY <2>3, <2>4, <2>5, <2>6, <2>7 DEF Numbered
<1>10. Failing'  BY SMT, <1>0, <1>1, <1>3 DEF Failing
<1>11. Held'  BY <1>1 DEF Held
<1>12. QED  BY <1>7, <1>8, <1>9, <1>10, <1>11

-----------------------------------------------------------------------------
\* A step of a send leaves the chain alone, and starts only on an open session.
LEMMA SendsApart ==
    ASSUME RecvInv, UNCHANGED recvVars, UNCHANGED <<open, destroyed>>,
           sending' => sending \/ open
    PROVE  RecvInv'
BY DEF RecvInv, recvVars

\* begin() starts the chain, or throws.
LEMMA BeginKeeps ==
    ASSUME TypeOK, RecvInv, BeginStep
    PROVE  TypeOK' /\ RecvInv'
<1>1. CASE Setup
  <2>1. TypeOK'  BY <1>1 DEF TypeOK, Setup, sockVars, sendVars
  <2>2. RecvInv'  BY <1>1 DEF TypeOK, RecvInv, Setup, sockVars, sendVars
  <2>3. QED  BY <2>1, <2>2
<1>2. CASE SetupThrows
  <2>1. TypeOK'  BY <1>2 DEF TypeOK, SetupThrows, sockVars, sendVars
  <2>2. RecvInv'  BY <1>2 DEF TypeOK, RecvInv, SetupThrows, sockVars, sendVars
  <2>3. QED  BY <2>1, <2>2
<1>3. CASE FirstRecv
  <2>1. TypeOK'  BY <1>3 DEF TypeOK, FirstRecv, sockVars, sendVars
  <2>2. RecvInv'  BY <1>3 DEF TypeOK, RecvInv, FirstRecv, sockVars, sendVars
  <2>3. QED  BY <2>1, <2>2
<1>4. CASE FirstRead
  <2>1. TypeOK'  BY <1>4 DEF TypeOK, FirstRead, sockVars, sendVars
  <2>2. RecvInv'  BY <1>4 DEF TypeOK, RecvInv, FirstRead, sockVars, sendVars
  <2>3. QED  BY <2>1, <2>2
<1>5. CASE NotifyNew
  <2>1. TypeOK'  BY <1>5 DEF TypeOK, NotifyNew, sockVars, sendVars
  <2>2. RecvInv'  BY <1>5 DEF TypeOK, RecvInv, NotifyNew, sockVars, sendVars
  <2>3. QED  BY <2>1, <2>2
<1>6. QED  BY <1>1, <1>2, <1>3, <1>4, <1>5 DEF BeginStep

\* A completion goes on with the chain or ends it, and only the end of it tells the
\* node.
LEMMA ChainKeeps ==
    ASSUME TypeOK, RecvInv, RecvStep \/ ReadData \/ ReadFails
    PROVE  TypeOK' /\ RecvInv'
<1>1. CASE OnRecv
  <2>1. TypeOK'  BY <1>1 DEF TypeOK, OnRecv, sockVars, sendVars
  <2>2. RecvInv'  BY <1>1 DEF TypeOK, RecvInv, OnRecv, sockVars, sendVars
  <2>3. QED  BY <2>1, <2>2
<1>2. CASE RecvHandled
  <2>1. TypeOK'  BY <1>2 DEF TypeOK, RecvHandled, sockVars, sendVars
  <2>2. RecvInv'  BY <1>2 DEF TypeOK, RecvInv, RecvHandled, sockVars, sendVars
  <2>3. QED  BY <2>1, <2>2
<1>3. CASE RecvFailed
  <2>1. TypeOK'  BY <1>3 DEF TypeOK, RecvFailed, sockVars, sendVars
  <2>2. RecvInv'  BY <1>3 DEF TypeOK, RecvInv, RecvFailed, sockVars, sendVars
  <2>3. QED  BY <2>1, <2>2
<1>4. CASE RequestRecv
  <2>1. TypeOK'  BY <1>4 DEF TypeOK, RequestRecv, sockVars, sendVars
  <2>2. RecvInv'  BY <1>4 DEF TypeOK, RecvInv, RequestRecv, sockVars, sendVars
  <2>3. QED  BY <2>1, <2>2
<1>5. CASE AsyncRead
  <2>1. TypeOK'  BY <1>5 DEF TypeOK, AsyncRead, sockVars, sendVars
  <2>2. RecvInv'  BY <1>5 DEF TypeOK, RecvInv, AsyncRead, sockVars, sendVars
  <2>3. QED  BY <2>1, <2>2
<1>6. CASE OnError
  <2>0. nerr' \in Nat  BY SMT, <1>6 DEF TypeOK, OnError
  <2>1. TypeOK'  BY <1>6, <2>0 DEF TypeOK, OnError, sockVars, sendVars
  <2>2. RecvInv'  BY SMT, <1>6 DEF TypeOK, RecvInv, OnError, sockVars, sendVars
  <2>3. QED  BY <2>1, <2>2
<1>7. CASE NotifyDisconnect
  <2>1. TypeOK'  BY <1>7 DEF TypeOK, NotifyDisconnect, sockVars, sendVars
  <2>2. RecvInv'  BY <1>7 DEF TypeOK, RecvInv, NotifyDisconnect, sockVars, sendVars
  <2>3. QED  BY <2>1, <2>2
<1>8. CASE ReadData
  <2>1. TypeOK'  BY <1>8 DEF TypeOK, ReadData, sockVars, sendVars
  <2>2. RecvInv'  BY <1>8 DEF TypeOK, RecvInv, ReadData, sockVars, sendVars
  <2>3. QED  BY <2>1, <2>2
<1>9. CASE ReadFails
  <2>1. TypeOK'  BY <1>9 DEF TypeOK, ReadFails, sockVars, sendVars
  <2>2. RecvInv'  BY <1>9 DEF TypeOK, RecvInv, ReadFails, sockVars, sendVars
  <2>3. QED  BY <2>1, <2>2
<1>10. CASE Error
  <2>1. open' = FALSE /\ destroyed' \in BOOLEAN /\ (destroyed' => ~sending /\ ~recving)
    BY <1>10, CloseShuts DEF Error
  <2>2. TypeOK'  BY <1>10, <2>1 DEF TypeOK, Error, sendVars
  <2>3. RecvInv'  BY <1>10, <2>1 DEF TypeOK, RecvInv, Error, sendVars
  <2>4. QED  BY <2>2, <2>3
<1>11. QED
  BY <1>1, <1>2, <1>3, <1>4, <1>5, <1>6, <1>7, <1>8, <1>9, <1>10 DEF RecvStep

\* disconnect() and the end of the node close the session; the other steps of the
\* application and the network leave it.
LEMMA OutsideKeeps ==
    ASSUME TypeOK, RecvInv,
           \/ \E a \in Apps : Disconnect(a) \/ Get(a) \/ Drop(a)
           \/ NodeFinish \/ PeerGone
    PROVE  /\ TypeOK' /\ RecvInv'
           /\ UNCHANGED <<sendVars, failed>> /\ (open' => open) /\ (broken => broken')
<1>1. CASE (\E a \in Apps : Disconnect(a)) \/ NodeFinish
  <2>1. Close /\ UNCHANGED <<broken, failed, sendVars, recvVars, refs>>
    BY <1>1 DEF Disconnect, NodeFinish
  <2>2. open' = FALSE /\ destroyed' \in BOOLEAN /\ (destroyed' => ~sending /\ ~recving)
    BY <2>1, CloseShuts
  <2>3. TypeOK'  BY ZenonT(30), <2>1, <2>2 DEF TypeOK, sendVars, recvVars
  <2>4. RecvInv'  BY <2>1, <2>2 DEF RecvInv, sendVars, recvVars
  <2>5. QED  BY <2>1, <2>2, <2>3, <2>4
<1>2. CASE \E a \in Apps : Get(a) \/ Drop(a)
  <2>1. UNCHANGED <<sockVars, sendVars, recvVars>>  BY <1>2 DEF Get, Drop
  <2>2. refs' \subseteq Apps  BY <1>2 DEF TypeOK, Get, Drop
  <2>3. TypeOK'  BY <2>1, <2>2 DEF TypeOK, sockVars, sendVars, recvVars
  <2>4. RecvInv'  BY <2>1 DEF RecvInv, sockVars, sendVars, recvVars
  <2>5. QED  BY <2>1, <2>3, <2>4 DEF sockVars
<1>3. CASE PeerGone
  <2>1. broken' = TRUE /\ UNCHANGED <<open, failed, destroyed, sendVars, recvVars, refs>>
    BY <1>3 DEF PeerGone
  <2>2. TypeOK'  BY <2>1 DEF TypeOK, sendVars, recvVars
  <2>3. RecvInv'  BY <2>1 DEF RecvInv, sendVars, recvVars
  <2>4. QED  BY <2>1, <2>2, <2>3
<1>4. QED  BY <1>1, <1>2, <1>3

\* The invariant holds before on_new_socket().
LEMMA SessionStarts == Init => SessionInv
<1> SUFFICES ASSUME Init PROVE SessionInv  OBVIOUS
<1> USE DEF Init
<1>1. TypeOK
  <2>1. {buf, segs, wire} \subseteq Seq(Nat)  BY SMT
  <2>2. pc \in [Threads -> {"idle", "append", "request", "transfer", "write", "clear"}]  OBVIOUS
  <2>3. nsent \in Nat /\ nerr \in Nat  OBVIOUS
  <2>4. QED  BY <2>1, <2>2, <2>3 DEF TypeOK
<1>2. OneSend  BY DEF OneSend, Working
<1>3. Numbered /\ Failing /\ Held  BY SMT DEF Numbered, Unsent, Failing, Held
<1>4. RecvInv  BY DEF RecvInv
<1>5. QED  BY <1>1, <1>2, <1>3, <1>4 DEF SessionInv, SendInv

\* Every step of the session keeps the invariant.
LEMMA SessionStep == SessionInv /\ [Next]_vars => SessionInv'
<1> SUFFICES ASSUME SessionInv, [Next]_vars PROVE SessionInv'  OBVIOUS
<1>0. TypeOK /\ SendInv /\ RecvInv  BY DEF SessionInv, SendInv
<1>1. CASE \E t \in Threads : SendStep(t) \/ SendCompleted(t) \/ Send(t)
  <2>1. PICK t \in Threads : SendStep(t) \/ SendCompleted(t) \/ Send(t)  BY <1>1
  <2>2. SendInv'
    BY <1>0, <2>1, AppStep, RequestStep, TransferStep, AsyncWriteStep, CompletedStep, ClearStep
       DEF SendStep
  <2>3. UNCHANGED recvVars /\ UNCHANGED <<open, destroyed>>
    BY <2>1 DEF SendStep, SendCompleted, Send, AppendData, RequestSend, Transfer, AsyncWrite,
                ClearSending, sockVars
  <2>4. sending' => sending \/ open
    BY <2>1 DEF SendStep, SendCompleted, Send, AppendData, RequestSend, Transfer, AsyncWrite,
                ClearSending
  <2>5. RecvInv'  BY <1>0, <2>3, <2>4, SendsApart
  <2>6. QED  BY <2>2, <2>5 DEF SessionInv
<1>2. CASE WriteEnds
  <2>1. UNCHANGED recvVars /\ UNCHANGED <<open, destroyed, sending>>  BY <1>2 DEF WriteEnds
  <2>2. RecvInv'  BY <1>0, <2>1, SendsApart
  <2>3. QED  BY <1>0, <1>2, <2>2, WriteStep DEF SessionInv
<1>3. CASE BeginStep \/ RecvStep \/ ReadData \/ ReadFails
  <2>1. TypeOK' /\ RecvInv'  BY <1>0, <1>3, BeginKeeps, ChainKeeps
  <2>2. UNCHANGED sendVars /\ UNCHANGED <<failed, broken>>
    BY <1>3 DEF BeginStep, RecvStep, ReadData, ReadFails, Setup, SetupThrows, FirstRecv, FirstRead,
                NotifyNew, OnRecv, RecvHandled, RecvFailed, RequestRecv, AsyncRead, Error, OnError,
                NotifyDisconnect, sockVars
  <2>3. open' => open
    BY <1>0, <1>3, CloseShuts
       DEF BeginStep, RecvStep, ReadData, ReadFails, Setup, SetupThrows, FirstRecv, FirstRead,
           NotifyNew, OnRecv, RecvHandled, RecvFailed, RequestRecv, AsyncRead, Error, OnError,
           NotifyDisconnect, sockVars
  <2>4. SendInv'  BY <1>0, <2>1, <2>2, <2>3, OtherStep
  <2>5. QED  BY <2>1, <2>4 DEF SessionInv
<1>4. CASE \/ \E a \in Apps : Disconnect(a) \/ Get(a) \/ Drop(a)
           \/ NodeFinish \/ PeerGone
  <2>1. /\ TypeOK' /\ RecvInv'
        /\ UNCHANGED <<sendVars, failed>> /\ (open' => open) /\ (broken => broken')
    BY <1>0, <1>4, OutsideKeeps
  <2>2. SendInv'  BY <1>0, <2>1, OtherStep
  <2>3. QED  BY <2>1, <2>2 DEF SessionInv
<1>5. CASE UNCHANGED vars
  <2>1. TypeOK'  BY <1>0, <1>5 DEF TypeOK, vars
  <2>2. SendInv'  BY <1>0, <1>5, <2>1, OtherStep DEF vars, sendVars
  <2>3. RecvInv'  BY <1>0, <1>5, SendsApart DEF vars, recvVars
  <2>4. QED  BY <2>2, <2>3 DEF SessionInv
<1>6. QED  BY <1>1, <1>2, <1>3, <1>4, <1>5 DEF Next, Threads

\* The socket, the segments and the buffer have all numbers, in order, when no write
\* has failed.
LEMMA NumberedInOrder == SendInv => StreamInOrder
<1> SUFFICES ASSUME SendInv PROVE StreamInOrder  OBVIOUS
<1>0. TypeOK /\ OneSend /\ Numbered /\ Failing /\ Held  BY DEF SendInv
<1> DEFINE unsent == IF wr = "ok" THEN <<>> ELSE segs
<1>1. /\ wire \in Seq(Nat) /\ segs \in Seq(Nat) /\ buf \in Seq(Nat) /\ nsent \in Nat
      /\ Len(wire) \in Nat /\ Len(segs) \in Nat /\ Len(buf) \in Nat
  BY SMT, <1>0 DEF TypeOK
<1>2. unsent \in Seq(Nat) /\ Len(unsent) = Unsent /\ Len(unsent) \in Nat
  BY SMT, <1>1 DEF Unsent
<1>3. Len(wire) <= nsent /\ \A i \in 1..Len(wire) : wire[i] = i
  BY SMT, <1>0, <1>1 DEF Numbered
<1>4. ASSUME open, ~broken PROVE wire \o unsent \o buf = [i \in 1..nsent |-> i]
  <2>1. Len(wire) + Len(unsent) + Len(buf) = nsent
    <3>1. ~failed  BY <1>0, <1>4 DEF Failing
    <3>2. QED  BY <1>0, <1>2, <3>1 DEF Numbered
  <2>2. \A i \in 1..Len(unsent) : unsent[i] = Len(wire) + i
    <3>1. CASE wr = "ok"  BY SMT, <3>1
    <3>2. CASE wr # "ok"
      <4>1. TAKE i \in 1..Len(unsent)
      <4>2. segs[i] = nsent - Len(buf) - Len(segs) + i  BY <1>0, <3>2 DEF Numbered
      <4>3. nsent - Len(buf) - Len(segs) = Len(wire)  BY SMT, <1>1, <2>1, <3>2
      <4>4. QED  BY <3>2, <4>2, <4>3
    <3>3. QED  BY <3>1, <3>2
  <2>3. \A i \in 1..Len(buf) : buf[i] = Len(wire) + Len(unsent) + i
    <3>1. nsent - Len(buf) = Len(wire) + Len(unsent)  BY SMT, <1>1, <1>2, <2>1
    <3>2. QED  BY <1>0, <3>1 DEF Numbered
  <2> HIDE DEF unsent
  <2>4. PICK s : s = wire \o unsent  OBVIOUS
  <2>5. s \in Seq(Nat) /\ Len(s) = Len(wire) + Len(unsent) /\ Len(s) \in Nat
    <3>1. /\ wire \o unsent \in Seq(Nat)
          /\ Len(wire \o unsent) = Len(wire) + Len(unsent)
      BY <1>1, <1>2, ConcatIs
    <3>2. QED  BY SMT, <1>1, <1>2, <2>4, <3>1
  <2>6. \A i \in 1..Len(s) : s[i] = i
    <3>1. TAKE i \in 1..Len(s)
    <3>2. s[i] = IF i <= Len(wire) THEN wire[i] ELSE unsent[i - Len(wire)]
      <4>1. \A j \in 1..Len(wire) + Len(unsent) :
              (wire \o unsent)[j] = IF j <= Len(wire) THEN wire[j] ELSE unsent[j - Len(wire)]
        BY <1>1, <1>2, ConcatIs
      <4>2. i \in 1..Len(wire) + Len(unsent)  BY <2>5
      <4>3. QED  BY <2>4, <4>1, <4>2
    <3>3. CASE i <= Len(wire)  BY SMT, <1>1, <1>3, <3>2, <3>3
    <3>4. CASE ~(i <= Len(wire))
      <4>1. i - Len(wire) \in 1..Len(unsent)  BY SMT, <1>1, <1>2, <2>5, <3>4
      <4>2. unsent[i - Len(wire)] = Len(wire) + (i - Len(wire))  BY <2>2, <4>1
      <4>3. QED  BY SMT, <1>1, <3>2, <3>4, <4>2
    <3>5. QED  BY <3>3, <3>4
  <2>7. PICK w : w = s \o buf  OBVIOUS
  <2>8. w \in Seq(Nat) /\ Len(w) = nsent
    <3>1. s \o buf \in Seq(Nat) /\ Len(s \o buf) = Len(s) + Len(buf)  BY <1>1, <2>5, ConcatIs
    <3>2. QED  BY <2>1, <2>5, <2>7, <3>1
  <2>9. \A i \in 1..nsent : w[i] = i
    <3>1. TAKE i \in 1..nsent
    <3>2. w[i] = IF i <= Len(s) THEN s[i] ELSE buf[i - Len(s)]
      <4>1. \A j \in 1..Len(s) + Len(buf) :
              (s \o buf)[j] = IF j <= Len(s) THEN s[j] ELSE buf[j - Len(s)]
        BY <1>1, <2>5, ConcatIs
      <4>2. i \in 1..Len(s) + Len(buf)  BY <2>1, <2>5
      <4>3. QED  BY <2>7, <4>1, <4>2
    <3>3. CASE i <= Len(s)  BY SMT, <2>5, <2>6, <3>2, <3>3
    <3>4. CASE ~(i <= Len(s))
      <4>1. i - Len(s) \in 1..Len(buf)  BY SMT, <1>1, <1>2, <2>1, <2>5, <3>4
      <4>2. buf[i - Len(s)] = Len(s) + (i - Len(s))  BY <2>3, <2>5, <4>1
      <4>3. QED  BY SMT, <2>5, <3>2, <3>4, <4>2
    <3>5. QED  BY <3>3, <3>4
  <2>10. w = [i \in 1..nsent |-> i]  BY SMT, <2>8, <2>9
  <2>11. QED  BY <2>4, <2>7, <2>10
<1>5. QED  BY <1>0, <1>3, <1>4 DEF StreamInOrder

\* The bytes leave in the order in which the calls of send() appended them, for any
\* number of application threads, io threads and sends (request_send() and
\* on_send_completed() of tcp_session).
THEOREM BytesInOrder == Spec => []StreamInOrder
<1>1. SessionInv => StreamInOrder  BY NumberedInOrder DEF SessionInv
<1>2. QED  BY SessionStarts, SessionStep, <1>1, PTL DEF Spec

\* The node hears once that a session ended, the chain of receives always finds its
\* session in the table, and once close() has set destroyed_ nothing is outstanding
\* (error(), close() of tcp_session and tcp_node::on_error()).
THEOREM SessionEndsOnce == Spec => []EndsOnce
<1>1. SessionInv => EndsOnce
  <2> SUFFICES ASSUME SessionInv PROVE EndsOnce  OBVIOUS
  <2>0. TypeOK /\ OneSend /\ Held /\ RecvInv  BY DEF SessionInv, SendInv
  <2>1. rd # "none" \/ rpc \in {"on_recv", "request", "read", "error"} => registered
    BY <2>0 DEF RecvInv
  <2>2. nerr <= 1  BY SMT, <2>0 DEF TypeOK, RecvInv
  <2>3. nerr = 1 => ~recving /\ rd = "none" /\ ~open  BY SMT, <2>0 DEF TypeOK, RecvInv
  <2>4. ASSUME destroyed
        PROVE  ~open /\ ~sending /\ ~recving /\ wr = "none" /\ rd = "none" /\ segs = <<>>
    <3>1. ~open /\ ~sending /\ ~recving /\ rd = "none"  BY <2>0, <2>4 DEF RecvInv
    <3>2. wr = "none" /\ \A t \in Threads : ~Working(t)  BY <2>0, <3>1 DEF OneSend
    <3>3. \A t \in Threads : pc[t] # "write"  BY <3>2 DEF Working
    <3>4. segs = <<>>  BY <2>0, <3>2, <3>3 DEF Held
    <3>5. QED  BY <3>1, <3>2, <3>4
  <2>5. QED  BY <2>1, <2>2, <2>3, <2>4 DEF EndsOnce
<1>2. QED  BY SessionStarts, SessionStep, <1>1, PTL DEF Spec

=============================================================================
