----------------------------- MODULE ServerProofs -----------------------------
(***************************************************************************)
(* Proofs about the parts of a node that several threads call.  The ids of *)
(* actors are unique for every number of threads, every length of the      *)
(* sequence and every behaviour of the clock (ActorIdGenerator).  A name   *)
(* of the directory is given once, for any callers, ids and names,         *)
(* although add() checks it and sets it under different locks              *)
(* (ActorDirectory).  The counter of a connection tells its open           *)
(* transactions and the driver holds their work back until none is open,   *)
(* for any transactions and operations, as long as the counter does not    *)
(* wrap (Transaction).                                                     *)
(***************************************************************************)
EXTENDS ActorIdGenerator, ActorDirectory, Transaction, FiniteSetTheorems, TLAPS

\* Zenon proves what needs no arithmetic; the other leaves say SMT.
USE Zenon

(***************************************************************************)
(* The ids.                                                                *)
(***************************************************************************)
IdTypes ==
    /\ clock \in Int /\ lastMs \in Int /\ seq \in Int
    /\ 0 <= seq /\ seq < SeqEnd
    /\ pc \in [Threads -> {"idle", "read", "sleep"}]
    /\ now \in [Threads -> Int]
    /\ slept \in BOOLEAN /\ setBack \in BOOLEAN /\ asserted \in BOOLEAN

(* The spinlock: one thread at most sleeps with it. *)
OneAsleep ==
    \A t, u \in Threads : pc[t] = "sleep" /\ pc[u] = "sleep" => t = u

(* While the clock was never set back, no time that is remembered is ahead  *)
(* of it, and a thread that has slept finds it beyond the last time.        *)
ClockAhead ==
    ~setBack => /\ ~asserted
                /\ lastMs <= clock
                /\ \A t \in Threads : now[t] <= clock
                /\ \A t \in Threads : pc[t] = "sleep" /\ slept => lastMs < clock

(* Every id given so far is the id of its time and number, and is not later *)
(* than the last time and number: a thread that sleeps has set the number   *)
(* back to zero, but will use a later time.                                 *)
GivenBefore ==
    \A g \in given :
        /\ g.ms \in Int /\ g.seq \in Int
        /\ g.id = Id(g.ms, g.seq)
        /\ g.ms <= lastMs
        /\ g.ms = lastMs => g.seq <= seq \/ \E t \in Threads : pc[t] = "sleep"

(* No two of them have the same time and number. *)
GivenOnce ==
    \A g, h \in given : g.ms = h.ms /\ g.seq = h.seq => g = h

IdInv ==
    /\ IdTypes
    /\ OneAsleep
    /\ ClockAhead
    /\ asserted \/ (GivenBefore /\ GivenOnce)

(* The sequence number after seq_ is zero or the next number: (seq_ + 1) &  *)
(* 0xFF in next().                                                          *)
LEMMA NextSeq ==
    ASSUME NEW n \in Int, 0 <= n, n < SeqEnd, (n + 1) % SeqEnd # 0
    PROVE  (n + 1) % SeqEnd = n + 1 /\ n + 1 < SeqEnd
<1>1. SeqEnd \in Int /\ SeqEnd > 0 BY SMT, IdAssumption
<1>2. CASE n + 1 = SeqEnd BY SMT, <1>1, <1>2
<1>3. CASE n + 1 < SeqEnd BY SMT, <1>1, <1>3
<1> QED BY SMT, <1>1, <1>2, <1>3

(* What an id with a later time and number does to the ids given: it is the *)
(* end of the locked part of next(), and keeps them distinct.               *)
LEMMA GiveKeeps ==
    ASSUME IdTypes, GivenBefore, GivenOnce,
           NEW t \in Threads, NEW ms \in Int, NEW n \in Int,
           0 <= n, n < SeqEnd, Give(t, ms, n),
           \A g \in given : g.ms < ms \/ (g.ms = ms /\ g.seq < n)
    PROVE  GivenBefore' /\ GivenOnce'
<1> DEFINE r == [n |-> Cardinality(given), ms |-> ms, seq |-> n, id |-> Id(ms, n)]
<1>1. given' = given \cup {r} /\ lastMs' = ms /\ seq' = n BY DEF Give
<1>2. r.ms = ms /\ r.seq = n /\ r.id = Id(ms, n) OBVIOUS
<1> HIDE DEF r
<1>3. GivenBefore'
  <2> SUFFICES ASSUME NEW g \in given'
               PROVE  /\ g.ms \in Int /\ g.seq \in Int
                      /\ g.id = Id(g.ms, g.seq)
                      /\ g.ms <= ms
                      /\ g.ms = ms => g.seq <= n
      BY <1>1 DEF GivenBefore, Id
  <2>1. CASE g \in given BY SMT, <2>1 DEF GivenBefore
  <2>2. CASE g = r BY SMT, <1>2, <2>2
  <2> QED BY <1>1, <2>1, <2>2
<1>4. GivenOnce'
  <2> SUFFICES ASSUME NEW g \in given', NEW h \in given',
                      g.ms = h.ms, g.seq = h.seq
               PROVE  g = h
      BY DEF GivenOnce
  <2>1. CASE g \in given /\ h \in given BY <2>1 DEF GivenOnce
  <2>2. CASE g = r /\ h = r BY <2>2
  <2>3. CASE g \in given /\ h = r BY SMT, <1>2, <2>3 DEF GivenBefore
  <2>4. CASE g = r /\ h \in given BY SMT, <1>2, <2>4 DEF GivenBefore
  <2> QED BY <1>1, <2>1, <2>2, <2>3, <2>4
<1> QED BY <1>3, <1>4

(* The state of a generator that has given no id. *)
LEMMA IdInit == Init => IdInv
<1> SUFFICES ASSUME Init PROVE IdInv OBVIOUS
<1>0. 0 \in Int /\ 1 \in Int /\ 0 <= 0 /\ 0 < SeqEnd BY SMT, IdAssumption
<1>1. IdTypes BY <1>0 DEF Init, IdTypes
<1>2. OneAsleep /\ ClockAhead BY SMT DEF Init, OneAsleep, ClockAhead
<1>3. GivenBefore /\ GivenOnce BY DEF Init, GivenBefore, GivenOnce
<1> QED BY <1>1, <1>2, <1>3 DEF IdInv

(* Every step of the clock and of next() preserves the invariant. *)
LEMMA IdStep == IdInv /\ [Next]_vars => IdInv'
<1> SUFFICES ASSUME IdInv, [Next]_vars PROVE IdInv' OBVIOUS
<1> USE DEF IdInv
<1>1. CASE Tick
  <2>0. OneAsleep' BY <1>1 DEF Tick, OneAsleep
  <2>1. IdTypes' BY SMT, <1>1 DEF Tick, IdTypes
  <2>2. ClockAhead' BY SMT, <1>1 DEF Tick, IdTypes, ClockAhead
  <2>3. asserted' \/ (GivenBefore' /\ GivenOnce')
      BY <1>1 DEF Tick, GivenBefore, GivenOnce
  <2> QED BY <2>0, <2>1, <2>2, <2>3
<1>2. CASE SetBack
  <2>0. OneAsleep' BY <1>2 DEF SetBack, OneAsleep
  <2>1. IdTypes' BY SMT, <1>2 DEF SetBack, IdTypes
  <2>2. ClockAhead' BY <1>2 DEF SetBack, ClockAhead
  <2>3. asserted' \/ (GivenBefore' /\ GivenOnce')
      BY <1>2 DEF SetBack, GivenBefore, GivenOnce
  <2> QED BY <2>0, <2>1, <2>2, <2>3
<1>3. ASSUME NEW t \in Threads, Read(t) PROVE IdInv'
  <2>0. OneAsleep' BY <1>3 DEF Read, IdTypes, OneAsleep
  <2>1. IdTypes' BY <1>3 DEF Read, IdTypes
  <2>2. ClockAhead' BY SMT, <1>3 DEF Read, IdTypes, ClockAhead
  <2>3. asserted' \/ (GivenBefore' /\ GivenOnce')
    <3>1. \A u \in Threads : pc[u] = "sleep" => pc'[u] = "sleep"
        BY <1>3 DEF Read, IdTypes
    <3> QED BY <1>3, <3>1 DEF Read, GivenBefore, GivenOnce
  <2> QED BY <2>0, <2>1, <2>2, <2>3
<1>4. ASSUME NEW t \in Threads, Locked(t) PROVE IdInv'
  <2>0. now[t] \in Int BY DEF IdTypes
  <2>1. CASE now[t] < lastMs /\ UNCHANGED <<lastMs, seq, given, slept>>
             /\ pc' = [pc EXCEPT ![t] = "idle"]
    <3>0. OneAsleep' BY <1>4, <2>1 DEF Locked, IdTypes, OneAsleep
    <3>1. IdTypes' BY <1>4, <2>1 DEF Locked, IdTypes
    <3>2. ClockAhead' BY <1>4, <2>1 DEF Locked, IdTypes, ClockAhead
    <3>3. asserted' \/ (GivenBefore' /\ GivenOnce')
        BY <1>4, <2>1 DEF Locked, IdTypes, Asleep, GivenBefore, GivenOnce
    <3> QED BY <3>0, <3>1, <3>2, <3>3
  <2>2. CASE /\ seq' = 0 /\ pc' = [pc EXCEPT ![t] = "sleep"] /\ slept' = FALSE
             /\ UNCHANGED <<lastMs, given>>
    <3>0. OneAsleep' BY <1>4, <2>2 DEF Locked, Asleep, IdTypes, OneAsleep
    <3>1. IdTypes'
      <4>1. seq' \in Int /\ 0 <= seq' /\ seq' < SeqEnd BY SMT, <2>2, IdAssumption
      <4>2. pc' \in [Threads -> {"idle", "read", "sleep"}] BY <2>2 DEF IdTypes
      <4>3. slept' \in BOOLEAN BY <2>2
      <4> QED BY <1>4, <2>2, <4>1, <4>2, <4>3 DEF Locked, IdTypes
    <3>2. ClockAhead' BY <1>4, <2>2 DEF Locked, IdTypes, ClockAhead
    <3>3. pc'[t] = "sleep" BY <2>2 DEF IdTypes
    <3>4. asserted' \/ (GivenBefore' /\ GivenOnce')
        BY <1>4, <2>2, <3>3 DEF Locked, GivenBefore, GivenOnce
    <3> QED BY <3>0, <3>1, <3>2, <3>4
  <2>3. ASSUME NEW n \in Int, 0 <= n, n < SeqEnd, Give(t, now[t], n),
               \/ now[t] = lastMs /\ seq < n
               \/ now[t] > lastMs,
               UNCHANGED slept
        PROVE  IdInv'
    <3>0. OneAsleep' BY <1>4, <2>3 DEF Locked, Give, IdTypes, OneAsleep
    <3>1. IdTypes' BY <1>4, <2>0, <2>3 DEF Locked, Give, IdTypes
    <3>2. ClockAhead'
      <4>1. lastMs' = now[t] BY <2>3 DEF Give
      <4>2. \A u \in Threads : pc'[u] # "sleep"
          BY <1>4, <2>3 DEF Locked, Asleep, Give, IdTypes
      <4>3. UNCHANGED <<clock, now, setBack, asserted>> BY <1>4 DEF Locked
      <4> QED BY <4>1, <4>2, <4>3 DEF ClockAhead
    <3>3. asserted' = asserted BY <1>4 DEF Locked
    <3>4. ASSUME ~asserted PROVE GivenBefore' /\ GivenOnce'
      <4>1. \A g \in given : g.ms < now[t] \/ (g.ms = now[t] /\ g.seq < n)
          BY SMT, <1>4, <2>0, <2>3, <3>4 DEF Locked, Asleep, GivenBefore, IdTypes
      <4> QED BY <2>0, <2>3, <3>4, <4>1, GiveKeeps
    <3> QED BY <3>0, <3>1, <3>2, <3>3, <3>4
  <2>4. CASE now[t] = lastMs /\ (seq + 1) % SeqEnd # 0
             /\ Give(t, now[t], (seq + 1) % SeqEnd) /\ UNCHANGED slept
    <3>1. (seq + 1) % SeqEnd = seq + 1 /\ seq + 1 < SeqEnd
        BY <2>4, NextSeq DEF IdTypes
    <3>2. seq + 1 \in Int /\ 0 <= seq + 1 /\ seq < seq + 1 BY SMT DEF IdTypes
    <3>3. Give(t, now[t], seq + 1) BY <2>4, <3>1
    <3> QED BY <2>3, <2>4, <3>1, <3>2, <3>3
  <2>5. CASE now[t] > lastMs /\ Give(t, now[t], 0) /\ UNCHANGED slept
      BY SMT, <2>3, <2>5, IdAssumption
  <2> QED BY <1>4, <2>1, <2>2, <2>4, <2>5 DEF Locked
<1>5. ASSUME NEW t \in Threads, Wake(t) PROVE IdInv'
  <2>0. OneAsleep' BY <1>5 DEF Wake, Give, IdTypes, OneAsleep
  <2>1. IdTypes' BY <1>5 DEF Wake, Give, IdTypes
  <2>4. setBack' => ClockAhead' BY DEF ClockAhead
  <2>2. ASSUME ~setBack' PROVE ClockAhead'
    <3>1. ~setBack /\ lastMs < clock /\ UNCHANGED <<clock, slept, setBack>>
        BY <1>5, <2>2 DEF Wake, ClockAhead
    <3>2. ~(clock <= lastMs) BY SMT, <3>1 DEF IdTypes
    <3>3. asserted' = asserted BY <1>5, <3>2 DEF Wake
    <3>4. lastMs' = clock /\ now' = [now EXCEPT ![t] = clock]
          /\ pc' = [pc EXCEPT ![t] = "idle"]
        BY <1>5 DEF Wake, Give
    <3>5. \A u \in Threads : now'[u] <= clock
        BY SMT, <3>1, <3>4 DEF ClockAhead, IdTypes
    <3>6. \A u \in Threads : pc'[u] # "sleep"
        BY <1>5, <3>4 DEF Wake, IdTypes, OneAsleep
    <3> QED BY <3>1, <3>3, <3>4, <3>5, <3>6 DEF ClockAhead, IdTypes
  <2>3. ASSUME ~asserted' PROVE GivenBefore' /\ GivenOnce'
    <3>1. ~asserted /\ lastMs < clock BY SMT, <1>5, <2>3 DEF Wake, IdTypes
    <3>2. \A g \in given : g.ms < clock BY SMT, <3>1 DEF GivenBefore, IdTypes
    <3>3. Give(t, clock, seq) BY <1>5 DEF Wake
    <3> QED BY <3>1, <3>2, <3>3, GiveKeeps DEF IdTypes
  <2> QED BY <2>0, <2>1, <2>2, <2>3, <2>4
<1>6. CASE UNCHANGED vars
    BY <1>6 DEF vars, IdTypes, OneAsleep, ClockAhead, GivenBefore, GivenOnce
<1> QED BY <1>1, <1>2, <1>3, <1>4, <1>5, <1>6 DEF Next

(* actor_id_generator::next() gives every id once within the 2^40           *)
(* milliseconds an id can tell apart, for any threads and any clock, as     *)
(* long as its own assertion holds; the assertion holds unless the clock is *)
(* set back.                                                                *)
THEOREM IdsUnique == Spec => []UniqueIds
<1>1. IdInv => UniqueIds
  <2> SUFFICES ASSUME IdInv PROVE UniqueIds OBVIOUS
  <2>1. asserted => setBack BY DEF IdInv, IdTypes, ClockAhead
  <2>2. ASSUME ~asserted, NEW g \in given, NEW h \in given,
               g.id = h.id, g.ms = h.ms
        PROVE  g = h
    <3>1. GivenBefore /\ GivenOnce BY <2>2 DEF IdInv
    <3>2. Id(g.ms, g.seq).seq = Id(h.ms, h.seq).seq BY <2>2, <3>1 DEF GivenBefore
    <3>3. g.seq = h.seq BY <3>2 DEF Id
    <3> QED BY <2>2, <3>1, <3>3 DEF GivenOnce
  <2> QED BY <2>1, <2>2 DEF UniqueIds
<1> QED BY <1>1, IdInit, IdStep, PTL DEF Spec

(***************************************************************************)
(* The names.                                                              *)
(***************************************************************************)
(* What a caller may be doing: the parts of add() and get(name), and del(). *)
Calls ==
    {Idle}
      \cup [op : {"has", "insert"}, id : Ids, name : Names \cup {NoName}]
      \cup [op : {"set"}, id : Ids, name : Names]
      \cup [op : {"find"}, id : Ids \cup {NoId}, name : Names]
      \cup [op : {"erase"}, id : Ids]

DTypes ==
    /\ call \in [Callers -> Calls]
    /\ nameIndex \in [Names -> Ids \cup {NoId}]
    /\ answer \in [Callers -> Ids \cup {NoId}]
    /\ owners \in [Names -> SUBSET Ids]
    /\ calm \in [Names -> Nat]
    /\ actors \subseteq Ids

(* Caller d is past the check of add() for name n. *)
Adding(d, n) == call[d].op \in {"has", "insert", "set"} /\ call[d].name = n

(* A name that was set stays in the index, and whoever is past the check for *)
(* it was there when it was set: nobody passes the check again.              *)
Raced ==
    \A n \in Names : calm[n] > 0 =>
        /\ nameIndex[n] # NoId
        /\ \A d \in Callers : Adding(d, n) => d \in raced

(* get(name) is under way with an id that was set under the name. *)
FindsOwner ==
    \A c \in Callers : call[c].op = "find" /\ call[c].id # NoId => call[c].id \in owners[call[c].name]

DInv == DTypes /\ NameGivenOnce /\ Raced /\ FindsOwner

(* An empty directory: nobody has called it yet. *)
LEMMA DirectoryInit == DInit => DInv
<1> SUFFICES ASSUME DInit PROVE DInv OBVIOUS
<1>1. \A c \in Callers : call[c] = Idle /\ call[c].op = "idle"
  BY DEF DInit, Idle
<1>2. DTypes
  BY DEF DInit, DTypes, Calls
<1>3. NameGivenOnce
  BY SMT DEF DInit, NameGivenOnce
<1>4. Raced
  BY SMT DEF DInit, Raced
<1>5. FindsOwner
  BY <1>1 DEF FindsOwner
<1> QED BY <1>2, <1>3, <1>4, <1>5 DEF DInv

(* What the kind of a call says of it. *)
LEMMA CallTypes ==
    ASSUME DTypes, NEW c \in Callers
    PROVE  /\ call[c].op \in {"has", "insert", "set"} => call[c].id \in Ids
           /\ call[c].op \in {"has", "insert"} => call[c] \in [op : {"has", "insert"}, id : Ids, name : Names \cup {NoName}]
           /\ call[c].op = "set" => call[c].name \in Names /\ call[c].id \in Ids
           /\ call[c].op = "find" => call[c].name \in Names /\ call[c].id \in Ids \cup {NoId}
           /\ call[c].op = "erase" => call[c].id \in Ids
<1>1. call[c] \in Calls BY DEF DTypes
<1> QED BY SMT, <1>1 DEF Calls, Idle

(* Every part of every operation keeps the invariant. *)
LEMMA DirectoryStep == DInv /\ [DNext]_dvars => DInv'
<1> SUFFICES ASSUME DInv, [DNext]_dvars PROVE DInv' OBVIOUS
<1> USE DEF DInv
<1>1. ASSUME NEW c \in Callers, NEW id \in Ids, NEW n \in Names \cup {NoName}, Add(c, id, n)
      PROVE  DInv'
  <2> DEFINE new == [op |-> "has", id |-> id, name |-> n]
  <2>1. call' = [call EXCEPT ![c] = new] /\ raced' = raced \ {c}
        /\ UNCHANGED <<actors, nameIndex, answer, owners, calm>>
        /\ (n # NoName => nameIndex[n] = NoId)
    BY <1>1 DEF Add, Go
  <2>2. new \in Calls /\ new.op = "has" /\ new.name = n
    BY DEF Calls
  <2> HIDE DEF new
  <2>3. \A d \in Callers : call'[d] = IF d = c THEN new ELSE call[d]
    BY <2>1 DEF DTypes
  <2>4. DTypes'
    BY <2>1, <2>2 DEF DTypes
  <2>5. NameGivenOnce'
    BY <2>1 DEF NameGivenOnce
  <2>6. Raced'
    <3> SUFFICES ASSUME NEW m \in Names, calm[m] > 0
                 PROVE  nameIndex[m] # NoId /\ \A d \in Callers : Adding(d, m)' => d \in raced'
      BY <2>1 DEF Raced
    <3>1. nameIndex[m] # NoId BY DEF Raced
    <3>2. m # n BY <2>1, <3>1, NamesAssumption
    <3> QED BY <2>1, <2>2, <2>3, <3>1, <3>2 DEF Raced, Adding
  <2>7. FindsOwner'
    BY <2>1, <2>2, <2>3 DEF FindsOwner
  <2> QED BY <2>4, <2>5, <2>6, <2>7
<1>2. ASSUME NEW c \in Callers, Has(c) PROVE DInv'
  <2> DEFINE new == IF call[c].id \in actors THEN Idle ELSE [call[c] EXCEPT !.op = "insert"]
  <2>1. /\ call' = [call EXCEPT ![c] = new] /\ call[c].op = "has"
        /\ UNCHANGED <<actors, nameIndex, answer, owners, raced, calm>>
    BY <1>2 DEF Has, Go
  <2>2. /\ new \in Calls
        /\ new.op = "idle" \/ (new.op = "insert" /\ new.name = call[c].name)
    BY <2>1, CallTypes DEF Calls, Idle
  <2> HIDE DEF new
  <2>3. \A d \in Callers : call'[d] = IF d = c THEN new ELSE call[d]
    BY <2>1 DEF DTypes
  <2>4. DTypes' BY <2>1, <2>2 DEF DTypes
  <2>5. NameGivenOnce' BY <2>1 DEF NameGivenOnce
  <2>6. Raced' BY <2>1, <2>2, <2>3 DEF Raced, Adding
  <2>7. FindsOwner' BY <2>1, <2>2, <2>3 DEF FindsOwner
  <2> QED BY <2>4, <2>5, <2>6, <2>7
<1>3. ASSUME NEW c \in Callers, Insert(c) PROVE DInv'
  <2> DEFINE new == IF call[c].name = NoName THEN Idle ELSE [call[c] EXCEPT !.op = "set"]
  <2>1. /\ call' = [call EXCEPT ![c] = new] /\ call[c].op = "insert"
        /\ actors' = actors \cup {call[c].id}
        /\ UNCHANGED <<nameIndex, answer, owners, raced, calm>>
    BY <1>3 DEF Insert, Go
  <2>2. /\ new \in Calls
        /\ new.op = "idle" \/ (new.op = "set" /\ new.name = call[c].name)
    BY <2>1, CallTypes DEF Calls, Idle
  <2> HIDE DEF new
  <2>3. \A d \in Callers : call'[d] = IF d = c THEN new ELSE call[d]
    BY <2>1 DEF DTypes
  <2>4. DTypes' BY <2>1, <2>2, CallTypes DEF DTypes
  <2>5. NameGivenOnce' BY <2>1 DEF NameGivenOnce
  <2>6. Raced' BY <2>1, <2>2, <2>3 DEF Raced, Adding
  <2>7. FindsOwner' BY <2>1, <2>2, <2>3 DEF FindsOwner
  <2> QED BY <2>4, <2>5, <2>6, <2>7
<1>4. ASSUME NEW c \in Callers, SetName(c) PROVE DInv'
  <2> DEFINE n == call[c].name
             id == call[c].id
  <2>1. /\ call[c].op = "set"
        /\ call' = [call EXCEPT ![c] = Idle]
        /\ nameIndex' = [nameIndex EXCEPT ![n] = id]
        /\ owners' = [owners EXCEPT ![n] = @ \cup {id}]
        /\ raced' = (raced \cup {d \in Callers \ {c} : Adding(d, n)}) \ {c}
        /\ calm' = IF c \in raced THEN calm ELSE [calm EXCEPT ![n] = @ + 1]
        /\ UNCHANGED <<actors, answer>>
    BY <1>4 DEF SetName, Go, Adding
  <2>2. n \in Names /\ id \in Ids /\ id # NoId
    BY <2>1, CallTypes, IdsAssumption
  <2>3. Adding(c, n)
    BY <2>1 DEF Adding
  <2> HIDE DEF n, id
  <2>4. \A d \in Callers : call'[d] = IF d = c THEN Idle ELSE call[d]
    BY <2>1 DEF DTypes
  <2>5. Idle \in Calls /\ Idle.op = "idle"
    BY DEF Calls, Idle
  <2>6. \A m \in Names : owners[m] \subseteq owners'[m]
    BY <2>1, <2>2 DEF DTypes
  <2>7. DTypes'
    BY SMT, <2>1, <2>2, <2>5 DEF DTypes
  <2>8. NameGivenOnce'
    <3>1. \A m \in Names : nameIndex'[m] # NoId => nameIndex'[m] \in owners'[m]
      BY <2>1, <2>2, <2>6 DEF NameGivenOnce, DTypes
    <3>2. \A m \in Names : calm'[m] <= 1
      <4> TAKE m \in Names
      <4>1. CASE c \in raced \/ m # n
        BY <2>1, <4>1 DEF NameGivenOnce, DTypes
      <4>2. CASE c \notin raced /\ m = n
        <5>1. ~(calm[n] > 0) BY <2>2, <2>3, <4>2 DEF Raced
        <5>2. calm[n] = 0 BY SMT, <2>2, <5>1 DEF DTypes
        <5>3. calm'[n] = 1 BY SMT, <2>1, <2>2, <4>2, <5>2 DEF DTypes
        <5> QED BY SMT, <4>2, <5>3
      <4> QED BY <4>1, <4>2
    <3>3. \A d \in Callers : answer'[d] # NoId => \E m \in Names : answer'[d] \in owners'[m]
      BY <2>1, <2>6 DEF NameGivenOnce
    <3> QED BY <3>1, <3>2, <3>3 DEF NameGivenOnce
  <2>9. Raced'
    <3> SUFFICES ASSUME NEW m \in Names, calm'[m] > 0
                 PROVE  nameIndex'[m] # NoId /\ \A d \in Callers : Adding(d, m)' => d \in raced'
      BY DEF Raced
    <3>1. CASE m = n
      BY <2>1, <2>2, <2>4, <2>5, <3>1 DEF DTypes, Adding
    <3>2. CASE m # n
      <4>1. calm[m] > 0 BY <2>1, <2>2, <3>2 DEF DTypes
      <4> QED BY <2>1, <2>2, <2>4, <2>5, <3>2, <4>1 DEF DTypes, Raced, Adding
    <3> QED BY <3>1, <3>2
  <2>10. FindsOwner'
    <3> SUFFICES ASSUME NEW d \in Callers, call'[d].op = "find", call'[d].id # NoId
                 PROVE  call'[d].id \in owners'[call'[d].name]
      BY DEF FindsOwner
    <3>1. call'[d] = call[d] BY <2>4, <2>5
    <3> QED BY <2>6, <3>1, CallTypes DEF FindsOwner
  <2> QED BY <2>7, <2>8, <2>9, <2>10
<1>5. ASSUME NEW c \in Callers, NEW id \in Ids, Del(c, id) PROVE DInv'
  <2> DEFINE new == [op |-> "erase", id |-> id]
  <2>1. call' = [call EXCEPT ![c] = new] /\ UNCHANGED <<actors, nameIndex, answer, owners, raced, calm>>
    BY <1>5 DEF Del, Go
  <2>2. new \in Calls /\ new.op = "erase"
    BY DEF Calls
  <2> HIDE DEF new
  <2>3. \A d \in Callers : call'[d] = IF d = c THEN new ELSE call[d]
    BY <2>1 DEF DTypes
  <2>4. DTypes' BY <2>1, <2>2 DEF DTypes
  <2>5. NameGivenOnce' BY <2>1 DEF NameGivenOnce
  <2>6. Raced' BY <2>1, <2>2, <2>3 DEF Raced, Adding
  <2>7. FindsOwner' BY <2>1, <2>2, <2>3 DEF FindsOwner
  <2> QED BY <2>4, <2>5, <2>6, <2>7
<1>6. ASSUME NEW c \in Callers, Erase(c) PROVE DInv'
  <2>1. /\ call' = [call EXCEPT ![c] = Idle] /\ actors' \subseteq actors
        /\ UNCHANGED <<nameIndex, answer, owners, raced, calm>>
    BY <1>6 DEF Erase, Go
  <2>2. Idle \in Calls /\ Idle.op = "idle"
    BY DEF Calls, Idle
  <2>3. \A d \in Callers : call'[d] = IF d = c THEN Idle ELSE call[d]
    BY <2>1 DEF DTypes
  <2>4. DTypes' BY <2>1, <2>2 DEF DTypes
  <2>5. NameGivenOnce' BY <2>1 DEF NameGivenOnce
  <2>6. Raced' BY <2>1, <2>2, <2>3 DEF Raced, Adding
  <2>7. FindsOwner' BY <2>1, <2>2, <2>3 DEF FindsOwner
  <2> QED BY <2>4, <2>5, <2>6, <2>7
<1>7. ASSUME NEW c \in Callers, NEW n \in Names, GetName(c, n) PROVE DInv'
  <2> DEFINE new == [op |-> "find", id |-> nameIndex[n], name |-> n]
  <2>1. call' = [call EXCEPT ![c] = new] /\ UNCHANGED <<actors, nameIndex, answer, owners, raced, calm>>
    BY <1>7 DEF GetName, Go
  <2>2. /\ new \in Calls /\ new.op = "find"
        /\ new.id # NoId => new.id \in owners[new.name]
    BY DEF Calls, DTypes, NameGivenOnce
  <2> HIDE DEF new
  <2>3. \A d \in Callers : call'[d] = IF d = c THEN new ELSE call[d]
    BY <2>1 DEF DTypes
  <2>4. DTypes' BY <2>1, <2>2 DEF DTypes
  <2>5. NameGivenOnce' BY <2>1 DEF NameGivenOnce
  <2>6. Raced' BY <2>1, <2>2, <2>3 DEF Raced, Adding
  <2>7. FindsOwner' BY <2>1, <2>2, <2>3 DEF FindsOwner
  <2> QED BY <2>4, <2>5, <2>6, <2>7
<1>8. ASSUME NEW c \in Callers, Find(c) PROVE DInv'
  <2> DEFINE found == IF call[c].id \in actors THEN call[c].id ELSE NoId
  <2>1. /\ call' = [call EXCEPT ![c] = Idle] /\ call[c].op = "find"
        /\ answer' = [answer EXCEPT ![c] = found]
        /\ UNCHANGED <<actors, nameIndex, owners, raced, calm>>
    BY <1>8 DEF Find, Go
  <2>2. Idle \in Calls /\ Idle.op = "idle"
    BY DEF Calls, Idle
  <2>3. found \in Ids \cup {NoId} /\ (found # NoId => \E m \in Names : found \in owners[m])
    BY <2>1, CallTypes DEF FindsOwner
  <2> HIDE DEF found
  <2>4. \A d \in Callers : call'[d] = IF d = c THEN Idle ELSE call[d]
    BY <2>1 DEF DTypes
  <2>5. DTypes' BY <2>1, <2>2, <2>3 DEF DTypes
  <2>6. NameGivenOnce'
    <3>1. \A d \in Callers : answer'[d] # NoId => \E m \in Names : answer'[d] \in owners'[m]
      BY <2>1, <2>3 DEF DTypes, NameGivenOnce
    <3> QED BY <2>1, <3>1 DEF NameGivenOnce
  <2>7. Raced' BY <2>1, <2>2, <2>4 DEF Raced, Adding
  <2>8. FindsOwner' BY SMT, <2>1, <2>2, <2>4 DEF FindsOwner
  <2> QED BY <2>5, <2>6, <2>7, <2>8
<1>9. CASE UNCHANGED dvars
  BY <1>9 DEF dvars, DTypes, NameGivenOnce, Raced, Adding, FindsOwner
<1> QED BY <1>1, <1>2, <1>3, <1>4, <1>5, <1>6, <1>7, <1>8, <1>9 DEF DNext

(* A name leads only to an actor that was added under it, and is given once *)
(* but for adds that overlap: actor_directory::add() checks the name under  *)
(* one lock and sets it under another.                                      *)
THEOREM NamesGivenOnce == DSpec => []NameGivenOnce
<1>1. DInv => NameGivenOnce BY DEF DInv
<1> QED BY DirectoryInit, DirectoryStep, <1>1, PTL DEF DSpec

(***************************************************************************)
(* The transactions.                                                       *)
(***************************************************************************)
(* What the counter holds while k transactions are open. *)
Count(k) == (CountEnd - k) % CountEnd

TTypes ==
    /\ obj \in [Trans -> {"none", "open", "committed", "done", "dropped"}]
    /\ work \in [Ops -> {"none", "pending", "durable", "undone"}]
    /\ crashed \in BOOLEAN /\ reopened \in BOOLEAN

(* A connection that is closed has no work that waits: SQLDisconnect refused. *)
ClosedIsEmpty == connected \/ Pending = {}

TInv == TTypes /\ HeldBack /\ ClosedIsEmpty

(* Counting down from zero and up again: the counter of k transactions. *)
LEMMA Counter ==
    ASSUME NEW k \in Nat, k < CountEnd
    PROVE  /\ Count(k) = IF k = 0 THEN 0 ELSE CountEnd - k
           /\ k + 1 < CountEnd => (Count(k) - 1) % CountEnd = Count(k + 1)
           /\ k > 0 => (Count(k) + 1) % CountEnd = Count(k - 1)
<1> DEFINE C == CountEnd
<1>1. C \in Nat /\ C > 0 BY SMT, CountAssumption
<1>2. \A a \in Nat : a < C => a % C = a BY SMT, <1>1
<1>3. C % C = 0 BY SMT, <1>1
<1>4. (0 - 1) % C = C - 1 BY SMT, <1>1
<1>5. ASSUME NEW j \in Nat, j < C PROVE (C - j) % C = IF j = 0 THEN 0 ELSE C - j
  <2>1. CASE j = 0
    <3>1. C - j = C BY SMT, <1>1, <2>1
    <3> QED BY <1>3, <2>1, <3>1
  <2>2. CASE j > 0
    <3>1. C - j \in Nat /\ C - j < C BY SMT, <1>1, <1>5, <2>2
    <3> QED BY SMT, <1>2, <2>2, <3>1
  <2> QED BY SMT, <2>1, <2>2
<1>6. ASSUME k + 1 < C PROVE (Count(k) - 1) % C = Count(k + 1)
  <2>1. Count(k + 1) = C - (k + 1) BY SMT, <1>5, <1>6 DEF Count
  <2>2. CASE k = 0
    <3>1. Count(k) = 0 BY <1>5, <2>2 DEF Count
    <3> QED BY SMT, <1>1, <1>4, <2>1, <2>2, <3>1
  <2>3. CASE k > 0
    <3>1. Count(k) = C - k BY SMT, <1>5, <2>3 DEF Count
    <3>2. C - k - 1 \in Nat /\ C - k - 1 < C BY SMT, <1>1, <1>6
    <3>3. (C - k - 1) % C = C - k - 1 BY <1>2, <3>2
    <3> QED BY SMT, <1>1, <2>1, <3>1, <3>3
  <2> QED BY SMT, <2>2, <2>3
<1>7. ASSUME k > 0 PROVE (Count(k) + 1) % C = Count(k - 1)
  <2>1. Count(k) = C - k BY SMT, <1>5, <1>7 DEF Count
  <2>2. (C - k) + 1 = C - (k - 1) BY SMT, <1>1
  <2> QED BY <2>1, <2>2 DEF Count
<1> QED BY <1>5, <1>6, <1>7 DEF Count

(* The open transactions are finite in number, and fewer than the counter   *)
(* can hold; the counter is zero exactly when there are none.               *)
LEMMA OpenCount ==
    ASSUME HeldBack
    PROVE  /\ IsFiniteSet(Open) /\ Cardinality(Open) \in Nat /\ Cardinality(Open) < CountEnd
           /\ count = Count(Cardinality(Open))
           /\ count = 0 <=> Open = {}
<1>1. Open \in SUBSET Trans BY DEF Open
<1>2. IsFiniteSet(Open) /\ Cardinality(Open) <= Cardinality(Trans)
  BY <1>1, TransAssumption, FS_Subset
<1>3. Cardinality(Open) \in Nat /\ Cardinality(Trans) \in Nat
  BY <1>2, TransAssumption, FS_CardinalityType
<1>4. Cardinality(Open) < CountEnd BY SMT, <1>2, <1>3, CountAssumption
<1>5. count = Count(Cardinality(Open)) BY DEF HeldBack, Count
<1>6. count = 0 <=> Cardinality(Open) = 0
  BY SMT, <1>3, <1>4, <1>5, Counter, CountAssumption
<1>7. Cardinality(Open) = 0 <=> Open = {} BY <1>2, FS_EmptySet
<1> QED BY <1>2, <1>3, <1>4, <1>5, <1>6, <1>7

(* ref_transaction: one more transaction is open. *)
LEMMA RefCounts ==
    ASSUME HeldBack, NEW t \in Trans, t \notin Open
    PROVE  Ref = Count(Cardinality(Open \cup {t}))
<1>1. Cardinality(Open \cup {t}) = Cardinality(Open) + 1 BY OpenCount, FS_AddElement
<1>2. Open \cup {t} \in SUBSET Trans BY DEF Open
<1>3. Cardinality(Open) + 1 <= Cardinality(Trans)
  BY <1>1, <1>2, TransAssumption, FS_Subset
<1>4. Cardinality(Trans) \in Nat BY TransAssumption, FS_CardinalityType
<1>5. Cardinality(Open) + 1 < CountEnd BY SMT, <1>3, <1>4, OpenCount, CountAssumption
<1> QED BY <1>1, <1>5, OpenCount, Counter DEF Ref

(* unref_transaction: one transaction less is open, and zero says it was the *)
(* last.                                                                     *)
LEMMA UnrefCounts ==
    ASSUME HeldBack, NEW t \in Open
    PROVE  /\ Unref = Count(Cardinality(Open \ {t}))
           /\ Unref = 0 <=> Open = {t}
<1> DEFINE k == Cardinality(Open)
<1>1. Cardinality(Open \ {t}) = k - 1 BY OpenCount, FS_RemoveElement
<1>2. k > 0 BY SMT, OpenCount, FS_EmptySet
<1>3. k \in Nat /\ k < CountEnd BY OpenCount
<1> HIDE DEF k
<1>4. Unref = Count(k - 1) BY <1>2, <1>3, OpenCount, Counter DEF Unref, k
<1>5. k - 1 \in Nat /\ k - 1 < CountEnd BY SMT, <1>2, <1>3, CountAssumption
<1>6. Unref = 0 <=> k - 1 = 0
  <2>1. Count(k - 1) = IF k - 1 = 0 THEN 0 ELSE CountEnd - (k - 1) BY <1>5, Counter
  <2>2. CountEnd - (k - 1) # 0 BY SMT, <1>5, CountAssumption
  <2> QED BY <1>4, <2>1, <2>2
<1>7. IsFiniteSet(Open \ {t}) BY OpenCount, FS_RemoveElement
<1>8. Cardinality(Open \ {t}) = 0 <=> Open \ {t} = {} BY <1>7, FS_EmptySet
<1>9. Open \ {t} = {} <=> Open = {t} OBVIOUS
<1> QED BY <1>1, <1>4, <1>6, <1>8, <1>9

(* Ending the work that waits leaves none that waits, and keeps the rest. *)
LEMMA EndedEnds ==
    ASSUME TTypes, NEW how \in {"durable", "undone"}
    PROVE  /\ Ended(how) \in [Ops -> {"none", "pending", "durable", "undone"}]
           /\ \A o \in Ops : Ended(how)[o] # "pending"
BY DEF TTypes, Ended, Pending

(* A new connection: nothing is open or waits. *)
LEMMA TransactionInit == TInit => TInv
<1> SUFFICES ASSUME TInit PROVE TInv OBVIOUS
<1>1. Open = {} /\ Pending = {} BY DEF TInit, Open, Pending
<1>2. CountEnd \in Nat /\ CountEnd > 0
  BY SMT, CountAssumption, TransAssumption, FS_CardinalityType
<1>3. count = (CountEnd - Cardinality(Open)) % CountEnd
  <2>1. Cardinality(Open) = 0 BY <1>1, FS_EmptySet
  <2>2. CountEnd - 0 = CountEnd /\ CountEnd % CountEnd = 0 BY SMT, <1>2
  <2> QED BY <2>1, <2>2 DEF TInit
<1>4. HeldBack BY <1>1, <1>3 DEF TInit, HeldBack
<1> QED BY <1>1, <1>4 DEF TInit, TInv, TTypes, ClosedIsEmpty

(* What ends work that waits leaves no transaction open, and every step     *)
(* keeps the invariant.                                                     *)
LEMMA TransactionStep ==
    TInv /\ [TNext]_tvars =>
        TInv' /\ \A o \in Ops : work[o] = "pending" /\ work'[o] # "pending" => Open' = {}
<1> DEFINE Late == \A o \in Ops : work[o] = "pending" /\ work'[o] # "pending" => Open' = {}
<1> SUFFICES ASSUME TInv, [TNext]_tvars PROVE TInv' /\ Late OBVIOUS
<1> USE DEF TInv
<1>1. ASSUME Disconnect PROVE TInv' /\ Late
  <2>1. Open' = Open /\ Pending' = Pending BY <1>1 DEF Disconnect, Open, Pending
  <2>2. Pending' = {} BY <1>1, <2>1 DEF Disconnect
  <2> QED BY <1>1, <2>1, <2>2 DEF Disconnect, TTypes, HeldBack, ClosedIsEmpty
<1>2. ASSUME NEW ok \in BOOLEAN, Connect(ok) PROVE TInv' /\ Late
  <2>1. Open' = Open /\ Pending' = Pending BY <1>2 DEF Connect, Open, Pending
  <2>2. Pending' = {} BY <1>2, <2>1 DEF Connect, ClosedIsEmpty
  <2> QED BY <1>2, <2>1, <2>2 DEF Connect, TTypes, HeldBack, ClosedIsEmpty
<1>3. ASSUME NEW t \in Trans, NEW ok \in BOOLEAN, Begin(t, ok) PROVE TInv' /\ Late
  <2>1. Pending' = Pending BY <1>3 DEF Begin, Pending
  <2>2. autocommit' \in BOOLEAN /\ (count = 0 /\ connected => ~autocommit')
        /\ (~(count = 0 /\ connected) => autocommit' = autocommit)
    BY <1>3 DEF Begin, HeldBack
  <2>3. CASE crashed' = TRUE /\ UNCHANGED <<count, obj, reopened>>
    <3>1. Open' = Open BY <2>3 DEF Open
    <3>2. connected' /\ Open' # {} /\ ~reopened' => ~autocommit'
      BY <1>3, <2>2, <2>3, <3>1 DEF Begin, HeldBack
    <3> QED BY <1>3, <2>1, <2>2, <2>3, <3>1, <3>2 DEF Begin, TTypes, HeldBack, ClosedIsEmpty
  <2>4. CASE /\ count' = Ref
             /\ obj' = [obj EXCEPT ![t] = "open"]
             /\ reopened' = (reopened \/ ~connected)
             /\ UNCHANGED crashed
    <3>1. Open' = Open \cup {t} /\ t \notin Open BY <1>3, <2>4 DEF Begin, Open, TTypes
    <3>2. count' = (CountEnd - Cardinality(Open')) % CountEnd
      BY <2>4, <3>1, RefCounts DEF Count
    <3>3. connected' /\ Open' # {} /\ ~reopened' => ~autocommit'
      BY <1>3, <2>2, <2>4, OpenCount DEF Begin, HeldBack
    <3>4. obj'[t] = "open" BY <2>4 DEF TTypes
    <3>5. HeldBack' BY <1>3, <2>2, <3>2, <3>3, <3>4 DEF Begin, HeldBack
    <3>6. TTypes' BY <1>3, <2>4 DEF Begin, TTypes, HeldBack
    <3> QED BY <1>3, <2>1, <3>5, <3>6 DEF Begin, ClosedIsEmpty
  <2> QED BY <1>3, <2>3, <2>4 DEF Begin
<1>4. ASSUME NEW t \in Trans, NEW ok \in BOOLEAN, Commit(t, ok) PROVE TInv' /\ Late
  <2>1. t \in Open /\ Open' = Open \ {t} /\ obj'[t] = "committed"
    BY <1>4 DEF Commit, Open, TTypes
  <2>2. count' = (CountEnd - Cardinality(Open')) % CountEnd
    BY <1>4, <2>1, UnrefCounts DEF Commit, Count
  <2>3. HeldBack' BY <1>4, <2>1, <2>2 DEF Commit, HeldBack
  <2>4. CASE Unref = 0 /\ connected /\ ok
    <3>1. work' = Ended("durable") BY <1>4, <2>4 DEF Commit
    <3>2. Open' = {} BY <2>1, <2>4, UnrefCounts
    <3>3. TTypes' BY <1>4, <3>1, EndedEnds DEF Commit, TTypes
    <3> QED BY <1>4, <2>3, <2>4, <3>2, <3>3 DEF Commit, ClosedIsEmpty
  <2>5. CASE ~(Unref = 0 /\ connected /\ ok)
    <3>1. work' = work /\ Pending' = Pending BY <1>4, <2>5 DEF Commit, Pending
    <3>2. TTypes' BY <1>4, <3>1 DEF Commit, TTypes
    <3> QED BY <1>4, <2>3, <3>1, <3>2 DEF Commit, ClosedIsEmpty
  <2> QED BY <2>4, <2>5
<1>5. ASSUME NEW t \in Trans, Rollback(t) PROVE TInv' /\ Late
  <2>1. Open' = Open /\ Pending' = Pending BY <1>5 DEF Rollback, Open, Pending
  <2> QED BY <1>5, <2>1 DEF Rollback, TTypes, HeldBack, ClosedIsEmpty
<1>6. ASSUME NEW t \in Trans, Destroy(t) PROVE TInv' /\ Late
  <2> DEFINE dropped == obj[t] = "open"
             left == IF dropped THEN Unref ELSE count
             last == left = 0 /\ connected
             undo == marked \/ dropped
  <2>1. /\ obj[t] \in {"open", "committed"}
        /\ obj' = [obj EXCEPT ![t] = IF dropped THEN "dropped" ELSE "done"]
        /\ count' = left
        /\ marked' = (undo /\ ~last)
        /\ work' = IF last THEN Ended(IF undo THEN "undone" ELSE "durable") ELSE work
        /\ autocommit' = (autocommit \/ last)
        /\ reopened' = (reopened /\ Open # {t})
        /\ UNCHANGED <<connected, held, crashed>>
    BY <1>6 DEF Destroy
  <2>2. left = Count(Cardinality(Open')) /\ (left = 0 <=> Open' = {})
        /\ Open' = Open \ {t}
    <3>1. CASE dropped
      <4>1. t \in Open /\ Open' = Open \ {t} BY <2>1, <3>1 DEF Open, TTypes
      <4> QED BY <3>1, <4>1, UnrefCounts
    <3>2. CASE ~dropped
      <4>1. Open' = Open /\ t \notin Open BY <2>1, <3>2 DEF Open, TTypes
      <4> QED BY <3>2, <4>1, OpenCount
    <3> QED BY <3>1, <3>2
  <2> HIDE DEF dropped, left
  <2>3. undo \in BOOLEAN /\ last \in BOOLEAN BY DEF HeldBack, dropped
  <2>4. obj' \in [Trans -> {"none", "open", "committed", "done", "dropped"}]
    BY <2>1 DEF TTypes
  <2>5. connected' /\ Open' # {} /\ ~reopened' => ~autocommit'
    <3> SUFFICES ASSUME connected, Open' # {}, ~reopened' PROVE ~autocommit' BY <2>1
    <3>1. ~last BY <2>2
    <3>2. Open # {} /\ ~reopened BY <2>1, <2>2
    <3> QED BY <2>1, <3>1, <3>2 DEF HeldBack
  <2>6. CASE last
    <3>1. work' \in [Ops -> {"none", "pending", "durable", "undone"}]
          /\ \A o \in Ops : work'[o] # "pending"
      BY <2>1, <2>6, EndedEnds
    <3>2. Pending' = {} BY <3>1 DEF Pending
    <3>3. Open' = {} BY <2>2, <2>6
    <3>4. TTypes' BY <2>1, <2>4, <3>1 DEF TTypes
    <3>5. HeldBack' BY <2>1, <2>2, <2>3, <2>5, <2>6, <3>2 DEF HeldBack, Count
    <3> QED BY <3>2, <3>3, <3>4, <3>5 DEF ClosedIsEmpty
  <2>7. CASE ~last
    <3>1. work' = work /\ Pending' = Pending BY <2>1, <2>7 DEF Pending
    <3>2. connected' => Open' # {} BY <2>1, <2>2, <2>7
    <3>3. connected' => \E u \in Trans : obj'[u] = "open" BY <3>2 DEF Open
    <3>4. TTypes' BY <2>1, <2>4, <3>1 DEF TTypes
    <3>5. HeldBack' BY <2>1, <2>2, <2>3, <2>5, <3>3 DEF HeldBack, Count
    <3> QED BY <2>1, <3>1, <3>4, <3>5 DEF ClosedIsEmpty
  <2> QED BY <2>6, <2>7
<1>7. ASSUME NEW o \in Ops, Execute(o) PROVE TInv' /\ Late
  <2>1. Open' = Open BY <1>7 DEF Execute, Open
  <2>2. TTypes' /\ Late BY <1>7 DEF Execute, TTypes
  <2>3. autocommit => Pending' = Pending BY <1>7 DEF Execute, Pending, TTypes
  <2>4. HeldBack' BY <1>7, <2>1, <2>3 DEF Execute, HeldBack
  <2> QED BY <1>7, <2>2, <2>4 DEF Execute, ClosedIsEmpty
<1>8. CASE UNCHANGED tvars
  <2>1. Open' = Open /\ Pending' = Pending BY <1>8 DEF tvars, Open, Pending
  <2> QED BY <1>8, <2>1 DEF tvars, TTypes, HeldBack, ClosedIsEmpty
<1> QED BY <1>1, <1>2, <1>3, <1>4, <1>5, <1>6, <1>7, <1>8 DEF TNext

(* Work in a transaction is held back by the driver, and takes effect only  *)
(* when the last open transaction of the connection ends, in its commit or  *)
(* in its destructor (transaction.cpp:49, 79).                              *)
THEOREM WorkAtTheEnd == TSpec => EffectAtTheEnd
<1>1. TInv /\ [TNext]_tvars
         => TInv' /\ [/\ HeldBack'
                      /\ \A o \in Ops : work[o] = "pending" /\ work'[o] # "pending"
                                            => Open' = {}]_tvars
  <2> SUFFICES ASSUME TInv, [TNext]_tvars
               PROVE  /\ TInv' /\ HeldBack'
                      /\ \A o \in Ops : work[o] = "pending" /\ work'[o] # "pending"
                                            => Open' = {}
    OBVIOUS
  <2>1. TInv' BY TransactionStep
  <2>2. HeldBack' BY <2>1 DEF TInv
  <2> QED BY <2>1, <2>2, TransactionStep
<1> QED BY TransactionInit, <1>1, PTL DEF TSpec, EffectAtTheEnd
=============================================================================
