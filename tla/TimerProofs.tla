----------------------------- MODULE TimerProofs -----------------------------
(***************************************************************************)
(* The ids of a timer's requests are those of the pool Sequence, for any   *)
(* requests, table of intervals and range of ids; and a request that was   *)
(* cancelled is not run.                                                   *)
(***************************************************************************)
EXTENDS Timer, TLAPS

\* Zenon proves what needs no arithmetic; the other leaves say SMT.
USE Zenon

\* the ids of the requests that exist
Used == {req[r].id : r \in DOMAIN req}

\* The proofs about the pool, of these ids.
P == INSTANCE SequenceProofs WITH
         Begin <- 1, End <- IdEnd, Reserve <- Reserve, current <- current, seqs <- seqs,
         used <- Used, failed <- FALSE

Reqs == [id : 1..(IdEnd - 1), interval : Nat, repeat : BOOLEAN, cancel : BOOLEAN,
         next : Nat, end : Nat]
Slots == [interval : {SlotInterval(a.interval) : a \in Requests}, last : Nat, reqs : SUBSET Nat]
Executors == [pc : {"idle", "slot", "loop", "next", "callback"},
              i : Nat, size : Nat, now : Nat, e : Nat]

Types ==
    /\ tick \in Nat
    /\ runs \in Seq({0, 1, 2})
    /\ slots \in Seq(Slots)
    /\ ex \in Executors
    /\ ex.size <= Len(slots)
    /\ ex.pc # "idle" => ex.i > 0
    /\ ex.pc \in {"loop", "next", "callback"} => ex.i <= ex.size /\ ex.e # None
    /\ ex.pc \in {"idle", "slot"} => ex.e = None

\* The requests that exist are those that are held, and have different ids, which
\* the pool knows as used; an id in reqs_ leads to the request that has it.
Owned ==
    /\ DOMAIN req \subseteq 1..Len(runs)
    /\ \A r \in DOMAIN req : req[r] \in Reqs
    /\ \A r, s \in DOMAIN req : req[r].id = req[s].id => r = s
    /\ DOMAIN req = Held(reqs, slots, ex)
    /\ \A id \in DOMAIN reqs : req[reqs[id]].id = id
    /\ P!Pool(current, seqs, Used)

\* A request that was cancelled says so as long as it exists.
Marked ==
    /\ cancelled \subseteq 1..Len(runs)
    /\ \A r \in DOMAIN req : r \in cancelled => req[r].cancel

TimerInv == Types /\ Owned /\ Marked

\* The steps of the pool that TimerProofs speaks of are those of Timer.
LEMMA SamePool ==
    /\ Ids!Init <=> P!Init
    /\ Ids!Next <=> P!Next
    /\ Ids!Filled = P!Filled /\ Ids!FilledTo = P!FilledTo
BY DEF Ids!Init, P!Init, Ids!Next, P!Next, Ids!TakeNext, P!TakeNext, Ids!Release, P!Release,
       Ids!NextThrows, P!NextThrows, Ids!Values, P!Values, Ids!Filled, P!Filled,
       Ids!FilledTo, P!FilledTo, Ids!Short, P!Short, Ids!Acquired, P!Acquired,
       Ids!Batch, P!Batch, Used

\* The pool of the ids is conserved by its steps: the assumption on the range of ids
\* is that of Sequence.
LEMMA PoolKept ==
    ASSUME P!Pool(current, seqs, Used), Ids!Next
    PROVE  P!Pool(current, seqs, Used)'
<1>1. [P!Next]_(P!svars) BY SamePool
<1>2. 1 \in Nat /\ IdEnd \in Nat /\ 1 < IdEnd /\ Reserve \in 1..(IdEnd - 1) BY IdAssumption
<1> QED BY <1>1, <1>2, P!PoolStep

\* No ids, counted by the definition of Cardinality.
LEMMA CardEmpty == Cardinality({}) = 0
<1> DEFINE F(f) == [T \in SUBSET {} |-> IF T = {} THEN 0 ELSE 1 + f[T \ {CHOOSE x : x \in T}]]
           g == [T \in SUBSET {} |-> 0]
           c == CHOOSE f : f = F(f)
<1>1. g = F(g) OBVIOUS
<1>2. c = F(c) BY <1>1
<1>3. Cardinality({}) = c[{}] BY DEF Cardinality
<1> HIDE DEF c
<1> QED BY <1>2, <1>3

\* The same of one id.
LEMMA CardOne ==
    ASSUME NEW v
    PROVE  Cardinality({v}) = 1
<1> DEFINE F(f) == [T \in SUBSET {v} |-> IF T = {} THEN 0 ELSE 1 + f[T \ {CHOOSE x : x \in T}]]
           g == [T \in SUBSET {v} |-> IF T = {} THEN 0 ELSE 1]
           c == CHOOSE f : f = F(f)
<1>1. \A T \in SUBSET {v} : T # {} => T \ {CHOOSE x : x \in T} = {}
  <2> SUFFICES ASSUME NEW T \in SUBSET {v}, T # {} PROVE T \ {CHOOSE x : x \in T} = {} OBVIOUS
  <2>1. T = {v} OBVIOUS
  <2>2. (CHOOSE x : x \in T) \in T OBVIOUS
  <2> QED BY <2>1, <2>2
<1>2. g = F(g) BY SMT, <1>1
<1>3. c = F(c) BY <1>2
<1>4. Cardinality({v}) = c[{v}] BY DEF Cardinality
<1> HIDE DEF c
<1> QED BY SMT, <1>1, <1>3, <1>4

\* The sequences of no id and of one.
LEMMA SmallSeqs == Listed({}) = <<>> /\ \A v : Listed({v}) = <<v>>
<1>1. Listed({}) = <<>>
  <2>1. Cardinality({}) = 0 BY CardEmpty
  <2>2. <<>> \in Bijection(1..0, {}) BY SMT DEF Bijection, Injection, Surjection, IsInjective
  <2>3. \A f \in Bijection(1..0, {}) : f = <<>> BY SMT DEF Bijection, Injection
  <2> QED BY <2>1, <2>2, <2>3 DEF Listed
<1>2. ASSUME NEW v PROVE Listed({v}) = <<v>>
  <2>1. Cardinality({v}) = 1 BY CardOne
  <2>2. <<v>> \in Bijection(1..1, {v}) BY SMT DEF Bijection, Injection, Surjection, IsInjective
  <2>3. \A f \in Bijection(1..1, {v}) : f = <<v>> BY SMT DEF Bijection, Injection
  <2> QED BY <2>1, <2>2, <2>3 DEF Listed
<1> QED BY <1>1, <1>2

\* A step that leaves every request held destroys none.
LEMMA BecomeKeeps ==
    ASSUME NEW rq, NEW rs, NEW sl, NEW x, NEW ids \in Seq(1..(IdEnd - 1)), Become(rq, rs, sl, x, ids),
           DOMAIN rq = Held(rs, sl, x)
    PROVE  /\ seqs' = ids /\ reqs' = rs /\ slots' = sl /\ ex' = x
           /\ DOMAIN req' = DOMAIN rq /\ \A r \in DOMAIN rq : req'[r] = rq[r]
<1> DEFINE H == Held(rs, sl, x)
<1>1. /\ reqs' = rs /\ slots' = sl /\ ex' = x
      /\ seqs' = ids \o Listed({rq[r].id : r \in DOMAIN rq \ H})
      /\ req' = [r \in H |-> rq[r]]
  BY DEF Become, Restrict
<1>2. {rq[r].id : r \in DOMAIN rq \ H} = {} OBVIOUS
<1>3. seqs' = ids
  <2>1. seqs' = ids \o <<>> BY <1>1, <1>2, SmallSeqs
  <2> QED BY SMT, <2>1
<1> QED BY <1>1, <1>3

\* A step to requests rq, table rs, slots sl and executor x that makes no request and
\* lets go of one at most
Quiet(rq, rs, sl, x) ==
    /\ Types /\ Owned /\ Become(rq, rs, sl, x, seqs)
    /\ current' = current /\ Len(runs') = Len(runs)
    /\ DOMAIN rq = DOMAIN req
    /\ \A r \in DOMAIN req : rq[r] \in Reqs /\ rq[r].id = req[r].id
    /\ Held(rs, sl, x) \subseteq DOMAIN req
    /\ \E d : DOMAIN req \subseteq Held(rs, sl, x) \cup {d}
    /\ \A id \in DOMAIN rs : id \in DOMAIN reqs /\ rs[id] = reqs[id]

\* what such a step keeps: it is one of the pool, release() or none
Kept(rq, rs, sl, x) ==
    /\ Owned' /\ [Ids!Next]_(Ids!svars)
    /\ DOMAIN req' \subseteq DOMAIN req /\ \A r \in DOMAIN req' : req'[r] = rq[r]
    /\ reqs' = rs /\ slots' = sl /\ ex' = x

\* A quiet step keeps the requests as they should be.
LEMMA QuietStep ==
    ASSUME NEW rq, NEW rs, NEW sl, NEW x, Quiet(rq, rs, sl, x)
    PROVE  Kept(rq, rs, sl, x)
<1> SUFFICES ASSUME Types, Owned,
           Become(rq, rs, sl, x, seqs), current' = current, Len(runs') = Len(runs),
           DOMAIN rq = DOMAIN req,
           \A r \in DOMAIN req : rq[r] \in Reqs /\ rq[r].id = req[r].id,
           Held(rs, sl, x) \subseteq DOMAIN req,
           \E d : DOMAIN req \subseteq Held(rs, sl, x) \cup {d},
           \A id \in DOMAIN rs : id \in DOMAIN reqs /\ rs[id] = reqs[id]
    PROVE  /\ Owned'
           /\ [Ids!Next]_(Ids!svars)
           /\ DOMAIN req' \subseteq DOMAIN req /\ \A r \in DOMAIN req' : req'[r] = rq[r]
           /\ reqs' = rs /\ slots' = sl /\ ex' = x
  BY DEF Quiet, Kept
<1>1. seqs \in Seq(1..(IdEnd - 1)) BY DEF Owned, P!Pool, P!Values
<1>2. \A r \in DOMAIN req : req[r].id \in 1..(IdEnd - 1) BY DEF Owned, Reqs
<1>3. \A id \in DOMAIN rs : rs[id] \in DOMAIN req BY DEF Held, Range
<1>4. ASSUME NEW D, DOMAIN req' = D, D = Held(rs, sl, x), D \subseteq DOMAIN req,
             \A r \in D : req'[r] = rq[r],
             reqs' = rs, slots' = sl, ex' = x, P!Pool(current, seqs, Used)'
      PROVE  Owned'
  <2>1. \A r \in D : req'[r] \in Reqs /\ req'[r].id = req[r].id BY <1>4
  <2>2. \A r, s \in D : req'[r].id = req'[s].id => r = s BY <1>4, <2>1 DEF Owned
  <2>3. D \subseteq 1..Len(runs') BY <1>4 DEF Owned
  <2>4. \A id \in DOMAIN rs : rs[id] \in D /\ req'[rs[id]].id = id
    <3>1. \A id \in DOMAIN rs : rs[id] \in D BY <1>4 DEF Held, Range
    <3> QED BY SMT, <2>1, <3>1 DEF Owned
  <2>5. DOMAIN req' = Held(reqs', slots', ex') BY <1>4
  <2> QED BY <1>4, <2>1, <2>2, <2>3, <2>4, <2>5 DEF Owned
<1>0. PICK d : DOMAIN req \subseteq Held(rs, sl, x) \cup {d} OBVIOUS
<1>5. CASE d \notin DOMAIN req \/ d \in Held(rs, sl, x)
  <2>1. DOMAIN rq = Held(rs, sl, x) BY <1>0, <1>5
  <2>2. /\ seqs' = seqs /\ reqs' = rs /\ slots' = sl /\ ex' = x
        /\ DOMAIN req' = DOMAIN req /\ \A r \in DOMAIN req : req'[r] = rq[r]
    BY <1>1, <2>1, BecomeKeeps
  <2>3. Used' = Used
    <3>1. \A r \in DOMAIN req : req'[r].id = req[r].id BY <2>2
    <3> QED BY SMT, <2>2, <3>1 DEF Used
  <2>4. UNCHANGED Ids!svars BY <2>2, <2>3 DEF Ids!svars, Used
  <2>5. P!Pool(current, seqs, Used)' BY <2>2, <2>3 DEF Owned
  <2>6. Owned' BY <1>4, <2>1, <2>2, <2>5
  <2> QED BY <2>2, <2>4, <2>6
<1>6. CASE d \in DOMAIN req /\ d \notin Held(rs, sl, x)
  <2>1. DOMAIN rq \ {d} = Held(rs, sl, x) /\ d \in DOMAIN rq BY <1>0, <1>6
  <2>2. /\ seqs' = Append(seqs, rq[d].id) /\ reqs' = rs /\ slots' = sl /\ ex' = x
        /\ DOMAIN req' = DOMAIN req \ {d} /\ \A r \in DOMAIN req \ {d} : req'[r] = rq[r]
    <3> DEFINE H == Held(rs, sl, x)
    <3>1. /\ reqs' = rs /\ slots' = sl /\ ex' = x
          /\ seqs' = seqs \o Listed({rq[r].id : r \in DOMAIN rq \ H})
          /\ req' = [r \in H |-> rq[r]]
      BY DEF Become, Restrict
    <3>2. {rq[r].id : r \in DOMAIN rq \ H} = {rq[d].id} BY <2>1
    <3>3. seqs' = seqs \o <<rq[d].id>> BY <3>1, <3>2, SmallSeqs
    <3>4. rq[d].id \in 1..(IdEnd - 1) BY <1>2, <1>6
    <3>5. seqs' = Append(seqs, rq[d].id) BY SMT, <1>1, <3>3, <3>4
    <3>6. H = DOMAIN req \ {d} BY <2>1
    <3> HIDE DEF H
    <3> QED BY <3>1, <3>5, <3>6
  <2>3. Used' = Used \ {req[d].id} /\ req[d].id \in Used
    <3>1. \A r \in DOMAIN req \ {d} : req'[r].id = req[r].id /\ req[r].id # req[d].id
      BY <1>6, <2>2 DEF Owned
    <3> QED BY SMT, <1>6, <2>2, <3>1 DEF Used
  <2>4. Ids!Next
    <3>1. PICK v : v = req[d].id OBVIOUS
    <3>2. v \in Ids!Values BY <1>6, <3>1 DEF Owned, Reqs, Ids!Values
    <3>3. Ids!Release(v)
      BY <1>6, <2>2, <2>3, <3>1 DEF Ids!Release, Used
    <3> QED BY <3>2, <3>3 DEF Ids!Next
  <2>5. P!Pool(current, seqs, Used)' BY <2>4, PoolKept DEF Owned
  <2>6. Owned' BY <1>4, <2>1, <2>2, <2>5
  <2> QED BY <2>2, <2>4, <2>6
<1> QED BY <1>5, <1>6

\* the slots sq, with S as the queue of slot i
WithQueue(sq, i, S) == [sq EXCEPT ![i].reqs = S]

\* What a change of one queue does to the requests in the queues.
LEMMA SlotChange ==
    ASSUME NEW sq \in Seq(Slots), NEW i \in 1..Len(sq), NEW S \in SUBSET Nat,
           NEW sl, sl = WithQueue(sq, i, S)
    PROVE  /\ sl \in Seq(Slots) /\ Len(sl) = Len(sq)
           /\ InQueues(sq) \subseteq InQueues(sl) \cup (sq[i].reqs \ S)
           /\ InQueues(sl) \subseteq InQueues(sq) \cup S
           /\ S \subseteq InQueues(sl)
<1>1. /\ sl \in Seq(Slots) /\ Len(sl) = Len(sq) /\ sl[i].reqs = S
      /\ \A j \in 1..Len(sq) : j # i => sl[j] = sq[j]
  <2> DEFINE new == [sq[i] EXCEPT !.reqs = S]
  <2>1. new \in Slots /\ new.reqs = S
    <3>1. sq[i] \in Slots BY SMT
    <3> QED BY <3>1 DEF Slots
  <2>2. sl = [sq EXCEPT ![i] = new] BY DEF WithQueue
  <2> HIDE DEF new
  <2> QED BY SMT, <2>1, <2>2
<1>2. InQueues(sq) \subseteq InQueues(sl) \cup (sq[i].reqs \ S)
  BY <1>1 DEF InQueues
<1>3. InQueues(sl) \subseteq InQueues(sq) \cup S
  BY <1>1 DEF InQueues
<1>4. S \subseteq InQueues(sl)
  BY <1>1 DEF InQueues
<1> QED BY <1>1, <1>2, <1>3, <1>4

\* The last run of a slot changes no queue.
LEMMA SlotTurn ==
    ASSUME NEW sq \in Seq(Slots), NEW i \in 1..Len(sq), NEW n \in Nat
    PROVE  LET sl == [sq EXCEPT ![i].last = n]
           IN  sl \in Seq(Slots) /\ Len(sl) = Len(sq) /\ InQueues(sl) = InQueues(sq)
<1> DEFINE sl == [sq EXCEPT ![i].last = n]
<1>1. /\ sl \in Seq(Slots) /\ Len(sl) = Len(sq)
      /\ \A j \in 1..Len(sq) : sl[j].reqs = sq[j].reqs
  <2> DEFINE new == [sq[i] EXCEPT !.last = n]
  <2>1. new \in Slots /\ new.reqs = sq[i].reqs
    <3>1. sq[i] \in Slots BY SMT
    <3> QED BY <3>1 DEF Slots
  <2>2. sl = [sq EXCEPT ![i] = new] OBVIOUS
  <2> HIDE DEF new, sl
  <2> QED BY SMT, <2>1, <2>2
<1> HIDE DEF sl
<1>2. InQueues(sl) = InQueues(sq)
  BY <1>1 DEF InQueues
<1> QED BY <1>1, <1>2 DEF sl

\* create_slot(): the slots with one of the interval, and the queues as they were.
LEMMA NewSlot ==
    ASSUME slots \in Seq(Slots), NEW a \in Requests
    PROVE  LET v == SlotInterval(a.interval)
           IN  /\ WithSlot(v) \in Seq(Slots) /\ Len(slots) <= Len(WithSlot(v))
               /\ InQueues(WithSlot(v)) = InQueues(slots)
               /\ \E j \in 1..Len(WithSlot(v)) : WithSlot(v)[j].interval = v
<1> DEFINE v == SlotInterval(a.interval)
           new == [interval |-> v, last |-> 0, reqs |-> {}]
<1>1. CASE \E i \in 1..Len(slots) : slots[i].interval = v
  <2>1. WithSlot(v) = slots BY <1>1 DEF WithSlot
  <2> QED BY SMT, <1>1, <2>1
<1>2. CASE ~\E i \in 1..Len(slots) : slots[i].interval = v
  <2>1. WithSlot(v) = Append(slots, new) BY <1>2 DEF WithSlot
  <2>2. new \in Slots /\ new.interval = v /\ new.reqs = {} BY DEF Slots
  <2> HIDE DEF new, v
  <2>3. /\ WithSlot(v) \in Seq(Slots) /\ Len(WithSlot(v)) = Len(slots) + 1 /\ Len(slots) \in Nat
        /\ WithSlot(v)[Len(slots) + 1] = new
        /\ \A j \in 1..Len(slots) : WithSlot(v)[j] = slots[j]
    BY SMT, <2>1, <2>2
  <2>4. InQueues(WithSlot(v)) = InQueues(slots)
    BY SMT, <2>2, <2>3 DEF InQueues
  <2>5. Len(slots) + 1 \in 1..Len(WithSlot(v)) BY SMT, <2>3
  <2> QED BY SMT, <2>2, <2>3, <2>4, <2>5 DEF v
<1> QED BY <1>1, <1>2

\* The id that next() gives to set() is in no request.
LEMMA FreshId ==
    ASSUME Owned, Ids!Filled # <<>>
    PROVE  /\ Head(Ids!Filled) \in 1..(IdEnd - 1)
           /\ Head(Ids!Filled) \notin Used
           /\ Tail(Ids!Filled) \in Seq(1..(IdEnd - 1))
<1>1. 1 \in Nat /\ IdEnd \in Nat /\ 1 < IdEnd /\ Reserve \in 1..(IdEnd - 1) BY IdAssumption
<1>2. P!Pool(P!FilledTo, P!Filled, Used) BY <1>1, P!FilledLemma DEF Owned
<1> DEFINE f == P!Filled
<1>3. f \in Seq(P!Values) /\ P!NoRepeat(f) /\ P!Elems(f) \cap Used = {} /\ f # <<>>
  BY <1>2, SamePool DEF P!Pool
<1> HIDE DEF f
<1>4. Head(f) \in P!Elems(f) /\ Tail(f) \in Seq(P!Values) BY <1>1, <1>3, P!TailLemma
<1>5. Head(f) \in P!Values BY SMT, <1>3
<1> QED BY <1>3, <1>4, <1>5, SamePool DEF f, P!Values

\* set() takes an id from the pool and makes a request that has it.
LEMMA SetStep ==
    ASSUME TimerInv, NEW a \in Requests, Set(a)
    PROVE  TimerInv' /\ Ids!Next /\ ex' = ex
<1> USE DEF TimerInv
<1> DEFINE id == Head(Ids!Filled)
           n == Len(runs) + 1
           v == SlotInterval(a.interval)
           iv == Clamped(a.interval)
           new == [id |-> id, interval |-> iv, repeat |-> a.repeat, cancel |-> FALSE,
                   next |-> tick + a.after + iv, end |-> tick + a.after + a.duration]
           i == CHOOSE j \in 1..Len(WithSlot(v)) : WithSlot(v)[j].interval = v
           rq == With(req, n, new)
           rs == With(reqs, id, n)
           sl == [WithSlot(v) EXCEPT ![i].reqs = @ \cup {n}]
<1>1. /\ Ids!Filled # <<>>
      /\ Become(rq, rs, sl, ex, Tail(Ids!Filled))
      /\ current' = Ids!FilledTo
      /\ runs' = Append(runs, 0)
      /\ UNCHANGED <<tick, cancelled>>
  BY DEF Set
<1>2. id \in 1..(IdEnd - 1) /\ id \notin Used /\ Tail(Ids!Filled) \in Seq(1..(IdEnd - 1))
  BY <1>1, FreshId
<1>3. n \in Nat /\ n # None /\ n \notin DOMAIN req /\ runs' \in Seq({0, 1, 2}) /\ Len(runs') = n
  <2>1. runs \in Seq({0, 1, 2}) /\ DOMAIN req \subseteq 1..Len(runs) BY DEF Types, Owned
  <2>2. n \in Nat /\ n # 0 /\ n \notin 1..Len(runs) BY SMT, <2>1
  <2>3. runs' \in Seq({0, 1, 2}) /\ Len(runs') = n
    <3>1. runs' = Append(runs, 0) BY <1>1
    <3>2. PICK z \in {0, 1, 2} : z = 0 OBVIOUS
    <3>3. runs' = Append(runs, z) BY <3>1, <3>2
    <3> QED BY SMT, <2>1, <3>3
  <2> QED BY <2>1, <2>2, <2>3 DEF None
<1>4. new \in Reqs /\ new.id = id /\ new.cancel = FALSE
  <2>1. {a.interval, a.duration, a.after} \subseteq Nat /\ a.repeat \in BOOLEAN
    BY RequestAssumption
  <2>2. iv \in Nat BY <2>1, IntervalAssumption DEF Clamped
  <2>3. tick + a.after + iv \in Nat /\ tick + a.after + a.duration \in Nat
    <3>1. tick \in Nat BY DEF Types
    <3> HIDE DEF iv
    <3> QED BY SMT, <2>1, <2>2, <3>1
  <2>4. PICK nx \in Nat, en \in Nat : nx = tick + a.after + iv /\ en = tick + a.after + a.duration
    BY <2>3
  <2>5. new = [id |-> id, interval |-> iv, repeat |-> a.repeat, cancel |-> FALSE,
               next |-> nx, end |-> en]
    BY <2>4
  <2> HIDE DEF id, iv, new
  <2> QED BY <1>2, <2>1, <2>2, <2>5 DEF Reqs
<1>5. /\ sl \in Seq(Slots) /\ Len(slots) <= Len(sl)
      /\ InQueues(sl) = InQueues(slots) \cup {n}
  <2> DEFINE sq == WithSlot(v)
             S == sq[i].reqs \cup {n}
  <2>1. /\ sq \in Seq(Slots) /\ Len(slots) <= Len(sq) /\ InQueues(sq) = InQueues(slots)
        /\ i \in 1..Len(sq)
    BY NewSlot DEF Types
  <2>2. sl = WithQueue(sq, i, S) BY DEF WithQueue
  <2> HIDE DEF sq, i, n
  <2>3. sq[i] \in Slots BY SMT, <2>1
  <2>4. S \in SUBSET Nat BY <1>3, <2>3 DEF Slots
  <2> HIDE DEF S, sl
  <2>5. /\ sl \in Seq(Slots) /\ Len(sl) = Len(sq)
        /\ InQueues(sq) \subseteq InQueues(sl) \cup (sq[i].reqs \ S)
        /\ InQueues(sl) \subseteq InQueues(sq) \cup S
        /\ S \subseteq InQueues(sl)
    BY SMT, <2>1, <2>2, <2>4, SlotChange
  <2>6. sq[i].reqs \subseteq InQueues(sq) BY <2>1 DEF InQueues
  <2>7. S = sq[i].reqs \cup {n} BY DEF S
  <2> QED BY <2>1, <2>5, <2>6, <2>7
<1> HIDE DEF id, n, v, iv, new, i, sl
<1>6. id \notin DOMAIN reqs
  <2>1. \A k \in DOMAIN reqs : reqs[k] \in DOMAIN req /\ req[reqs[k]].id = k
    BY DEF Owned, Held, Range
  <2> QED BY <1>2, <2>1 DEF Used
<1>7. /\ DOMAIN rq = DOMAIN req \cup {n} /\ rq[n] = new
      /\ \A r \in DOMAIN req : rq[r] = req[r]
  BY <1>3 DEF With
<1>8. /\ DOMAIN rs = DOMAIN reqs \cup {id} /\ rs[id] = n
      /\ \A k \in DOMAIN reqs : rs[k] = reqs[k]
  BY <1>6 DEF With
<1> HIDE DEF rq, rs
<1>9. Held(rs, sl, ex) = DOMAIN rq
  <2>1. Range(rs) = Range(reqs) \cup {n} BY SMT, <1>8 DEF Range
  <2> QED BY <1>5, <1>7, <2>1 DEF Held, Owned
<1>10. /\ seqs' = Tail(Ids!Filled) /\ reqs' = rs /\ slots' = sl /\ ex' = ex
       /\ DOMAIN req' = DOMAIN rq /\ \A r \in DOMAIN rq : req'[r] = rq[r]
  BY <1>1, <1>2, <1>9, BecomeKeeps
<1>11. Used' = Used \cup {id}
  <2>1. \A r \in DOMAIN req : req'[r].id = req[r].id BY <1>7, <1>10
  <2>2. req'[n].id = id BY <1>4, <1>7, <1>10
  <2> QED BY SMT, <1>7, <1>10, <2>1, <2>2 DEF Used
<1>12. Ids!Next
  <2>1. PICK w : w = id OBVIOUS
  <2>2. w \in Ids!Values BY <1>2, <2>1 DEF Ids!Values
  <2>3. Ids!TakeNext(w) BY <1>1, <1>10, <1>11, <2>1 DEF Ids!TakeNext, Used, id
  <2> QED BY <2>2, <2>3 DEF Ids!Next
<1>13. P!Pool(current, seqs, Used)' BY <1>12, PoolKept DEF Owned
<1>14. Owned'
  <2>1. DOMAIN req' \subseteq 1..Len(runs')
    BY SMT, <1>3, <1>7, <1>10 DEF Owned, Types, n
  <2>2. \A r \in DOMAIN req' : req'[r] \in Reqs
    BY <1>4, <1>7, <1>10 DEF Owned
  <2>3. \A r, s \in DOMAIN req' : req'[r].id = req'[s].id => r = s
    <3>1. \A r \in DOMAIN req : req'[r].id = req[r].id /\ req[r].id \in Used
      BY <1>7, <1>10 DEF Used
    <3>2. req'[n].id = id BY <1>4, <1>7, <1>10
    <3> QED BY SMT, <1>2, <1>7, <1>10, <3>1, <3>2 DEF Owned
  <2>4. DOMAIN req' = Held(reqs', slots', ex') BY <1>9, <1>10
  <2>5. \A k \in DOMAIN reqs' : req'[reqs'[k]].id = k
    <3>1. \A k \in DOMAIN reqs : reqs[k] \in DOMAIN req /\ req[reqs[k]].id = k
      BY DEF Owned, Held, Range
    <3> QED BY SMT, <1>4, <1>7, <1>8, <1>10, <3>1
  <2> QED BY <1>13, <2>1, <2>2, <2>3, <2>4, <2>5 DEF Owned
<1>15. Types'
  BY SMT, <1>1, <1>3, <1>5, <1>10 DEF Types, Executors
<1>16. Marked'
  <2>1. n \notin cancelled BY SMT, <1>3 DEF Marked, n, Types
  <2>2. cancelled' \subseteq 1..Len(runs') BY SMT, <1>1, <1>3 DEF Marked, n, Types
  <2> QED BY <1>1, <1>7, <1>10, <2>1, <2>2 DEF Marked
<1> QED BY <1>10, <1>12, <1>14, <1>15, <1>16

\* What is known of the request execute() has come to, and of its slot.
LEMMA AtWork ==
    ASSUME TimerInv, ex.pc \in {"loop", "next", "callback"}
    PROVE  /\ ex.i \in 1..Len(slots) /\ ex.e # None /\ ex.e \in DOMAIN req
           /\ req[ex.e] \in Reqs /\ slots[ex.i] \in Slots
           /\ slots[ex.i].reqs \subseteq DOMAIN req
<1>1. ex.i \in 1..Len(slots) /\ ex.e # None BY SMT DEF TimerInv, Types, Executors
<1>2. slots[ex.i] \in Slots BY SMT, <1>1 DEF TimerInv, Types
<1>3. slots[ex.i].reqs \subseteq InQueues(slots) BY <1>1 DEF InQueues
<1> QED BY <1>1, <1>2, <1>3 DEF TimerInv, Owned, Held

\* update_slot() goes on without changing a queue or the table, and lets go of the
\* request it had.
LEMMA MoveStep ==
    ASSUME TimerInv, NEW sl \in Seq(Slots), NEW x \in Executors,
           Become(req, reqs, sl, x, seqs), UNCHANGED aside,
           InQueues(sl) = InQueues(slots), Len(sl) = Len(slots),
           x.e \in DOMAIN req \cup {None},
           x.size <= Len(slots), x.i > 0,
           \/ x.pc = "slot" /\ x.e = None
           \/ x.pc = "loop" /\ x.e # None /\ x.i <= x.size
    PROVE  TimerInv' /\ [Ids!Next]_(Ids!svars) /\ ex' = x
<1> USE DEF TimerInv
<1>1. /\ Held(reqs, sl, x) \subseteq DOMAIN req
      /\ \E d : DOMAIN req \subseteq Held(reqs, sl, x) \cup {d}
  <2>1. DOMAIN req \subseteq Held(reqs, sl, x) \cup {ex.e} BY DEF Owned, Held
  <2> QED BY <2>1 DEF Owned, Held
<1>2. current' = current /\ runs' = runs /\ cancelled' = cancelled /\ tick' = tick BY DEF aside
<1>3. \A r \in DOMAIN req : req[r] \in Reqs BY DEF Owned
<1>4. /\ Owned' /\ [Ids!Next]_(Ids!svars)
      /\ DOMAIN req' \subseteq DOMAIN req /\ \A r \in DOMAIN req' : req'[r] = req[r]
      /\ reqs' = reqs /\ slots' = sl /\ ex' = x
  <2>a. Quiet(req, reqs, sl, x) BY <1>1, <1>2, <1>3 DEF Quiet
  <2>b. Kept(req, reqs, sl, x) BY <2>a, QuietStep
  <2> QED BY <2>b DEF Kept
<1>5. Types' BY <1>2, <1>4 DEF Types
<1>6. Marked' BY <1>2, <1>4 DEF Marked
<1> QED BY <1>4, <1>5, <1>6

\* The next slot, and the next request of a slot.
LEMMA Moves ==
    ASSUME TimerInv, ex.pc # "idle"
    PROVE  /\ NextSlot \in Executors /\ NextSlot.e = None /\ NextSlot.pc = "slot"
           /\ NextSlot.i = ex.i + 1 /\ NextSlot.i > 0 /\ NextSlot.size = ex.size /\ NextSlot.now = ex.now
           /\ \A r \in Nat : LET x == [ex EXCEPT !.pc = "loop", !.e = r]
                             IN  /\ x \in Executors /\ x.e = r /\ x.pc = "loop"
                                 /\ x.i = ex.i /\ x.size = ex.size /\ x.now = ex.now
<1>1. ex \in Executors /\ ex.i > 0 BY DEF TimerInv, Types
<1>2. /\ NextSlot \in Executors /\ NextSlot.e = None /\ NextSlot.pc = "slot"
      /\ NextSlot.i = ex.i + 1 /\ NextSlot.i > 0 /\ NextSlot.size = ex.size /\ NextSlot.now = ex.now
  <2>1. ex.i + 1 \in Nat /\ ex.i + 1 > 0 /\ None \in Nat BY SMT, <1>1 DEF Executors, None
  <2> DEFINE x == [ex EXCEPT !.pc = "slot"]
             y == [x EXCEPT !.i = ex.i + 1]
             z == [y EXCEPT !.e = None]
  <2>2. x \in Executors /\ x.pc = "slot" /\ x.size = ex.size /\ x.now = ex.now BY <1>1 DEF Executors
  <2> HIDE DEF x
  <2>3. y \in Executors /\ y.pc = "slot" /\ y.size = ex.size /\ y.now = ex.now /\ y.i = ex.i + 1
    BY <2>1, <2>2 DEF Executors
  <2> HIDE DEF y
  <2>4. z \in Executors /\ z.pc = "slot" /\ z.size = ex.size /\ z.now = ex.now /\ z.i = ex.i + 1 /\ z.e = None
    BY <2>1, <2>3 DEF Executors
  <2>5. NextSlot = z
    <3>1. x.i = ex.i BY <1>1 DEF x, Executors
    <3> QED BY <1>1, <3>1 DEF NextSlot, x, y, z
  <2> QED BY <2>1, <2>4, <2>5
<1>3. \A r \in Nat : LET x == [ex EXCEPT !.pc = "loop", !.e = r]
                     IN  /\ x \in Executors /\ x.e = r /\ x.pc = "loop"
                         /\ x.i = ex.i /\ x.size = ex.size /\ x.now = ex.now
  BY <1>1 DEF Executors
<1> QED BY <1>2, <1>3

\* The steps of update_slot() that run nothing.
LEMMA SlotStep ==
    ASSUME TimerInv, SlotWaits \/ SlotBegins \/ SlotEnds \/ LoopNext
    PROVE  TimerInv' /\ [Ids!Next]_(Ids!svars) /\ ex'.pc # "callback"
<1> DEFINE Good == TimerInv' /\ [Ids!Next]_(Ids!svars) /\ ex'.pc # "callback"
<1>1. slots \in Seq(Slots) /\ ex.size <= Len(slots) /\ ex \in Executors /\ Len(slots) \in Nat
  BY SMT DEF TimerInv, Types
<1>2. ASSUME NEW sl \in Seq(Slots), Become(req, reqs, sl, NextSlot, seqs), UNCHANGED aside,
             InQueues(sl) = InQueues(slots), Len(sl) = Len(slots), ex.pc # "idle"
      PROVE  Good
  <2> DEFINE x == NextSlot
  <2>1. x \in Executors /\ x.e = None /\ x.pc = "slot" /\ x.i > 0 /\ x.size <= Len(slots)
    BY <1>1, <1>2, Moves
  <2> HIDE DEF x
  <2>2. Become(req, reqs, sl, x, seqs) BY <1>2 DEF x
  <2>3. TimerInv' /\ [Ids!Next]_(Ids!svars) /\ ex' = x BY <1>2, <2>1, <2>2, MoveStep
  <2> QED BY <2>1, <2>3
<1>3. ASSUME NEW sl \in Seq(Slots), NEW r \in InQueues(slots),
             Become(req, reqs, sl, [ex EXCEPT !.pc = "loop", !.e = r], seqs), UNCHANGED aside,
             InQueues(sl) = InQueues(slots), Len(sl) = Len(slots),
             ex.pc # "idle", ex.i <= ex.size
      PROVE  Good
  <2> DEFINE x == [ex EXCEPT !.pc = "loop", !.e = r]
  <2>1. r \in DOMAIN req /\ r \in Nat /\ r # None
    BY SMT DEF TimerInv, Owned, Held, Types, None
  <2>2. x \in Executors /\ x.e = r /\ x.pc = "loop" /\ x.i <= x.size /\ x.size <= Len(slots) /\ x.i > 0
    <3>1. x \in Executors /\ x.e = r /\ x.pc = "loop" /\ x.i = ex.i /\ x.size = ex.size
      BY <1>3, <2>1, Moves
    <3>2. ex.i > 0 BY <1>3 DEF TimerInv, Types
    <3> HIDE DEF x
    <3> QED BY <1>1, <1>3, <3>1, <3>2
  <2> HIDE DEF x
  <2>3. Become(req, reqs, sl, x, seqs) BY <1>3 DEF x
  <2>4. TimerInv' /\ [Ids!Next]_(Ids!svars) /\ ex' = x BY <1>3, <2>1, <2>2, <2>3, MoveStep
  <2> QED BY <2>2, <2>4
<1>4. CASE SlotWaits
  BY <1>1, <1>2, <1>4 DEF SlotWaits
<1>5. CASE SlotEnds
  BY <1>1, <1>2, <1>5 DEF SlotEnds
<1>6. CASE LoopNext
  <2>1. ex.i \in 1..Len(slots) /\ ex.i <= ex.size
    <3>1. ex.pc = "next" BY <1>6 DEF LoopNext
    <3> QED BY SMT, <3>1 DEF TimerInv, Types, Executors
  <2>2. slots[ex.i].reqs \subseteq InQueues(slots) BY <2>1 DEF InQueues
  <2>3. CASE slots[ex.i].reqs = {} BY <1>1, <1>2, <1>6, <2>3 DEF LoopNext
  <2>4. CASE slots[ex.i].reqs # {}
    <3>1. PICK r \in slots[ex.i].reqs : Become(req, reqs, slots, [ex EXCEPT !.pc = "loop", !.e = r], seqs)
      BY <1>6, <2>4 DEF LoopNext, Tops
    <3> QED BY <1>1, <1>3, <1>6, <2>1, <2>2, <3>1 DEF LoopNext
  <2> QED BY <2>3, <2>4
<1>7. CASE SlotBegins
  <2> DEFINE sl == [slots EXCEPT ![ex.i].last = ex.now]
  <2>1. ex.i \in 1..Len(slots) /\ ex.i <= ex.size /\ ex.now \in Nat /\ ex.pc # "idle"
    <3>1. ex.pc = "slot" /\ ex.i <= ex.size BY <1>7 DEF SlotBegins
    <3>2. ex.i \in Nat /\ ex.i > 0 /\ ex.size \in Nat /\ ex.now \in Nat
      BY <3>1 DEF TimerInv, Types, Executors
    <3> QED BY SMT, <1>1, <3>1, <3>2
  <2>2. sl \in Seq(Slots) /\ Len(sl) = Len(slots) /\ InQueues(sl) = InQueues(slots)
    BY <1>1, <2>1, SlotTurn
  <2>3. slots[ex.i].reqs \subseteq InQueues(slots) BY <2>1 DEF InQueues
  <2>4. CASE slots[ex.i].reqs = {}
    <3>1. Become(req, reqs, sl, NextSlot, seqs) /\ UNCHANGED aside BY <1>7, <2>4 DEF SlotBegins
    <3> HIDE DEF sl
    <3> QED BY <1>2, <2>1, <2>2, <3>1
  <2>5. CASE slots[ex.i].reqs # {}
    <3>1. UNCHANGED aside /\ \E r \in slots[ex.i].reqs :
              Become(req, reqs, sl, [ex EXCEPT !.pc = "loop", !.e = r], seqs)
      BY <1>7, <2>5 DEF SlotBegins, Tops
    <3> HIDE DEF sl
    <3> QED BY <1>3, <2>1, <2>2, <2>3, <3>1
  <2> QED BY <2>4, <2>5
<1> QED BY <1>4, <1>5, <1>6, <1>7

\* cancel() marks the request, which is destroyed at once when no slot has it.
LEMMA CancelStep ==
    ASSUME TimerInv, NEW id, Cancel(id)
    PROVE  TimerInv' /\ [Ids!Next]_(Ids!svars) /\ ex' = ex
<1> USE DEF TimerInv
<1> DEFINE d == reqs[id]
           rq == [req EXCEPT ![d].cancel = TRUE]
           rs == Without(reqs, {id})
<1>1. /\ id \in DOMAIN reqs /\ Become(rq, rs, slots, ex, seqs)
      /\ cancelled' = cancelled \cup {d} /\ UNCHANGED <<tick, current, runs>>
  BY DEF Cancel
<1>2. d \in DOMAIN req /\ d \in 1..Len(runs) BY <1>1 DEF Owned, Held, Range
<1>3. DOMAIN rs = DOMAIN reqs \ {id} /\ \A k \in DOMAIN rs : rs[k] = reqs[k]
  BY DEF Without, Restrict
<1>4. /\ DOMAIN rq = DOMAIN req /\ rq[d].cancel = TRUE
      /\ \A r \in DOMAIN req : rq[r] \in Reqs /\ rq[r].id = req[r].id
      /\ \A r \in DOMAIN req : r # d => rq[r] = req[r]
  <2>1. \A r \in DOMAIN req : req[r] \in Reqs BY DEF Owned
  <2>2. /\ DOMAIN rq = DOMAIN req /\ rq[d] = [req[d] EXCEPT !.cancel = TRUE]
        /\ \A r \in DOMAIN req : r # d => rq[r] = req[r]
    BY <1>2
  <2> HIDE DEF rq, d
  <2>3. rq[d] \in Reqs /\ rq[d].id = req[d].id /\ rq[d].cancel = TRUE
    BY <1>2, <2>1, <2>2 DEF Reqs
  <2> QED BY <2>1, <2>2, <2>3
<1> HIDE DEF rq, rs
<1>5. Held(rs, slots, ex) \subseteq DOMAIN req /\ \E c : DOMAIN req \subseteq Held(rs, slots, ex) \cup {c}
  <2>1. Range(rs) \subseteq Range(reqs) /\ Range(reqs) \subseteq Range(rs) \cup {d}
    BY <1>1, <1>3 DEF Range
  <2>2. DOMAIN req \subseteq Held(rs, slots, ex) \cup {d} BY <2>1 DEF Owned, Held
  <2> QED BY <2>1, <2>2 DEF Owned, Held
<1>6. /\ Owned' /\ [Ids!Next]_(Ids!svars)
      /\ DOMAIN req' \subseteq DOMAIN req /\ \A r \in DOMAIN req' : req'[r] = rq[r]
      /\ reqs' = rs /\ slots' = slots /\ ex' = ex
  <2>a. Quiet(rq, rs, slots, ex) BY <1>1, <1>3, <1>4, <1>5 DEF Quiet
  <2>b. Kept(rq, rs, slots, ex) BY <2>a, QuietStep
  <2> QED BY <2>b DEF Kept
<1>7. Types' BY <1>1, <1>6 DEF Types
<1>8. Marked'
  <2>1. cancelled' \subseteq 1..Len(runs') BY <1>1, <1>2 DEF Marked
  <2> QED BY <1>1, <1>4, <1>6, <2>1 DEF Marked
<1> QED BY <1>6, <1>7, <1>8

\* A due request is taken out of its slot, and run unless it was cancelled.
LEMMA PopStep ==
    ASSUME TimerInv, PopDue
    PROVE  /\ TimerInv' /\ [Ids!Next]_(Ids!svars)
           /\ ex'.pc = "callback" => ex'.e \notin cancelled
<1> USE DEF TimerInv
<1> DEFINE e == ex.e
           sl == [slots EXCEPT ![ex.i].reqs = @ \ {e}]
           x == [ex EXCEPT !.pc = IF req[e].cancel THEN "next" ELSE "callback"]
<1>1. /\ ex.pc = "loop" /\ Become(req, reqs, sl, x, seqs)
      /\ runs' = IF req[e].cancel THEN runs ELSE [runs EXCEPT ![e] = IF @ = 2 THEN 2 ELSE @ + 1]
      /\ UNCHANGED <<tick, current, cancelled>>
  BY DEF PopDue
<1>2. /\ ex.i \in 1..Len(slots) /\ e # None /\ e \in DOMAIN req /\ req[e] \in Reqs
      /\ slots[ex.i] \in Slots /\ slots[ex.i].reqs \subseteq DOMAIN req /\ slots \in Seq(Slots)
  BY <1>1, AtWork DEF Types
<1>3. /\ sl \in Seq(Slots) /\ Len(sl) = Len(slots)
      /\ InQueues(slots) \subseteq InQueues(sl) \cup {e}
      /\ InQueues(sl) \subseteq InQueues(slots)
  <2> DEFINE S == slots[ex.i].reqs \ {e}
  <2>1. S \in SUBSET Nat BY <1>2 DEF Slots
  <2>2. sl = WithQueue(slots, ex.i, S) BY DEF WithQueue
  <2>3. slots[ex.i].reqs \subseteq InQueues(slots) BY <1>2 DEF InQueues
  <2> HIDE DEF S, sl
  <2>4. /\ sl \in Seq(Slots) /\ Len(sl) = Len(slots)
        /\ InQueues(slots) \subseteq InQueues(sl) \cup (slots[ex.i].reqs \ S)
        /\ InQueues(sl) \subseteq InQueues(slots) \cup S
    BY SMT, <1>2, <2>1, <2>2, SlotChange
  <2> QED BY <2>3, <2>4 DEF S
<1>4. /\ x \in Executors /\ x.e = e /\ x.i = ex.i /\ x.size = ex.size
      /\ x.pc \in {"next", "callback"} /\ (x.pc = "callback" => ~req[e].cancel)
  BY DEF Types, Executors
<1>5. runs' \in Seq({0, 1, 2}) /\ Len(runs') = Len(runs)
  <2>1. e \in 1..Len(runs) /\ runs \in Seq({0, 1, 2}) BY <1>2 DEF Owned, Types
  <2>2. runs[e] \in {0, 1, 2} BY SMT, <2>1
  <2>3. (IF runs[e] = 2 THEN 2 ELSE runs[e] + 1) \in {0, 1, 2} BY SMT, <2>2
  <2> HIDE DEF e
  <2> QED BY SMT, <1>1, <2>1, <2>3
<1> HIDE DEF x, sl
<1>6. Held(reqs, sl, x) \subseteq DOMAIN req /\ \E d : DOMAIN req \subseteq Held(reqs, sl, x) \cup {d}
  <2>1. DOMAIN req \subseteq Held(reqs, sl, x) \cup {e} BY <1>3, <1>4 DEF Owned, Held
  <2> QED BY <1>2, <1>3, <1>4, <2>1 DEF Owned, Held
<1>7. \A r \in DOMAIN req : req[r] \in Reqs BY DEF Owned
<1>8. /\ Owned' /\ [Ids!Next]_(Ids!svars)
      /\ DOMAIN req' \subseteq DOMAIN req /\ \A r \in DOMAIN req' : req'[r] = req[r]
      /\ reqs' = reqs /\ slots' = sl /\ ex' = x
  <2>a. Quiet(req, reqs, sl, x) BY <1>1, <1>5, <1>6, <1>7 DEF Quiet
  <2>b. Kept(req, reqs, sl, x) BY <2>a, QuietStep
  <2> QED BY <2>b DEF Kept
<1>9. Types'
  <2>1. ex.i > 0 /\ ex.i <= ex.size /\ ex.size <= Len(slots) BY <1>1 DEF Types
  <2> QED BY <1>1, <1>2, <1>3, <1>4, <1>5, <1>8, <2>1 DEF Types
<1>10. Marked' BY <1>1, <1>5, <1>8 DEF Marked
<1>11. ex'.pc = "callback" => ex'.e \notin cancelled BY <1>2, <1>4, <1>8 DEF Marked
<1> QED BY <1>8, <1>9, <1>10, <1>11

\* The actions have returned: the request is queued again, or taken out of reqs_.
LEMMA ReturnStep ==
    ASSUME TimerInv, CallbackReturns
    PROVE  TimerInv' /\ [Ids!Next]_(Ids!svars)
<1> USE DEF TimerInv
<1> DEFINE e == ex.e
           q == req[e]
<1>0. PICK x : x = [ex EXCEPT !.pc = "next"] OBVIOUS
<1>1. ex.pc = "callback" /\ UNCHANGED aside BY DEF CallbackReturns
<1>2. /\ ex.i \in 1..Len(slots) /\ e # None /\ e \in DOMAIN req /\ q \in Reqs
      /\ slots[ex.i] \in Slots /\ slots[ex.i].reqs \subseteq DOMAIN req /\ slots \in Seq(Slots)
  BY <1>1, AtWork DEF Types
<1>3. x \in Executors /\ x.e = e /\ x.i = ex.i /\ x.size = ex.size /\ x.pc = "next"
  BY <1>0 DEF Types, Executors
<1>4. current' = current /\ runs' = runs /\ cancelled' = cancelled /\ tick' = tick
  BY <1>1 DEF aside
<1>5. ASSUME NEW rq, NEW sl \in Seq(Slots), Len(sl) = Len(slots), slots' = sl, ex' = x,
             \A r \in DOMAIN req : rq[r].cancel = req[r].cancel,
             DOMAIN req' \subseteq DOMAIN req, \A r \in DOMAIN req' : req'[r] = rq[r]
      PROVE  Types' /\ Marked'
  <2>1. ex.i > 0 /\ ex.i <= ex.size /\ ex.size <= Len(slots) BY <1>1 DEF Types
  <2>2. Types' BY <1>2, <1>3, <1>4, <1>5, <2>1 DEF Types
  <2>3. Marked' BY <1>4, <1>5 DEF Marked
  <2> QED BY <2>2, <2>3
<1>6. CASE Again(q)
  <2> DEFINE rq == [req EXCEPT ![e].next = ex.now + q.interval]
             sl == [slots EXCEPT ![ex.i].reqs = @ \cup {e}]
             S == slots[ex.i].reqs \cup {e}
  <2>1. Become(rq, reqs, sl, x, seqs) BY <1>0, <1>6 DEF CallbackReturns
  <2>2. ex.now + q.interval \in Nat BY SMT, <1>2 DEF Types, Executors, Reqs
  <2>3. /\ DOMAIN rq = DOMAIN req
        /\ \A r \in DOMAIN req : rq[r] \in Reqs /\ rq[r].id = req[r].id
        /\ \A r \in DOMAIN req : rq[r].cancel = req[r].cancel
    BY <1>2, <2>2 DEF Owned, Reqs
  <2>4. S \in SUBSET Nat
    <3>1. DOMAIN req \subseteq Nat BY SMT DEF Owned
    <3> QED BY <1>2, <3>1
  <2>5. sl = WithQueue(slots, ex.i, S) BY DEF WithQueue
  <2> HIDE DEF S, sl, rq
  <2>6. /\ sl \in Seq(Slots) /\ Len(sl) = Len(slots)
        /\ InQueues(slots) \subseteq InQueues(sl) \cup (slots[ex.i].reqs \ S)
        /\ InQueues(sl) \subseteq InQueues(slots) \cup S
    BY SMT, <1>2, <2>4, <2>5, SlotChange
  <2>7. Held(reqs, sl, x) \subseteq DOMAIN req /\ \E d : DOMAIN req \subseteq Held(reqs, sl, x) \cup {d}
    <3>1. slots[ex.i].reqs \ S = {} /\ S \subseteq DOMAIN req BY <1>2 DEF S
    <3>2. DOMAIN req \subseteq Held(reqs, sl, x) \cup {e} BY <1>2, <1>3, <2>6, <3>1 DEF Owned, Held
    <3> QED BY <1>2, <1>3, <2>6, <3>1, <3>2 DEF Owned, Held
  <2>8. /\ Owned' /\ [Ids!Next]_(Ids!svars)
        /\ DOMAIN req' \subseteq DOMAIN req /\ \A r \in DOMAIN req' : req'[r] = rq[r]
        /\ reqs' = reqs /\ slots' = sl /\ ex' = x
    <3>a. Quiet(rq, reqs, sl, x) BY <1>4, <2>1, <2>3, <2>7 DEF Quiet
    <3>b. Kept(rq, reqs, sl, x) BY <3>a, QuietStep
    <3> QED BY <3>b DEF Kept
  <2> QED BY <1>5, <2>3, <2>6, <2>8
<1>7. CASE ~Again(q)
  <2> DEFINE rs == Without(reqs, {q.id})
  <2>1. Become(req, rs, slots, x, seqs) BY <1>0, <1>7 DEF CallbackReturns
  <2>2. DOMAIN rs = DOMAIN reqs \ {q.id} /\ \A k \in DOMAIN rs : rs[k] = reqs[k]
    BY DEF Without, Restrict
  <2>3. \A k \in DOMAIN reqs : reqs[k] \in DOMAIN req /\ req[reqs[k]].id = k
    BY DEF Owned, Held, Range
  <2>4. q.id \in DOMAIN reqs => reqs[q.id] = e BY SMT, <1>2, <2>3 DEF Owned
  <2> HIDE DEF rs
  <2>5. Range(rs) \subseteq Range(reqs) /\ Range(reqs) \subseteq Range(rs) \cup {e}
    <3> HIDE DEF q, e
    <3> QED BY SMT, <2>2, <2>4 DEF Range
  <2>6. Held(rs, slots, x) \subseteq DOMAIN req /\ \E d : DOMAIN req \subseteq Held(rs, slots, x) \cup {d}
    <3>1. DOMAIN req \subseteq Held(rs, slots, x) \cup {e} BY <1>2, <1>3, <2>5 DEF Owned, Held
    <3> QED BY <1>2, <1>3, <2>5, <3>1 DEF Owned, Held
  <2>7. \A r \in DOMAIN req : req[r] \in Reqs BY DEF Owned
  <2>8. /\ Owned' /\ [Ids!Next]_(Ids!svars)
        /\ DOMAIN req' \subseteq DOMAIN req /\ \A r \in DOMAIN req' : req'[r] = req[r]
        /\ reqs' = rs /\ slots' = slots /\ ex' = x
    <3>a. Quiet(req, rs, slots, x) BY <1>4, <2>1, <2>2, <2>6, <2>7 DEF Quiet
    <3>b. Kept(req, rs, slots, x) BY <3>a, QuietStep
    <3> QED BY <3>b DEF Kept
  <2> QED BY <1>2, <1>5, <2>8
<1> QED BY <1>6, <1>7

\* An action throws: execute() is left, and its request with it.
LEMMA ThrowStep ==
    ASSUME TimerInv, CallbackThrows
    PROVE  TimerInv' /\ [Ids!Next]_(Ids!svars) /\ ex'.pc = "idle"
<1> USE DEF TimerInv
<1>1. /\ Become(req, reqs, slots, Idle, seqs)
      /\ current' = current /\ runs' = runs /\ cancelled' = cancelled /\ tick' = tick
  BY DEF CallbackThrows
<1>2. PICK x : x = Idle OBVIOUS
<1>3. x \in Executors /\ x.pc = "idle" /\ x.e = None /\ x.size = 0
  BY <1>2 DEF Idle, Executors, None
<1>4. /\ Held(reqs, slots, x) \subseteq DOMAIN req
      /\ \E d : DOMAIN req \subseteq Held(reqs, slots, x) \cup {d}
  <2>1. DOMAIN req \subseteq Held(reqs, slots, x) \cup {ex.e} BY <1>3 DEF Owned, Held
  <2> QED BY <1>3, <2>1 DEF Owned, Held
<1>5. \A r \in DOMAIN req : req[r] \in Reqs BY DEF Owned
<1>6. /\ Owned' /\ [Ids!Next]_(Ids!svars)
      /\ DOMAIN req' \subseteq DOMAIN req /\ \A r \in DOMAIN req' : req'[r] = req[r]
      /\ reqs' = reqs /\ slots' = slots /\ ex' = x
  <2>a. Quiet(req, reqs, slots, x) BY <1>1, <1>2, <1>4, <1>5 DEF Quiet
  <2>b. Kept(req, reqs, slots, x) BY <2>a, QuietStep
  <2> QED BY <2>b DEF Kept
<1>7. Types' BY SMT, <1>1, <1>3, <1>6 DEF Types
<1>8. Marked' BY <1>1, <1>6 DEF Marked
<1> QED BY <1>3, <1>6, <1>7, <1>8

\* execute() starts or returns, or time passes: no request is touched.
LEMMA ClockStep ==
    ASSUME TimerInv, Execute \/ ExecuteReturns \/ Tick
    PROVE  /\ TimerInv' /\ UNCHANGED Ids!svars
           /\ ex'.pc = "callback" => ex' = ex
<1> USE DEF TimerInv
<1>1. UNCHANGED <<current, seqs, req, reqs, slots, cancelled, runs>>
  BY DEF Execute, ExecuteReturns, Tick, aside
<1>2. tick' \in Nat
  BY SMT DEF Execute, ExecuteReturns, Tick, aside, Types
<1>3. /\ ex' \in Executors /\ ex'.e = ex.e /\ ex'.size <= Len(slots)
      /\ \/ ex' = ex
         \/ ex'.pc = "slot" /\ ex'.i > 0 /\ ex'.e = None
         \/ ex'.pc = "idle" /\ ex'.e = None
  <2>1. CASE Execute
    <3>1. ex.e = None /\ None \in Nat /\ Len(slots) \in Nat /\ tick \in Nat
      BY SMT, <2>1 DEF Execute, Types, None
    <3>2. ex' = [pc |-> "slot", i |-> 1, size |-> Len(slots), now |-> tick, e |-> None]
      BY <2>1 DEF Execute
    <3> QED BY SMT, <3>1, <3>2 DEF Executors
  <2>2. CASE ExecuteReturns
    <3>1. ex.e = None /\ Len(slots) \in Nat BY SMT, <2>2 DEF ExecuteReturns, Types
    <3> QED BY SMT, <2>2, <3>1 DEF ExecuteReturns, Idle, Executors, None
  <2>3. CASE Tick BY <2>3 DEF Tick, Types
  <2> QED BY <2>1, <2>2, <2>3
<1>4. Types' BY <1>1, <1>2, <1>3 DEF Types
<1>5. Used' = Used BY <1>1 DEF Used
<1>6. Owned'
  <2>1. Held(reqs', slots', ex') = Held(reqs, slots, ex) BY <1>1, <1>3 DEF Held
  <2> QED BY <1>1, <1>5, <2>1 DEF Owned
<1>7. Marked' BY <1>1 DEF Marked
<1>8. UNCHANGED Ids!svars BY <1>1 DEF Ids!svars
<1> QED BY <1>3, <1>4, <1>6, <1>7, <1>8

\* A new timer has no request, and the first batch of ids.
LEMMA TimerInit ==
    ASSUME Init
    PROVE  TimerInv /\ Ids!Init
<1>1. Used = {} BY SMT DEF Init, Used
<1>2. Ids!Init BY <1>1 DEF Init, Ids!Init, Used
<1>3. P!Pool(current, seqs, Used)
  <2>1. 1 \in Nat /\ IdEnd \in Nat /\ 1 < IdEnd /\ Reserve \in 1..(IdEnd - 1) BY IdAssumption
  <2> QED BY <1>2, <2>1, SamePool, P!PoolInit
<1>4. Held(reqs, slots, ex) = {} BY SMT DEF Init, Held, Range, InQueues, Idle, None
<1>5. Owned BY SMT, <1>3, <1>4 DEF Init, Owned
<1>6. Types BY SMT DEF Init, Types, Idle, Executors, None
<1>7. Marked BY DEF Init, Marked
<1> QED BY <1>2, <1>5, <1>6, <1>7 DEF TimerInv

\* Every step of the timer keeps the invariant, is a step of the pool of ids or
\* leaves it alone, and starts no action of a cancelled request.
LEMMA TimerStep ==
    ASSUME TimerInv, [Next]_vars
    PROVE  /\ TimerInv' /\ [Ids!Next]_(Ids!svars)
           /\ ex.pc # "callback" /\ ex'.pc = "callback" => ex'.e \notin cancelled
<1>1. ASSUME NEW a \in Requests, Set(a)
      PROVE  TimerInv' /\ [Ids!Next]_(Ids!svars) /\ ex' = ex
  BY <1>1, SetStep
<1>2. ASSUME NEW id \in 1..IdEnd, Cancel(id)
      PROVE  TimerInv' /\ [Ids!Next]_(Ids!svars) /\ ex' = ex
  BY <1>2, CancelStep
<1>3. CASE Execute \/ ExecuteReturns \/ Tick
  BY <1>3, ClockStep
<1>4. CASE SlotWaits \/ SlotBegins \/ SlotEnds \/ LoopNext
  BY <1>4, SlotStep
<1>5. CASE PopDue
  BY <1>5, PopStep
<1>6. CASE CallbackReturns
  <2>1. ex.pc = "callback" BY <1>6 DEF CallbackReturns
  <2> QED BY <1>6, <2>1, ReturnStep
<1>7. CASE CallbackThrows
  BY <1>7, ThrowStep
<1>8. CASE UNCHANGED vars
  <2>1. UNCHANGED <<tick, current, seqs, req, reqs, slots, ex, cancelled, runs>> BY <1>8 DEF vars
  <2>2. Used' = Used BY <2>1 DEF Used
  <2>3. Types' BY <2>1 DEF TimerInv, Types
  <2>4. Owned' BY <2>1, <2>2 DEF TimerInv, Owned
  <2>5. Marked' BY <2>1 DEF TimerInv, Marked
  <2>6. UNCHANGED Ids!svars BY <2>1 DEF Ids!svars
  <2> QED BY <2>1, <2>3, <2>4, <2>5, <2>6 DEF TimerInv
<1> QED BY <1>1, <1>2, <1>3, <1>4, <1>5, <1>6, <1>7, <1>8 DEF Next, Running

\* The ids of the requests and seq_ are a pool of ids, whatever requests are set, by
\* the owner or by actions, and whatever is cancelled, run again or thrown: set()
\* takes an id, ~req() gives it back, and no two requests have the same one.
THEOREM TimerIsIdPool == Spec => ImplementsIdPool
<1>1. Init => TimerInv /\ Ids!Init BY TimerInit
<1>2. TimerInv /\ [Next]_vars => TimerInv' /\ [Ids!Next]_(Ids!svars) BY TimerStep
<1> QED BY <1>1, <1>2, PTL DEF Spec, ImplementsIdPool, Ids!Spec

\* update_slot() starts no action of a request after its cancel() has returned.
THEOREM CancelledNotRun == Spec => NoRunAfterCancel
<1>1. Init => TimerInv BY TimerInit
<1>2. TimerInv /\ [Next]_vars
         => TimerInv' /\ [ex.pc # "callback" /\ ex'.pc = "callback" => ex'.e \notin cancelled]_vars
  BY TimerStep
<1> QED BY <1>1, <1>2, PTL DEF Spec, NoRunAfterCancel
=============================================================================
