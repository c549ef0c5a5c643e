--------------------------- MODULE TimerDueProofs ---------------------------
(***************************************************************************)
(* The requests of a timer are run when they should, for any requests and  *)
(* any table of intervals that increases.                                  *)
(***************************************************************************)
EXTENDS TimerProofs

\* Zenon proves what needs no arithmetic; the other leaves say SMT.
USE Zenon

\* where update_slot() is at work on the slot ex.i
Working == ex.pc \in {"loop", "next", "callback"}

\* A request is in one queue at most, and a slot has an interval of its own;
\* update_slot() has the top of its queue, and what it runs is in no queue.  A
\* request of the table was not cancelled.
Placed ==
    /\ \A i, j \in 1..Len(slots) : i # j => /\ slots[i].reqs \cap slots[j].reqs = {}
                                            /\ slots[i].interval # slots[j].interval
    /\ ex.pc = "loop" => ex.e \in Tops(slots[ex.i].reqs)
    /\ ex.pc = "callback" => ex.e \notin InQueues(slots)
    /\ \A id \in DOMAIN reqs : ~req[reqs[id]].cancel

\* The ticks that are kept are past; the slot update_slot() is at work on has run now.
Timed ==
    /\ tick <= MaxTick /\ last_exec \in Nat /\ last_exec <= tick
    /\ ex.pc # "idle" => ex.now <= tick
    /\ \A i \in 1..Len(slots) : slots[i].last <= tick
    /\ Working => slots[ex.i].last = ex.now
    /\ \A r \in DOMAIN req : req[r].interval > 0

\* A request of once() that waits in a queue was not run yet.
RunOnce ==
    \A r \in DOMAIN req : Single(req[r]) => /\ runs[r] <= 1
                                            /\ r \in InQueues(slots) => runs[r] = 0

\* A request of the table waits in a queue or is being run.
Waits ==
    \A id \in DOMAIN reqs : \/ reqs[id] \in InQueues(slots)
                            \/ ex.pc = "callback" /\ ex.e = reqs[id]

\* A turn of a slot leaves no request that was due; so what is in a slot that had its
\* turn in this execute(), or had none as the last was not long ago, or is new, is
\* not later than the interval of the slot.
InTime ==
    \A i \in 1..Len(slots) : \A r \in slots[i].reqs :
        /\ ~(Working /\ i = ex.i) => slots[i].last < req[r].next
        /\ ex.pc = "idle" => last_exec < req[r].next + slots[i].interval
        /\ ex.pc # "idle" /\ (i < ex.i \/ i > ex.size) => ex.now < req[r].next + slots[i].interval

DueInv == Placed /\ Timed /\ RunOnce /\ (~threw => Waits /\ InTime)

\* create_slot() finds the interval of a slot in the table.
LEMMA SlotIntervals ==
    ASSUME NEW n \in Nat
    PROVE  SlotInterval(n) \in Nat
<1> DEFINE half == Clamped(n) \div 2
           fit == {i \in 1..(Len(Intervals) - 1) : Intervals[i] <= half /\ half < Intervals[i + 1]}
           c == CHOOSE i \in fit : \A j \in fit : i <= j
<1>1. SlotInterval(n) = IF fit = {} THEN Intervals[1] ELSE Intervals[c] BY DEF SlotInterval
<1>2. fit \subseteq 1..(Len(Intervals) - 1) OBVIOUS
<1>3. \A i \in fit : Intervals[i] <= half /\ half < Intervals[i + 1] OBVIOUS
<1>4. half \in Nat BY SMT, IntervalAssumption DEF Clamped
<1> HIDE DEF half, fit
<1>5. CASE fit = {} BY SMT, <1>1, <1>5, IntervalAssumption
<1>6. CASE fit # {}
  <2>1. ASSUME NEW i \in fit, NEW j \in fit, i < j PROVE FALSE
    <3>1. i + 1 = j \/ i + 1 < j BY SMT, <1>2, <2>1
    <3>2. Intervals[i + 1] <= Intervals[j] BY SMT, <1>2, <2>1, <3>1, IntervalAssumption
    <3>3. half < Intervals[i + 1] /\ Intervals[j] <= half BY <1>3
    <3>4. half \in Nat /\ Intervals[i + 1] \in Nat /\ Intervals[j] \in Nat
      BY SMT, <1>2, <1>4, IntervalAssumption
    <3> QED BY SMT, <3>2, <3>3, <3>4
  <2>2. \E i \in fit : \A j \in fit : i <= j
    <3>1. PICK i \in fit : TRUE BY <1>6
    <3>2. \A j \in fit : ~(j < i) BY <2>1
    <3>3. i \in Nat /\ \A j \in fit : j \in Nat BY SMT, <1>2
    <3> QED BY SMT, <3>2, <3>3
  <2>3. c \in fit BY <2>2
  <2> HIDE DEF c
  <2> QED BY SMT, <1>1, <1>2, <1>6, <2>3, IntervalAssumption
<1> QED BY <1>5, <1>6

\* What the invariant says of the values that time is told from.
LEMMA Values ==
    ASSUME TimerInv
    PROVE  /\ tick \in Nat /\ Len(slots) \in Nat
           /\ ex.i \in Nat /\ ex.size \in Nat /\ ex.now \in Nat /\ ex.size <= Len(slots)
           /\ \A i \in 1..Len(slots) : /\ slots[i].last \in Nat /\ slots[i].interval \in Nat
                                       /\ slots[i].reqs \subseteq InQueues(slots)
           /\ InQueues(slots) \subseteq DOMAIN req
           /\ \A r \in DOMAIN req : /\ req[r].next \in Nat /\ req[r].end \in Nat
                                    /\ req[r].interval \in Nat /\ req[r].repeat \in BOOLEAN
                                    /\ r \in 1..Len(runs) /\ runs[r] \in {0, 1, 2}
           /\ \A id \in DOMAIN reqs : reqs[id] \in DOMAIN req
<1>1. slots \in Seq(Slots) /\ ex \in Executors /\ tick \in Nat /\ ex.size <= Len(slots)
  BY DEF TimerInv, Types
<1>2. \A a \in Requests : SlotInterval(a.interval) \in Nat BY RequestAssumption, SlotIntervals
<1>3. \A s \in Slots : s.last \in Nat /\ s.interval \in Nat BY <1>2 DEF Slots
<1>4. \A i \in 1..Len(slots) : slots[i] \in Slots BY SMT, <1>1
<1>5. \A i \in 1..Len(slots) : slots[i].reqs \subseteq InQueues(slots) BY DEF InQueues
<1>6. InQueues(slots) \subseteq DOMAIN req /\ \A id \in DOMAIN reqs : reqs[id] \in DOMAIN req
  BY DEF TimerInv, Owned, Held, Range
<1>7. \A r \in DOMAIN req : req[r] \in Reqs /\ r \in 1..Len(runs) BY DEF TimerInv, Owned
<1>8. \A r \in 1..Len(runs) : runs[r] \in {0, 1, 2} BY SMT DEF TimerInv, Types
<1>9. \A q \in Reqs : q.next \in Nat /\ q.end \in Nat /\ q.interval \in Nat /\ q.repeat \in BOOLEAN
  BY DEF Reqs
<1>10. ex.i \in Nat /\ ex.size \in Nat /\ ex.now \in Nat BY <1>1 DEF Executors
<1>11. Len(slots) \in Nat BY SMT, <1>1
<1> QED BY <1>1, <1>3, <1>4, <1>5, <1>6, <1>7, <1>8, <1>9, <1>10, <1>11

\* What a step that ends in Become leaves.
LEMMA Became ==
    ASSUME NEW rq, NEW rs, NEW sl, NEW x, NEW ids, Become(rq, rs, sl, x, ids)
    PROVE  /\ reqs' = rs /\ slots' = sl /\ ex' = x
           /\ DOMAIN req' = Held(rs, sl, x)
           /\ \A r \in DOMAIN req' : req'[r] = rq[r]
           /\ InQueues(sl) \subseteq DOMAIN req' /\ \A id \in DOMAIN rs : rs[id] \in DOMAIN req'
<1>1. reqs' = rs /\ slots' = sl /\ ex' = x /\ req' = [r \in Held(rs, sl, x) |-> rq[r]]
  BY DEF Become, Restrict
<1>2. InQueues(sl) \subseteq Held(rs, sl, x) /\ \A id \in DOMAIN rs : rs[id] \in Held(rs, sl, x)
  BY DEF Held, Range
<1> QED BY <1>1, <1>2

\* update_slot() goes on to the next slot, when it leaves no request of this one late, or
\* to the top of the queue.
LEMMA MoveDue ==
    ASSUME TimerInv, DueInv, NEW sl, NEW x, Become(req, reqs, sl, x, seqs), UNCHANGED aside,
           ex.pc \in {"slot", "loop", "next"}, ex.i \in 1..Len(slots),
           Len(sl) = Len(slots),
           \A i \in 1..Len(slots) :
               /\ sl[i].reqs = slots[i].reqs /\ sl[i].interval = slots[i].interval
               /\ sl[i].last = slots[i].last \/ (i = ex.i /\ sl[i].last = ex.now),
           x.now = ex.now, x.size = ex.size,
           \/ /\ x.pc = "slot" /\ x.i = ex.i + 1 /\ x.e = None
              /\ ~threw => \A r \in slots[ex.i].reqs :
                     sl[ex.i].last < req[r].next /\ ex.now < req[r].next + slots[ex.i].interval
           \/ /\ x.pc = "loop" /\ x.i = ex.i
              /\ sl[ex.i].last = ex.now /\ x.e \in Tops(slots[ex.i].reqs)
    PROVE  DueInv'
<1>1. /\ reqs' = reqs /\ slots' = sl /\ ex' = x /\ DOMAIN req' = Held(reqs, sl, x)
      /\ \A r \in DOMAIN req' : req'[r] = req[r]
      /\ InQueues(sl) \subseteq DOMAIN req' /\ \A id \in DOMAIN reqs : reqs[id] \in DOMAIN req'
  BY Became
<1>2. InQueues(sl) = InQueues(slots) BY SMT DEF InQueues
<1>3. tick' = tick /\ threw' = threw /\ last_exec' = last_exec /\ runs' = runs BY DEF aside
<1>4. \A i \in 1..Len(slots) : /\ slots[i].reqs \subseteq InQueues(slots)
                               /\ slots[i].last \in Nat /\ slots[i].interval \in Nat
  BY Values
<1>5. DOMAIN req' \subseteq DOMAIN req
  <2>1. InQueues(slots) \subseteq DOMAIN req BY Values
  <2>2. x.e \in DOMAIN req \cup {None} BY <1>4, <2>1 DEF Tops
  <2>3. Range(reqs) \subseteq DOMAIN req BY Values DEF Range
  <2> QED BY <1>1, <1>2, <2>1, <2>2, <2>3 DEF Held
<1>6. Placed'
  <2>1. ex'.pc = "loop" => ex'.e \in Tops(slots[ex.i].reqs)' BY SMT, <1>1, <1>2, <1>4 DEF Tops
  <2>2. ex'.pc # "callback" BY <1>1
  <2>3. \A i, j \in 1..Len(slots) : i # j => /\ sl[i].reqs \cap sl[j].reqs = {}
                                             /\ sl[i].interval # sl[j].interval
    BY SMT DEF DueInv, Placed
  <2>4. \A id \in DOMAIN reqs : ~req'[reqs[id]].cancel BY <1>1 DEF DueInv, Placed
  <2>5. slots'[ex'.i].reqs = slots[ex.i].reqs \/ ex'.pc # "loop" BY <1>1
  <2> QED BY SMT, <1>1, <2>1, <2>2, <2>3, <2>4, <2>5 DEF Placed
<1>7. Timed'
  <2>1. \A i \in 1..Len(slots) : sl[i].last <= tick BY DEF DueInv, Timed
  <2>2. Working' => slots'[ex'.i].last = ex'.now BY <1>1 DEF Working
  <2>3. ex.now <= tick BY DEF DueInv, Timed
  <2> QED BY <1>1, <1>3, <1>5, <2>1, <2>2, <2>3 DEF DueInv, Timed
<1>8. RunOnce' BY <1>1, <1>2, <1>3, <1>5 DEF DueInv, RunOnce, Single
<1>9. ~threw => Waits'
  <2>1. ~threw => \A id \in DOMAIN reqs : reqs[id] \in InQueues(slots) BY DEF DueInv, Waits
  <2> QED BY <1>1, <1>2, <2>1 DEF Waits
<1>10. ~threw => InTime'
  <2>1. ASSUME ~threw, NEW i \in 1..Len(slots), NEW r \in slots[i].reqs
        PROVE  /\ (x.pc = "loop" /\ i = x.i) \/ sl[i].last < req[r].next
               /\ i < x.i \/ i > x.size => ex.now < req[r].next + slots[i].interval
    <3>1. /\ i # ex.i => slots[i].last < req[r].next
          /\ i < ex.i \/ i > ex.size => ex.now < req[r].next + slots[i].interval
      BY <2>1 DEF DueInv, InTime
    <3>2. ex.i \in Nat /\ ex.size \in Nat BY Values
    <3> QED BY SMT, <2>1, <3>1, <3>2
  <2>2. \A i \in 1..Len(slots) : \A r \in slots[i].reqs : req'[r] = req[r] BY <1>1, <1>2, <1>4
  <2>3. ex'.pc # "idle" /\ (Working' <=> x.pc = "loop") BY <1>1 DEF Working
  <2> QED BY SMT, <1>1, <2>1, <2>2, <2>3 DEF InTime
<1> QED BY <1>3, <1>6, <1>7, <1>8, <1>9, <1>10 DEF DueInv

\* The steps of update_slot() that run nothing leave no request late: the slot had its
\* turn a moment ago, its queue is empty, or its top is not due.
LEMMA SlotDue ==
    ASSUME TimerInv, DueInv, SlotWaits \/ SlotBegins \/ SlotEnds \/ LoopNext
    PROVE  DueInv'
<1>1. ex.pc \in {"slot", "loop", "next"} /\ UNCHANGED aside
  BY DEF SlotWaits, SlotBegins, SlotEnds, LoopNext
<1>2. ex.i \in 1..Len(slots) /\ slots \in Seq(Slots) /\ slots[ex.i] \in Slots
  <2>1. ex.i <= ex.size /\ ex.i > 0
    BY <1>1 DEF SlotWaits, SlotBegins, SlotEnds, LoopNext, TimerInv, Types
  <2>2. ex.i \in 1..Len(slots) BY SMT, <2>1, Values
  <2> QED BY SMT, <2>2 DEF TimerInv, Types
<1> DEFINE y == NextSlot
           z(r) == [ex EXCEPT !.pc = "loop", !.e = r]
           turn == [slots EXCEPT ![ex.i].last = ex.now]
<1>3. y.pc = "slot" /\ y.i = ex.i + 1 /\ y.e = None /\ y.now = ex.now /\ y.size = ex.size
  BY <1>1, Moves
<1>4. \A r \in Nat : /\ z(r).pc = "loop" /\ z(r).i = ex.i /\ z(r).e = r
                     /\ z(r).now = ex.now /\ z(r).size = ex.size
  BY <1>1, Moves
<1>5. /\ Len(turn) = Len(slots) /\ turn[ex.i].last = ex.now
      /\ \A i \in 1..Len(slots) :
            /\ turn[i].reqs = slots[i].reqs /\ turn[i].interval = slots[i].interval
            /\ turn[i].last = slots[i].last \/ (i = ex.i /\ turn[i].last = ex.now)
  <2> DEFINE s == [slots[ex.i] EXCEPT !.last = ex.now]
  <2>1. s.last = ex.now /\ s.reqs = slots[ex.i].reqs /\ s.interval = slots[ex.i].interval
    BY <1>2 DEF Slots
  <2>2. turn = [slots EXCEPT ![ex.i] = s] OBVIOUS
  <2> HIDE DEF s, turn
  <2> QED BY SMT, <1>2, <2>1, <2>2
<1>6. Tops(slots[ex.i].reqs) \subseteq Nat BY <1>2 DEF Slots, Tops
<1> HIDE DEF y, z, turn
<1>7. ASSUME NEW sl \in {slots, turn}, sl[ex.i].last = ex.now, NEW r \in Tops(slots[ex.i].reqs),
             Become(req, reqs, sl, z(r), seqs)
      PROVE  DueInv'
  <2>1. PICK x : x = z(r) OBVIOUS
  <2>2. /\ x.pc = "loop" /\ x.i = ex.i /\ x.e \in Tops(slots[ex.i].reqs)
        /\ x.now = ex.now /\ x.size = ex.size /\ Become(req, reqs, sl, x, seqs)
    BY <1>4, <1>6, <1>7, <2>1
  <2> QED BY <1>1, <1>2, <1>5, <1>7, <2>2, MoveDue
<1>8. ASSUME NEW sl \in {slots, turn}, Become(req, reqs, sl, y, seqs),
             ~threw => \A r \in slots[ex.i].reqs :
                 sl[ex.i].last < req[r].next /\ ex.now < req[r].next + slots[ex.i].interval
      PROVE  DueInv'
  BY <1>1, <1>2, <1>3, <1>5, <1>8, MoveDue
<1>9. \A r \in slots[ex.i].reqs : req[r].next \in Nat BY <1>2, Values
<1>10. ex.now \in Nat /\ slots[ex.i].last \in Nat /\ slots[ex.i].interval \in Nat BY <1>2, Values
<1>11. CASE SlotWaits
  <2>1. ~threw => \A r \in slots[ex.i].reqs : slots[ex.i].last < req[r].next
    BY <1>2, <1>11 DEF SlotWaits, DueInv, InTime, Working
  <2>2. slots[ex.i].last + slots[ex.i].interval > ex.now /\ Become(req, reqs, slots, y, seqs)
    BY <1>11 DEF SlotWaits, y
  <2> QED BY SMT, <1>8, <1>9, <1>10, <2>1, <2>2
<1>12. CASE SlotBegins
  <2>1. CASE slots[ex.i].reqs = {} BY <1>8, <1>12, <2>1 DEF SlotBegins, y, turn
  <2>2. CASE slots[ex.i].reqs # {}
    <3>1. PICK r \in Tops(slots[ex.i].reqs) : Become(req, reqs, turn, z(r), seqs)
      BY <1>12, <2>2 DEF SlotBegins, z, turn
    <3> QED BY <1>5, <1>7, <3>1
  <2> QED BY <2>1, <2>2
<1>13. CASE SlotEnds
  <2>1. slots[ex.i].last = ex.now /\ ex.e \in Tops(slots[ex.i].reqs) /\ ~(req[ex.e].next <= ex.now)
    BY <1>13 DEF SlotEnds, DueInv, Timed, Placed, Working, Due
  <2>2. \A r \in slots[ex.i].reqs : ex.now < req[r].next BY SMT, <1>9, <1>10, <2>1 DEF Tops
  <2>3. Become(req, reqs, slots, y, seqs) BY <1>13 DEF SlotEnds, y
  <2> QED BY SMT, <1>8, <1>9, <1>10, <2>1, <2>2, <2>3
<1>14. CASE LoopNext
  <2>1. slots[ex.i].last = ex.now BY <1>14 DEF LoopNext, DueInv, Timed, Working
  <2>2. CASE slots[ex.i].reqs = {} BY <1>8, <1>14, <2>2 DEF LoopNext, y
  <2>3. CASE slots[ex.i].reqs # {}
    <3>1. PICK r \in Tops(slots[ex.i].reqs) : Become(req, reqs, slots, z(r), seqs)
      BY <1>14, <2>3 DEF LoopNext, z
    <3> QED BY <1>7, <2>1, <3>1
  <2> QED BY <2>2, <2>3
<1> QED BY <1>11, <1>12, <1>13, <1>14

\* A change of one queue, slot by slot.
LEMMA QueueChange ==
    ASSUME NEW sq \in Seq(Slots), NEW i \in 1..Len(sq), NEW S, NEW sl, sl = WithQueue(sq, i, S)
    PROVE  /\ Len(sl) = Len(sq) /\ sl[i].reqs = S
           /\ \A j \in 1..Len(sq) : /\ sl[j].last = sq[j].last /\ sl[j].interval = sq[j].interval
                                    /\ j # i => sl[j].reqs = sq[j].reqs
<1> DEFINE s == [sq[i] EXCEPT !.reqs = S]
<1>1. s.reqs = S /\ s.last = sq[i].last /\ s.interval = sq[i].interval
  <2>1. sq[i] \in Slots BY SMT
  <2> QED BY <2>1 DEF Slots
<1>2. sl = [sq EXCEPT ![i] = s] BY DEF WithQueue
<1> HIDE DEF s
<1> QED BY SMT, <1>1, <1>2

\* A request that is taken out of its queue is in no other; it was not run before if it
\* is one of once().
LEMMA PopDueStep ==
    ASSUME TimerInv, DueInv, PopDue
    PROVE  DueInv'
<1> DEFINE e == ex.e
           S == slots[ex.i].reqs \ {e}
<1>1. /\ ex.pc = "loop" /\ tick' = tick /\ threw' = threw /\ last_exec' = last_exec
      /\ runs' = IF req[e].cancel THEN runs ELSE [runs EXCEPT ![e] = IF @ = 2 THEN 2 ELSE @ + 1]
  BY DEF PopDue
<1>2. ex.i \in 1..Len(slots) /\ e # None /\ e \in DOMAIN req /\ slots \in Seq(Slots)
  BY <1>1, AtWork DEF TimerInv, Types
<1>3. PICK sl : sl = WithQueue(slots, ex.i, S) OBVIOUS
<1>4. PICK x : x = [ex EXCEPT !.pc = IF req[e].cancel THEN "next" ELSE "callback"] OBVIOUS
<1>5. Become(req, reqs, sl, x, seqs) BY <1>3, <1>4 DEF PopDue, WithQueue
<1>6. /\ x.i = ex.i /\ x.size = ex.size /\ x.now = ex.now /\ x.e = e
      /\ x.pc = IF req[e].cancel THEN "next" ELSE "callback"
  BY <1>4 DEF TimerInv, Types, Executors
<1>7. /\ Len(sl) = Len(slots) /\ sl[ex.i].reqs = slots[ex.i].reqs \ {e}
      /\ \A j \in 1..Len(slots) : /\ sl[j].last = slots[j].last /\ sl[j].interval = slots[j].interval
                                  /\ j # ex.i => sl[j].reqs = slots[j].reqs
  BY SMT, <1>2, <1>3, QueueChange
<1> HIDE DEF S, e
<1>8. e \in slots[ex.i].reqs BY <1>1 DEF DueInv, Placed, Tops, e
<1>9. InQueues(sl) = InQueues(slots) \ {e} /\ e \in InQueues(slots)
  <2>1. \A j \in 1..Len(slots) : j # ex.i => e \notin slots[j].reqs
    BY <1>2, <1>8 DEF DueInv, Placed
  <2>2. e \notin InQueues(sl) /\ e \in InQueues(slots) BY SMT, <1>2, <1>7, <1>8, <2>1 DEF InQueues
  <2>3. InQueues(sl) \subseteq InQueues(slots) BY SMT, <1>2, <1>7 DEF InQueues
  <2>4. \A r \in InQueues(slots) : r # e => r \in InQueues(sl) BY SMT, <1>2, <1>7 DEF InQueues
  <2> QED BY <2>2, <2>3, <2>4
<1>10. /\ reqs' = reqs /\ slots' = sl /\ ex' = x /\ DOMAIN req' = Held(reqs, sl, x)
       /\ \A r \in DOMAIN req' : req'[r] = req[r]
       /\ InQueues(sl) \subseteq DOMAIN req' /\ \A id \in DOMAIN reqs : reqs[id] \in DOMAIN req'
  BY SMT, <1>5, Became
<1>11. DOMAIN req' \subseteq DOMAIN req
  <2>1. InQueues(slots) \subseteq DOMAIN req /\ Range(reqs) \subseteq DOMAIN req
    BY Values DEF Range
  <2> QED BY <1>2, <1>6, <1>9, <1>10, <2>1 DEF Held
<1>12. \A i \in 1..Len(slots) : sl[i].reqs \subseteq DOMAIN req' BY <1>7, <1>10 DEF InQueues
<1>13. Placed'
  <2>1. \A i, j \in 1..Len(slots) : i # j => /\ sl[i].reqs \cap sl[j].reqs = {}
                                             /\ sl[i].interval # sl[j].interval
    BY SMT, <1>7 DEF DueInv, Placed
  <2>2. \A id \in DOMAIN reqs : ~req'[reqs[id]].cancel BY <1>10 DEF DueInv, Placed
  <2> QED BY SMT, <1>6, <1>7, <1>9, <1>10, <2>1, <2>2 DEF Placed
<1>14. Timed'
  BY <1>1, <1>6, <1>7, <1>10, <1>11, <1>2 DEF DueInv, Timed, Working
<1>15. RunOnce'
  <2>1. \A r \in DOMAIN req : runs[r] \in {0, 1, 2} /\ r \in 1..Len(runs) BY Values
  <2>2. runs \in Seq({0, 1, 2}) BY DEF TimerInv, Types
  <2>3. \A r \in DOMAIN req : r # e => runs'[r] = runs[r] BY SMT, <1>1, <2>1, <2>2
  <2>4. runs[e] = 0 => runs'[e] <= 1 BY SMT, <1>1, <1>2, <2>1, <2>2
  <2> QED BY <1>9, <1>10, <1>11, <2>3, <2>4 DEF DueInv, RunOnce, Single
<1>16. ~threw => Waits'
  <2>1. ~threw => \A id \in DOMAIN reqs : reqs[id] \in InQueues(slots) BY <1>1 DEF DueInv, Waits
  <2>2. \A id \in DOMAIN reqs : reqs[id] = e => ~req[e].cancel BY DEF DueInv, Placed
  <2> QED BY <1>6, <1>9, <1>10, <2>1, <2>2 DEF Waits
<1>17. ~threw => InTime'
  <2>1. \A i \in 1..Len(slots) : \A r \in sl[i].reqs : r \in slots[i].reqs /\ req'[r] = req[r]
    BY <1>7, <1>10, <1>12
  <2>2. Working /\ Working' /\ ex.pc # "idle" /\ ex'.pc # "idle" BY <1>1, <1>6, <1>10 DEF Working
  <2> QED BY SMT, <1>6, <1>7, <1>10, <2>1, <2>2 DEF DueInv, InTime
<1> QED BY <1>1, <1>13, <1>14, <1>15, <1>16, <1>17 DEF DueInv

\* An action throws: nothing is said of times and of the table any more.
LEMMA ThrowDue ==
    ASSUME TimerInv, DueInv, CallbackThrows
    PROVE  DueInv'
<1>1. /\ ex.pc = "callback" /\ tick' = tick /\ threw' = TRUE /\ last_exec' = last_exec /\ runs' = runs
      /\ Become(req, reqs, slots, Idle, seqs)
  BY DEF CallbackThrows
<1>2. /\ reqs' = reqs /\ slots' = slots /\ ex' = Idle /\ DOMAIN req' = Held(reqs, slots, Idle)
      /\ \A r \in DOMAIN req' : req'[r] = req[r]
      /\ InQueues(slots) \subseteq DOMAIN req' /\ \A id \in DOMAIN reqs : reqs[id] \in DOMAIN req'
  BY SMT, <1>1, Became
<1>3. ex'.pc = "idle" /\ Idle.e = None BY <1>2 DEF Idle
<1>4. DOMAIN req' \subseteq DOMAIN req BY SMT, <1>2, <1>3, Values DEF Held, Range
<1>5. Placed' BY SMT, <1>2, <1>3 DEF DueInv, Placed
<1>6. Timed' BY <1>1, <1>2, <1>3, <1>4 DEF DueInv, Timed, Working
<1>7. RunOnce' BY <1>1, <1>2, <1>4 DEF DueInv, RunOnce, Single
<1> QED BY <1>1, <1>5, <1>6, <1>7 DEF DueInv

\* The actions have returned: a request that goes on is queued for later, and is not
\* one of once(); one that does not is in the table no more.
LEMMA ReturnDue ==
    ASSUME TimerInv, DueInv, CallbackReturns
    PROVE  DueInv'
<1> DEFINE e == ex.e
           q == req[e]
<1>1. /\ ex.pc = "callback" /\ tick' = tick /\ threw' = threw /\ last_exec' = last_exec /\ runs' = runs
  BY DEF CallbackReturns, aside
<1>2. /\ ex.i \in 1..Len(slots) /\ e # None /\ e \in DOMAIN req /\ q \in Reqs
      /\ slots \in Seq(Slots) /\ e \notin InQueues(slots)
  BY <1>1, AtWork DEF TimerInv, Types, DueInv, Placed
<1>3. PICK x : x = [ex EXCEPT !.pc = "next"] OBVIOUS
<1>4. x.i = ex.i /\ x.size = ex.size /\ x.now = ex.now /\ x.e = e /\ x.pc = "next"
  BY <1>3 DEF TimerInv, Types, Executors
<1>5. ASSUME NEW rq, NEW rs, NEW sl, Become(rq, rs, sl, x, seqs),
             \A r \in DOMAIN req : /\ rq[r].cancel = req[r].cancel /\ rq[r].interval = req[r].interval
                                   /\ r # e => rq[r] = req[r],
             Single(rq[e]) => rq[e] = req[e] /\ sl[ex.i].reqs = slots[ex.i].reqs,
             \A id \in DOMAIN rs : id \in DOMAIN reqs /\ rs[id] = reqs[id],
             \A id \in DOMAIN rs : rs[id] = e => e \in InQueues(sl),
             Len(sl) = Len(slots), slots[ex.i].reqs \subseteq sl[ex.i].reqs,
             sl[ex.i].reqs \subseteq slots[ex.i].reqs \cup {e},
             \A j \in 1..Len(slots) : /\ sl[j].last = slots[j].last
                                      /\ sl[j].interval = slots[j].interval
                                      /\ j # ex.i => sl[j].reqs = slots[j].reqs
      PROVE  DueInv'
  <2>1. /\ reqs' = rs /\ slots' = sl /\ ex' = x /\ DOMAIN req' = Held(rs, sl, x)
        /\ \A r \in DOMAIN req' : req'[r] = rq[r]
        /\ InQueues(sl) \subseteq DOMAIN req' /\ \A id \in DOMAIN rs : rs[id] \in DOMAIN req'
    BY <1>5, Became
  <2>2. InQueues(sl) \subseteq InQueues(slots) \cup {e} /\ InQueues(slots) \subseteq InQueues(sl)
    BY SMT, <1>5, <1>2 DEF InQueues
  <2>3. DOMAIN req' \subseteq DOMAIN req
    <3>1. InQueues(slots) \subseteq DOMAIN req /\ Range(rs) \subseteq DOMAIN req
      BY SMT, <1>5, Values DEF Range
    <3> QED BY <1>2, <1>4, <2>1, <2>2, <3>1 DEF Held
  <2>4. \A j \in 1..Len(slots) : slots[j].reqs \subseteq InQueues(slots) /\ e \notin slots[j].reqs
    BY <1>2, Values
  <2>5. Placed'
    <3>1. \A i, j \in 1..Len(slots) : i # j => /\ sl[i].reqs \cap sl[j].reqs = {}
                                               /\ sl[i].interval # sl[j].interval
      <4>1. \A i, j \in 1..Len(slots) : i # j => /\ slots[i].reqs \cap slots[j].reqs = {}
                                                 /\ slots[i].interval # slots[j].interval
        BY DEF DueInv, Placed
      <4> QED BY SMT, <1>5, <2>4, <4>1
    <3>2. \A id \in DOMAIN rs : ~req'[rs[id]].cancel
      BY SMT, <1>5, <2>1, <2>3 DEF DueInv, Placed
    <3> QED BY SMT, <1>4, <1>5, <2>1, <3>1, <3>2 DEF Placed
  <2>6. Timed'
    BY SMT, <1>1, <1>2, <1>4, <1>5, <2>1, <2>3 DEF DueInv, Timed, Working
  <2>7. RunOnce'
    <3>1. ASSUME NEW r \in DOMAIN req', Single(rq[r]) PROVE rq[r] = req[r]
      BY <1>5, <2>3, <3>1
    <3>2. ASSUME NEW r \in DOMAIN req', Single(rq[r]), r \in InQueues(sl) PROVE r \in InQueues(slots)
      BY SMT, <1>5, <2>2, <3>2, <1>2 DEF InQueues
    <3>3. \A r \in DOMAIN req' : Single(req'[r]) => /\ runs[r] <= 1
                                                    /\ r \in InQueues(sl) => runs[r] = 0
      BY <2>1, <2>3, <3>1, <3>2 DEF DueInv, RunOnce
    <3> QED BY <1>1, <2>1, <3>3 DEF RunOnce
  <2>8. ~threw => Waits'
    BY SMT, <1>4, <1>5, <2>1, <2>2 DEF DueInv, Waits
  <2>9. ~threw => InTime'
    <3>1. \A i \in 1..Len(slots) : i # ex.i =>
             \A r \in sl[i].reqs : r \in slots[i].reqs /\ req'[r] = req[r]
      BY SMT, <1>5, <2>1, <2>2, <2>3, <2>4
    <3>2. Working /\ Working' /\ ex.pc # "idle" /\ ex'.pc # "idle" BY <1>1, <1>4, <2>1 DEF Working
    <3>3. ex.i <= ex.size BY <1>1 DEF TimerInv, Types
    <3>4. ex.i \in Nat /\ ex.size \in Nat BY Values
    <3> QED BY SMT, <1>4, <1>5, <2>1, <3>1, <3>2, <3>3, <3>4 DEF DueInv, InTime
  <2> QED BY <1>1, <2>5, <2>6, <2>7, <2>8, <2>9 DEF DueInv
<1>6. CASE Again(q)
  <2> DEFINE n == ex.now + q.interval
             rq == [req EXCEPT ![e].next = ex.now + q.interval]
             S == slots[ex.i].reqs \cup {e}
  <2>1. PICK sl : sl = WithQueue(slots, ex.i, S) OBVIOUS
  <2>2. Become(rq, reqs, sl, x, seqs) BY <1>3, <1>6, <2>1 DEF CallbackReturns, WithQueue
  <2>3. /\ Len(sl) = Len(slots) /\ sl[ex.i].reqs = S
        /\ \A j \in 1..Len(slots) : /\ sl[j].last = slots[j].last /\ sl[j].interval = slots[j].interval
                                    /\ j # ex.i => sl[j].reqs = slots[j].reqs
    BY SMT, <1>2, <2>1, QueueChange
  <2>4. rq[e] = [q EXCEPT !.next = n] /\ \A r \in DOMAIN req : r # e => rq[r] = req[r] BY <1>2
  <2> HIDE DEF rq, n
  <2>5. /\ rq[e].cancel = q.cancel /\ rq[e].interval = q.interval /\ rq[e].next = n
        /\ rq[e].repeat = q.repeat /\ rq[e].end = q.end
    BY <1>2, <2>4 DEF Reqs
  <2>6. ~Single(rq[e])
    <3>1. q.repeat \/ ex.now < q.end BY <1>6 DEF Again
    <3>2. q.end \in Nat /\ q.interval \in Nat /\ ex.now \in Nat /\ n = ex.now + q.interval
      BY <1>2, Values DEF n
    <3> QED BY SMT, <2>5, <3>1, <3>2 DEF Single
  <2>7. e \in InQueues(sl) BY <1>2, <2>3 DEF InQueues
  <2>8. \A r \in DOMAIN req : /\ rq[r].cancel = req[r].cancel /\ rq[r].interval = req[r].interval
                              /\ r # e => rq[r] = req[r]
    BY <2>4, <2>5
  <2>9. slots[ex.i].reqs \subseteq sl[ex.i].reqs /\ sl[ex.i].reqs \subseteq slots[ex.i].reqs \cup {e}
    BY <2>3
  <2> HIDE DEF S, e, q
  <2> QED BY <1>5, <2>2, <2>3, <2>6, <2>7, <2>8, <2>9
<1>7. CASE ~Again(q)
  <2> DEFINE rs == Without(reqs, {q.id})
  <2>1. Become(req, rs, slots, x, seqs) BY <1>3, <1>7 DEF CallbackReturns
  <2>2. DOMAIN rs = DOMAIN reqs \ {q.id} /\ \A k \in DOMAIN rs : rs[k] = reqs[k]
    BY DEF Without, Restrict
  <2>3. \A k \in DOMAIN reqs : req[reqs[k]].id = k BY DEF TimerInv, Owned
  <2> HIDE DEF rs
  <2>4. \A k \in DOMAIN rs : rs[k] # e BY <2>2, <2>3
  <2> QED BY <1>5, <2>1, <2>2, <2>4
<1> QED BY <1>6, <1>7

\* cancel() takes the request out of the table, and leaves it in its queue.
LEMMA CancelDue ==
    ASSUME TimerInv, DueInv, NEW id, Cancel(id)
    PROVE  DueInv'
<1> DEFINE d == reqs[id]
           rq == [req EXCEPT ![d].cancel = TRUE]
           rs == Without(reqs, {id})
<1>1. /\ id \in DOMAIN reqs /\ Become(rq, rs, slots, ex, seqs)
      /\ tick' = tick /\ threw' = threw /\ last_exec' = last_exec /\ runs' = runs
  BY DEF Cancel
<1>2. d \in DOMAIN req /\ req[d] \in Reqs BY <1>1, Values DEF TimerInv, Owned
<1>3. DOMAIN rs = DOMAIN reqs \ {id} /\ \A k \in DOMAIN rs : rs[k] = reqs[k]
  BY DEF Without, Restrict
<1>4. \A r \in DOMAIN req :
         /\ rq[r].next = req[r].next /\ rq[r].end = req[r].end /\ rq[r].interval = req[r].interval
         /\ rq[r].repeat = req[r].repeat /\ (r # d => rq[r] = req[r])
  <2>1. rq[d] = [req[d] EXCEPT !.cancel = TRUE] /\ \A r \in DOMAIN req : r # d => rq[r] = req[r]
    BY <1>2
  <2> HIDE DEF rq, d
  <2>2. /\ rq[d].next = req[d].next /\ rq[d].end = req[d].end /\ rq[d].interval = req[d].interval
        /\ rq[d].repeat = req[d].repeat
    BY <1>2, <2>1 DEF Reqs
  <2> QED BY <2>1, <2>2
<1>5. \A k \in DOMAIN rs : rs[k] # d
  <2>1. \A k \in DOMAIN reqs : req[reqs[k]].id = k BY DEF TimerInv, Owned
  <2> QED BY <1>1, <1>3, <2>1
<1> HIDE DEF rq, rs, d
<1>6. /\ reqs' = rs /\ slots' = slots /\ ex' = ex /\ DOMAIN req' = Held(rs, slots, ex)
      /\ \A r \in DOMAIN req' : req'[r] = rq[r]
      /\ InQueues(slots) \subseteq DOMAIN req' /\ \A k \in DOMAIN rs : rs[k] \in DOMAIN req'
  BY SMT, <1>1, Became
<1>7. DOMAIN req' \subseteq DOMAIN req
  <2>1. Range(rs) \subseteq Range(reqs) BY <1>3 DEF Range
  <2> QED BY <1>6, <2>1 DEF Held, TimerInv, Owned
<1>8. \A i \in 1..Len(slots) : \A r \in slots[i].reqs : r \in DOMAIN req' /\ req'[r].next = req[r].next
  BY <1>4, <1>6, <1>7, Values
<1>9. Placed'
  <2>1. ex.pc # "loop" BY DEF Cancel, Calling
  <2>2. \A k \in DOMAIN rs : ~req'[rs[k]].cancel
    BY SMT, <1>3, <1>4, <1>5, <1>6, <1>7 DEF DueInv, Placed
  <2> QED BY SMT, <1>6, <2>1, <2>2 DEF DueInv, Placed
<1>10. Timed' BY <1>1, <1>4, <1>6, <1>7 DEF DueInv, Timed, Working
<1>11. RunOnce' BY <1>1, <1>4, <1>6, <1>7 DEF DueInv, RunOnce, Single
<1>12. ~threw => Waits' BY <1>3, <1>6 DEF DueInv, Waits
<1>13. ~threw => InTime' BY SMT, <1>1, <1>6, <1>8 DEF DueInv, InTime, Working
<1> QED BY <1>1, <1>9, <1>10, <1>11, <1>12, <1>13 DEF DueInv

\* execute() starts; it returns when every slot had its turn; or time passes.
LEMMA ClockDue ==
    ASSUME TimerInv, DueInv, Execute \/ ExecuteReturns \/ Tick
    PROVE  DueInv'
<1>1. UNCHANGED <<req, reqs, slots, runs, threw>> /\ tick \in Nat
  BY Values DEF Execute, ExecuteReturns, Tick, aside
<1>2. RunOnce' BY <1>1 DEF DueInv, RunOnce, Single
<1>3. CASE Execute
  <2>1. /\ ex.pc = "idle" /\ ex'.pc = "slot" /\ ex'.i = 1 /\ ex'.size = Len(slots) /\ ex'.now = tick
        /\ tick' = tick /\ last_exec' = last_exec
    BY <1>3 DEF Execute, aside
  <2>2. Placed' BY SMT, <1>1, <2>1 DEF DueInv, Placed
  <2>3. Timed' BY SMT, <1>1, <2>1 DEF DueInv, Timed, Working
  <2>4. ~threw => Waits' BY <1>1, <2>1 DEF DueInv, Waits
  <2>5. ~threw => InTime' BY SMT, <1>1, <2>1, Values DEF DueInv, InTime, Working
  <2> QED BY <1>1, <1>2, <2>2, <2>3, <2>4, <2>5 DEF DueInv
<1>4. CASE ExecuteReturns
  <2>1. /\ ex.pc = "slot" /\ ex.i > ex.size /\ last_exec' = ex.now /\ ex'.pc = "idle" /\ tick' = tick
    BY <1>4 DEF ExecuteReturns, Idle
  <2>2. Placed' BY <1>1, <2>1 DEF DueInv, Placed
  <2>3. ex.now \in Nat /\ ex.i \in Nat /\ ex.size \in Nat BY Values
  <2>4. Timed' BY <1>1, <2>1, <2>3 DEF DueInv, Timed, Working
  <2>5. ~threw => Waits' BY <1>1, <2>1 DEF DueInv, Waits
  <2>6. ~threw => InTime' BY SMT, <1>1, <2>1, <2>3 DEF DueInv, InTime, Working
  <2> QED BY <1>1, <1>2, <2>2, <2>4, <2>5, <2>6 DEF DueInv
<1>5. CASE Tick
  <2>1. tick < MaxTick /\ tick' = tick + 1 /\ ex' = ex /\ last_exec' = last_exec
    BY <1>5 DEF Tick
  <2>2. Placed' BY SMT, <1>1, <2>1 DEF DueInv, Placed, Tops
  <2>3. Timed' BY SMT, <1>1, <2>1, Values, TickAssumption DEF DueInv, Timed, Working
  <2>4. ~threw => Waits' BY <1>1, <2>1 DEF DueInv, Waits
  <2>5. ~threw => InTime' BY <1>1, <2>1 DEF DueInv, InTime, Working
  <2> QED BY <1>1, <1>2, <2>2, <2>3, <2>4, <2>5 DEF DueInv
<1> QED BY <1>3, <1>4, <1>5

\* A new timer has no requests.
LEMMA DueInit ==
    ASSUME Init
    PROVE  DueInv
<1>1. Placed /\ RunOnce /\ Waits /\ InTime
  BY SMT DEF Init, Placed, RunOnce, Waits, InTime, Idle
<1>2. Timed BY SMT, TickAssumption DEF Init, Timed, Working, Idle
<1> QED BY <1>1, <1>2 DEF DueInv

\* sq are the slots, with one more where there was none of interval v
Made(v, sq) ==
    /\ sq \in Seq(Slots) /\ Len(slots) \in Nat /\ Len(sq) \in {Len(slots), Len(slots) + 1}
    /\ \A j \in 1..Len(slots) : sq[j] = slots[j]
    /\ \A j \in 1..Len(sq) : j > Len(slots) =>
          /\ sq[j].last = 0 /\ sq[j].reqs = {} /\ sq[j].interval = v
          /\ \A k \in 1..Len(slots) : slots[k].interval # v
    /\ \E j \in 1..Len(sq) : sq[j].interval = v

\* create_slot() makes them.
LEMMA SlotMade ==
    ASSUME slots \in Seq(Slots), NEW a \in Requests, NEW v, v = SlotInterval(a.interval),
           NEW sq, sq = WithSlot(v)
    PROVE  Made(v, sq)
<1>0. Len(slots) \in Nat BY SMT
<1>1. CASE \E i \in 1..Len(slots) : slots[i].interval = v
  <2>1. sq = slots BY <1>1 DEF WithSlot
  <2> QED BY SMT, <1>0, <1>1, <2>1 DEF Made
<1>2. CASE ~\E i \in 1..Len(slots) : slots[i].interval = v
  <2>1. PICK new : new = [interval |-> v, last |-> 0, reqs |-> {}] OBVIOUS
  <2>2. sq = Append(slots, new) BY <1>2, <2>1 DEF WithSlot
  <2>3. new \in Slots /\ new.interval = v /\ new.last = 0 /\ new.reqs = {} BY <2>1 DEF Slots
  <2>4. /\ sq \in Seq(Slots) /\ Len(sq) = Len(slots) + 1 /\ sq[Len(slots) + 1] = new
        /\ \A j \in 1..Len(slots) : sq[j] = slots[j]
    BY SMT, <2>2, <2>3
  <2>5. \A j \in 1..Len(sq) : j > Len(slots) => j = Len(slots) + 1 BY SMT, <1>0, <2>4
  <2>6. Len(slots) + 1 \in 1..Len(sq) BY SMT, <1>0, <2>4
  <2> QED BY <1>0, <1>2, <2>3, <2>4, <2>5, <2>6 DEF Made
<1> QED BY <1>1, <1>2

\* A new request is due later than now, and in the queue of one slot.
LEMMA SetDue ==
    ASSUME TimerInv, DueInv, NEW a \in Requests, Set(a)
    PROVE  DueInv'
<1>1. PICK id, n, v, iv, new, sq, i :
         /\ id = Head(Ids!Filled) /\ n = Len(runs) + 1
         /\ v = SlotInterval(a.interval) /\ iv = Clamped(a.interval)
         /\ new = [id |-> id, interval |-> iv, repeat |-> a.repeat, cancel |-> FALSE,
                   next |-> tick + a.after + iv, end |-> tick + a.after + a.duration]
         /\ sq = WithSlot(v)
         /\ i = CHOOSE j \in 1..Len(sq) : sq[j].interval = v
  OBVIOUS
<1>2. PICK rq, rs, S, sl : /\ rq = With(req, n, new) /\ rs = With(reqs, id, n)
                           /\ S = sq[i].reqs \cup {n} /\ sl = WithQueue(sq, i, S)
  OBVIOUS
<1>3. /\ Calling /\ Become(rq, rs, sl, ex, Tail(Ids!Filled)) /\ runs' = Append(runs, 0)
      /\ tick' = tick /\ threw' = threw /\ last_exec' = last_exec
  BY <1>1, <1>2 DEF Set, WithQueue
<1>4. /\ n \in Nat /\ n \notin DOMAIN req /\ runs'[n] = 0
      /\ \A r \in DOMAIN req : runs'[r] = runs[r]
  <2>1. runs \in Seq({0, 1, 2}) /\ DOMAIN req \subseteq 1..Len(runs) BY DEF TimerInv, Types, Owned
  <2> QED BY SMT, <1>1, <1>3, <2>1
<1>5. new.cancel = FALSE /\ new.next \in Nat /\ tick < new.next /\ new.interval \in Nat /\ new.interval > 0
  <2>1. tick \in Nat /\ a.after \in Nat /\ a.interval \in Nat BY Values, RequestAssumption
  <2>2. iv \in Nat /\ iv > 0 BY SMT, <1>1, <2>1, IntervalAssumption DEF Clamped
  <2>3. new.next = tick + a.after + iv /\ new.interval = iv /\ new.cancel = FALSE BY <1>1
  <2> QED BY SMT, <2>1, <2>2, <2>3
<1>6. Made(v, sq)
  <2>1. slots \in Seq(Slots) BY DEF TimerInv, Types
  <2> QED BY <1>1, <2>1, SlotMade
<1>7. i \in 1..Len(sq) BY <1>1, <1>6 DEF Made
<1>8. /\ Len(sl) = Len(sq) /\ sl[i].reqs = sq[i].reqs \cup {n}
      /\ \A j \in 1..Len(sq) : /\ sl[j].last = sq[j].last /\ sl[j].interval = sq[j].interval
                               /\ j # i => sl[j].reqs = sq[j].reqs
  <2>1. sq \in Seq(Slots) BY <1>6 DEF Made
  <2> QED BY SMT, <1>2, <1>7, <2>1, QueueChange
<1>9. \A j \in 1..Len(sl) : j <= Len(slots) \/ j > Len(slots) BY SMT, <1>6, <1>8 DEF Made
<1>10. \A j \in 1..Len(sl) : \A r \in sl[j].reqs :
           \/ r = n /\ j = i
           \/ j \in 1..Len(slots) /\ r \in slots[j].reqs /\ r \in DOMAIN req
  BY SMT, <1>6, <1>7, <1>8, <1>9, Values DEF Made
<1>11. /\ InQueues(sl) \subseteq InQueues(slots) \cup {n} /\ n \in InQueues(sl)
       /\ InQueues(slots) \subseteq InQueues(sl)
  <2>1. InQueues(sl) \subseteq InQueues(slots) \cup {n} BY SMT, <1>10 DEF InQueues
  <2>2. n \in InQueues(sl) BY <1>7, <1>8 DEF InQueues
  <2>3. \A j \in 1..Len(slots) : j \in 1..Len(sl) /\ slots[j].reqs \subseteq sl[j].reqs
    BY SMT, <1>6, <1>7, <1>8 DEF Made
  <2> QED BY <2>1, <2>2, <2>3 DEF InQueues
<1>12. /\ reqs' = rs /\ slots' = sl /\ ex' = ex /\ DOMAIN req' = Held(rs, sl, ex)
       /\ \A r \in DOMAIN req' : req'[r] = rq[r]
       /\ InQueues(sl) \subseteq DOMAIN req' /\ \A k \in DOMAIN rs : rs[k] \in DOMAIN req'
  BY SMT, <1>3, Became
<1>13. rq[n] = new /\ \A r \in DOMAIN req : rq[r] = req[r] BY <1>2, <1>4 DEF With
<1>14. /\ DOMAIN rs = DOMAIN reqs \cup {id}
       /\ \A k \in DOMAIN rs : rs[k] = n \/ (k \in DOMAIN reqs /\ rs[k] = reqs[k])
  BY <1>2 DEF With
<1>15. DOMAIN req' \subseteq DOMAIN req \cup {n}
  <2>1. Range(rs) \subseteq Range(reqs) \cup {n} BY <1>14 DEF Range
  <2> QED BY <1>11, <1>12, <2>1 DEF Held, TimerInv, Owned
<1>16. /\ n \in DOMAIN req' /\ req'[n] = new
       /\ \A r \in DOMAIN req' : r # n => r \in DOMAIN req /\ req'[r] = req[r]
  BY <1>11, <1>12, <1>13, <1>15
<1>17. \A j \in 1..Len(sl) : sl[j].last \in Nat /\ sl[j].last <= tick /\ sl[j].interval \in Nat
  <2>1. \A j \in 1..Len(slots) : slots[j].last \in Nat /\ slots[j].last <= tick
    BY Values DEF DueInv, Timed
  <2>2. \A j \in 1..Len(sl) : sl[j].last \in Nat /\ sl[j].last <= tick
    <3>1. SUFFICES ASSUME NEW j \in 1..Len(sl) PROVE sl[j].last \in Nat /\ sl[j].last <= tick
      OBVIOUS
    <3>2. sl[j].last = sq[j].last BY <1>8
    <3>3. (sq[j] = slots[j] /\ j \in 1..Len(slots)) \/ sq[j].last = 0 BY SMT, <1>6, <1>8 DEF Made
    <3>4. tick \in Nat BY Values
    <3> QED BY SMT, <2>1, <3>2, <3>3, <3>4
  <2>3. \A s \in Slots : s.interval \in Nat BY RequestAssumption, SlotIntervals DEF Slots
  <2> QED BY SMT, <1>6, <1>8, <2>2, <2>3 DEF Made
<1>18. Placed'
  <2>1. \A j, k \in 1..Len(sl) : j # k => sl[j].reqs \cap sl[k].reqs = {}
    <3>1. \A j, k \in 1..Len(slots) : j # k => slots[j].reqs \cap slots[k].reqs = {}
      BY DEF DueInv, Placed
    <3> QED BY SMT, <1>4, <1>10, <3>1
  <2>2. \A j, k \in 1..Len(sl) : j # k => sl[j].interval # sl[k].interval
    <3>1. \A j, k \in 1..Len(slots) : j # k => slots[j].interval # slots[k].interval
      BY DEF DueInv, Placed
    <3>2. \A j, k \in 1..Len(sq) : j # k => sq[j].interval # sq[k].interval
      <4>1. SUFFICES ASSUME NEW j \in 1..Len(sq), NEW k \in 1..Len(sq), j < k
                     PROVE  sq[j].interval # sq[k].interval
        BY SMT, <1>6 DEF Made
      <4>2. j \in 1..Len(slots) /\ sq[j] = slots[j] BY SMT, <1>6, <4>1 DEF Made
      <4>3. CASE k <= Len(slots)
        <5>1. k \in 1..Len(slots) /\ sq[k] = slots[k] BY SMT, <1>6, <4>3 DEF Made
        <5> QED BY SMT, <3>1, <4>1, <4>2, <5>1
      <4>4. CASE k > Len(slots) BY <1>6, <4>2, <4>4 DEF Made
      <4> QED BY SMT, <1>6, <4>3, <4>4 DEF Made
    <3> QED BY <1>8, <3>2
  <2>3. ex.pc \in {"idle", "callback"} BY <1>3 DEF Calling
  <2>4. ex.pc = "callback" => ex.e \notin InQueues(sl)
    <3>1. ex.pc = "callback" => ex.e \notin InQueues(slots) /\ ex.e \in DOMAIN req
      BY AtWork DEF DueInv, Placed
    <3> QED BY <1>4, <1>11, <3>1
  <2>5. \A k \in DOMAIN rs : ~req'[rs[k]].cancel
    <3>1. \A k \in DOMAIN reqs : reqs[k] \in DOMAIN req /\ ~req[reqs[k]].cancel
      BY Values DEF DueInv, Placed
    <3>2. SUFFICES ASSUME NEW k \in DOMAIN rs PROVE ~req'[rs[k]].cancel OBVIOUS
    <3>3. CASE rs[k] = n BY <1>5, <1>16, <3>3
    <3>4. CASE rs[k] # n
      <4>1. k \in DOMAIN reqs /\ rs[k] = reqs[k] /\ rs[k] \in DOMAIN req' BY <1>12, <1>14, <3>4
      <4>2. req'[rs[k]] = req[reqs[k]] BY <1>16, <3>4, <4>1
      <4> QED BY <3>1, <4>1, <4>2
    <3> QED BY <3>3, <3>4
  <2> QED BY <1>12, <2>1, <2>2, <2>3, <2>4, <2>5 DEF Placed
<1>19. Timed'
  <2>1. Working => sl[ex.i].last = ex.now
    <3>1. Working => ex.i \in 1..Len(slots) /\ slots[ex.i].last = ex.now
      BY AtWork DEF Working, DueInv, Timed
    <3>2. \A j \in 1..Len(slots) : sl[j].last = slots[j].last BY SMT, <1>6, <1>8 DEF Made
    <3> QED BY <3>1, <3>2
  <2>2. \A r \in DOMAIN req' : req'[r].interval > 0 BY <1>5, <1>16 DEF DueInv, Timed
  <2> QED BY <1>3, <1>12, <1>17, <2>1, <2>2 DEF DueInv, Timed, Working
<1>20. RunOnce'
  <2>1. ASSUME NEW r \in DOMAIN req', Single(req'[r])
        PROVE  runs'[r] <= 1 /\ (r \in InQueues(sl) => runs'[r] = 0)
    <3>1. CASE r = n BY SMT, <1>4, <3>1
    <3>2. CASE r # n
      <4>1. r \in DOMAIN req /\ Single(req[r]) BY <1>16, <2>1, <3>2
      <4> QED BY <1>4, <1>11, <3>2, <4>1 DEF DueInv, RunOnce
    <3> QED BY <3>1, <3>2
  <2> QED BY <1>12, <2>1 DEF RunOnce
<1>21. ~threw => Waits'
  BY <1>11, <1>12, <1>14 DEF DueInv, Waits
<1>22. ~threw => InTime'
  <2>1. ASSUME ~threw, NEW j \in 1..Len(sl), NEW r \in sl[j].reqs
        PROVE  /\ ~(Working /\ j = ex.i) => sl[j].last < req'[r].next
               /\ ex.pc = "idle" => last_exec < req'[r].next + sl[j].interval
               /\ ex.pc # "idle" /\ (j < ex.i \/ j > ex.size) => ex.now < req'[r].next + sl[j].interval
    <3>1. CASE r = n
      <4>1. last_exec \in Nat /\ last_exec <= tick /\ (ex.pc # "idle" => ex.now <= tick)
        BY DEF DueInv, Timed
      <4>2. ex.now \in Nat /\ tick \in Nat BY Values
      <4> QED BY SMT, <1>5, <1>16, <1>17, <3>1, <4>1, <4>2
    <3>2. CASE r # n
      <4>1. j \in 1..Len(slots) /\ r \in slots[j].reqs /\ r \in DOMAIN req BY <1>10, <2>1, <3>2
      <4>2. sl[j].last = slots[j].last /\ sl[j].interval = slots[j].interval
        BY <1>6, <1>8, <2>1, <4>1 DEF Made
      <4>3. req'[r] = req[r] BY <1>12, <1>16, <2>1, <3>2 DEF InQueues
      <4> QED BY <2>1, <4>1, <4>2, <4>3 DEF DueInv, InTime
    <3> QED BY <3>1, <3>2
  <2> QED BY <1>3, <1>12, <2>1 DEF InTime, Working
<1> QED BY <1>3, <1>18, <1>19, <1>20, <1>21, <1>22 DEF DueInv

\* Every step keeps the requests where they belong, and on time.
LEMMA DueStep ==
    ASSUME TimerInv, DueInv, [Next]_vars
    PROVE  DueInv'
<1>1. ASSUME NEW a \in Requests, Set(a) PROVE DueInv' BY <1>1, SetDue
<1>2. ASSUME NEW id \in 1..IdEnd, Cancel(id) PROVE DueInv' BY <1>2, CancelDue
<1>3. CASE Execute \/ ExecuteReturns \/ Tick BY <1>3, ClockDue
<1>4. CASE SlotWaits \/ SlotBegins \/ SlotEnds \/ LoopNext BY <1>4, SlotDue
<1>5. CASE PopDue BY <1>5, PopDueStep
<1>6. CASE CallbackReturns BY <1>6, ReturnDue
<1>7. CASE CallbackThrows BY <1>7, ThrowDue
<1>8. CASE UNCHANGED vars
  <2>1. InQueues(slots)' = InQueues(slots) BY <1>8 DEF vars, InQueues
  <2>2. Placed' BY SMT, <1>8, <2>1 DEF vars, DueInv, Placed, Tops
  <2>3. Timed' /\ RunOnce' BY <1>8, <2>1 DEF vars, DueInv, Timed, RunOnce, Working, Single
  <2>4. Waits' = Waits /\ InTime' = InTime BY <1>8, <2>1 DEF vars, Waits, InTime, Working
  <2> QED BY <1>8, <2>2, <2>3, <2>4 DEF vars, DueInv
<1> QED BY <1>1, <1>2, <1>3, <1>4, <1>5, <1>6, <1>7, <1>8 DEF Next, Running

\* What the invariants say of a state is Punctual.
LEMMA DueIsPunctual ==
    ASSUME TimerInv, DueInv
    PROVE  Punctual
<1>1. TypeOK
  <2>1. tick \in 0..MaxTick /\ last_exec <= tick BY SMT, Values, TickAssumption DEF DueInv, Timed
  <2>2. \A id \in DOMAIN reqs : reqs[id] \in DOMAIN req /\ req[reqs[id]].id = id
    BY Values DEF TimerInv, Owned
  <2>3. ex.pc # "idle" => ex.now <= tick /\ ex.size <= Len(slots) BY Values DEF DueInv, Timed
  <2> QED BY <2>1, <2>2, <2>3 DEF TypeOK, DueInv, Placed
<1>2. \A r \in DOMAIN req : Single(req[r]) => runs[r] <= 1 BY DEF DueInv, RunOnce
<1>3. ~threw => Range(reqs) \subseteq InQueues(slots) \cup {ex.e} BY DEF DueInv, Waits, Range
<1>4. ~threw /\ ex.pc = "idle" =>
         \A i \in 1..Len(slots) : \A r \in slots[i].reqs : last_exec < req[r].next + slots[i].interval
  BY DEF DueInv, InTime
<1> QED BY <1>1, <1>2, <1>3, <1>4 DEF Punctual

\* Whatever requests are set and cancelled, by the owner or by actions, and however long
\* an action takes: a request of once() is run once at most, a request the table has
\* will be run unless an action throws, and execute() leaves none that is later than
\* the interval of its slot.
THEOREM TimerIsPunctual == Spec => []Punctual
<1>1. Init => TimerInv /\ DueInv BY TimerInit, DueInit
<1>2. TimerInv /\ DueInv /\ [Next]_vars => TimerInv' /\ DueInv' BY TimerStep, DueStep
<1>3. TimerInv /\ DueInv => Punctual BY DueIsPunctual
<1> QED BY <1>1, <1>2, <1>3, PTL DEF Spec
=============================================================================
