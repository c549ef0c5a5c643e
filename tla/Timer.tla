--------------------------------- MODULE Timer ---------------------------------
(***************************************************************************)
(* timer (core/timer.cpp).  A timer belongs to one thread: set(), cancel() *)
(* and execute() are called by its owner, and set() and cancel() also by   *)
(* the callbacks execute() makes.  Time passes at any moment; the clock is *)
(* taken not to go back.                                                   *)
(*                                                                         *)
(* A request is held by reqs_, by the queue of its slot and by the local e *)
(* of update_slot().  Its destructor gives its id back when the last of    *)
(* them lets it go: see Become.                                            *)
(***************************************************************************)
EXTENDS Integers, Sequences, FiniteSets, Functions

CONSTANTS
    Requests,       \* what set() is called with: interval, duration, after, repeat
    Intervals,      \* the table of slot intervals
    MinInterval,    \* timer::min_interval
    IdEnd, Reserve, \* the range and the reserve of seq_ (UINT32_MAX, 16)
    MaxReqs,        \* bound: requests made in a behaviour
    MaxTick         \* bound: ticks passed in a behaviour

ASSUME RequestAssumption ==
    \A a \in Requests : /\ {a.interval, a.duration, a.after} \subseteq Nat
                        /\ a.repeat \in BOOLEAN
ASSUME IntervalAssumption ==
    /\ Len(Intervals) > 1 /\ MinInterval \in Nat \ {0}
    /\ \A i \in 1..Len(Intervals) : Intervals[i] \in Nat \ {0}
    /\ \A i, j \in 1..Len(Intervals) : i < j => Intervals[i] < Intervals[j]

ASSUME TickAssumption == MaxTick \in Nat
ASSUME IdAssumption == IdEnd \in Nat /\ 1 < IdEnd /\ Reserve \in 1..(IdEnd - 1)

VARIABLES
    tick,           \* what get_current_tick() returns
    current, seqs,  \* seq_
    req,            \* the requests that exist
    reqs,           \* reqs_: id -> request
    slots,          \* slots_: their interval, last run and requests
    ex,             \* where execute() is: slot i of size, now, request e
    threw,          \* history: an action has thrown
    last_exec,      \* history: the tick of the last execute() that returned
    cancelled,      \* history: the requests that were cancelled
    runs            \* history: how often each request made so far was run, counted up to 2

vars == <<tick, current, seqs, req, reqs, slots, ex, threw, last_exec, cancelled, runs>>
aside == <<tick, current, threw, last_exec, cancelled, runs>>

Ids == INSTANCE Sequence WITH
           Begin <- 1, End <- IdEnd, Reserve <- Reserve, current <- current, seqs <- seqs,
           used <- {req[r].id : r \in DOMAIN req}, failed <- FALSE

None == 0
Idle == [pc |-> "idle", i |-> 0, size |-> 0, now |-> 0, e |-> None]

Init ==
    /\ tick = 0
    /\ current = 1 + Ids!Batch(1)
    /\ seqs = Ids!Acquired(1, <<>>)
    /\ req = <<>> /\ reqs = <<>> /\ slots = <<>>
    /\ ex = Idle
    /\ threw = FALSE /\ last_exec = 0 /\ cancelled = {} /\ runs = <<>>

\* f with value v at x, whether x is in its domain or not
With(f, x, v) == [y \in DOMAIN f \cup {x} |-> IF y = x THEN v ELSE f[y]]
Without(f, S) == Restrict(f, DOMAIN f \ S)

\* the requests in the queues of the slots sl
InQueues(sl) == UNION {sl[i].reqs : i \in 1..Len(sl)}

\* what the table rs, the slots sl and the local e of executor x hold
Held(rs, sl, x) == Range(rs) \cup InQueues(sl) \cup ({x.e} \ {None})

\* the members of S, in some order
Listed(S) == CHOOSE q \in Bijection(1..Cardinality(S), S) : TRUE

\* Faulty variant of Become: ~req() does not release the id.
BecomeLeaks(rq, rs, sl, x, ids) ==
    /\ reqs' = rs /\ slots' = sl /\ ex' = x
    /\ seqs' = ids
    /\ req' = Restrict(rq, Held(rs, sl, x))

\* The next state has requests rq, table rs, slots sl and executor x; a request
\* nobody holds any more is destroyed, and ~req() releases its id into ids.
Become(rq, rs, sl, x, ids) ==
    /\ reqs' = rs /\ slots' = sl /\ ex' = x
    /\ seqs' = ids \o Listed({rq[r].id : r \in DOMAIN rq \ Held(rs, sl, x)})
    /\ req' = Restrict(rq, Held(rs, sl, x))

\* the owner, or a callback
Calling == ex.pc \in {"idle", "callback"}

(***************************************************************************)
(* set(), cancel()                                                         *)
(***************************************************************************)
Clamped(interval) == IF interval < MinInterval THEN MinInterval ELSE interval

\* the interval of the slot: the last of the table is never chosen
SlotInterval(interval) ==
    LET half == Clamped(interval) \div 2
        fit == {i \in 1..(Len(Intervals) - 1) : Intervals[i] <= half /\ half < Intervals[i + 1]}
    IN  IF fit = {} THEN Intervals[1]
                    ELSE Intervals[CHOOSE i \in fit : \A j \in fit : i <= j]

\* Faulty variant of WithSlot: a slot is made for every request.
WithSlotAlways(v) == Append(slots, [interval |-> v, last |-> 0, reqs |-> {}])

\* create_slot(): the slots, with one of interval v among them
WithSlot(v) ==
    IF \E i \in 1..Len(slots) : slots[i].interval = v
      THEN slots ELSE Append(slots, [interval |-> v, last |-> 0, reqs |-> {}])

\* set() makes request Len(runs) + 1
Set(a) ==
    /\ Calling
    /\ Len(runs) < MaxReqs
    /\ Ids!Filled # <<>>
    /\ LET id == Head(Ids!Filled)
           n == Len(runs) + 1
           v == SlotInterval(a.interval)
           iv == Clamped(a.interval)
           new == [id |-> id, interval |-> iv, repeat |-> a.repeat, cancel |-> FALSE,
                   next |-> tick + a.after + iv, end |-> tick + a.after + a.duration]
           sl == WithSlot(v)
           i == CHOOSE j \in 1..Len(sl) : sl[j].interval = v
       IN  Become(With(req, n, new), With(reqs, id, n), [sl EXCEPT ![i].reqs = @ \cup {n}],
                  ex, Tail(Ids!Filled))
    /\ current' = Ids!FilledTo
    /\ runs' = Append(runs, 0)
    /\ UNCHANGED <<tick, threw, last_exec, cancelled>>

\* Faulty variant of Cancel: the request is only taken out of reqs_.
CancelForgets(id) ==
    /\ Calling
    /\ id \in DOMAIN reqs
    /\ Become(req, Without(reqs, {id}), slots, ex, seqs)
    /\ cancelled' = cancelled \cup {reqs[id]}
    /\ UNCHANGED <<tick, threw, current, last_exec, runs>>

\* cancel(): the request stays in its slot until it is due
Cancel(id) ==
    /\ Calling
    /\ id \in DOMAIN reqs
    /\ Become([req EXCEPT ![reqs[id]].cancel = TRUE], Without(reqs, {id}), slots, ex, seqs)
    /\ cancelled' = cancelled \cup {reqs[id]}
    /\ UNCHANGED <<tick, threw, current, last_exec, runs>>

(***************************************************************************)
(* execute(), update_slot()                                                *)
(***************************************************************************)

\* Slots that callbacks add are not looked at in this call.
Execute ==
    /\ ex.pc = "idle"
    /\ ex' = [pc |-> "slot", i |-> 1, size |-> Len(slots), now |-> tick, e |-> None]
    /\ UNCHANGED <<seqs, req, reqs, slots, aside>>

NextSlot == [ex EXCEPT !.pc = "slot", !.i = @ + 1, !.e = None]

\* update_slot() returns at once: it is not the slot's turn
SlotWaits ==
    /\ ex.pc = "slot" /\ ex.i <= ex.size
    /\ slots[ex.i].last + slots[ex.i].interval > ex.now
    /\ Become(req, reqs, slots, NextSlot, seqs)
    /\ UNCHANGED aside

\* top(): one of the requests with the least next_run_tick_
Tops(S) == {r \in S : \A o \in S : req[r].next <= req[o].next}

\* update_slot() starts; a slot without requests is done
SlotBegins ==
    /\ ex.pc = "slot" /\ ex.i <= ex.size
    /\ LET s == slots[ex.i]
           sl == [slots EXCEPT ![ex.i].last = ex.now]
       IN  /\ s.last + s.interval <= ex.now
           /\ IF s.reqs = {}
                THEN Become(req, reqs, sl, NextSlot, seqs)
                ELSE \E r \in Tops(s.reqs) :
                       Become(req, reqs, sl, [ex EXCEPT !.pc = "loop", !.e = r], seqs)
    /\ UNCHANGED aside

Due == req[ex.e].next <= ex.now

\* the top of the queue is not due: update_slot() returns
SlotEnds ==
    /\ ex.pc = "loop"
    /\ ~Due
    /\ Become(req, reqs, slots, NextSlot, seqs)
    /\ UNCHANGED aside

\* the top is popped, and run unless it was cancelled
PopDue ==
    /\ ex.pc = "loop"
    /\ Due
    /\ Become(req, reqs, [slots EXCEPT ![ex.i].reqs = @ \ {ex.e}],
              [ex EXCEPT !.pc = IF req[ex.e].cancel THEN "next" ELSE "callback"], seqs)
    /\ runs' = IF req[ex.e].cancel THEN runs ELSE [runs EXCEPT ![ex.e] = IF @ = 2 THEN 2 ELSE @ + 1]
    /\ UNCHANGED <<tick, threw, current, last_exec, cancelled>>

\* Faulty variant of Again: a request without a duration is run again, too.
AgainAtEnd(r) == r.repeat \/ r.end <= ex.now

\* the request goes on
Again(r) == r.repeat \/ ex.now < r.end

\* Faulty variant of CallbackReturns: the request is queued with its old tick.
ReturnsUnmoved ==
    /\ ex.pc = "callback"
    /\ LET r == req[ex.e]
           x == [ex EXCEPT !.pc = "next"]
       IN  IF Again(r)
             THEN Become(req, reqs, [slots EXCEPT ![ex.i].reqs = @ \cup {ex.e}], x, seqs)
             ELSE Become(req, Without(reqs, {r.id}), slots, x, seqs)
    /\ UNCHANGED aside

\* the actions return: the request is queued again, or removed from reqs_
CallbackReturns ==
    /\ ex.pc = "callback"
    /\ LET r == req[ex.e]
           x == [ex EXCEPT !.pc = "next"]
       IN  IF Again(r)
             THEN Become([req EXCEPT ![ex.e].next = ex.now + r.interval], reqs,
                         [slots EXCEPT ![ex.i].reqs = @ \cup {ex.e}], x, seqs)
             ELSE Become(req, Without(reqs, {r.id}), slots, x, seqs)
    /\ UNCHANGED aside

\* an action throws out of execute(): the request stays in reqs_ and in no slot
CallbackThrows ==
    /\ ex.pc = "callback"
    /\ Become(req, reqs, slots, Idle, seqs)
    /\ threw' = TRUE
    /\ UNCHANGED <<tick, current, last_exec, cancelled, runs>>

\* Faulty variant of LoopNext: one request is run for each turn of the slot.
LoopEnds ==
    /\ ex.pc = "next"
    /\ Become(req, reqs, slots, NextSlot, seqs)
    /\ UNCHANGED aside

\* the end of the loop body: the next top, or an empty queue
LoopNext ==
    /\ ex.pc = "next"
    /\ IF slots[ex.i].reqs = {}
         THEN Become(req, reqs, slots, NextSlot, seqs)
         ELSE \E r \in Tops(slots[ex.i].reqs) :
                Become(req, reqs, slots, [ex EXCEPT !.pc = "loop", !.e = r], seqs)
    /\ UNCHANGED aside

ExecuteReturns ==
    /\ ex.pc = "slot" /\ ex.i > ex.size
    /\ last_exec' = ex.now
    /\ ex' = Idle
    /\ UNCHANGED <<tick, threw, current, seqs, req, reqs, slots, cancelled, runs>>

Tick ==
    /\ tick < MaxTick
    /\ tick' = tick + 1
    /\ UNCHANGED <<threw, current, seqs, req, reqs, slots, ex, last_exec, cancelled, runs>>

Running == SlotWaits \/ SlotBegins \/ SlotEnds \/ PopDue \/ CallbackReturns \/ LoopNext \/ ExecuteReturns

Next ==
    \/ \E a \in Requests : Set(a)
    \/ \E id \in 1..IdEnd : Cancel(id)
    \/ Execute \/ Running \/ CallbackThrows \/ Tick

Spec == Init /\ [][Next]_vars
FairSpec == Spec /\ WF_vars(Running)

(***************************************************************************)
(* Properties.                                                             *)
(***************************************************************************)
\* The values of the variables; a request is in one slot at most, and its id
\* leads to it while reqs_ has it.
TypeOK ==
    /\ tick \in 0..MaxTick /\ last_exec <= tick
    /\ \A i, j \in 1..Len(slots) : i # j => slots[i].reqs \cap slots[j].reqs = {}
    /\ \A i, j \in 1..Len(slots) : i # j => slots[i].interval # slots[j].interval
    /\ \A id \in DOMAIN reqs : reqs[id] \in DOMAIN req /\ req[reqs[id]].id = id
    /\ ex.pc # "idle" => ex.now <= tick /\ ex.size <= Len(slots)

\* The ids of the requests that exist, with seq_, behave as the pool of Sequence:
\* an id is taken by set() and given back once, when the request is destroyed.
\* So no two requests that exist have the same id (Sequence!Conserved), also
\* while a cancelled one waits in its slot, one is run that is not in the table
\* any more, or an action has thrown.
ImplementsIdPool == Ids!Spec

\* An action is never run after cancel() of its request has returned, be it
\* cancelled by the owner, by itself or by another action of the same turn.
NoRunAfterCancel ==
    [][ex.pc # "callback" /\ ex'.pc = "callback" => ex'.e \notin cancelled]_vars

\* a request without a duration that has not been queued again, as once() makes it
Single(q) == ~q.repeat /\ q.end + q.interval <= q.next

\* A request of once() is run at most once.  As long as no action throws, a
\* request has(id) is true of will be run: it is in a slot, or it is being run; and
\* execute() leaves no request that is later than the interval of its slot,
\* whatever the actions set and cancel.
Punctual ==
    /\ TypeOK
    /\ \A r \in DOMAIN req : Single(req[r]) => runs[r] <= 1
    /\ ~threw =>
         /\ Range(reqs) \subseteq InQueues(slots) \cup {ex.e}
         /\ ex.pc = "idle" =>
              \A i \in 1..Len(slots) : \A r \in slots[i].reqs :
                  last_exec < req[r].next + slots[i].interval

\* execute() returns, although actions set new requests and time goes on while
\* it runs (its limit is taken once, and a new request is due later).
ExecuteEnds == ex.pc # "idle" ~> ex.pc = "idle"

=============================================================================
