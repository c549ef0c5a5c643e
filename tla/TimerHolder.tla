------------------------------ MODULE TimerHolder ------------------------------
(***************************************************************************)
(* timer_holder (core/timer.cpp): an object that has one timer and cancels *)
(* it when it is destroyed.  Other users of the same timer go on as in     *)
(* Timer.  The callbacks of the holder's requests belong to the holder.    *)
(***************************************************************************)
EXTENDS Timer

VARIABLES
    hid,        \* id_ of the holder, 0 when it has none
    repeated,   \* history: repeat() of the holder was called
    gone,       \* the holder was destroyed
    owned       \* history: the requests made through the holder

hvars == <<hid, gone, repeated, owned>>

HInit ==
    /\ Init
    /\ hid = 0 /\ gone = FALSE /\ repeated = FALSE
    /\ owned = {}

\* a request made through the holder; id_ is its id
Take(a) ==
    /\ ~gone
    /\ Set(a)
    /\ hid' = Head(Ids!Filled)
    /\ owned' = owned \cup {Len(runs) + 1}
    /\ repeated' = (repeated \/ a.repeat)
    /\ UNCHANGED gone

\* Faulty variant of HolderOnce: it does not throw when there is a timer.
HolderOnceAgain(a) == ~a.repeat /\ Take(a)

\* once(): throws while id_ is set, and nothing but cancel() resets it
HolderOnce(a) ==
    /\ ~a.repeat
    /\ hid = 0
    /\ Take(a)

HolderRepeat(a) ==
    /\ a.repeat
    /\ Take(a)

\* timer_.cancel(id_); an id the timer does not know changes nothing
CancelId ==
    IF hid \in DOMAIN reqs
      THEN Cancel(hid)
      ELSE Calling /\ UNCHANGED vars

HolderCancel ==
    /\ ~gone /\ hid > 0
    /\ CancelId
    /\ hid' = 0
    /\ UNCHANGED <<gone, repeated, owned>>

\* the destructor, not in a callback of the holder itself
HolderDestroy ==
    /\ ~gone
    /\ ex.e \notin owned
    /\ IF hid > 0 THEN CancelId ELSE Calling /\ UNCHANGED vars
    /\ gone' = TRUE
    /\ UNCHANGED <<hid, repeated, owned>>

HNext ==
    \/ Next /\ UNCHANGED hvars
    \/ \E a \in Requests : HolderOnce(a) \/ HolderRepeat(a)
    \/ HolderCancel
    \/ HolderDestroy

HSpec == HInit /\ [][HNext]_<<vars, hvars>>

(***************************************************************************)
(* Properties.                                                             *)
(***************************************************************************)

\* No action of a holder used with once() only is called after its destructor:
\* the id it keeps always covers the request that is still to come.
NoCallAfterDestroy ==
    [][ex.pc # "callback" /\ ex'.pc = "callback" /\ gone /\ ~repeated
         => ex'.e \notin owned]_<<vars, hvars>>

=============================================================================
