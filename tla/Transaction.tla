---------------------------- MODULE Transaction ----------------------------
(***************************************************************************)
(* Transactions on one database connection (src/dbc/transaction.cpp,       *)
(* src/dbc/connection.cpp).  The transactions open on a connection share   *)
(* one counter and one rollback mark, and the driver's mode decides what    *)
(* happens to the work: with autocommit an operation is durable at once,    *)
(* without it the work waits for the end of the driver's transaction.       *)
(*                                                                          *)
(* The driver is external: SQLEndTran ends the work that waits,             *)
(* SQL_AUTOCOMMIT_ON commits it, SQLDisconnect refuses while work waits,    *)
(* and a new connection starts with autocommit on.                          *)
(***************************************************************************)
EXTENDS Integers, FiniteSets

CONSTANTS
    Trans,      \* transaction objects; each is used once
    Ops,        \* operations that modify the database; each is executed once
    CountEnd    \* 2^64: the counter is a std::size_t

ASSUME TransAssumption == IsFiniteSet(Trans)
ASSUME CountAssumption == CountEnd \in Nat /\ Cardinality(Trans) < CountEnd

VARIABLES
    connected,  \* connected_
    autocommit, \* the driver's mode of the connection
    count,      \* transactions_
    marked,     \* rollback_
    obj,        \* the life of a transaction object
    work,       \* what became of an operation
    held,       \* history: the transactions the operation was held back for
    reopened,   \* history: the connection was opened while transactions were
    crashed     \* the process has stopped in the constructor

tvars == <<connected, autocommit, count, marked, obj, work, held, reopened,
           crashed>>

Open == {t \in Trans : obj[t] = "open"}
Pending == {o \in Ops : work[o] = "pending"}

(* SQLEndTran and the change to autocommit: all the work that waits gets    *)
(* the same end.                                                            *)
Ended(how) == [o \in Ops |-> IF o \in Pending THEN how ELSE work[o]]

TInit ==
    /\ connected = FALSE /\ autocommit = TRUE
    /\ count = 0 /\ marked = FALSE
    /\ obj = [t \in Trans |-> "none"]
    /\ work = [o \in Ops |-> "none"]
    /\ held = [o \in Ops |-> {}]
    /\ reopened = FALSE /\ crashed = FALSE

(* connection_impl::disconnect. *)
Disconnect ==
    /\ connected
    /\ Pending = {}
    /\ connected' = FALSE
    /\ UNCHANGED <<autocommit, count, marked, obj, work, held, reopened, crashed>>

(* connection_impl::connect: it disconnects first, throws when that fails   *)
(* or when the new connection does.                                         *)
Connect(ok) ==
    /\ connected => Pending = {}
    /\ connected' = ok
    /\ autocommit' = TRUE
    /\ reopened' = (Open # {})
    /\ UNCHANGED <<count, marked, obj, work, held, crashed>>

(* ref_transaction counts down and unref_transaction up; the counter wraps. *)
Ref == (count - 1) % CountEnd
Unref == (count + 1) % CountEnd

(* The constructor.  ref_transaction is reached through impl_, which is not *)
(* constructed yet: the read of its pointer stops the process, or finds a   *)
(* pointer left there by an earlier transaction of this connection.  ok is  *)
(* the result of switching autocommit off: an error throws.                 *)
Begin(t, ok) ==
    /\ obj[t] = "none"
    /\ IF count = 0 /\ connected
       THEN ok /\ autocommit' = FALSE
       ELSE UNCHANGED autocommit
    /\ \/ crashed' = TRUE /\ UNCHANGED <<count, obj, reopened>>
       \/ /\ count' = Ref
          /\ obj' = [obj EXCEPT ![t] = "open"]
          /\ reopened' = (reopened \/ ~connected)
          /\ UNCHANGED crashed
    /\ UNCHANGED <<connected, marked, work, held>>

(* transaction_impl::commit; ok is the result of SQLEndTran. *)
Commit(t, ok) ==
    /\ obj[t] = "open"
    /\ obj' = [obj EXCEPT ![t] = "committed"]
    /\ count' = Unref
    /\ work' = IF Unref = 0 /\ connected /\ ok THEN Ended("durable") ELSE work
    /\ reopened' = (reopened /\ Open # {t})
    /\ UNCHANGED <<connected, autocommit, marked, held, crashed>>

(* transaction_impl::rollback; the mark belongs to the connection. *)
Rollback(t) ==
    /\ obj[t] = "open"
    /\ marked' = TRUE
    /\ UNCHANGED <<connected, autocommit, count, obj, work, held, reopened, crashed>>

(* A destructor that counts a committed transaction again. *)
DestroyTwice(t) ==
    /\ obj[t] \in {"open", "committed"}
    /\ obj' = [obj EXCEPT ![t] = IF @ = "open" THEN "dropped" ELSE "done"]
    /\ count' = Unref
    /\ marked' = (marked \/ obj[t] = "open")
    /\ UNCHANGED <<connected, autocommit, work, held, reopened, crashed>>

(* A destructor that rolls back without waiting for the others. *)
DestroyAtOnce(t) ==
    /\ obj[t] \in {"open", "committed"}
    /\ obj' = [obj EXCEPT ![t] = IF @ = "open" THEN "dropped" ELSE "done"]
    /\ count' = IF obj[t] = "open" THEN Unref ELSE count
    /\ reopened' = (reopened /\ Open # {t})
    /\ work' = IF connected THEN Ended(IF obj[t] = "open" THEN "undone" ELSE "durable")
                            ELSE work
    /\ autocommit' = (autocommit \/ connected)
    /\ UNCHANGED <<connected, marked, held, crashed>>

(* The destructor: the last of the connection ends the work that waits and  *)
(* turns autocommit on again, which commits what still waits.               *)
Destroy(t) ==
    LET dropped == obj[t] = "open"
        left == IF dropped THEN Unref ELSE count
        last == left = 0 /\ connected
        undo == marked \/ dropped
    IN  /\ obj[t] \in {"open", "committed"}
        /\ obj' = [obj EXCEPT ![t] = IF dropped THEN "dropped" ELSE "done"]
        /\ count' = left
        /\ marked' = (undo /\ ~last)
        /\ work' = IF last THEN Ended(IF undo THEN "undone" ELSE "durable") ELSE work
        /\ autocommit' = (autocommit \/ last)
        /\ reopened' = (reopened /\ Open # {t})
        /\ UNCHANGED <<connected, held, crashed>>

(* A statement that modifies the database, on this connection. *)
Execute(o) ==
    /\ connected
    /\ work[o] = "none"
    /\ work' = [work EXCEPT ![o] = IF autocommit THEN "durable" ELSE "pending"]
    /\ held' = [held EXCEPT ![o] = IF autocommit THEN {} ELSE Open]
    /\ UNCHANGED <<connected, autocommit, count, marked, obj, reopened, crashed>>

TNext ==
    /\ ~crashed
    /\ \/ Disconnect
       \/ \E ok \in BOOLEAN : Connect(ok)
       \/ \E t \in Trans, ok \in BOOLEAN : Begin(t, ok) \/ Commit(t, ok)
       \/ \E t \in Trans : Rollback(t) \/ Destroy(t)
       \/ \E o \in Ops : Execute(o)

TSpec == TInit /\ [][TNext]_tvars

---------------------------------------------------------------------------

(* The counter that starts at zero and counts down still tells how many     *)
(* transactions are open (transaction.cpp:21, 49, 79), and while one is, on *)
(* the connection it was begun on, the driver holds the work back           *)
(* (transaction.hpp:20); when none is left the driver commits by itself.    *)
HeldBack ==
    /\ connected \in BOOLEAN /\ autocommit \in BOOLEAN /\ marked \in BOOLEAN
    /\ count = (CountEnd - Cardinality(Open)) % CountEnd
    /\ connected /\ Open # {} /\ ~reopened => ~autocommit
    /\ connected /\ (\A t \in Trans : obj[t] \in {"none", "done", "dropped"}) /\ ~crashed
           => autocommit /\ Pending = {}

(* Every step leaves the work held back as HeldBack says, and work takes     *)
(* effect only when no transaction is left open: the commit of an inner     *)
(* transaction decides nothing (transaction.cpp:79).                        *)
EffectAtTheEnd ==
    [][/\ HeldBack'
       /\ \A o \in Ops : work[o] = "pending" /\ work'[o] # "pending" => Open' = {}]_tvars

(* What transaction.hpp:24 says of the destructor: a transaction that was   *)
(* not committed leaves nothing in the database of what was executed in it. *)
UncommittedUndone ==
    \A o \in Ops : \A t \in held[o] :
        obj[t] = "dropped" /\ Open = {} => work[o] # "durable"
============================================================================
