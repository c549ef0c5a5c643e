------------------------------ MODULE ObjectPool ------------------------------
(***************************************************************************)
(* object_pool (core/object_pool.hpp) with its concurrent_queue: memory    *)
(* for objects, taken from a queue of freed blocks or allocated, by any    *)
(* thread and without a lock.  Each access of the queue or of an atomic    *)
(* counter is one step.                                                    *)
(***************************************************************************)
EXTENDS Integers, Sequences, FiniteSets

CONSTANTS
    Threads,
    Blocks,         \* bound: the memory blocks the allocator can give
    Modulus         \* the counters are unsigned: they count modulo this

VARIABLES
    q,                  \* q_
    pool_free_count,    \* pool_free_count_
    pool_alloc_count,   \* pool_alloc_count_
    live,               \* the blocks that hold an object in use
    th,                 \* per thread: where it is and with which block
    heap,               \* blocks got from the allocator and not given back
    state               \* "open", then "cleaned", or "thrown" by cleanup()

vars == <<q, pool_free_count, pool_alloc_count, live, th, heap, state>>

NoBlock == "none"
Idle == [pc |-> "idle", obj |-> NoBlock]

Init ==
    /\ q = <<>>
    /\ pool_free_count = 0 /\ pool_alloc_count = 0
    /\ live = {} /\ heap = {}
    /\ th = [p \in Threads |-> Idle]
    /\ state = "open"

Begins(p) == state = "open" /\ th[p] = Idle

\* the rest of a step of thread p, which goes to pc
Goes(p, pc) == th' = [th EXCEPT ![p].pc = pc] /\ UNCHANGED <<heap, state>>

(***************************************************************************)
(* create() and create_raw(): alloc(), then the constructor                *)
(***************************************************************************)

\* Faulty variant of AllocPop: the block stays in the queue.
AllocPeek(p) ==
    /\ Begins(p)
    /\ q # <<>>
    /\ th' = [th EXCEPT ![p] = [pc |-> "free_dec", obj |-> Head(q)]]
    /\ UNCHANGED <<q, pool_free_count, pool_alloc_count, live, heap, state>>

AllocPop(p) ==
    /\ Begins(p)
    /\ q # <<>>
    /\ q' = Tail(q)
    /\ th' = [th EXCEPT ![p] = [pc |-> "free_dec", obj |-> Head(q)]]
    /\ UNCHANGED <<pool_free_count, pool_alloc_count, live, heap, state>>

AllocNew(p, b) ==
    /\ Begins(p)
    /\ q = <<>>
    /\ b \in Blocks \ heap
    /\ heap' = heap \cup {b}
    /\ th' = [th EXCEPT ![p] = [pc |-> "alloc_inc", obj |-> b]]
    /\ UNCHANGED <<q, pool_free_count, pool_alloc_count, live, state>>

FreeDec(p) ==
    /\ th[p].pc = "free_dec"
    /\ pool_free_count' = (pool_free_count - 1) % Modulus
    /\ Goes(p, "alloc_inc")
    /\ UNCHANGED <<q, pool_alloc_count, live>>

AllocInc(p) ==
    /\ th[p].pc = "alloc_inc"
    /\ pool_alloc_count' = (pool_alloc_count + 1) % Modulus
    /\ live' = live \cup {th[p].obj}
    /\ th' = [th EXCEPT ![p] = Idle]
    /\ UNCHANGED <<q, pool_free_count, heap, state>>

(***************************************************************************)
(* destroy(), by whoever lets the last reference go                        *)
(***************************************************************************)
Destroy(p, b) ==
    /\ Begins(p)
    /\ b \in live
    /\ live' = live \ {b}
    /\ th' = [th EXCEPT ![p] = [pc |-> "alloc_dec", obj |-> b]]
    /\ UNCHANGED <<q, pool_free_count, pool_alloc_count, heap, state>>

AllocDec(p) ==
    /\ th[p].pc = "alloc_dec"
    /\ pool_alloc_count' = (pool_alloc_count - 1) % Modulus
    /\ Goes(p, "push")
    /\ UNCHANGED <<q, pool_free_count, live>>

Push(p) ==
    /\ th[p].pc = "push"
    /\ q' = Append(q, th[p].obj)
    /\ th' = [th EXCEPT ![p] = [pc |-> "free_inc", obj |-> NoBlock]]
    /\ UNCHANGED <<pool_free_count, pool_alloc_count, live, heap, state>>

FreeInc(p) ==
    /\ th[p].pc = "free_inc"
    /\ pool_free_count' = (pool_free_count + 1) % Modulus
    /\ Goes(p, "idle")
    /\ UNCHANGED <<q, pool_alloc_count, live>>

(***************************************************************************)
(* cleanup(), from the destructor: no thread uses the pool any more        *)
(***************************************************************************)
Quiet == \A p \in Threads : th[p] = Idle

Cleanup ==
    /\ Quiet /\ state = "open"
    /\ IF pool_alloc_count > 0
         THEN state' = "thrown" /\ UNCHANGED <<q, heap>>
         ELSE state' = "cleaned" /\ q' = <<>> /\ heap' = heap \ {q[i] : i \in 1..Len(q)}
    /\ UNCHANGED <<pool_free_count, pool_alloc_count, live, th>>

Next ==
    \/ \E p \in Threads :
         \/ AllocPop(p) \/ FreeDec(p) \/ AllocInc(p)
         \/ AllocDec(p) \/ Push(p) \/ FreeInc(p)
         \/ \E b \in Blocks : AllocNew(p, b) \/ Destroy(p, b)
    \/ Cleanup

Spec == Init /\ [][Next]_vars

(***************************************************************************)
(* Properties.                                                             *)
(***************************************************************************)
At(pc) == {p \in Threads : th[p].pc = pc}

\* The values of the variables; unsigned counters stay below the modulus.
TypeOK ==
    /\ q \in Seq(Blocks)
    /\ pool_free_count \in 0..(Modulus - 1) /\ pool_alloc_count \in 0..(Modulus - 1)
    /\ live \subseteq heap /\ heap \subseteq Blocks
    /\ \A p \in Threads : th[p].obj \in heap \cup {NoBlock}

\* A block is in one place: once in the queue, with one thread, or in use, so no
\* two objects are ever built in the same memory.  The counters agree with the
\* queue and the objects up to the steps that are going on, so they are exact
\* whenever no thread is inside the pool.  cleanup() gives back every block, and
\* throws exactly when objects are in use.
BlocksInOnePlace ==
    /\ TypeOK
    /\ \A i, j \in 1..Len(q) : q[i] = q[j] => i = j
    /\ \A p, o \in Threads : th[p].obj = th[o].obj /\ p # o => th[p].obj = NoBlock
    /\ live \cap {q[i] : i \in 1..Len(q)} = {}
    /\ \A p \in Threads : th[p].obj \notin live \cup {q[i] : i \in 1..Len(q)}
    /\ state # "cleaned" =>
        /\ pool_alloc_count = Cardinality(live) + Cardinality(At("alloc_dec"))
        /\ pool_free_count =
             (Len(q) + Cardinality(At("free_dec")) - Cardinality(At("free_inc"))) % Modulus
    /\ state = "cleaned" => heap = {} /\ live = {}
    /\ state = "thrown" => live # {}

=============================================================================
