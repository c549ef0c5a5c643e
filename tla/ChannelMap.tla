------------------------------ MODULE ChannelMap ------------------------------
(***************************************************************************)
(* channel_map (core/channel/channel_map.cpp) with its index (index.hpp):  *)
(* the channels by name, and their names by address.  Each block under the *)
(* mutex is one step.  create() and find_from_addr() have two of them.     *)
(* The address of a channel may be used again when nobody has it any more. *)
(***************************************************************************)
EXTENDS Integers, FiniteSets, Functions

CONSTANTS
    Threads,
    Names,
    Addrs       \* where a channel can be allocated

Null == "null"

VARIABLES
    map,            \* map_: name -> address of the channel
    pkey_index,     \* pkey_index_: address -> name
    th              \* per thread: where it is, and the name and channel it works with

vars == <<map, pkey_index, th>>

Idle == [pc |-> "idle", key |-> Null, cp |-> Null]

\* channels that are in the map or that a thread has a pointer to
Alive == Range(map) \cup {th[p].cp : p \in Threads}

Init ==
    /\ map = <<>>
    /\ pkey_index = <<>>
    /\ th = [p \in Threads |-> Idle]

With(f, x, v) == [y \in DOMAIN f \cup {x} |-> IF y = x THEN v ELSE f[y]]

\* create(), the shared block and the allocation.  When the name is there the
\* assertion reports it and the caller gets no channel.
CreateCheck(p, k, a) ==
    /\ th[p] = Idle
    /\ a \in Addrs \ Alive
    /\ th' = [th EXCEPT ![p] = IF k \in DOMAIN map
                                 THEN [pc |-> "has", key |-> k, cp |-> Null]
                                 ELSE [pc |-> "insert", key |-> k, cp |-> a]]
    /\ UNCHANGED <<map, pkey_index>>

\* Faulty variant of CreateInsert: set() keeps an entry that is there.
InsertKeepsIndex(p) ==
    /\ th[p].pc = "insert"
    /\ map' = IF th[p].key \in DOMAIN map THEN map ELSE With(map, th[p].key, th[p].cp)
    /\ pkey_index' = IF th[p].cp \in DOMAIN pkey_index
                       THEN pkey_index ELSE With(pkey_index, th[p].cp, th[p].key)
    /\ th' = [th EXCEPT ![p].pc = "has"]

\* Faulty variant of CreateInsert: the channel is assigned, not inserted.
InsertReplaces(p) ==
    /\ th[p].pc = "insert"
    /\ map' = With(map, th[p].key, th[p].cp)
    /\ pkey_index' = With(pkey_index, th[p].cp, th[p].key)
    /\ th' = [th EXCEPT ![p].pc = "has"]

\* create(), the unique block: insert() does nothing when another thread has
\* inserted the name since the check, set() and the return are not affected.
CreateInsert(p) ==
    /\ th[p].pc = "insert"
    /\ map' = IF th[p].key \in DOMAIN map THEN map ELSE With(map, th[p].key, th[p].cp)
    /\ pkey_index' = With(pkey_index, th[p].cp, th[p].key)
    /\ th' = [th EXCEPT ![p].pc = "has"]

FoundFor(k) == [pc |-> "has", key |-> k, cp |-> IF k \in DOMAIN map THEN map[k] ELSE Null]

Find(p, k) ==
    /\ th[p] = Idle
    /\ th' = [th EXCEPT ![p] = FoundFor(k)]
    /\ UNCHANGED <<map, pkey_index>>

\* find_from_addr() with an address that may be stale: first the name ...
FindFromAddr(p, a) ==
    /\ th[p] = Idle
    /\ th' = [th EXCEPT ![p] = IF a \in DOMAIN pkey_index
                                 THEN [pc |-> "find", key |-> pkey_index[a], cp |-> Null]
                                 ELSE [pc |-> "has", key |-> Null, cp |-> Null]]
    /\ UNCHANGED <<map, pkey_index>>

\* ... then find() under its own lock
FindFromAddrFind(p) ==
    /\ th[p].pc = "find"
    /\ th' = [th EXCEPT ![p] = FoundFor(th[p].key)]
    /\ UNCHANGED <<map, pkey_index>>

\* destroy(): when the name is not there the assertion reports it
Destroy(k) ==
    /\ k \in DOMAIN map
    /\ pkey_index' = Restrict(pkey_index, DOMAIN pkey_index \ {map[k]})
    /\ map' = Restrict(map, DOMAIN map \ {k})
    /\ UNCHANGED th

\* the caller gives its pointer up
Forget(p) ==
    /\ th[p].pc = "has"
    /\ th' = [th EXCEPT ![p] = Idle]
    /\ UNCHANGED <<map, pkey_index>>

Next ==
    \/ \E p \in Threads, k \in Names, a \in Addrs : CreateCheck(p, k, a)
    \/ \E p \in Threads, k \in Names : Find(p, k)
    \/ \E p \in Threads, a \in Addrs : FindFromAddr(p, a)
    \/ \E p \in Threads : CreateInsert(p) \/ FindFromAddrFind(p) \/ Forget(p)
    \/ \E k \in Names : Destroy(k)

Spec == Init /\ [][Next]_vars

(***************************************************************************)
(* Properties.                                                             *)
(***************************************************************************)

\* The values of the variables: a find() that finds nothing returns null.
TypeOK ==
    /\ DOMAIN map \subseteq Names /\ Range(map) \subseteq Addrs
    /\ DOMAIN pkey_index \subseteq Addrs /\ Range(pkey_index) \subseteq Names
    /\ th \in [Threads -> [pc : {"idle", "insert", "find", "has"},
                           key : Names \cup {Null}, cp : Addrs \cup {Null}]]

\* Every registered channel is found by its address under its own name, whatever
\* creates of the same name met, and also at an address that was used before; and
\* it is not replaced by a create() of its name that passed the check earlier: only
\* destroy() takes it out.
ChannelsKept ==
    /\ [](TypeOK /\ \A k \in DOMAIN map : map[k] \in DOMAIN pkey_index /\ pkey_index[map[k]] = k)
    /\ [][\A k \in DOMAIN map \cap DOMAIN map' : map'[k] = map[k]]_vars

=============================================================================
