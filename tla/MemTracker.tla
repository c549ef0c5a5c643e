------------------------------ MODULE MemTracker ------------------------------
(***************************************************************************)
(* mem_tracker (core/mem_tracker.cpp) with its spinlock.  wise_new() and   *)
(* its siblings report an allocation after it was made, operator delete    *)
(* reports the release before it frees the memory.  A report is an entry   *)
(* of one queue; who gets the lock with try_lock() applies all entries.    *)
(***************************************************************************)
EXTENDS Integers, Sequences, FiniteSets, Functions

CONSTANTS
    Threads,
    Mems,           \* addresses, used again after they were freed
    Classes,        \* what is allocated; Size gives the size of each
    Size,
    MaxOps          \* bound: operations begun in a behaviour

VARIABLES
    ops,            \* ops_: what was reported and not yet applied
    lock,           \* mutex_: held or not
    enable,         \* enable_
    allocs,         \* allocs_: address -> class
    size_stats,     \* size_stats_: size -> allocations minus releases
    class_stats,    \* class_stats_: class -> allocations minus releases
    memory,         \* external, the heap: address -> class of the object there
    th,             \* per thread: where it is and the operation it reports
    begun,          \* history: how many operations were begun
    missed,         \* history: a report was dropped because of disable()
    refused         \* history: "allocation of unfreed memory" was logged

vars == <<ops, lock, enable, allocs, size_stats, class_stats, memory, th, begun, missed, refused>>

NoOp == <<>>
Idle == [pc |-> "idle", op |-> NoOp]

Init ==
    /\ ops = <<>> /\ lock = FALSE /\ enable = TRUE
    /\ allocs = <<>> /\ size_stats = <<>> /\ class_stats = <<>>
    /\ memory = <<>>
    /\ th = [p \in Threads |-> Idle]
    /\ begun = 0 /\ missed = FALSE /\ refused = FALSE

With(f, x, v) == [y \in DOMAIN f \cup {x} |-> IF y = x THEN v ELSE f[y]]
Without(f, x) == Restrict(f, DOMAIN f \ {x})

tables == <<allocs, size_stats, class_stats, refused>>

Goes(p, pc) == th' = [th EXCEPT ![p].pc = pc]

\* wise_new(): the memory is there before it is reported
New(p, m, c) ==
    /\ th[p] = Idle /\ begun < MaxOps
    /\ m \notin DOMAIN memory
    /\ memory' = With(memory, m, c)
    /\ th' = [th EXCEPT ![p] = [pc |-> "push", op |-> [alloc |-> TRUE, mem |-> m, cls |-> c]]]
    /\ begun' = begun + 1
    /\ UNCHANGED <<ops, lock, enable, tables, missed>>

\* operator delete: the release is reported before the memory is freed
Delete(p, m) ==
    /\ th[p] = Idle /\ begun < MaxOps
    /\ m \in DOMAIN memory
    /\ \A o \in Threads : th[o].op # NoOp => th[o].op.mem # m
    /\ th' = [th EXCEPT ![p] = [pc |-> "push", op |-> [alloc |-> FALSE, mem |-> m, cls |-> memory[m]]]]
    /\ begun' = begun + 1
    /\ UNCHANGED <<ops, lock, enable, tables, memory, missed>>

\* on_alloc() and on_dealloc(): disabled, they return
Disabled(p) ==
    /\ th[p].pc = "push"
    /\ ~enable
    /\ missed' = TRUE
    /\ Goes(p, "done")
    /\ UNCHANGED <<ops, lock, enable, tables, memory, begun>>

PushOp(p) ==
    /\ th[p].pc = "push"
    /\ enable
    /\ ops' = Append(ops, th[p].op)
    /\ Goes(p, "try_lock")
    /\ UNCHANGED <<lock, enable, tables, memory, begun, missed>>

\* Faulty variant of TryLock: the exchange is not atomic.
TryLockRacy(p) ==
    /\ th[p].pc = "try_lock"
    /\ lock' = TRUE
    /\ \/ Goes(p, "drain")
       \/ lock /\ Goes(p, "done")
    /\ UNCHANGED <<ops, enable, tables, memory, begun, missed>>

\* spinlock::try_lock(): somebody else has the lock and will apply the entry,
\* or so it is hoped
TryLock(p) ==
    /\ th[p].pc = "try_lock"
    /\ lock' = TRUE
    /\ Goes(p, IF lock THEN "done" ELSE "drain")
    /\ UNCHANGED <<ops, enable, tables, memory, begun, missed>>

\* a count of a statistic; the entry exists while allocations exceed releases
Counted(f, x) == With(f, x, IF x \in DOMAIN f THEN f[x] + 1 ELSE 1)

\* Faulty variant of Uncounted: the entry is erased with the first release.
UncountedErases(f, x) == Without(f, x)

Uncounted(f, x) == IF f[x] = 1 THEN Without(f, x) ELSE [f EXCEPT ![x] = @ - 1]

\* on_alloc_locked()
AllocLocked(op) ==
    IF op.mem \in DOMAIN allocs
      THEN refused' = TRUE /\ UNCHANGED <<allocs, size_stats, class_stats>>
      ELSE /\ allocs' = With(allocs, op.mem, op.cls)
           /\ size_stats' = Counted(size_stats, Size[op.cls])
           /\ class_stats' = Counted(class_stats, op.cls)
           /\ UNCHANGED refused

\* on_dealloc_locked(): memory that was not reported is not looked at
DeallocLocked(op) ==
    IF op.mem \in DOMAIN allocs
      THEN /\ size_stats' = Uncounted(size_stats, Size[allocs[op.mem]])
           /\ class_stats' = Uncounted(class_stats, allocs[op.mem])
           /\ allocs' = Without(allocs, op.mem)
           /\ UNCHANGED refused
      ELSE UNCHANGED tables

\* one turn of the loop that applies the entries
DrainOne(p) ==
    /\ th[p].pc = "drain"
    /\ ops # <<>>
    /\ ops' = Tail(ops)
    /\ IF Head(ops).alloc THEN AllocLocked(Head(ops)) ELSE DeallocLocked(Head(ops))
    /\ UNCHANGED <<lock, enable, memory, th, begun, missed>>

DrainEnds(p) ==
    /\ th[p].pc = "drain"
    /\ ops = <<>>
    /\ Goes(p, "unlock")
    /\ UNCHANGED <<ops, lock, enable, tables, memory, begun, missed>>

Unlock(p) ==
    /\ th[p].pc = "unlock"
    /\ lock' = FALSE
    /\ th' = [th EXCEPT ![p].pc = IF th[p].op = NoOp THEN "idle" ELSE "done"]
    /\ UNCHANGED <<ops, enable, tables, memory, begun, missed>>

\* Faulty variant of Return: the order of operator delete is turned around, the
\* memory may be used again before the release is reported.
ReturnEarly(p) ==
    /\ th[p].pc \in {"push", "done"}
    /\ th[p].op # NoOp /\ (th[p].pc = "push" => ~th[p].op.alloc /\ th[p].op.mem \in DOMAIN memory)
    /\ memory' = IF th[p].op.alloc THEN memory ELSE Without(memory, th[p].op.mem)
    /\ th' = [th EXCEPT ![p] = IF @.pc = "done" THEN Idle ELSE @]
    /\ UNCHANGED <<ops, lock, enable, tables, begun, missed>>

\* the report returns; operator delete frees the memory
Return(p) ==
    /\ th[p].pc = "done"
    /\ memory' = IF th[p].op.alloc THEN memory ELSE Without(memory, th[p].op.mem)
    /\ th' = [th EXCEPT ![p] = Idle]
    /\ UNCHANGED <<ops, lock, enable, tables, begun, missed>>

\* report(): spinlock::lock(), the statistics are read, unlock
Report(p) ==
    /\ th[p] = Idle /\ begun < MaxOps
    /\ ~lock
    /\ lock' = TRUE
    /\ begun' = begun + 1
    /\ Goes(p, "unlock")
    /\ UNCHANGED <<ops, enable, tables, memory, missed>>

\* enable() and disable()
Toggle ==
    /\ enable' = ~enable
    /\ UNCHANGED <<ops, lock, tables, memory, th, begun, missed>>

Next ==
    \/ \E p \in Threads :
         \/ Disabled(p) \/ PushOp(p) \/ TryLock(p) \/ DrainOne(p) \/ DrainEnds(p)
         \/ Unlock(p) \/ Return(p) \/ Report(p)
         \/ \E m \in Mems : Delete(p, m) \/ \E c \in Classes : New(p, m, c)
    \/ Toggle

Spec == Init /\ [][Next]_vars

(***************************************************************************)
(* Properties.                                                             *)
(***************************************************************************)

\* The values of the variables.
TypeOK ==
    /\ DOMAIN allocs \subseteq Mems /\ Range(allocs) \subseteq Classes
    /\ DOMAIN size_stats \subseteq Range(Size) /\ DOMAIN class_stats \subseteq Classes
    /\ th \in [Threads -> [pc : {"idle", "push", "try_lock", "drain", "unlock", "done"},
                           op : {NoOp} \cup [alloc : BOOLEAN, mem : Mems, cls : Classes]]]
    /\ Cardinality({p \in Threads : th[p].pc \in {"drain", "unlock"}}) = IF lock THEN 1 ELSE 0

\* What the table will be when all entries of the queue are applied.
Pending(m) ==
    LET at == {i \in 1..Len(ops) : ops[i].mem = m}
    IN  IF at = {} THEN m \in DOMAIN allocs
                   ELSE ops[CHOOSE i \in at : \A j \in at : j <= i].alloc

\* Each statistic counts what the table of allocations has, also when reports
\* were dropped: classes of the same size share a count and neither is lost.  With
\* tracking on, an address that no thread is busy with is in the table, or will be
\* when the queue is applied, exactly when the memory is in use: the queue keeps
\* the order of a release and the next allocation at the address, and no
\* allocation is taken for one of memory in use.
TrackerExact ==
    /\ TypeOK
    /\ DOMAIN class_stats = Range(allocs)
    /\ DOMAIN size_stats = {Size[c] : c \in Range(allocs)}
    /\ \A c \in DOMAIN class_stats :
         class_stats[c] = Cardinality({m \in DOMAIN allocs : allocs[m] = c})
    /\ \A s \in DOMAIN size_stats :
         size_stats[s] = Cardinality({m \in DOMAIN allocs : Size[allocs[m]] = s})
    /\ ~missed => ~refused /\ \A m \in Mems :
        (\A p \in Threads : th[p].op # NoOp => th[p].op.mem # m) =>
            (Pending(m) <=> m \in DOMAIN memory)

=============================================================================
