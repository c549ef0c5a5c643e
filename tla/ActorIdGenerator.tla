-------------------------- MODULE ActorIdGenerator --------------------------
(***************************************************************************)
(* actor_id_generator<spinlock> (actor_id_generator.hpp): ids made of the   *)
(* milliseconds of the system clock, the domain of the server and a         *)
(* sequence number within the millisecond.  A thread reads the clock before *)
(* it takes the lock, and sleeps with the lock held when the sequence       *)
(* numbers of a millisecond are used up.  The id's fields do not overlap,   *)
(* so an id is the record of its fields.                                    *)
(***************************************************************************)
EXTENDS Integers, FiniteSets

CONSTANTS
    Threads,    \* threads that call next()
    Domain,     \* domain_, set once by setup()
    SeqEnd,     \* 256: sequence numbers of a millisecond
    MsEnd,      \* 2^40: the milliseconds kept in an id
    MaxClock,   \* bound: the clock stops here
    MaxGiven    \* bound: ids given

ASSUME IdAssumption ==
    /\ SeqEnd \in Nat \ {0} /\ MsEnd \in Nat \ {0}
    /\ MaxClock \in Nat /\ MaxGiven \in Nat

VARIABLES
    clock,      \* the system clock, in milliseconds
    lastMs,     \* last_ms_
    seq,        \* seq_
    pc,         \* "idle", "read" (before the lock), "sleep" (holds the lock)
    now,        \* now_ms of a thread
    given,      \* history: the ids returned, in order
    slept,      \* a millisecond has passed since a thread went to sleep
    setBack,    \* history: the clock was set back
    asserted    \* history: the assertion after a sleep has failed

vars == <<clock, lastMs, seq, pc, now, given, slept, setBack, asserted>>

Init ==
    /\ clock = 1
    /\ lastMs = 0 /\ seq = 0
    /\ pc = [t \in Threads |-> "idle"]
    /\ now = [t \in Threads |-> 0]
    /\ given = {}
    /\ slept = FALSE /\ setBack = FALSE /\ asserted = FALSE

Asleep == {t \in Threads : pc[t] = "sleep"}

(* The clock goes on, or is set back. *)
Tick ==
    /\ clock < MaxClock
    /\ clock' = clock + 1
    /\ slept' = (Asleep # {})
    /\ UNCHANGED <<lastMs, seq, pc, now, given, setBack, asserted>>

SetBack ==
    /\ clock > 1
    /\ clock' = clock - 1
    /\ setBack' = TRUE
    /\ UNCHANGED <<lastMs, seq, pc, now, given, slept, asserted>>

Id(ms, n) == [ms |-> ms % MsEnd, domain |-> Domain, seq |-> n]

(* The end of the locked part: the id is made and remembered. *)
Give(t, ms, n) ==
    /\ Cardinality(given) < MaxGiven
    /\ given' = given \cup {[n |-> Cardinality(given), ms |-> ms, seq |-> n,
                             id |-> Id(ms, n)]}
    /\ lastMs' = ms
    /\ seq' = n
    /\ pc' = [pc EXCEPT ![t] = "idle"]

(* next(), before the lock. *)
Read(t) ==
    /\ pc[t] = "idle"
    /\ now' = [now EXCEPT ![t] = clock]
    /\ pc' = [pc EXCEPT ![t] = "read"]
    /\ UNCHANGED <<clock, lastMs, seq, given, slept, setBack, asserted>>

(* A generator that does not look whether its time is behind. *)
LockedLax(t) ==
    /\ pc[t] = "read" /\ Asleep = {}
    /\ Give(t, now[t], IF now[t] = lastMs THEN (seq + 1) % SeqEnd ELSE 0)
    /\ UNCHANGED <<clock, now, slept, setBack, asserted>>

(* next(), with the lock, up to the sleep: a time behind the last one       *)
(* throws, a later one starts the sequence again, the last of a millisecond *)
(* sleeps.                                                                  *)
Locked(t) ==
    /\ pc[t] = "read" /\ Asleep = {}
    /\ \/ /\ now[t] < lastMs
          /\ pc' = [pc EXCEPT ![t] = "idle"]
          /\ UNCHANGED <<lastMs, seq, given, slept>>
       \/ /\ now[t] = lastMs /\ (seq + 1) % SeqEnd = 0
          /\ seq' = 0
          /\ pc' = [pc EXCEPT ![t] = "sleep"]
          /\ slept' = FALSE
          /\ UNCHANGED <<lastMs, given>>
       \/ /\ now[t] = lastMs /\ (seq + 1) % SeqEnd # 0
          /\ Give(t, now[t], (seq + 1) % SeqEnd)
          /\ UNCHANGED slept
       \/ /\ now[t] > lastMs
          /\ Give(t, now[t], 0)
          /\ UNCHANGED slept
    /\ UNCHANGED <<clock, now, setBack, asserted>>

(* wait_next_ms and the rest of next().  The assertion on the time after    *)
(* the sleep does not stop the release build.                               *)
Wake(t) ==
    /\ pc[t] = "sleep" /\ slept
    /\ now' = [now EXCEPT ![t] = clock]
    /\ asserted' = IF clock <= lastMs THEN TRUE ELSE asserted
    /\ Give(t, clock, seq)
    /\ UNCHANGED <<clock, slept, setBack>>

Next ==
    \/ Tick \/ SetBack
    \/ \E t \in Threads : Read(t) \/ Locked(t) \/ Wake(t)

Spec == Init /\ [][Next]_vars

---------------------------------------------------------------------------

(* No two calls of next() return the same id, whichever threads make them   *)
(* and however late they get the lock, unless their milliseconds differ by  *)
(* a multiple of 2^40 (actor_id_generator.hpp:19: 256 unique ids in a       *)
(* millisecond).  The one way out is the assertion after the sleep (line    *)
(* 72), and it fails only when the clock was set back.                      *)
UniqueIds ==
    /\ asserted => setBack
    /\ asserted \/ \A g, h \in given : g.id = h.id => g = h \/ g.ms # h.ms

============================================================================
