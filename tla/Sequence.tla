------------------------------- MODULE Sequence -------------------------------
(***************************************************************************)
(* sequence<Seq, Mutex> (core/sequence.hpp): a pool of ids that are handed *)
(* out by next() and come back by release().  sub_map takes subscription   *)
(* keys from one, timer its timer ids and tcp_node its connector keys.     *)
(***************************************************************************)
EXTENDS Integers, Sequences, FiniteSets

CONSTANTS
    Begin,      \* begin_
    End,        \* end_: no value from it on is handed out
    Reserve     \* reserve_, already cut to end - begin by the constructor

ASSUME RangeAssumption == Begin \in Nat /\ End \in Nat /\ Begin < End
ASSUME ReserveAssumption == Reserve \in 1..(End - Begin)

VARIABLES
    current,    \* current_: the least value not yet in the pool
    seqs,       \* seqs_: the values ready to be handed out, oldest first
    used,       \* history: the values handed out and not released
    failed      \* history: the last next() threw

svars == <<current, seqs, used, failed>>

Values == Begin..(End - 1)

Elems(s) == {s[i] : i \in 1..Len(s)}

\* How many values acquire(reserve_) takes when the pool has reached c.
Batch(c) == IF Reserve <= End - c THEN Reserve ELSE End - c

\* acquire(reserve_): the queue and current_ after the loop
Acquired(c, s) == s \o [i \in 1..Batch(c) |-> c + i - 1]

\* The constructor acquires the first batch.
Init ==
    /\ current = Begin + Batch(Begin)
    /\ seqs = Acquired(Begin, <<>>)
    /\ used = {}
    /\ failed = FALSE

\* next() first fills up the queue when it is short.
Short == Len(seqs) < Reserve
Filled == IF Short THEN Acquired(current, seqs) ELSE seqs
FilledTo == IF Short THEN current + Batch(current) ELSE current

\* next() returns v: the oldest value of the queue, or current_++ when even the
\* filled queue is empty.
TakeNext(v) ==
    /\ IF Filled # <<>>
         THEN v = Head(Filled) /\ seqs' = Tail(Filled) /\ current' = FilledTo
         ELSE /\ FilledTo # End
              /\ v = FilledTo
              /\ seqs' = Filled
              /\ current' = FilledTo + 1
    /\ used' = used \cup {v}
    /\ failed' = FALSE

\* next() throws
NextThrows ==
    /\ Filled = <<>>
    /\ FilledTo = End
    /\ failed' = TRUE
    /\ UNCHANGED <<current, seqs, used>>

\* Faulty variant of Release: the value goes back and stays with its user.
ReleaseKeeps(v) ==
    /\ v \in used
    /\ seqs' = Append(seqs, v)
    /\ failed' = FALSE
    /\ UNCHANGED <<current, used>>

\* Faulty variant of Release: the value is not put back.
ReleaseLoses(v) ==
    /\ v \in used
    /\ used' = used \ {v}
    /\ failed' = FALSE
    /\ UNCHANGED <<current, seqs>>

\* release(v), by a user that has v
Release(v) ==
    /\ v \in used
    /\ seqs' = Append(seqs, v)
    /\ used' = used \ {v}
    /\ failed' = FALSE
    /\ UNCHANGED current

Next ==
    \/ \E v \in Values : TakeNext(v) \/ Release(v)
    \/ NextThrows

Spec == Init /\ [][Next]_svars

(***************************************************************************)
(* Properties.                                                             *)
(***************************************************************************)

\* Every value up to current_ is either ready or with one user, never both and
\* never ready twice: next() hands out no value that is in use, and none is
\* lost by the pool; current_ stays in the range the constructor was given.
Conserved ==
    /\ current \in Begin..End
    /\ \A i, j \in 1..Len(seqs) : seqs[i] = seqs[j] => i = j
    /\ Elems(seqs) \cap used = {}
    /\ Elems(seqs) \cup used = Begin..(current - 1)

\* next() throws only when every value of the range is in use.
ThrowsOnlyWhenExhausted == failed => used = Values

\* next() hands out a value that nobody has, as long as there is one, and release()
\* makes it ready again: the pool conserves the values, and next() throws only when
\* all of them are in use.
PoolSound == Conserved /\ ThrowsOnlyWhenExhausted

=============================================================================
