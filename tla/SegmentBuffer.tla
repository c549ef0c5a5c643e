----------------------------- MODULE SegmentBuffer -----------------------------
(***************************************************************************)
(* segment_buffer and segment (net/buffer): bytes to send, in segments of  *)
(* Length bytes.  A session appends under its send mutex, takes the        *)
(* segments with transfer() when it starts a send and releases them when   *)
(* the send has completed.                                                 *)
(***************************************************************************)
EXTENDS Integers, Sequences, SequencesExt

CONSTANTS
    Length,         \* bytes in a segment
    Bytes,          \* values of a byte
    MaxLen,         \* bound: bytes in one append()
    MaxTotal,       \* bound: bytes in the buffer
    Modulus         \* size_t counts modulo this

VARIABLES
    segs,       \* segs_: what each segment holds
    pos,        \* pos_
    out,        \* the segments taken by transfer() and not released
    required,   \* how many segments the last append() asked the pool for
    pending     \* history: the bytes appended and not transferred

vars == <<segs, pos, out, required, pending>>

Init ==
    /\ segs = <<>> /\ pos = 0
    /\ out = <<>>
    /\ required = 0
    /\ pending = <<>>

\* Faulty variant of Required: the segments that are there are not subtracted.
RequiredAnew(len) == ((pos + len) \div Length + 1) % Modulus

\* reserve(): how many segments are missing, in unsigned arithmetic
Required(len) == ((pos + len) \div Length + 1 - Len(segs)) % Modulus

Reserved(len) == segs \o [i \in 1..Required(len) |-> <<>>]

\* One byte of the loop of append(): the write segment, or the next one when it
\* is full.
Put(b, byte) ==
    LET w == b.pos \div Length + 1
        i == IF Len(b.segs[w]) = Length THEN w + 1 ELSE w
    IN  [segs |-> [b.segs EXCEPT ![i] = Append(@, byte)], pos |-> b.pos + 1]

\* append()
Write(data) ==
    /\ pos + Len(data) <= MaxTotal
    /\ required' = Required(Len(data))
    /\ LET b == FoldLeft(Put, [segs |-> Reserved(Len(data)), pos |-> pos], data)
       IN  segs' = b.segs /\ pos' = b.pos
    /\ pending' = pending \o data
    /\ UNCHANGED out

\* rewind(), which only transfer() calls: the segments stay and are empty
Emptied(s) == [i \in 1..Len(s) |-> <<>>]

\* Faulty variant of DataSegs: the segment to write to is taken, too.
WriteSegs == pos \div Length + 1

\* get_data_seg() + 1, cut to the segments there are
DataSegs ==
    LET n == (IF pos > 0 THEN pos - 1 ELSE 0) \div Length + 1
    IN  IF n <= Len(segs) THEN n ELSE Len(segs)

\* Faulty variant of Kept: the segments that stay are not emptied, and neither
\* are the ones that go taken out.
KeptAll(n) == segs

\* the segments transfer() leaves
Kept(n) == Emptied(SubSeq(segs, n + 1, Len(segs)))

\* transfer(); a session takes no more segments before it has released these
Transfer ==
    /\ out = <<>>
    /\ pos > 0
    /\ out' = SubSeq(segs, 1, DataSegs)
    /\ segs' = Kept(DataSegs)
    /\ pos' = 0
    /\ pending' = <<>>
    /\ UNCHANGED required

Release ==
    /\ out # <<>>
    /\ out' = <<>>
    /\ UNCHANGED <<segs, pos, required, pending>>

Next ==
    \/ \E n \in 1..MaxLen : \E data \in [1..n -> Bytes] : Write(data)
    \/ Transfer
    \/ Release

Spec == Init /\ [][Next]_vars

(***************************************************************************)
(* Properties.                                                             *)
(***************************************************************************)
Joined(s) == FlattenSeq(s)

\* The values of the variables; no segment holds more than Length bytes.
TypeOK ==
    /\ segs \in Seq(Seq(Bytes)) /\ out \in Seq(Seq(Bytes))
    /\ pos \in 0..MaxTotal
    /\ \A i \in 1..Len(segs) : Len(segs[i]) <= Length

\* The segments hold the bytes appended since the last transfer, in order, and
\* pos_ counts them.  A transfer hands over exactly these bytes, in segments that
\* are full but for the last and never empty, and leaves the buffer empty.  The
\* buffer has the segments its bytes fill and the one to write to next, so
\* append() allocates no more than it needs and the count of missing segments,
\* which is unsigned, never wraps.
SegmentsKeepBytes ==
    /\ [](/\ TypeOK
          /\ Joined(segs) = pending /\ pos = Len(pending)
          /\ Len(segs) = pos \div Length + 1 \/ (pos = 0 /\ segs = <<>>)
          /\ required <= MaxLen \div Length + 1)
    /\ [][out = <<>> /\ out' # <<>> =>
            /\ Joined(out') = pending
            /\ \A i \in 1..(Len(out') - 1) : Len(out'[i]) = Length
            /\ out'[Len(out')] # <<>>
            /\ Joined(segs') = <<>>]_vars

=============================================================================
