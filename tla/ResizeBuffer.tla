----------------------------- MODULE ResizeBuffer -----------------------------
(***************************************************************************)
(* resize_buffer (net/buffer) with the pools it takes its memory from:     *)
(* multiple_size_buffer_pool, one fixed_size_buffer_pool per power of two. *)
(* All buffers share one static pool.  A buffer belongs to one thread, so  *)
(* a call is one step; a call that writes past its memory is the last one. *)
(***************************************************************************)
EXTENDS Integers, Sequences, SequencesExt, FiniteSets

CONSTANTS
    Buffers,        \* the resize_buffers
    Inputs,         \* what append() is called with: sequences of bytes, which are naturals
    InitialSize,    \* initial_size_
    StartPower,     \* config::start_power_of_2
    Steps,          \* config::steps
    MaxLen,         \* bound: bytes in one read() or pop_front()
    MaxSize,        \* bound: bytes in a buffer
    MaxBlocks       \* bound: blocks taken from the system

VARIABLES
    blocks,     \* the blocks: their data, their pool (None: the system's) and state_
    free,       \* blocks_ of each pool, oldest first
    rb,         \* the buffers: buf_, pos_, read_pos_
    want,       \* history: the bytes each buffer should hold
    short       \* history: resize() grew a buffer that was not full

vars == <<blocks, free, rb, want, short>>

None == 0
Junk == -1          \* a byte above pos_, or of a free block: nobody can tell what it is
Empty == [buf |-> None, pos |-> 0, read |-> 0]

\* init_pools(): the lengths of the pools
Length(i) == 2 ^ (StartPower + i - 1)

Init ==
    /\ blocks = <<>>
    /\ free = [i \in 1..Steps |-> <<>>]
    /\ rb = [r \in Buffers |-> Empty]
    /\ want = [r \in Buffers |-> <<>>]
    /\ short = FALSE

Capacity(r) == IF rb[r].buf = None THEN 0 ELSE Len(blocks[rb[r].buf].data)

(***************************************************************************)
(* The pools.  m is the memory: blocks and free lists.                     *)
(***************************************************************************)
\* src, written over data from position at on
Written(data, at, src) ==
    [k \in 1..Len(data) |-> IF k \in (at + 1)..(at + Len(src)) THEN src[k - at] ELSE data[k]]

\* the bytes of data up to position pos
Cut(data, pos) == [k \in 1..Len(data) |-> IF k <= pos THEN data[k] ELSE Junk]

\* multiple_size_buffer_pool::alloc(): the first pool whose blocks are large enough
PoolFor(size) ==
    LET fit == {i \in 1..Steps : Length(i) >= size}
    IN  IF fit = {} THEN None ELSE CHOOSE i \in fit : \A j \in fit : i <= j

Fresh(i, n) == [pool |-> i, state |-> "allocated", data |-> [k \in 1..n |-> Junk]]

\* alloc(): a block of the pool, as it was released, or one from the system
Alloc(m, size) ==
    LET i == PoolFor(size)
    IN  IF i # None /\ m.free[i] # <<>>
          THEN [b |-> Head(m.free[i]),
                m |-> [blocks |-> [m.blocks EXCEPT ![Head(m.free[i])].state = "allocated"],
                       free |-> [m.free EXCEPT ![i] = Tail(@)]]]
          ELSE [b |-> Len(m.blocks) + 1,
                m |-> [m EXCEPT !.blocks = Append(@, Fresh(i, IF i = None THEN size ELSE Length(i)))]]

\* Faulty variant of Release: the block is pushed twice.
ReleaseTwice(m, b) ==
    IF m.blocks[b].pool = None
      THEN [m EXCEPT !.blocks[b].state = "deleted"]
      ELSE [blocks |-> [m.blocks EXCEPT ![b].state = "released", ![b].data = Cut(@, 0)],
            free |-> [m.free EXCEPT ![m.blocks[b].pool] = @ \o <<b, b>>]]

\* release(): to its pool, or back to the system
Release(m, b) ==
    IF m.blocks[b].pool = None
      THEN [m EXCEPT !.blocks[b].state = "deleted"]
      ELSE [blocks |-> [m.blocks EXCEPT ![b].state = "released", ![b].data = Cut(@, 0)],
            free |-> [m.free EXCEPT ![m.blocks[b].pool] = Append(@, b)]]

Memory == [blocks |-> blocks, free |-> free]

\* reserve(): the block of r and the memory when there is room for len more bytes
Reserved(r, len) ==
    LET b == rb[r].buf
        new == Alloc(Memory, rb[r].pos + len)
        copied == [new.m EXCEPT !.blocks[new.b].data =
                     Written(@, 0, SubSeq(blocks[b].data, 1, rb[r].pos))]
    IN  IF b = None
          THEN Alloc(Memory, IF len > InitialSize THEN len ELSE InitialSize)
        ELSE IF Capacity(r) < rb[r].pos + len
          THEN [b |-> new.b, m |-> Release(copied, b)]
        ELSE [b |-> b, m |-> Memory]

(***************************************************************************)
(* The calls.                                                              *)
(***************************************************************************)
\* no write went past the memory
Sane(r) == rb[r].pos <= Capacity(r)
Bounded(res) == Len(res.m.blocks) <= MaxBlocks
Become(m) == blocks' = m.blocks /\ free' = m.free

\* append()
AppendBytes(r, src) ==
    LET res == Reserved(r, Len(src))
        pos == rb[r].pos
    IN  /\ Sane(r)
        /\ pos + Len(src) <= MaxSize /\ Bounded(res)
        /\ Become([res.m EXCEPT !.blocks[res.b].data = Written(@, pos, src)])
        /\ rb' = [rb EXCEPT ![r].buf = res.b, ![r].pos = pos + Len(src)]
        /\ want' = [want EXCEPT ![r] = @ \o src]
        /\ UNCHANGED short

\* read() of n bytes; false, and nothing read, when there are not as many
Read(r, n) ==
    /\ Sane(r) /\ rb[r].buf # None
    /\ rb[r].pos >= rb[r].read + n
    /\ rb' = [rb EXCEPT ![r].read = @ + n]
    /\ UNCHANGED <<blocks, free, want, short>>

\* resize(): when it must grow, reserve() is asked for the difference to the capacity
Resize(r, n) ==
    LET res == IF n <= Capacity(r) THEN [b |-> rb[r].buf, m |-> Memory]
                                   ELSE Reserved(r, n - Capacity(r))
    IN  /\ Sane(r)
        /\ n <= MaxSize /\ Bounded(res)
        /\ Become(IF res.b = None THEN res.m
                                  ELSE [res.m EXCEPT !.blocks[res.b].data = Cut(@, n)])
        /\ rb' = [rb EXCEPT ![r].buf = res.b, ![r].pos = n]
        /\ short' = (short \/ (n > Capacity(r) /\ rb[r].pos < Capacity(r)))
        /\ want' = [want EXCEPT ![r] = [k \in 1..n |-> IF k <= Len(@) THEN @[k] ELSE Junk]]

\* rewind(): without effect from the end on
Rewind(r, p) ==
    /\ Sane(r)
    /\ p < rb[r].pos
    /\ rb' = [rb EXCEPT ![r].pos = p, ![r].read = 0]
    /\ want' = [want EXCEPT ![r] = SubSeq(@, 1, p)]
    /\ blocks' = [blocks EXCEPT ![rb[r].buf].data = Cut(@, p)]
    /\ UNCHANGED <<free, short>>

\* Faulty variant of Popped: the last byte is not moved.
PoppedLess(data, n, pos) == Cut(Written(data, 0, SubSeq(data, n + 1, pos - 1)), pos - n)

\* memmove of the bytes that stay to the front
Popped(data, n, pos) == Cut(Written(data, 0, SubSeq(data, n + 1, pos)), pos - n)

\* pop_front(): throws when there are less bytes
PopFront(r, n) ==
    /\ Sane(r) /\ rb[r].buf # None
    /\ n <= rb[r].pos
    /\ blocks' = [blocks EXCEPT ![rb[r].buf].data = Popped(@, n, rb[r].pos)]
    /\ rb' = [rb EXCEPT ![r].pos = @ - n, ![r].read = IF n <= @ THEN @ - n ELSE 0]
    /\ want' = [want EXCEPT ![r] = SubSeq(@, n + 1, Len(@))]
    /\ UNCHANGED <<free, short>>

\* the destructor; another buffer is made in its place
Destroy(r) ==
    /\ Sane(r) /\ rb[r].buf # None
    /\ Become(Release(Memory, rb[r].buf))
    /\ rb' = [rb EXCEPT ![r] = Empty]
    /\ want' = [want EXCEPT ![r] = <<>>]
    /\ UNCHANGED short

Next ==
    \E r \in Buffers :
        \/ \E src \in Inputs : AppendBytes(r, src)
        \/ \E n \in 1..MaxLen : Read(r, n) \/ PopFront(r, n)
        \/ \E n \in 0..MaxSize : Resize(r, n) \/ Rewind(r, n)
        \/ Destroy(r)

Spec == Init /\ [][Next]_vars

(***************************************************************************)
(* Properties.                                                             *)
(***************************************************************************)
Holds(r) == IF rb[r].buf = None THEN <<>> ELSE SubSeq(blocks[rb[r].buf].data, 1, rb[r].pos)

\* A buffer holds what was appended to it and not cut off or popped, through every
\* growth, and whatever the other buffers do with blocks they got from the same
\* pool: no block is shared.  It has the memory for it, but for a resize() that
\* grew a buffer which was not full.  Every block is with one buffer, in the pool
\* of its length, or back with the system, and its state says so: release() never
\* throws.
BufferKeepsBytes ==
    /\ \A r \in Buffers :
         /\ ~short => Sane(r)
         /\ Sane(r) => /\ Len(want[r]) = rb[r].pos
                       /\ \A k \in 1..rb[r].pos : want[r][k] \in {Junk, Holds(r)[k]}
    /\ \A b \in 1..Len(blocks) :
           LET holders == {r \in Buffers : rb[r].buf = b}
               places == {<<i, k>> \in (1..Steps) \X (1..MaxBlocks) : k <= Len(free[i]) /\ free[i][k] = b}
           IN  CASE blocks[b].state = "allocated" -> Cardinality(holders) = 1 /\ places = {}
                 [] blocks[b].state = "released" ->
                      /\ holders = {} /\ Cardinality(places) = 1
                      /\ \A p \in places : Length(p[1]) = Len(blocks[b].data)
                 [] blocks[b].state = "deleted" -> holders = {} /\ places = {} /\ blocks[b].pool = None

=============================================================================
