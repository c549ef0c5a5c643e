---------------------------- MODULE MCStructures ----------------------------
(***************************************************************************)
(* The data structures of the kernel for TLC, side by side: the id pool    *)
(* Sequence, ChannelMap, ObjectPool, MemTracker, SegmentBuffer,            *)
(* ResizeBuffer, and the packet formats BitsPacker and BitsProtocol.  They *)
(* share no state.  A behaviour is one of the part chosen at the start,    *)
(* while the others stay as they are initially, so that TLC goes through   *)
(* the states of each part and not through their product.                  *)
(***************************************************************************)
EXTENDS Sequence, TLC

CONSTANTS t1, t2, t3, n1, n2, a1, a2, a3, r1, r2

VARIABLES
    part,                                             \* the part that moves
    map, pkey_index, finder,                          \* ChannelMap
    q, pool_free_count, pool_alloc_count, live, user, heap, pool_state, \* ObjectPool
    ops, lock, enable, allocs, size_stats, class_stats, memory, tracked,
    begun, missed, refused,                           \* MemTracker
    segs, seg_pos, taken, required, pending,          \* SegmentBuffer
    blocks, free, rb, want, short,                    \* ResizeBuffer
    writer, reader, packed, bytes, ends, wvalid, given, pos, fields, rvalid, \* BitsPacker
    send_seq, recv_seq, out, wire, buf, read_pos, err, nsent, sent, got,
    swapped, misread                                  \* BitsProtocol

Map == INSTANCE ChannelMap WITH
    Threads <- {t1, t2}, Names <- {n1, n2}, Addrs <- {a1, a2, a3}, th <- finder

Pool == INSTANCE ObjectPool WITH
    Threads <- {t1, t2, t3}, Blocks <- {a1, a2, a3}, Modulus <- 8, th <- user, state <- pool_state

\* two classes of the same size
Tracker == INSTANCE MemTracker WITH
    Threads <- {t1, t2}, Mems <- {a1, a2}, Classes <- {"a", "b"},
    Size <- [c \in {"a", "b"} |-> 8], MaxOps <- 5, th <- tracked

Segments == INSTANCE SegmentBuffer WITH
    Length <- 2, Bytes <- {0, 1}, MaxLen <- 4, MaxTotal <- 6, Modulus <- 16,
    pos <- seg_pos, out <- taken

Resizing == INSTANCE ResizeBuffer WITH
    Buffers <- {r1, r2}, Inputs <- {<<0>>, <<0, 1>>}, InitialSize <- 1, StartPower <- 1,
    Steps <- 1, MaxLen <- 2, MaxSize <- 3, MaxBlocks <- 2

\* For each type values within the limits, at them and, where a writer may pack
\* them, above them; 3 and 4 are characters of two bytes.
PackedValues ==
    [bool    |-> {TRUE},
     u16     |-> {6},
     enum    |-> {1, 7},
     date    |-> {<<2, 0, 5>>},
     string  |-> {<<>>, <<1, 2, 1>>, <<1, 4>>, <<4, 3>>, <<1, 0, 2>>},
     text    |-> {<<4, 3, 1>>, <<1, 1, 1, 1>>, <<3, 3, 3>>},
     bytes   |-> {<<1, 0, 3>>, <<1, 1, 1, 1, 1, 1>>},
     strings |-> {<<<<1>>, <<2, 3>>>>, <<<<1>>, <<1, 2, 1, 2>>>>},
     map     |-> {(1 :> 2) @@ (3 :> 0)}]

Packer == INSTANCE BitsPacker WITH
    ByteEnd <- 4, Lead <- 3, MaxString <- 3, MaxContainer <- 5, Defined <- {0, 1},
    Fields <- PackedValues, MaxFields <- 2, sent <- given, got <- fields

\* a packet without modifiers, one with a number and a checksum, and an empty one
\* with a checksum
PacketTopics == <<[fields |-> 1, seq |-> FALSE, sum |-> FALSE],
                  [fields |-> 1, seq |-> TRUE, sum |-> TRUE],
                  [fields |-> 0, seq |-> FALSE, sum |-> TRUE]>>

Bits == INSTANCE BitsProtocol WITH
    Threads <- {t1, t2}, Topics <- PacketTopics, Values <- {7}, SeqEnd <- 3, SumEnd <- 4,
    ByteEnd <- 4, MaxPacket <- 6, MaxSends <- 4

Start ==
    /\ part \in {"sequence", "map", "pool", "tracker", "segments", "resizing", "packer", "bits"}
    /\ Init /\ Map!Init /\ Pool!Init /\ Tracker!Init /\ Segments!Init /\ Resizing!Init
    /\ Packer!PInit /\ Bits!Init
    /\ part # "packer" => writer = "little" /\ reader = "little"

mapvars == <<map, pkey_index, finder>>
poolvars == <<q, pool_free_count, pool_alloc_count, live, user, heap, pool_state>>
trackervars == <<ops, lock, enable, allocs, size_stats, class_stats, memory, tracked,
                 begun, missed, refused>>
segmentvars == <<segs, seg_pos, taken, required, pending>>
resizevars == <<blocks, free, rb, want, short>>
packvars == <<writer, reader, packed, bytes, ends, wvalid, given, pos, fields, rvalid>>
bitvars == <<send_seq, recv_seq, out, wire, buf, read_pos, err, nsent, sent, got, swapped, misread>>

all == <<part, svars, mapvars, poolvars, trackervars, segmentvars, resizevars, packvars, bitvars>>

Step ==
    \/ /\ part = "sequence" /\ Next
       /\ UNCHANGED <<part, mapvars, poolvars, trackervars, segmentvars, resizevars, packvars, bitvars>>
    \/ /\ part = "map" /\ Map!Next
       /\ UNCHANGED <<part, svars, poolvars, trackervars, segmentvars, resizevars, packvars, bitvars>>
    \/ /\ part = "pool" /\ Pool!Next
       /\ UNCHANGED <<part, svars, mapvars, trackervars, segmentvars, resizevars, packvars, bitvars>>
    \/ /\ part = "tracker" /\ Tracker!Next
       /\ UNCHANGED <<part, svars, mapvars, poolvars, segmentvars, resizevars, packvars, bitvars>>
    \/ /\ part = "segments" /\ Segments!Next
       /\ UNCHANGED <<part, svars, mapvars, poolvars, trackervars, resizevars, packvars, bitvars>>
    \/ /\ part = "resizing" /\ Resizing!Next
       /\ UNCHANGED <<part, svars, mapvars, poolvars, trackervars, segmentvars, packvars, bitvars>>
    \/ /\ part = "packer" /\ Packer!PNext
       /\ UNCHANGED <<part, svars, mapvars, poolvars, trackervars, segmentvars, resizevars, bitvars>>
    \/ /\ part = "bits" /\ Bits!Next
       /\ UNCHANGED <<part, svars, mapvars, poolvars, trackervars, segmentvars, resizevars, packvars>>

StructuresSpec == Start /\ [][Step]_all /\ Bits!Fairness

\* ChannelMap: registered channels are found by their address and not replaced.
ChannelsKept == Map!ChannelsKept

\* ObjectPool: no two objects in one block, exact counters, complete cleanup().
BlocksInOnePlace == Pool!BlocksInOnePlace

\* MemTracker: the statistics count the table, and the queue leads the table to
\* what is allocated.
TrackerExact == Tracker!TrackerExact

\* SegmentBuffer: bytes come out complete, in order and in full segments.
SegmentsKeepBytes == Segments!SegmentsKeepBytes

\* ResizeBuffer: buffers keep their bytes, and blocks of the pools are not shared.
BufferKeepsBytes == Resizing!BufferKeepsBytes

\* BitsPacker: what is unpacked is what was packed, in either language.
ReadsWhatWasPacked == Packer!ReadsWhatWasPacked

\* BitsProtocol: packets are published whole and in the order they were sent.
PacketsInOrder == Bits!PacketsInOrder

\* BitsProtocol: what was sent arrives, or the connection ends.
PacketsArrive == Bits!PacketsArrive
=============================================================================
