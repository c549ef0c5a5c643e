----------------------------- MODULE BitsProtocol -----------------------------
(***************************************************************************)
(* bits_protocol (net/protocol/bits) with two of its modifiers, sequencer  *)
(* and checksum: packets sent by several threads of one side and received  *)
(* by the other, over a stream that may be cut anywhere.                   *)
(*                                                                         *)
(* The stream is made of cells: the length, the topic, one per field of    *)
(* the payload, the sequence number, the checksum.  Both sides have the    *)
(* same configuration.  The receive buffer is a resize_buffer.             *)
(***************************************************************************)
EXTENDS Integers, Sequences, SequencesExt

CONSTANTS
    Threads,        \* threads that send
    Topics,         \* the packets: topic -> fields, with sequence, with checksum
    Values,         \* values of a field
    SeqEnd,         \* the sequence number is a uint8_t: 256 values
    SumEnd,         \* values of a checksum
    ByteEnd,        \* values of a byte: the length is written as four of them
    MaxPacket,      \* cfg.max_packet_length
    MaxSends        \* bound: packets sent

VARIABLES
    send_seq, recv_seq,     \* send_seq_ of the sender, recv_seq_ of the receiver
    out,        \* per thread: the packet it has packed and not yet given to the session,
                \* with the order in which it got a number
    wire,       \* cells given to the session and not received
    buf,        \* recv_buf_: its cells
    read_pos,   \* recv_buf_: read_pos_
    err,        \* the result of on_recv(); the session closes on an error
    nsent,      \* history: packets packed
    sent,       \* history: packets in the order in which the session got them
    got,        \* history: packets published
    swapped,    \* history: the session got a sequence number before an earlier one
    misread     \* history: a packet was published that unpack() did not read to its end

vars == <<send_seq, recv_seq, out, wire, buf, read_pos, err, nsent, sent, got, swapped, misread>>

HeaderLength == 2
Nothing == [pkt |-> <<>>, cells |-> <<>>, nth |-> 0]

Init ==
    /\ send_seq = 1 /\ recv_seq = 1
    /\ out = [t \in Threads |-> Nothing]
    /\ wire = <<>> /\ buf = <<>> /\ read_pos = 0
    /\ err = "none"
    /\ nsent = 0 /\ sent = <<>> /\ got = <<>>
    /\ swapped = FALSE /\ misread = FALSE

\* CRC32
Sum(cells) ==
    LET upTo[i \in 0..Len(cells)] == IF i = 0 THEN 0 ELSE upTo[i - 1] + cells[i]
    IN  upTo[Len(cells)] % SumEnd

Payload(cells) == SubSeq(cells, HeaderLength + 1, Len(cells))

(***************************************************************************)
(* send()                                                                  *)
(***************************************************************************)
\* pack(): the length is the size of the packet
Packed(k, fields) == <<HeaderLength + Len(fields), k>> \o fields

\* update_length_field(): writes the second byte of the length three times
UpdatedLength(n) ==
    LET second == (n \div ByteEnd) % ByteEnd
    IN  (n % ByteEnd) + second * (ByteEnd + ByteEnd ^ 2 + ByteEnd ^ 3)

\* a modifier adds a cell
Extended(cells, c) == [Append(cells, c) EXCEPT ![1] = UpdatedLength(Len(cells) + 1)]

\* sequencer::on_send()
Sequenced(k, cells) == IF Topics[k].seq THEN Extended(cells, send_seq) ELSE cells

\* checksum::on_send(): nothing to do without a payload
Checksummed(k, cells) ==
    IF Topics[k].sum /\ Len(cells) > HeaderLength THEN Extended(cells, Sum(Payload(cells))) ELSE cells

\* Faulty variant of Finished: the length is left as the modifiers have written it.
FinishedAsIs(cells, len) == cells

\* send_modified(): set_length() once more when len cells have become more
Finished(cells, len) == IF Len(cells) > len THEN [cells EXCEPT ![1] = Len(cells)] ELSE cells

\* send(), send_final(), send_modified(): the packet in the buffers of the thread
Send(t, k, fields) ==
    /\ out[t] = Nothing
    /\ nsent < MaxSends
    /\ nsent' = nsent + 1
    /\ out' = [out EXCEPT ![t] = [pkt |-> <<k, fields>>,
                                  cells |-> Finished(Checksummed(k, Sequenced(k, Packed(k, fields))),
                                                     HeaderLength + Len(fields)),
                                  nth |-> IF Topics[k].seq THEN nsent + 1 ELSE 0]]
    /\ send_seq' = IF Topics[k].seq THEN (send_seq + 1) % SeqEnd ELSE send_seq
    /\ UNCHANGED <<recv_seq, wire, buf, read_pos, err, sent, got, swapped, misread>>

\* tcp_protocol::send(): the session appends the cells
SessionSend(t) ==
    /\ out[t] # Nothing
    /\ wire' = wire \o out[t].cells
    /\ sent' = Append(sent, out[t].pkt)
    /\ swapped' = (swapped \/ \E u \in Threads : out[t].nth > out[u].nth /\ out[u].nth > 0)
    /\ out' = [out EXCEPT ![t] = Nothing]
    /\ UNCHANGED <<send_seq, recv_seq, buf, read_pos, err, nsent, got, misread>>

(***************************************************************************)
(* on_recv().  s is the state of its loop: cells b, processed_len done,    *)
(* read position read, the numbers and results so far.                     *)
(***************************************************************************)
\* checksum::on_recv(): the cells that are left, or -1
CheckedSum(k, s, len) ==
    LET payload == SubSeq(s.b, s.done + HeaderLength + 1, s.done + len - 1)
    IN  IF ~Topics[k].sum \/ len = HeaderLength THEN len
        ELSE IF s.b[s.done + len] = Sum(payload) THEN len - 1 ELSE -1

\* the body of the loop for a whole packet of len cells and topic k
Parsed(s, len, k) ==
    LET summed == CheckedSum(k, s, len)
        seqOk == Topics[k].seq => s.b[s.done + summed] = s.seq
        next == IF Topics[k].seq THEN (s.seq + 1) % SeqEnd ELSE s.seq
        final == IF Topics[k].seq THEN summed - 1 ELSE summed
        header == IF Len(s.b) < s.read + HeaderLength THEN s.read ELSE s.read + HeaderLength
        unpacked == Len(s.b) >= header + Topics[k].fields
        read == IF unpacked THEN header + Topics[k].fields ELSE header
    IN  IF summed = -1 THEN [s EXCEPT !.err = "checksum"]
        ELSE IF ~seqOk THEN [s EXCEPT !.err = "sequence", !.seq = next]
        ELSE IF read < final THEN [s EXCEPT !.err = "insufficient", !.seq = next, !.read = read]
        ELSE IF ~unpacked THEN [s EXCEPT !.err = "unpack", !.seq = next, !.read = read]
        ELSE [s EXCEPT !.seq = next, !.read = read, !.done = @ + len,
                       !.got = Append(@, <<k, SubSeq(s.b, header + 1, read)>>),
                       !.misread = @ \/ read # s.done + final]

\* Faulty variant of Complete: a packet waits for the next one.
CompleteLater(remained, len) == remained > len

\* the whole packet is there
Complete(remained, len) == remained >= len

\* the loop
RECURSIVE Loop(_)
Loop(s) ==
    LET remained == Len(s.b) - s.done
        len == s.b[s.done + 1]
        k == s.b[s.done + 2]
    IN  IF s.err # "none" \/ remained < HeaderLength THEN s
        ELSE IF len > MaxPacket THEN [s EXCEPT !.err = "max_packet"]
        ELSE IF ~Complete(remained, len) THEN s
        ELSE IF k \notin DOMAIN Topics THEN [s EXCEPT !.err = "topic"]
        ELSE Loop(Parsed(s, len, k))

\* pop_front(): what stays in the buffer
Rest(s) == SubSeq(s.b, s.done + 1, Len(s.b))

\* on_recv() with n cells.  On an error nothing is popped, and the session closes.
OnRecv(n) ==
    LET s == Loop([b |-> buf \o SubSeq(wire, 1, n), done |-> 0, read |-> read_pos,
                   seq |-> recv_seq, got |-> got, misread |-> misread, err |-> "none"])
    IN  /\ err = "none"
        /\ wire' = SubSeq(wire, n + 1, Len(wire))
        /\ err' = s.err
        /\ recv_seq' = s.seq /\ got' = s.got /\ misread' = s.misread
        /\ IF s.err = "none" /\ s.done > 0
             THEN /\ buf' = Rest(s)
                  /\ read_pos' = IF s.done <= s.read THEN s.read - s.done ELSE 0
             ELSE buf' = s.b /\ read_pos' = s.read
        /\ UNCHANGED <<send_seq, out, nsent, sent, swapped>>

-----------------------------------------------------------------------------
Next ==
    \/ \E t \in Threads :
         \/ \E k \in DOMAIN Topics : \E fields \in [1..Topics[k].fields -> Values] : Send(t, k, fields)
         \/ SessionSend(t)
    \/ \E n \in 1..Len(wire) : OnRecv(n)

Spec == Init /\ [][Next]_vars

\* cells leave the wire: only OnRecv does this, and whenever it can be done OnRecv can
Arrive == err = "none" /\ \E n \in 1..Len(wire) : wire' = SubSeq(wire, n + 1, Len(wire))

\* Threads give to the session what they packed, and what was sent arrives.
Fairness ==
    /\ \A t \in Threads : WF_vars(SessionSend(t))
    /\ WF_wire(Arrive)

FairSpec == Spec /\ Fairness

(***************************************************************************)
(* Properties.                                                             *)
(***************************************************************************)
TypeOK ==
    /\ send_seq \in 0..(SeqEnd - 1) /\ recv_seq \in 0..(SeqEnd - 1)
    /\ nsent \in 0..MaxSends /\ Len(sent) + Len(got) <= 2 * nsent
    /\ read_pos \in 0..Len(buf)
    /\ err \in {"none", "checksum", "sequence", "insufficient", "unpack", "max_packet", "topic"}

\* However the stream is cut, the packets come out whole and in the order in which
\* the session got them, and none is refused, as long as no modified packet is
\* followed by another in one buffer (misread).  A packet is refused for its number
\* only when two threads have overtaken each other between taking their numbers and
\* giving the packets to the session.
PacketsInOrder ==
    /\ TypeOK
    /\ ~misread => IsPrefix(got, sent)
    /\ ~misread /\ ~swapped => err = "none"
    /\ err = "sequence" => swapped

\* Every packet the session gets is published, or the connection is closed.
PacketsArrive ==
    \A i \in 1..MaxSends : Len(sent) >= i ~> (Len(got) >= i \/ err # "none")

(***************************************************************************)
(* What the code says of itself and does not do.                           *)
(***************************************************************************)
\* "bytes that unpack() has not used are an error": a packet that is published was
\* read to its end.
UnpackUsesAll == ~misread

=============================================================================
