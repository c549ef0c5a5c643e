--------------------------- MODULE ClientProtocol ---------------------------
(***************************************************************************)
(* How the C# client turns the bytes it receives into packets: OnRecv of   *)
(* client/cs/wise/Detail/Protocol.cs under OnRecvCompleted of              *)
(* client/cs/wise/Session.cs.                                              *)
(*                                                                         *)
(* The server sends packets one after another and the stream hands over    *)
(* their bytes in pieces of any size.  The header is two cells, the length *)
(* of the packet and its topic; the other cells are the fields.  The       *)
(* packets have no modifiers, which is Packet's default.                   *)
(***************************************************************************)
EXTENDS Integers, Sequences, SequencesExt

CONSTANTS Topics,     \* the registered topics
          BodyLen,    \* the cells that the fields of a topic take
          MaxPackets, \* bound on the packets of a stream
          MaxPacketSize, \* Config.MaxPacketSize
          BufferSize, \* bufferSize of Session: the longest piece
          MaxPosted   \* bound on the packets posted

VARIABLES stream,   \* the cells the server sends
          arrived,  \* how many of them the session has received
          recvBuf,  \* the cells of recvBuf, a MemoryStream
          position, \* its Position
          state,    \* "receiving", "parsing", "closed"
          length,   \* recvBufLength
          current,  \* currentPosition, which equals totalProcessedLen
          posted,   \* the packets posted, as their cells
          asserted  \* Debug.Assert(totalProcessedLen <= recvBufLength) failed

cvars == <<stream, arrived, recvBuf, position, state, length, current, posted, asserted>>

HeaderSize == 2

PacketOf(t, k) == <<HeaderSize + BodyLen[t], t>> \o [i \in 1..BodyLen[t] |-> 100 * k + i]

StreamOf(ts) == FlattenSeq([k \in DOMAIN ts |-> PacketOf(ts[k], k)])

CInit ==
  /\ \E ts \in SeqOf(Topics, MaxPackets) : stream = StreamOf(ts)
  /\ arrived = 0 /\ recvBuf = <<>> /\ position = 0
  /\ state = "receiving" /\ length = 0 /\ current = 0
  /\ posted = <<>> /\ asserted = FALSE

\* MemoryStream.Write at Position: what lies behind the cells written stays.
Written(s) ==
  LET n == position + Len(s)
  IN  SubSeq(recvBuf, 1, position) \o s
        \o SubSeq(recvBuf, n + 1, Len(recvBuf))

\* EndReceive hands over n cells; OnRecv stores them and parses, if there is
\* a whole header.
OnRecv(n) ==
  /\ state = "receiving"
  /\ arrived + n <= Len(stream)
  /\ recvBuf' = Written(SubSeq(stream, arrived + 1, arrived + n))
  /\ arrived' = arrived + n
  /\ position' = position + n
  /\ IF position + n < HeaderSize
     THEN UNCHANGED <<state, length, current>>
     ELSE state' = "parsing" /\ length' = position + n /\ current' = 0
  /\ UNCHANGED <<stream, posted, asserted>>

\* One turn of the loop.  A length above MaxPacketSize or a topic that is not
\* registered ends the session.  The fields are read from the stream without a
\* look at recvBufLength; the next packet starts where the header's length
\* says.
Message ==
  /\ state = "parsing" /\ length - current >= HeaderSize
  /\ Len(posted) < MaxPosted
  /\ LET size  == recvBuf[current + 1]
         topic == recvBuf[current + 2]
         Upto  == Min({current + HeaderSize + BodyLen[topic], Len(recvBuf)})
     IN  IF size > MaxPacketSize \/ topic \notin Topics
         THEN state' = "closed" /\ UNCHANGED <<current, posted>>
         ELSE /\ posted' = Append(posted, SubSeq(recvBuf, current + 1, Upto))
              /\ current' = current + size
              /\ UNCHANGED state
  /\ UNCHANGED <<stream, arrived, recvBuf, position, length, asserted>>

\* The end of OnRecv.  What is left of the cells is copied to the buffer of
\* the socket, which the next receive overwrites, and recvBuf keeps the cells
\* it had.  A negative count makes BlockCopy throw, and the session ends.
EndRecv ==
  /\ state = "parsing" /\ length - current < HeaderSize
  /\ asserted' = (current > length)
  /\ IF current > length
     THEN state' = "closed" /\ UNCHANGED position
     ELSE state' = "receiving" /\ position' = length - current
  /\ UNCHANGED <<stream, arrived, recvBuf, length, current, posted>>

CNext == (\E n \in 1..BufferSize : OnRecv(n)) \/ Message \/ EndRecv

CSpec == CInit /\ [][CNext]_cvars

-----------------------------------------------------------------------------
\* The assertion at the end of OnRecv: the packets processed lie within the
\* bytes received.
ProcessedWithin == ~asserted
=============================================================================
