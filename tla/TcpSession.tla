------------------------------ MODULE TcpSession ------------------------------
(***************************************************************************)
(* tcp_session (net/tcp): one connection, from the protocol's entry into   *)
(* the table of its node to its destruction.  Application threads send and *)
(* disconnect, the thread that accepted begins the session, io threads run *)
(* the completions.  A step is one critical section of session_mutex_ or   *)
(* send_mutex_, or one call of asio.  The completions hold no reference to *)
(* the session: they capture `this`.                                       *)
(***************************************************************************)
EXTENDS Integers, Sequences, FiniteSets

CONSTANTS
    Apps,           \* application threads
    Ios,            \* io threads that complete a send
    MaxSends        \* bound: calls of send() that append

ASSUME ThreadsAssumption == Apps \cap Ios = {}
ASSUME SendsAssumption == MaxSends \in Nat

VARIABLES
    open,       \* socket_.is_open()
    broken,     \* the peer is gone
    failed,     \* a write failed since: the socket takes no byte any more
    recving,    \* recving_
    sending,    \* sending_
    destroyed,  \* destroyed_
    buf,        \* send_buffer_: the calls of send() whose bytes it holds
    segs,       \* sending_segs_
    rd, wr,     \* the asynchronous read and write: none, posted, done
    bpc,        \* where on_new_socket() is
    rpc,        \* where the completion of a receive is
    pc,         \* where the threads that send are
    registered, \* the node's table holds the protocol
    refs,       \* the application threads that hold the protocol
    nsent,      \* history: calls of send() that appended
    wire,       \* history: what the socket took
    nerr        \* history: calls of on_error()

vars == <<open, broken, failed, recving, sending, destroyed, buf, segs, rd, wr, bpc,
          rpc, pc, registered, refs, nsent, wire, nerr>>

sendVars == <<sending, buf, segs, wr, pc, nsent, wire>>
recvVars == <<recving, rd, bpc, rpc, registered, nerr>>
sockVars == <<open, broken, failed, destroyed>>

Threads == Apps \cup Ios

Init ==
    /\ open = TRUE /\ broken = FALSE /\ failed = FALSE
    /\ recving = FALSE /\ sending = FALSE /\ destroyed = FALSE
    /\ buf = <<>> /\ segs = <<>>
    /\ rd = "none" /\ wr = "none"
    /\ bpc = "setup" /\ rpc = "idle" /\ pc = [t \in Threads |-> "idle"]
    /\ registered = TRUE /\ refs = {}
    /\ nsent = 0 /\ wire = <<>> /\ nerr = 0

\* Somebody holds the protocol, and the protocol holds the session.
Alive ==
    \/ registered
    \/ refs # {}
    \/ bpc # "done"
    \/ rpc \in {"on_error", "notify"}

\* The program is gone with an exception, the session with its last holder.
Running == Alive /\ bpc # "thrown"

\* Faulty variant of Close: does not wait for the send and the receive.
CloseAtOnce ==
    /\ open' = FALSE
    /\ destroyed' = TRUE

\* close(): the socket always, destroyed_ when nothing is outstanding
Close ==
    IF destroyed
    THEN UNCHANGED <<open, destroyed>>
    ELSE open' = FALSE /\ destroyed' = ~(sending \/ recving)

(***************************************************************************)
(* Send.                                                                   *)
(***************************************************************************)
\* send(): the socket is open when it is looked at, without a lock
Send(a) ==
    /\ Running
    /\ a \in refs /\ pc[a] = "idle"
    /\ open
    /\ nsent + Cardinality({t \in Apps : pc[t] = "append"}) < MaxSends
    /\ pc' = [pc EXCEPT ![a] = "append"]
    /\ UNCHANGED <<sockVars, recvVars, refs, sending, buf, segs, wr, nsent, wire>>

\* send(): append
AppendData(a) ==
    /\ Running
    /\ pc[a] = "append"
    /\ nsent' = nsent + 1
    /\ buf' = Append(buf, nsent + 1)
    /\ pc' = [pc EXCEPT ![a] = "request"]
    /\ UNCHANGED <<sockVars, recvVars, refs, sending, segs, wr, wire>>

\* Faulty variant of RequestSend: a send that is going on is not looked at.
RequestSendAnyway(t) ==
    /\ Running
    /\ pc[t] = "request"
    /\ IF ~open \/ buf = <<>>
       THEN pc' = [pc EXCEPT ![t] = "idle"] /\ UNCHANGED sending
       ELSE pc' = [pc EXCEPT ![t] = "transfer"] /\ sending' = TRUE
    /\ UNCHANGED <<sockVars, recvVars, refs, buf, segs, wr, nsent, wire>>

\* request_send(): the checks and sending_, under both locks
RequestSend(t) ==
    /\ Running
    /\ pc[t] = "request"
    /\ IF sending \/ ~open \/ buf = <<>>
       THEN pc' = [pc EXCEPT ![t] = "idle"] /\ UNCHANGED sending
       ELSE pc' = [pc EXCEPT ![t] = "transfer"] /\ sending' = TRUE
    /\ UNCHANGED <<sockVars, recvVars, refs, buf, segs, wr, nsent, wire>>

\* request_send(): the segments
Transfer(t) ==
    /\ Running
    /\ pc[t] = "transfer"
    /\ segs' = buf /\ buf' = <<>>
    /\ pc' = [pc EXCEPT ![t] = "write"]
    /\ UNCHANGED <<sockVars, recvVars, refs, sending, wr, nsent, wire>>

\* request_send(): async_write(), outside the locks
AsyncWrite(t) ==
    /\ Running
    /\ pc[t] = "write"
    /\ wr' = "posted"
    /\ pc' = [pc EXCEPT ![t] = "idle"]
    /\ UNCHANGED <<sockVars, recvVars, refs, sending, buf, segs, nsent, wire>>

\* Faulty variant of SendCompleted: the segments are released later.
SendCompletedKeeps(t) ==
    /\ Running
    /\ pc[t] = "idle"
    /\ wr \in {"ok", "err"}
    /\ wr' = "none"
    /\ pc' = [pc EXCEPT ![t] = "clear"]
    /\ UNCHANGED <<sockVars, recvVars, refs, sending, buf, segs, nsent, wire>>

\* on_send_completed(): the segments are released; an error is not reported
SendCompleted(t) ==
    /\ Running
    /\ pc[t] = "idle"
    /\ wr \in {"ok", "err"}
    /\ wr' = "none"
    /\ segs' = <<>>
    /\ pc' = [pc EXCEPT ![t] = "clear"]
    /\ UNCHANGED <<sockVars, recvVars, refs, sending, buf, nsent, wire>>

\* Faulty variant of ClearSending: does not look for more to send.
ClearSendingReturns(t) ==
    /\ Running
    /\ pc[t] = "clear"
    /\ sending' = FALSE
    /\ pc' = [pc EXCEPT ![t] = "idle"]
    /\ UNCHANGED <<sockVars, recvVars, refs, buf, segs, wr, nsent, wire>>

\* on_send_completed(): clear sending_, then request_send()
ClearSending(t) ==
    /\ Running
    /\ pc[t] = "clear"
    /\ sending' = FALSE
    /\ pc' = [pc EXCEPT ![t] = "request"]
    /\ UNCHANGED <<sockVars, recvVars, refs, buf, segs, wr, nsent, wire>>

(***************************************************************************)
(* Receive.                                                                *)
(***************************************************************************)
\* on_new_socket(), begin(): the addresses and options of the socket
Setup ==
    /\ Running
    /\ bpc = "setup" /\ open
    /\ bpc' = "request"
    /\ UNCHANGED <<sockVars, sendVars, refs, recving, rd, rpc, registered, nerr>>

\* begin(): they throw when the socket is closed, and may when the peer is gone;
\* nothing catches it
SetupThrows ==
    /\ Running
    /\ bpc = "setup" /\ (~open \/ broken)
    /\ bpc' = "thrown"
    /\ UNCHANGED <<sockVars, sendVars, refs, recving, rd, rpc, registered, nerr>>

\* begin(): request_recv(), whose result is not looked at
FirstRecv ==
    /\ Running
    /\ bpc = "request"
    /\ recving' = open
    /\ bpc' = IF open THEN "read" ELSE "notify"
    /\ UNCHANGED <<sockVars, sendVars, refs, rd, rpc, registered, nerr>>

FirstRead ==
    /\ Running
    /\ bpc = "read"
    /\ rd' = "posted"
    /\ bpc' = "notify"
    /\ UNCHANGED <<sockVars, sendVars, refs, recving, rpc, registered, nerr>>

\* on_new_socket(): notify_accepted() or notify_connected()
NotifyNew ==
    /\ Running
    /\ bpc = "notify"
    /\ bpc' = "done"
    /\ UNCHANGED <<sockVars, sendVars, refs, recving, rd, rpc, registered, nerr>>

\* on_recv_completed() without an error: on_recv() of the protocol
OnRecv ==
    /\ Running
    /\ rd = "data"
    /\ rd' = "none"
    /\ rpc' = "on_recv"
    /\ UNCHANGED <<sockVars, sendVars, refs, recving, bpc, registered, nerr>>

\* on_recv_completed(): on_recv() returned, with an error or without
RecvHandled ==
    /\ Running
    /\ rpc = "on_recv"
    /\ recving' = FALSE
    /\ rpc' \in {"request", "error"}
    /\ UNCHANGED <<sockVars, sendVars, refs, rd, bpc, registered, nerr>>

\* on_recv_completed() with an error
RecvFailed ==
    /\ Running
    /\ rd = "err"
    /\ rd' = "none"
    /\ recving' = FALSE
    /\ rpc' = "error"
    /\ UNCHANGED <<sockVars, sendVars, refs, bpc, registered, nerr>>

\* Faulty variant of RequestRecv: the result is not looked at.
RequestRecvIgnored ==
    /\ Running
    /\ rpc = "request"
    /\ recving' = open
    /\ rpc' = IF open THEN "read" ELSE "idle"
    /\ UNCHANGED <<sockVars, sendVars, refs, rd, bpc, registered, nerr>>

\* on_recv_completed(): request_recv(), an error when the socket is closed
RequestRecv ==
    /\ Running
    /\ rpc = "request"
    /\ recving' = open
    /\ rpc' = IF open THEN "read" ELSE "error"
    /\ UNCHANGED <<sockVars, sendVars, refs, rd, bpc, registered, nerr>>

\* request_recv(): async_read_some()
AsyncRead ==
    /\ Running
    /\ rpc = "read"
    /\ rd' = "posted"
    /\ rpc' = "idle"
    /\ UNCHANGED <<sockVars, sendVars, refs, recving, bpc, registered, nerr>>

\* error(): close()
Error ==
    /\ Running
    /\ rpc = "error"
    /\ Close
    /\ rpc' = "on_error"
    /\ UNCHANGED <<broken, failed, sendVars, refs, recving, rd, bpc, registered, nerr>>

\* tcp_node::on_error(): out of the table
OnError ==
    /\ Running
    /\ rpc = "on_error"
    /\ registered' = FALSE
    /\ nerr' = nerr + 1
    /\ rpc' = "notify"
    /\ UNCHANGED <<sockVars, sendVars, refs, recving, rd, bpc>>

\* tcp_node::on_error(): notify_disconnect()
NotifyDisconnect ==
    /\ Running
    /\ rpc = "notify"
    /\ rpc' = "idle"
    /\ UNCHANGED <<sockVars, sendVars, refs, recving, rd, bpc, registered, nerr>>

(***************************************************************************)
(* The application, the node and the network.                              *)
(***************************************************************************)
\* Faulty variant of Disconnect: the protocol leaves the table at once.
DisconnectRemoves(a) ==
    /\ Running
    /\ a \in refs /\ pc[a] = "idle"
    /\ Close
    /\ registered' = FALSE
    /\ UNCHANGED <<broken, failed, sendVars, refs, recving, rd, bpc, rpc, nerr>>

\* disconnect()
Disconnect(a) ==
    /\ Running
    /\ a \in refs /\ pc[a] = "idle"
    /\ Close
    /\ UNCHANGED <<broken, failed, sendVars, recvVars, refs>>

\* tcp_node::on_finish(): disconnects what is in the table
NodeFinish ==
    /\ Running
    /\ registered
    /\ Close
    /\ UNCHANGED <<broken, failed, sendVars, recvVars, refs>>

\* an application learns of the protocol from a notification or a packet
Get(a) ==
    /\ Running
    /\ a \notin refs
    /\ bpc = "notify" \/ rpc \in {"on_recv", "notify"} \/ (registered /\ bpc = "done")
    /\ refs' = refs \cup {a}
    /\ UNCHANGED <<sockVars, sendVars, recvVars>>

Drop(a) ==
    /\ Running
    /\ a \in refs /\ pc[a] = "idle"
    /\ refs' = refs \ {a}
    /\ UNCHANGED <<sockVars, sendVars, recvVars>>

PeerGone ==
    /\ Running
    /\ ~broken
    /\ broken' = TRUE
    /\ UNCHANGED <<open, failed, destroyed, sendVars, recvVars, refs>>

\* asio: a write takes all bytes, or fails after some of them
WriteEnds ==
    /\ Running
    /\ wr = "posted"
    /\ \/ /\ open /\ ~broken
          /\ wr' = "ok" /\ wire' = wire \o segs /\ UNCHANGED failed
       \/ /\ ~open \/ broken
          /\ wr' = "err" /\ failed' = TRUE
          /\ \E n \in 0..(IF failed THEN 0 ELSE Len(segs)) : wire' = wire \o SubSeq(segs, 1, n)
    /\ UNCHANGED <<open, broken, destroyed, recvVars, refs, sending, buf, segs, pc, nsent>>

ReadData ==
    /\ Running
    /\ rd = "posted"
    /\ open /\ ~broken
    /\ rd' = "data"
    /\ UNCHANGED <<sockVars, sendVars, refs, recving, bpc, rpc, registered, nerr>>

ReadFails ==
    /\ Running
    /\ rd = "posted"
    /\ ~open \/ broken
    /\ rd' = "err"
    /\ UNCHANGED <<sockVars, sendVars, refs, recving, bpc, rpc, registered, nerr>>

-----------------------------------------------------------------------------
\* What a thread that sends does once it has begun
SendStep(t) ==
    AppendData(t) \/ RequestSend(t) \/ Transfer(t) \/ AsyncWrite(t) \/ ClearSending(t)

BeginStep == Setup \/ SetupThrows \/ FirstRecv \/ FirstRead \/ NotifyNew

RecvStep ==
    OnRecv \/ RecvHandled \/ RecvFailed \/ RequestRecv \/ AsyncRead \/ Error \/ OnError
      \/ NotifyDisconnect

Next ==
    \/ \E t \in Threads : SendStep(t)
    \/ \E t \in Ios : SendCompleted(t)
    \/ \E a \in Apps : Send(a) \/ Disconnect(a) \/ Get(a) \/ Drop(a)
    \/ BeginStep \/ RecvStep
    \/ NodeFinish \/ PeerGone
    \/ WriteEnds \/ ReadData \/ ReadFails

Spec == Init /\ [][Next]_vars

\* Every thread goes on, a peer that is there reads, asio completes what is
\* posted on a socket that is closed or broken.
Fairness ==
    /\ \A t \in Threads : WF_vars(SendStep(t))
    /\ WF_vars(\E t \in Ios : SendCompleted(t))
    /\ WF_vars(BeginStep)
    /\ WF_vars(RecvStep)
    /\ WF_vars(WriteEnds)
    /\ WF_vars(ReadFails)

FairSpec == Spec /\ Fairness

(***************************************************************************)
(* Properties.                                                             *)
(***************************************************************************)
\* The values of the variables.
TypeOK ==
    /\ {open, broken, failed, recving, sending, destroyed, registered} \subseteq BOOLEAN
    /\ rd \in {"none", "posted", "data", "err"} /\ wr \in {"none", "posted", "ok", "err"}
    /\ bpc \in {"setup", "request", "read", "notify", "done", "thrown"}
    /\ rpc \in {"idle", "on_recv", "request", "read", "error", "on_error", "notify"}
    /\ pc \in [Threads -> {"idle", "append", "request", "transfer", "write", "clear"}]
    /\ {buf, segs, wire} \subseteq Seq(Nat)
    /\ refs \subseteq Apps /\ nsent \in Nat /\ nerr \in Nat

\* Thread t is between setting sending_ and clearing it, and not in asio.
Working(t) == pc[t] \in {"transfer", "write", "clear"}

\* sending_ belongs to one send: one thread is between setting it and clearing it,
\* it finds data and no segments when it takes the segments (the assertions of
\* request_send()), and a write is posted for it only.
OneSend ==
    /\ \A t, u \in Threads : Working(t) /\ Working(u) => t = u
    /\ \A t \in Threads : Working(t) => wr = "none"
    /\ sending <=> wr # "none" \/ \E t \in Threads : Working(t)
    /\ \A t \in Threads : pc[t] = "transfer" => buf # <<>> /\ segs = <<>>

\* The bytes leave in the order in which send() appended them, whichever threads
\* append and complete: what the socket took is a prefix, and while no write has
\* failed the socket, the segments and the buffer hold all of them.  They do as there
\* is one send at a time.
StreamInOrder ==
    LET unsent == IF wr = "ok" THEN <<>> ELSE segs
    IN  /\ TypeOK /\ OneSend
        /\ Len(wire) <= nsent /\ \A i \in 1..Len(wire) : wire[i] = i
        /\ open /\ ~broken => wire \o unsent \o buf = [i \in 1..nsent |-> i]

\* The node is told once that a session is gone, by the one chain of receives, and
\* the chain has its session: it is in the table until the chain ends, so a
\* completion never finds it destroyed.  Once close() has set destroyed_ nothing is
\* outstanding and nothing starts again: the assertions at the head of close().
EndsOnce ==
    /\ rd # "none" \/ rpc \in {"on_recv", "request", "read", "error"} => registered
    /\ nerr <= 1
    /\ nerr = 1 => ~recving /\ rd = "none" /\ ~open
    /\ destroyed =>
        /\ ~open /\ ~sending /\ ~recving
        /\ wr = "none" /\ rd = "none" /\ segs = <<>>

\* What is in the buffer of an open session is sent, whoever was sending when it
\* was appended.
BufferDrains == (buf # <<>> /\ open) ~> (buf = <<>> \/ ~open \/ ~Running)

\* A session that is closed while it receives leaves the table of its node.
ClosedIsRemoved == (~open /\ recving) ~> (~registered \/ ~Running)

(***************************************************************************)
(* What the code says of itself and does not do.                           *)
(***************************************************************************)
\* "requires close before destruction": the assertions of ~tcp_session().
DestructorAsserts == ~Alive => ~sending /\ ~recving /\ ~open

=============================================================================
