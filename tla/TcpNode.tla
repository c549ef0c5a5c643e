------------------------------- MODULE TcpNode -------------------------------
(***************************************************************************)
(* tcp_node (net/tcp) with its acceptors, its connectors and the table of  *)
(* its protocols: a connection from listen() or connect() to on_error(),   *)
(* and finish().  io threads run the completions, any number of them at    *)
(* once; a step is one critical section of mutex_ or one call outside it.  *)
(* What a session does inside is in TcpSession: here it is open or closed, *)
(* and has a receive outstanding or not.                                   *)
(***************************************************************************)
EXTENDS SlotVector

CONSTANTS
    MaxConns,       \* bound: connections that are made in a behaviour
    KeyEnd,         \* end of the range of seq_ (UINT16_MAX)
    KeyReserve,     \* its reserve
    MaxListen,      \* bound: calls of listen(), before the first connection
    MaxAtOnce       \* bound: connections that are made, used or taken down at once

VARIABLES
    current, seqs,  \* seq_: the keys of acceptors and connectors
    acceptors,      \* acceptors_: key -> accepting, handling one or failed
    connectors,     \* connectors_: key -> the connection it makes
    conn,           \* the connections
    told,           \* history: what the channel of each was given
    fin,            \* where finish() is
    crashed         \* an exception left a handler, and with it the program

vars == <<slots, freeSlots, usedCount, current, seqs, acceptors, connectors, conn, told,
          fin, crashed>>
keyVars == <<current, seqs>>
endVars == <<fin, crashed>>

Keys == INSTANCE Sequence WITH
            Begin <- 1, End <- KeyEnd, Reserve <- KeyReserve,
            used <- DOMAIN acceptors \cup DOMAIN connectors, failed <- FALSE

\* the connections, numbered as they are made
Conns == 1..MaxConns

\* A connection: where it is made (st) and taken down (err), the key its
\* handler has, its id, how often its slot had been given out then, whether finish() had
\* begun, the socket is open and a receive outstanding.
NoId == [index |-> 0, seq |-> 0]
Unmade == [st |-> "none", err |-> "none", accepted |-> FALSE, key |-> 0, id |-> NoId,
           nth |-> 0, late |-> FALSE, open |-> FALSE, recving |-> FALSE]

\* nothing more happens to connection r
Over(r) == r.st = "done" /\ (r.err = "done" \/ r.id = NoId)

\* a node without acceptors, connectors and connections
NodeInit ==
    /\ current = 1 + Keys!Batch(1)
    /\ seqs = Keys!Acquired(1, <<>>)
    /\ acceptors = <<>> /\ connectors = <<>>
    /\ conn = [c \in Conns |-> Unmade]
    /\ told = [c \in Conns |-> <<>>]
    /\ fin = "no" /\ crashed = FALSE

Init == SlotInit /\ NodeInit

\* f with value v at x, whether x is in its domain or not
With(f, x, v) == [y \in DOMAIN f \cup {x} |-> IF y = x THEN v ELSE f[y]]

\* bound: c may be made
Room(c) ==
    /\ conn[c].st = "none" /\ \A d \in 1..(c - 1) : conn[d].st # "none"
    /\ Cardinality({d \in Conns : conn[d].st # "none" /\ ~Over(conn[d])}) < MaxAtOnce

\* io threads start completions until ios_.stop(); what an application asks for
\* later is carried out by nobody, and left out
Completing == ~crashed /\ fin \in {"no", "waiting"}

\* protocol::publish(): to the channel that on_new_socket() bound
Publish(c, e) == [told EXCEPT ![c] = Append(@, e)]

\* seq_.next(), under mutex_
NextKey ==
    /\ Keys!Filled # <<>>
    /\ seqs' = Tail(Keys!Filled) /\ current' = Keys!FilledTo

NewKey == Head(Keys!Filled)

(***************************************************************************)
(* listen(), connect()                                                     *)
(***************************************************************************)
\* listen(): an acceptor that cannot open, bind or listen stays in the map
Listen ==
    /\ ~crashed /\ fin = "no"
    /\ Cardinality(DOMAIN acceptors) < MaxListen /\ \A c \in Conns : conn[c].st = "none"
    /\ NextKey
    /\ \E st \in {"accepting", "failed"} : acceptors' = With(acceptors, NewKey, st)
    /\ UNCHANGED <<slotVars, connectors, conn, told, endVars>>

\* connect(): the connector is in the map before its connect() is called
Connect(c) ==
    /\ Completing
    /\ Room(c)
    /\ NextKey
    /\ connectors' = With(connectors, NewKey, c)
    /\ conn' = [conn EXCEPT ![c].st = "registered", ![c].key = NewKey]
    /\ UNCHANGED <<slotVars, acceptors, told, endVars>>

\* tcp_connector::connect()
AsyncConnect(c) ==
    /\ ~crashed
    /\ conn[c].st = "registered"
    /\ conn' = [conn EXCEPT ![c].st = "connecting"]
    /\ UNCHANGED <<slotVars, keyVars, acceptors, connectors, told, endVars>>

\* tcp_acceptor::on_accepted(), tcp_node::on_accepted(): nothing erases an acceptor,
\* so its key is found
OnAccepted(k, c) ==
    /\ Completing
    /\ acceptors[k] = "accepting" /\ Room(c)
    /\ conn' = [conn EXCEPT ![c].st = "add", ![c].accepted = TRUE, ![c].key = k, ![c].open = TRUE]
    /\ acceptors' = [acceptors EXCEPT ![k] = "handling"]
    /\ UNCHANGED <<slotVars, keyVars, connectors, told, endVars>>

\* tcp_connector::on_connected(), tcp_node::on_connected(): the key is looked for, and
\* the socket closed when it is not there
OnConnected(c) ==
    /\ Completing
    /\ conn[c].st = "connecting"
    /\ conn' = IF conn[c].key \in DOMAIN connectors
                 THEN [conn EXCEPT ![c].st = "add", ![c].open = TRUE]
                 ELSE [conn EXCEPT ![c].st = "done", ![c].key = 0]
    /\ UNCHANGED <<slotVars, keyVars, acceptors, connectors, told, endVars>>

\* Faulty variant of EraseConnector: the key is given back, the connector stays.
EraseConnectorKeeps(k) ==
    /\ seqs' = Append(seqs, k)
    /\ UNCHANGED <<current, connectors>>

\* seq_.release(k), connectors_.erase(k)
EraseConnector(k) ==
    /\ seqs' = Append(seqs, k)
    /\ connectors' = Restrict(connectors, DOMAIN connectors \ {k})
    /\ UNCHANGED current

\* Faulty variant of OnConnectFailed: the connector is looked up once it is erased.
OnConnectFailedSilent(c) ==
    /\ Completing
    /\ conn[c].st = "connecting"
    /\ EraseConnector(conn[c].key)
    /\ conn' = [conn EXCEPT ![c].st = "done", ![c].key = 0]
    /\ UNCHANGED <<slotVars, acceptors, told, endVars>>

\* tcp_node::on_connect_failed(), in one critical section
OnConnectFailed(c) ==
    LET k == conn[c].key
    IN  /\ Completing
        /\ conn[c].st = "connecting"
        /\ told' = IF k \in DOMAIN connectors THEN Publish(c, "failed") ELSE told
        /\ EraseConnector(k)
        /\ conn' = [conn EXCEPT ![c].st = "done", ![c].key = 0]
        /\ UNCHANGED <<slotVars, acceptors, endVars>>

(***************************************************************************)
(* on_new_socket()                                                         *)
(***************************************************************************)
\* add(), set_id(), bind(), in one critical section
AddProtocol(c) ==
    /\ ~crashed
    /\ conn[c].st = "add"
    /\ Add(c)
    /\ LET before == {d \in Conns : conn[d].id.index = NewId.index}
       IN  conn' = [conn EXCEPT ![c] = [@ EXCEPT !.st = "setup", !.id = NewId,
                                                 !.nth = Cardinality(before) + 1,
                                                 !.late = (fin # "no")]]
    /\ UNCHANGED <<keyVars, acceptors, connectors, told, endVars>>

\* add() throws and nothing catches it
AddThrows(c) ==
    /\ ~crashed
    /\ conn[c].st = "add" /\ Full
    /\ crashed' = TRUE
    /\ UNCHANGED <<slotVars, keyVars, acceptors, connectors, conn, told, fin>>

\* begin(): addresses and options of the socket; they throw when it is closed, and
\* may when the peer is gone
Setup(c) ==
    /\ ~crashed
    /\ conn[c].st = "setup"
    /\ \/ conn[c].open /\ conn' = [conn EXCEPT ![c].st = "begin"] /\ UNCHANGED crashed
       \/ crashed' = TRUE /\ UNCHANGED conn
    /\ UNCHANGED <<slotVars, keyVars, acceptors, connectors, told, fin>>

\* begin(): request_recv(), whose result is not looked at
FirstRecv(c) ==
    /\ ~crashed
    /\ conn[c].st = "begin"
    /\ conn' = [conn EXCEPT ![c].recving = conn[c].open, ![c].st = "notify"]
    /\ UNCHANGED <<slotVars, keyVars, acceptors, connectors, told, endVars>>

\* Faulty variant of NotifyNew: an accepted protocol is told of as connected, too.
NotifyNewBoth(c) ==
    /\ ~crashed
    /\ conn[c].st = "notify"
    /\ told' = IF conn[c].accepted THEN [told EXCEPT ![c] = @ \o <<"new", "new">>] ELSE Publish(c, "new")
    /\ conn' = [conn EXCEPT ![c].st = IF conn[c].accepted THEN "done" ELSE "erase"]
    /\ UNCHANGED <<slotVars, keyVars, connectors, acceptors, endVars>>

\* notify_accepted(), then do_accept() of the acceptor; or notify_connected()
NotifyNew(c) ==
    /\ ~crashed
    /\ conn[c].st = "notify"
    /\ told' = Publish(c, "new")
    /\ IF conn[c].accepted
         THEN /\ conn' = [conn EXCEPT ![c].st = "done", ![c].accepted = FALSE, ![c].key = 0]
              /\ acceptors' = [acceptors EXCEPT ![conn[c].key] = "accepting"]
         ELSE /\ conn' = [conn EXCEPT ![c].st = "erase"]
              /\ UNCHANGED acceptors
    /\ UNCHANGED <<slotVars, keyVars, connectors, endVars>>

\* tcp_node::on_connected(): the connector goes
Connected(c) ==
    /\ ~crashed
    /\ conn[c].st = "erase"
    /\ EraseConnector(conn[c].key)
    /\ conn' = [conn EXCEPT ![c].st = "done", ![c].key = 0]
    /\ UNCHANGED <<slotVars, acceptors, told, endVars>>

(***************************************************************************)
(* The end of a connection.                                                *)
(***************************************************************************)
\* The receive ends with an error: the socket was closed, the peer is gone or
\* on_recv() refused a packet.  error() closes the socket.
RecvFails(c) ==
    /\ Completing
    /\ conn[c].recving
    /\ conn' = [conn EXCEPT ![c].recving = FALSE, ![c].open = FALSE, ![c].err = "remove"]
    /\ UNCHANGED <<slotVars, keyVars, acceptors, connectors, told, endVars>>

\* tcp_node::on_error(): out of the table
OnError(c) ==
    /\ ~crashed
    /\ conn[c].err = "remove"
    /\ Del(conn[c].id)
    /\ conn' = [conn EXCEPT ![c].err = "notify", ![c].late = FALSE]
    /\ UNCHANGED <<keyVars, acceptors, connectors, told, endVars>>

\* tcp_node::on_error(): notify_disconnect(), outside the lock
NotifyDisconnect(c) ==
    /\ ~crashed
    /\ conn[c].err = "notify"
    /\ told' = Publish(c, "gone")
    /\ conn' = [conn EXCEPT ![c].err = "done"]
    /\ UNCHANGED <<slotVars, keyVars, acceptors, connectors, endVars>>

\* tcp_protocol::disconnect() by an application that was told of c
Disconnect(c) ==
    /\ Completing
    /\ told[c] # <<>> /\ conn[c].open
    /\ conn' = [conn EXCEPT ![c].open = FALSE]
    /\ UNCHANGED <<slotVars, keyVars, acceptors, connectors, told, endVars>>

(***************************************************************************)
(* finish()                                                                *)
(***************************************************************************)
\* Faulty variant of Finish: the protocols are counted and not disconnected.
FinishCounts ==
    /\ ~crashed /\ fin = "no"
    /\ fin' = IF usedCount > 0 THEN "waiting" ELSE "stopped"
    /\ UNCHANGED <<slotVars, keyVars, acceptors, connectors, conn, told, crashed>>

\* on_finish(): disconnects what is in the table, and counts it
Finish ==
    /\ ~crashed /\ fin = "no"
    /\ conn' = [c \in Conns |-> IF c \in Items THEN [conn[c] EXCEPT !.open = FALSE] ELSE conn[c]]
    /\ fin' = IF usedCount > 0 THEN "waiting" ELSE "stopped"
    /\ UNCHANGED <<slotVars, keyVars, acceptors, connectors, told, crashed>>

\* on_finish(): the table is looked at every five milliseconds; then ios_.stop()
FinishPoll ==
    /\ ~crashed /\ fin = "waiting"
    /\ usedCount = 0
    /\ fin' = "stopped"
    /\ UNCHANGED <<slotVars, keyVars, acceptors, connectors, conn, told, crashed>>

\* a handler of c is running
Handling(c) ==
    \/ conn[c].st \in {"add", "setup", "begin", "notify", "erase"}
    \/ conn[c].err \in {"remove", "notify"}

\* finish(): the threads end when their handlers have
Join ==
    /\ ~crashed /\ fin = "stopped"
    /\ \A c \in Conns : ~Handling(c)
    /\ fin' = "joined"
    /\ UNCHANGED <<slotVars, keyVars, acceptors, connectors, conn, told, crashed>>

-----------------------------------------------------------------------------
\* What a handler that has begun goes on with
NewStep(c) ==
    AddProtocol(c) \/ AddThrows(c) \/ Setup(c) \/ FirstRecv(c) \/ NotifyNew(c) \/ Connected(c)
ErrorStep(c) == OnError(c) \/ NotifyDisconnect(c)
ConnectEnds(c) == AsyncConnect(c) \/ OnConnected(c) \/ OnConnectFailed(c)
ClosedRecvFails(c) == ~conn[c].open /\ RecvFails(c)

Next ==
    \/ Listen
    \/ \E c \in Conns :
          \/ Connect(c) \/ ConnectEnds(c)
          \/ \E k \in DOMAIN acceptors : OnAccepted(k, c)
          \/ NewStep(c) \/ RecvFails(c) \/ ErrorStep(c)
          \/ Disconnect(c)
    \/ Finish \/ FinishPoll \/ Join

Spec == Init /\ [][Next]_vars

\* Threads go on with the handlers they run; a connection attempt ends, asio ends
\* the receive on a closed socket; finish() goes on.
Fairness ==
    /\ \A c \in Conns :
          /\ WF_vars(NewStep(c)) /\ WF_vars(ErrorStep(c))
          /\ WF_vars(ConnectEnds(c)) /\ WF_vars(ClosedRecvFails(c))
    /\ WF_vars(FinishPoll \/ Join)

FairSpec == Spec /\ Fairness

(***************************************************************************)
(* Properties.                                                             *)
(***************************************************************************)
TypeOK ==
    /\ \A c \in Conns :
          /\ conn[c].st \in {"none", "registered", "connecting", "add", "setup", "begin",
                             "notify", "erase", "done"}
          /\ conn[c].err \in {"none", "remove", "notify", "done"}
          /\ told[c] \in Seq({"new", "gone", "failed"})
    /\ usedCount \in 0..Cardinality(Conns)
    /\ \A k \in DOMAIN acceptors : acceptors[k] \in {"accepting", "handling", "failed"}
    /\ \A k \in DOMAIN connectors : connectors[k] \in Conns
    /\ fin \in {"no", "waiting", "stopped", "joined"} /\ crashed \in BOOLEAN

InTable(c) == conn[c].id # NoId /\ conn[c].err \in {"none", "remove"}

\* The table holds each protocol from on_new_socket() to on_error() under its own
\* id, its free slots are consistent, and the id of a protocol that is gone finds
\* nothing: another one only when the slot's number has wrapped since.
IdsFindTheirOwn ==
    /\ TypeOK
    /\ SlotsConsistent
    /\ \A c \in Conns : conn[c].id # NoId =>
          LET p == Get(conn[c].id)
          IN  IF InTable(c) THEN p = c
              ELSE p # Null => p # c /\ conn[p].nth - conn[c].nth >= SeqLimit

\* The keys of acceptors and connectors are taken from the pool and given back
\* once: seq_ with the two maps behaves as Sequence, so no two of them share a key.
ImplementsKeyPool == Keys!Spec

\* The channel is told of a connection at most once that it is there and at most
\* once that it is gone, and of a failure only when there was nothing else.  ("new"
\* is published after begin(), so it may follow "gone".)
ToldSoundly ==
    \A c \in Conns :
        LET at(e) == {i \in DOMAIN told[c] : told[c][i] = e}
        IN  /\ Cardinality(at("new")) <= 1 /\ Cardinality(at("gone")) <= 1
            /\ at("failed") # {} => Len(told[c]) = 1

\* connect() is answered: the connector leaves the map, and when it does its channel
\* has been told of the failure or of the connection.
ConnectAnswered ==
    \A c \in Conns :
        conn[c].st = "registered" ~>
            \/ crashed \/ fin \in {"stopped", "joined"}
            \/ /\ conn[c].st = "done" /\ \A k \in DOMAIN connectors : connectors[k] # c
               /\ told[c] # <<>>

\* finish() returns.  on_finish() waits for ever only for a connection that its pass
\* over the table did not reach and the peer keeps, or that was closed before its
\* first receive: nobody is told of the end of that one.
FinishReturns ==
    /\ fin = "stopped" ~> (fin = "joined" \/ crashed)
    /\ <>[](fin = "waiting" /\ ~crashed) =>
         <>[](\E c \in Conns : /\ InTable(c) /\ conn[c].st \in {"done", "erase"}
                              /\ (conn[c].late \/ ~conn[c].recving))

=============================================================================
