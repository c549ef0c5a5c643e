---------------------------- MODULE ActorCluster ----------------------------
(***************************************************************************)
(* actor_cluster (src/server/actor_cluster.cpp): servers that connect to   *)
(* their remotes, greet each other with syn_peer_up and connect again when *)
(* a connection is lost.  The handlers of a cluster and its timer run one  *)
(* at a time (server::run), in the order in which the io threads of the    *)
(* node have published their events.                                       *)
(*                                                                         *)
(* The node is the one of TcpNode: a session receives before the channel   *)
(* is told of the connection, so that its messages and its end may be      *)
(* published first.  A connection that the other side cannot tell from     *)
(* others by its address is one that was accepted.  A server that has      *)
(* finished or crashed may be started again.                               *)
(***************************************************************************)
EXTENDS Integers, Sequences, FiniteSets

CONSTANTS
    Servers,    \* the domains of the servers, which are positive
    RemotesOf,  \* remotes_ of a server: the servers it connects to
    Conns       \* bound: the connections of a behaviour, 1..n

ASSUME ServerAssumption ==
    /\ Servers \subseteq Nat \ {0} /\ Conns \subseteq Nat \ {0}
    /\ \A s \in Servers : RemotesOf[s] \subseteq Servers

VARIABLES
    life,       \* "new", "running", "finished" or "crashed"
    remotes,    \* state_ of the remotes of a server
    peers,      \* peers_ of a server: connection -> domain_
    timers,     \* reconnects waiting in timer_, for every remote
    dialing,    \* connects of the node going on, for every remote
    mail,       \* the queue of the channel
    link,       \* the connections: their two ends, and whether they are open
    due,        \* ends of connections whose channel is still to be told of them
    ended,      \* ends of connections that have failed and were published
    wire,       \* messages on their way to an end
    overtaken   \* history: ends that heard something before they were told of

avars == <<life, remotes, peers, timers, dialing, mail, link, due, ended, wire, overtaken>>
netvars == <<link, due, ended, overtaken>>

Unknown == 0
NoLink == [from |-> 0, to |-> 0, open |-> FALSE]
Other(c, s) == IF link[c].from = s THEN link[c].to ELSE link[c].from
Ends(c) == {link[c].from, link[c].to} \ {0}
Event(kind, c, d) == [kind |-> kind, c |-> c, d |-> d]

\* What a server has before start().
Fresh(s) == [r \in RemotesOf[s] |-> "created"]
Zero(s) == [r \in RemotesOf[s] |-> 0]

AInit ==
    /\ life = [s \in Servers |-> "new"]
    /\ remotes = [s \in Servers |-> Fresh(s)]
    /\ peers = [s \in Servers |-> <<>>]
    /\ timers = [s \in Servers |-> Zero(s)]
    /\ dialing = [s \in Servers |-> Zero(s)]
    /\ mail = [s \in Servers |-> <<>>]
    /\ link = [c \in Conns |-> NoLink]
    /\ due = {} /\ ended = {} /\ overtaken = {}
    /\ wire = [c \in Conns |-> [s \in Servers |-> <<>>]]

\* start() of a new process: every remote is connected to.
Start(s) ==
    /\ life[s] # "running"
    /\ life' = [life EXCEPT ![s] = "running"]
    /\ remotes' = [remotes EXCEPT ![s] = [r \in RemotesOf[s] |-> "connecting"]]
    /\ dialing' = [dialing EXCEPT ![s] = [r \in RemotesOf[s] |-> 1]]
    /\ peers' = [peers EXCEPT ![s] = <<>>]
    /\ timers' = [timers EXCEPT ![s] = Zero(s)]
    /\ mail' = [mail EXCEPT ![s] = <<>>]
    /\ UNCHANGED <<wire, netvars>>

\* The end of a process: its connections are cut and it hears nothing more.
Stopped(s, how) ==
    /\ life' = [life EXCEPT ![s] = how]
    /\ link' = [c \in Conns |-> [link[c] EXCEPT !.open = @ /\ s \notin Ends(c)]]
    /\ due' = {e \in due : e[2] # s}
    /\ ended' = ended \cup {<<c, s>> : c \in {x \in Conns : s \in Ends(x)}}
    /\ wire' = [c \in Conns |-> [wire[c] EXCEPT ![s] = <<>>]]
    /\ mail' = [mail EXCEPT ![s] = <<>>]
    /\ UNCHANGED overtaken

\* finish(), and the one of the node before it
Finish(s) ==
    /\ life[s] = "running"
    /\ Stopped(s, "finished")
    /\ peers' = [peers EXCEPT ![s] = <<>>]
    /\ remotes' = [remotes EXCEPT ![s] = Fresh(s)]
    /\ timers' = [timers EXCEPT ![s] = Zero(s)]
    /\ dialing' = [dialing EXCEPT ![s] = Zero(s)]

-----------------------------------------------------------------------------
(* The nodes and the network between them.                                 *)

Publish(s, e) == mail' = [mail EXCEPT ![s] = Append(@, e)]

\* The node has connected to r, or has failed to.
Dialed(s, r) ==
    /\ life[s] = "running" /\ dialing[s][r] > 0
    /\ dialing' = [dialing EXCEPT ![s][r] = @ - 1]
    /\ \/ /\ life[r] = "running"
          /\ \E c \in Conns :
               /\ link[c] = NoLink /\ \A x \in Conns : x < c => link[x] # NoLink
               /\ link' = [link EXCEPT ![c] = [from |-> s, to |-> r, open |-> TRUE]]
               /\ due' = due \cup {<<c, s>>, <<c, r>>}
          /\ UNCHANGED mail
       \/ Publish(s, Event("connect_failed", 0, r)) /\ UNCHANGED <<link, due>>
    /\ UNCHANGED <<life, remotes, peers, timers, ended, wire, overtaken>>

\* The end of on_new_socket: the channel is told of the connection.
NotifyNew(c, s) ==
    /\ <<c, s>> \in due
    /\ due' = due \ {<<c, s>>}
    /\ Publish(s, Event(IF link[c].from = s THEN "connected" ELSE "accepted", c, Unknown))
    /\ UNCHANGED <<life, remotes, peers, timers, dialing, link, ended, wire, overtaken>>

\* What on_new_socket has not told of yet is overtaken by what comes now.
Overtakes(c, s) ==
    overtaken' = IF <<c, s>> \in due THEN overtaken \cup {<<c, s>>} ELSE overtaken

Receive(c, s) ==
    /\ wire[c][s] # <<>> /\ <<c, s>> \notin ended
    /\ wire' = [wire EXCEPT ![c][s] = Tail(@)]
    /\ Publish(s, Event("peer_up", c, Head(wire[c][s])))
    /\ Overtakes(c, s)
    /\ UNCHANGED <<life, remotes, peers, timers, dialing, link, due, ended>>

Cut(c) ==
    /\ link[c].open
    /\ link' = [link EXCEPT ![c].open = FALSE]
    /\ UNCHANGED <<life, remotes, peers, timers, dialing, mail, due, ended, wire, overtaken>>

\* on_error() of the node; what was not received yet is lost.
NotifyDisconnect(c, s) ==
    /\ s \in Ends(c) /\ ~link[c].open /\ <<c, s>> \notin ended
    /\ ended' = ended \cup {<<c, s>>}
    /\ wire' = [wire EXCEPT ![c][s] = <<>>]
    /\ Publish(s, Event("disconnected", c, Unknown))
    /\ Overtakes(c, s)
    /\ UNCHANGED <<life, remotes, peers, timers, dialing, link, due>>

-----------------------------------------------------------------------------
(* The handlers of actor_cluster.                                          *)

\* The event that execute() of the channel has come to.
Heard(s, kind) ==
    /\ life[s] = "running"
    /\ mail[s] # <<>> /\ Head(mail[s]).kind = kind
    /\ mail' = [mail EXCEPT ![s] = Tail(@)]

\* send_syn_peer_up(); a connection that was cut loses it.
SendPeerUp(c, s) ==
    wire' = IF link[c].open THEN [wire EXCEPT ![c][Other(c, s)] = Append(@, s)] ELSE wire

With(f, x, v) == [y \in DOMAIN f \cup {x} |-> IF y = x THEN v ELSE f[y]]
Without(f, x) == [y \in DOMAIN f \ {x} |-> f[y]]

OnConnected(s) ==
    LET c == Head(mail[s]).c
    IN  /\ Heard(s, "connected")
        /\ remotes' = [remotes EXCEPT ![s][Other(c, s)] = "connected"]
        /\ peers' = [peers EXCEPT ![s] = With(@, c, Unknown)]
        /\ UNCHANGED <<life, timers, dialing, wire, netvars>>

OnAccepted(s) ==
    LET c == Head(mail[s]).c
    IN  /\ Heard(s, "accepted")
        /\ peers' = [peers EXCEPT ![s] = With(@, c, Unknown)]
        /\ SendPeerUp(c, s)
        /\ UNCHANGED <<life, remotes, timers, dialing, netvars>>

\* Faulty variant of OnPeerUp: nobody replies.
OnPeerUpSilent(s) ==
    LET e == Head(mail[s])
    IN  /\ Heard(s, "peer_up")
        /\ peers' = IF e.c \in DOMAIN peers[s] THEN [peers EXCEPT ![s][e.c] = e.d] ELSE peers
        /\ UNCHANGED <<life, remotes, timers, dialing, wire, netvars>>

\* on_syn_peer_up(): the side that connected replies; a greeting on a connection
\* that is not in peers_ is dropped.
OnPeerUp(s) ==
    LET e == Head(mail[s])
        known == e.c \in DOMAIN peers[s]
    IN  /\ Heard(s, "peer_up")
        /\ peers' = IF known THEN [peers EXCEPT ![s][e.c] = e.d] ELSE peers
        /\ IF known /\ link[e.c].from = s THEN SendPeerUp(e.c, s) ELSE UNCHANGED wire
        /\ UNCHANGED <<life, remotes, timers, dialing, netvars>>

\* on_connect_failed(): the message has no protocol, and the call of its bind()
\* ends the process.
OnConnectFailed(s) ==
    /\ life[s] = "running"
    /\ mail[s] # <<>> /\ Head(mail[s]).kind = "connect_failed"
    /\ Stopped(s, "crashed")
    /\ UNCHANGED <<remotes, peers, timers, dialing>>

\* Faulty variant of OnDisconnected: only a connection in peers_ is made again.
OnDisconnectedForgets(s) ==
    LET c == Head(mail[s]).c
    IN  /\ Heard(s, "disconnected")
        /\ peers' = [peers EXCEPT ![s] = Without(@, c)]
        /\ IF link[c].from = s /\ c \in DOMAIN peers[s]
           THEN /\ remotes' = [remotes EXCEPT ![s][Other(c, s)] = "disconnected"]
                /\ timers' = [timers EXCEPT ![s][Other(c, s)] = @ + 1]
           ELSE UNCHANGED <<remotes, timers>>
        /\ UNCHANGED <<life, dialing, wire, netvars>>

\* on_disconnected(): a connection to a remote is made again after a while; the
\* address of one that was accepted is in no configuration.
OnDisconnected(s) ==
    LET c == Head(mail[s]).c
    IN  /\ Heard(s, "disconnected")
        /\ IF link[c].from = s
           THEN /\ remotes' = [remotes EXCEPT ![s][Other(c, s)] = "disconnected"]
                /\ timers' = [timers EXCEPT ![s][Other(c, s)] = @ + 1]
           ELSE UNCHANGED <<remotes, timers>>
        /\ peers' = [peers EXCEPT ![s] = Without(@, c)]
        /\ UNCHANGED <<life, dialing, wire, netvars>>

\* reconnect(), called by the timer
Reconnect(s, r) ==
    /\ life[s] = "running" /\ timers[s][r] > 0
    /\ timers' = [timers EXCEPT ![s][r] = @ - 1]
    /\ remotes' = [remotes EXCEPT ![s][r] = "connecting"]
    /\ dialing' = [dialing EXCEPT ![s][r] = @ + 1]
    /\ UNCHANGED <<life, peers, mail, wire, netvars>>

Handle(s) ==
    OnConnected(s) \/ OnAccepted(s) \/ OnPeerUp(s) \/ OnConnectFailed(s) \/ OnDisconnected(s)

Io(c, s) == NotifyNew(c, s) \/ Receive(c, s) \/ NotifyDisconnect(c, s)

\* What the io threads and run() of the servers do.
Working ==
    \/ \E s \in Servers : Handle(s) \/ \E r \in RemotesOf[s] : Dialed(s, r) \/ Reconnect(s, r)
    \/ \E c \in Conns, s \in Servers : Io(c, s)

ANext ==
    \/ Working
    \/ \E s \in Servers : Start(s) \/ Finish(s)
    \/ \E c \in Conns : Cut(c)

\* run() is called again and again, and the io threads go on: some thread of those
\* that have work does it.
AFair == WF_avars(Working)

ASpec == AInit /\ [][ANext]_avars

-----------------------------------------------------------------------------
\* The end of c at s has failed, and on_disconnected has not been called for it.
Lost(c, s) == \E i \in 1..Len(mail[s]) : mail[s][i].kind = "disconnected" /\ mail[s][i].c = c

\* The connections of s to r whose end it has not handled.
HeldTo(s, r) ==
    {c \in Conns : /\ link[c].from = s /\ link[c].to = r
                   /\ <<c, s>> \notin ended \/ Lost(c, s)}

\* The places in its mail of the connects to r that failed.
Failures(s, r) ==
    {i \in 1..Len(mail[s]) : mail[s][i].kind = "connect_failed" /\ mail[s][i].d = r}

\* A running server has exactly one way to each remote, be it a connection whose
\* end it has not handled, a connect that goes on, a failure it has not heard of or
\* a timer (actor_cluster.cpp:275), however events overtake each other and whatever
\* the other servers do: it neither gives a remote up nor connects twice.  The
\* connection it takes a peer to be on (peers_) has not ended, unless its end was
\* published before it was, and a domain it knows is that of the other end.
OneWayToRemotes ==
    \A s \in Servers : life[s] = "running" =>
      /\ \A r \in RemotesOf[s] :
           timers[s][r] + dialing[s][r] + Cardinality(HeldTo(s, r)) + Cardinality(Failures(s, r)) = 1
      /\ \A c \in DOMAIN peers[s] :
           /\ peers[s][c] \in {Unknown, Other(c, s)}
           /\ <<c, s>> \notin ended \/ Lost(c, s) \/ <<c, s>> \in overtaken

\* On a connection that stays, both servers learn the domain of the other, unless
\* the greeting of the one that accepted was published before the connection was
\* (actor_cluster.cpp:154 drops it); and a remote that was lost is connected again
\* while the server and the remote run and the network lets it.
PeersMeet ==
    /\ \A c \in Conns :
         link[c].open
           ~> (\/ ~link[c].open \/ (\E e \in overtaken : e[1] = c)
               \/ \A s \in Ends(c) : c \in DOMAIN peers[s] /\ peers[s][c] = Other(c, s))
    /\ \A s \in Servers : \A r \in RemotesOf[s] :
         (life[s] = "running" /\ remotes[s][r] = "disconnected")
           ~> (life[s] # "running" \/ remotes[s][r] = "connected")
=============================================================================
