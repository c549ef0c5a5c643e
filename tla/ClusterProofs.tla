---------------------------- MODULE ClusterProofs ----------------------------
(***************************************************************************)
(* Proofs about ActorCluster, for any servers, any remotes and any number  *)
(* of connections: a running server has exactly one way to each of its     *)
(* remotes, whatever events overtake each other and whichever servers      *)
(* finish, crash and start again.                                          *)
(***************************************************************************)
EXTENDS ActorCluster, TLAPS

\* Zenon proves what needs no arithmetic; the other leaves say SMT.
USE Zenon

Kinds == {"connected", "accepted", "peer_up", "connect_failed", "disconnected"}
Events == [kind : Kinds, c : Conns \cup {0}, d : Servers \cup {0}]
Links == [from : Servers \cup {0}, to : Servers \cup {0}, open : BOOLEAN]

ClusterTypes ==
    /\ life \in [Servers -> {"new", "running", "finished", "crashed"}]
    /\ DOMAIN peers = Servers
    /\ DOMAIN timers = Servers /\ \A s \in Servers : DOMAIN timers[s] = RemotesOf[s]
    /\ DOMAIN dialing = Servers /\ \A s \in Servers : DOMAIN dialing[s] = RemotesOf[s]
    /\ mail \in [Servers -> Seq(Events)]
    /\ link \in [Conns -> Links]

\* A connection leads to a remote.  What is still to be told of, what has ended and
\* what is on its way is so at an end of a connection, and comes from the other end.
NetOK ==
    /\ \A c \in Conns : \/ link[c].from = 0 /\ link[c].to = 0
                        \/ link[c].from \in Servers /\ link[c].to \in RemotesOf[link[c].from]
    /\ due \cup ended \subseteq {e \in Conns \X Servers : e[2] \in Ends(e[1])}
    /\ due \cap ended \subseteq overtaken

WireOK ==
    /\ wire \in [Conns -> [Servers -> Seq(Servers)]]
    /\ \A c \in Conns, s \in Servers : \A i \in 1..Len(wire[c][s]) :
           s \in Ends(c) /\ wire[c][s][i] = Other(c, s)

\* The events of s are of its connections.  The end of a connection is published once,
\* and after the connection unless it has overtaken it.
EventOK(s, m, i) ==
    LET e == m[i]
    IN  /\ e.kind # "connect_failed" => e.c \in Conns /\ s \in Ends(e.c)
        /\ e.kind = "peer_up" => e.d = Other(e.c, s)
        /\ e.kind = "disconnected" =>
             /\ <<e.c, s>> \in ended
             /\ \A j \in 1..Len(m) : m[j].kind = "disconnected" /\ m[j].c = e.c => j = i
        /\ e.kind \in {"connected", "accepted"} =>
             \/ <<e.c, s>> \notin ended
             \/ <<e.c, s>> \in overtaken
             \/ \E j \in 1..Len(m) : i < j /\ m[j].kind = "disconnected" /\ m[j].c = e.c

MailOK(s) == \A i \in 1..Len(mail[s]) : EventOK(s, mail[s], i)

PeersOK(s) ==
    \A c \in DOMAIN peers[s] :
        /\ c \in Conns /\ s \in Ends(c) /\ peers[s][c] \in {Unknown, Other(c, s)}
        /\ life[s] = "running" => <<c, s>> \notin ended \/ Lost(c, s) \/ <<c, s>> \in overtaken

\* The one way of s to r: a timer, a connect, a connection or a failure.
OneWay(s, r) ==
    \/ timers[s][r] = 1 /\ dialing[s][r] = 0 /\ HeldTo(s, r) = {} /\ Failures(s, r) = {}
    \/ timers[s][r] = 0 /\ dialing[s][r] = 1 /\ HeldTo(s, r) = {} /\ Failures(s, r) = {}
    \/ /\ timers[s][r] = 0 /\ dialing[s][r] = 0 /\ Failures(s, r) = {}
       /\ \E c \in Conns : HeldTo(s, r) = {c}
    \/ /\ timers[s][r] = 0 /\ dialing[s][r] = 0 /\ HeldTo(s, r) = {}
       /\ \E i \in 1..Len(mail[s]) : Failures(s, r) = {i}

ServerOK(s) ==
    /\ MailOK(s) /\ PeersOK(s)
    /\ life[s] = "running" => \A r \in RemotesOf[s] : OneWay(s, r)
    /\ life[s] # "running" => \A c \in Conns : s \in Ends(c) => <<c, s>> \in ended

ClusterInv == ClusterTypes /\ NetOK /\ WireOK /\ \A s \in Servers : ServerOK(s)

-----------------------------------------------------------------------------
\* The length and the elements of a queue that grows.
LEMMA AppendAt ==
    ASSUME NEW S, NEW m \in Seq(S), NEW e \in S
    PROVE  /\ Append(m, e) \in Seq(S) /\ Len(m) \in Nat /\ Len(Append(m, e)) = Len(m) + 1
           /\ Append(m, e)[Len(m) + 1] = e /\ \A i \in 1..Len(m) : Append(m, e)[i] = m[i]
BY SMT

\* The length and the elements of a queue whose head is taken.
LEMMA TailAt ==
    ASSUME NEW S, NEW m \in Seq(S), m # <<>>
    PROVE  /\ Tail(m) \in Seq(S) /\ Len(m) \in Nat /\ Len(m) >= 1 /\ Len(Tail(m)) = Len(m) - 1
           /\ Head(m) = m[1] /\ Head(m) \in S /\ \A i \in 1..(Len(m) - 1) : Tail(m)[i] = m[i + 1]
BY SMT

\* Nothing of server s itself changes.
Still(s) ==
    /\ life'[s] = life[s] /\ mail'[s] = mail[s] /\ peers'[s] = peers[s]
    /\ timers'[s] = timers[s] /\ dialing'[s] = dialing[s]

\* No connection of s has ended, and those it had are the same.
NetGrows(s) ==
    /\ overtaken \subseteq overtaken'
    /\ \A c \in Conns :
         /\ <<c, s>> \in ended' <=> <<c, s>> \in ended
         /\ s \in Ends(c) => s \in Ends(c)' /\ Other(c, s)' = Other(c, s)

\* There is no new one either that s has made.
NetStill(s) ==
    /\ NetGrows(s)
    /\ \A c \in Conns :
         /\ link'[c].from = s <=> link[c].from = s
         /\ link[c].from = s => link'[c].to = link[c].to
         /\ life[s] # "running" /\ s \in Ends(c)' => s \in Ends(c)

\* A step that changes no connection
LEMMA NetSame ==
    ASSUME link' = link, ended' = ended, overtaken \subseteq overtaken', NEW s \in Servers
    PROVE  NetStill(s)
BY DEF NetStill, NetGrows, Ends, Other

\* The mail and the peers of a server, of a step that changes neither
LEMMA MailStays ==
    ASSUME NEW s \in Servers, ServerOK(s), NetGrows(s),
           life'[s] = life[s], mail'[s] = mail[s], peers'[s] = peers[s]
    PROVE  MailOK(s)' /\ PeersOK(s)' /\ \A c \in Conns : Lost(c, s)' <=> Lost(c, s)
<1>1. overtaken \subseteq overtaken' BY DEF NetGrows
<1>2. \A c \in Conns : Lost(c, s)' <=> Lost(c, s) BY <1>1 DEF Lost
<1>3. MailOK(s)'
  <2>1. SUFFICES ASSUME NEW i \in 1..Len(mail[s]), NEW e, e = mail[s][i]
                 PROVE  /\ e.kind # "connect_failed" => e.c \in Conns /\ s \in Ends(e.c)'
                        /\ e.kind = "peer_up" => e.d = Other(e.c, s)'
                        /\ e.kind = "disconnected" =>
                             /\ <<e.c, s>> \in ended'
                             /\ \A j \in 1..Len(mail[s]) :
                                  mail[s][j].kind = "disconnected" /\ mail[s][j].c = e.c => j = i
                        /\ e.kind \in {"connected", "accepted"} =>
                             \/ <<e.c, s>> \notin ended'
                             \/ <<e.c, s>> \in overtaken'
                             \/ \E j \in 1..Len(mail[s]) :
                                  i < j /\ mail[s][j].kind = "disconnected" /\ mail[s][j].c = e.c
    BY SMT, <1>1 DEF MailOK, EventOK
  <2>2. /\ e.kind # "connect_failed" => e.c \in Conns /\ s \in Ends(e.c)
        /\ e.kind = "peer_up" => e.d = Other(e.c, s)
        /\ e.kind = "disconnected" =>
             /\ <<e.c, s>> \in ended
             /\ \A j \in 1..Len(mail[s]) :
                  mail[s][j].kind = "disconnected" /\ mail[s][j].c = e.c => j = i
        /\ e.kind \in {"connected", "accepted"} =>
             \/ <<e.c, s>> \notin ended
             \/ <<e.c, s>> \in overtaken
             \/ \E j \in 1..Len(mail[s]) :
                  i < j /\ mail[s][j].kind = "disconnected" /\ mail[s][j].c = e.c
    BY <2>1 DEF ServerOK, MailOK, EventOK
  <2>3. e.c \in Conns => /\ <<e.c, s>> \in ended' <=> <<e.c, s>> \in ended
                         /\ s \in Ends(e.c) => s \in Ends(e.c)' /\ Other(e.c, s)' = Other(e.c, s)
    BY DEF NetGrows
  <2> QED BY <1>1, <2>2, <2>3
<1>4. PeersOK(s)'
  <2>1. SUFFICES ASSUME NEW c \in DOMAIN peers[s]
                 PROVE  /\ c \in Conns /\ s \in Ends(c)' /\ peers[s][c] \in {Unknown, Other(c, s)'}
                        /\ life[s] = "running" =>
                             <<c, s>> \notin ended' \/ Lost(c, s)' \/ <<c, s>> \in overtaken'
    BY <1>1 DEF PeersOK
  <2>2. /\ c \in Conns /\ s \in Ends(c) /\ peers[s][c] \in {Unknown, Other(c, s)}
        /\ life[s] = "running" => <<c, s>> \notin ended \/ Lost(c, s) \/ <<c, s>> \in overtaken
    BY DEF ServerOK, PeersOK
  <2>3. c \in Conns => /\ <<c, s>> \in ended' <=> <<c, s>> \in ended
                       /\ s \in Ends(c) => s \in Ends(c)' /\ Other(c, s)' = Other(c, s)
    BY DEF NetGrows
  <2> QED BY <1>1, <1>2, <2>2, <2>3
<1> QED BY <1>2, <1>3, <1>4

\* The way of s to r is the one it was.
SameWay(s, r) ==
    /\ timers'[s][r] = timers[s][r] /\ dialing'[s][r] = dialing[s][r]
    /\ HeldTo(s, r)' = HeldTo(s, r)
    /\ Failures(s, r) = {} => Failures(s, r)' = {}
    /\ \A i \in 1..Len(mail[s]) : Failures(s, r) = {i} =>
         \E j \in 1..Len(mail'[s]) : Failures(s, r)' = {j}

\* Such a way is still the only one.
LEMMA WayKept ==
    ASSUME NEW s, NEW r, OneWay(s, r), SameWay(s, r)
    PROVE  OneWay(s, r)'
<1>1. /\ timers'[s][r] = timers[s][r] /\ dialing'[s][r] = dialing[s][r]
      /\ HeldTo(s, r)' = HeldTo(s, r)
      /\ Failures(s, r) = {} => Failures(s, r)' = {}
      /\ \A i \in 1..Len(mail[s]) : Failures(s, r) = {i} =>
           \E j \in 1..Len(mail'[s]) : Failures(s, r)' = {j}
  BY DEF SameWay
<1>2. CASE /\ timers[s][r] = 0 /\ dialing[s][r] = 0 /\ HeldTo(s, r) = {}
           /\ \E i \in 1..Len(mail[s]) : Failures(s, r) = {i}
  <2>1. \E j \in 1..Len(mail'[s]) : Failures(s, r)' = {j} BY <1>1, <1>2
  <2> QED BY <1>1, <1>2, <2>1 DEF OneWay
<1>3. CASE /\ timers[s][r] = 0 /\ dialing[s][r] = 0 /\ Failures(s, r) = {}
           /\ \E c \in Conns : HeldTo(s, r) = {c}
  BY <1>1, <1>3 DEF OneWay
<1>4. CASE timers[s][r] = 1 /\ dialing[s][r] = 0 /\ HeldTo(s, r) = {} /\ Failures(s, r) = {}
  BY <1>1, <1>4 DEF OneWay
<1>5. CASE timers[s][r] = 0 /\ dialing[s][r] = 1 /\ HeldTo(s, r) = {} /\ Failures(s, r) = {}
  BY <1>1, <1>5 DEF OneWay
<1> QED BY <1>2, <1>3, <1>4, <1>5 DEF OneWay

\* A server that neither takes part in a step nor has a part in its connection is as it
\* was.
LEMMA Bystander ==
    ASSUME NEW s \in Servers, ServerOK(s), Still(s), NetStill(s)
    PROVE  ServerOK(s)'
<1>1. /\ mail'[s] = mail[s] /\ overtaken \subseteq overtaken' /\ life'[s] = life[s]
      /\ peers'[s] = peers[s] /\ timers'[s] = timers[s] /\ dialing'[s] = dialing[s]
  BY DEF Still, NetStill, NetGrows
<1>2. MailOK(s)' /\ PeersOK(s)' /\ \A c \in Conns : Lost(c, s)' <=> Lost(c, s)
  BY <1>1, MailStays DEF NetStill
<1>5. ASSUME life[s] = "running", NEW r \in RemotesOf[s] PROVE OneWay(s, r)'
  <2>1. HeldTo(s, r)' = HeldTo(s, r)
    <3>1. \A c \in Conns : link'[c].from = s /\ link'[c].to = r <=> link[c].from = s /\ link[c].to = r
      BY DEF NetStill
    <3>2. \A c \in Conns : <<c, s>> \notin ended' \/ Lost(c, s)' <=> <<c, s>> \notin ended \/ Lost(c, s)
      BY <1>2 DEF NetStill, NetGrows
    <3> QED BY <3>1, <3>2 DEF HeldTo
  <2>2. Failures(s, r)' = Failures(s, r) BY <1>1 DEF Failures
  <2>3. OneWay(s, r) BY <1>5 DEF ServerOK
  <2>4. SameWay(s, r) BY <1>1, <2>1, <2>2 DEF SameWay
  <2> QED BY <2>3, <2>4, WayKept
<1>6. ASSUME life[s] # "running", NEW c \in Conns, s \in Ends(c)' PROVE <<c, s>> \in ended'
  BY <1>6 DEF NetStill, NetGrows, ServerOK
<1> QED BY <1>1, <1>2, <1>5, <1>6 DEF ServerOK

\* Event e is published to s.
Posting(s, e) ==
    /\ e \in Events /\ mail'[s] = Append(mail[s], e)
    /\ link' = link /\ overtaken \subseteq overtaken'
    /\ \A c \in Conns :
           <<c, s>> \in ended' <=> <<c, s>> \in ended \/ (e.kind = "disconnected" /\ c = e.c)
    /\ e.kind # "connect_failed" => e.c \in Conns /\ s \in Ends(e.c)
    /\ e.kind = "peer_up" => e.d = Other(e.c, s)
    /\ e.kind = "disconnected" => <<e.c, s>> \notin ended
    /\ e.kind \in {"connected", "accepted"} => <<e.c, s>> \notin ended \/ <<e.c, s>> \in overtaken

\* What the mail of s has become then
Posted(s, e) ==
    /\ MailOK(s)'
    /\ \A c \in Conns : Lost(c, s)' <=> Lost(c, s) \/ (e.kind = "disconnected" /\ c = e.c)
    /\ \A r : Failures(s, r)' = IF e.kind = "connect_failed" /\ e.d = r
                                  THEN Failures(s, r) \cup {Len(mail[s]) + 1}
                                  ELSE Failures(s, r)
    /\ Len(mail[s]) \in Nat /\ Len(mail'[s]) = Len(mail[s]) + 1

\* An event is published: the mail stays as it should be.
LEMMA Published ==
    ASSUME ClusterTypes, NEW s \in Servers, MailOK(s), NEW e, Posting(s, e)
    PROVE  Posted(s, e)
<1> SUFFICES
    ASSUME e \in Events, mail'[s] = Append(mail[s], e), link' = link, overtaken \subseteq overtaken',
           \A c \in Conns :
               <<c, s>> \in ended' <=> <<c, s>> \in ended \/ (e.kind = "disconnected" /\ c = e.c),
           e.kind # "connect_failed" => e.c \in Conns /\ s \in Ends(e.c),
           e.kind = "peer_up" => e.d = Other(e.c, s),
           e.kind = "disconnected" => <<e.c, s>> \notin ended,
           e.kind \in {"connected", "accepted"} => <<e.c, s>> \notin ended \/ <<e.c, s>> \in overtaken
    PROVE  /\ MailOK(s)'
           /\ \A c \in Conns : Lost(c, s)' <=> Lost(c, s) \/ (e.kind = "disconnected" /\ c = e.c)
           /\ \A r : Failures(s, r)' = IF e.kind = "connect_failed" /\ e.d = r
                                         THEN Failures(s, r) \cup {Len(mail[s]) + 1}
                                         ELSE Failures(s, r)
           /\ Len(mail[s]) \in Nat /\ Len(mail'[s]) = Len(mail[s]) + 1
  BY DEF Posting, Posted
<1>1. PICK m, n, k : m = mail[s] /\ n = mail'[s] /\ k = Len(m) OBVIOUS
<1>2. m \in Seq(Events) BY <1>1 DEF ClusterTypes
<1>3. /\ k \in Nat /\ Len(n) = k + 1 /\ n[k + 1] = e /\ \A i \in 1..k : n[i] = m[i]
  BY SMT, <1>1, <1>2, AppendAt
<1>4. 1..Len(n) = (1..k) \cup {k + 1} /\ \A i \in 1..k : i # k + 1 /\ i < k + 1 BY SMT, <1>3
<1>5. \A c : Ends(c)' = Ends(c) /\ \A x : Other(c, x)' = Other(c, x) BY DEF Ends, Other
<1>6. \A i \in 1..k : m[i].kind = "disconnected" =>
          <<m[i].c, s>> \in ended /\ m[i].c \in Conns
  BY <1>1 DEF MailOK, EventOK
<1>7. ASSUME NEW i \in 1..Len(n) PROVE EventOK(s, n, i)'
  <2>0. PICK g : g = n[i] OBVIOUS
  <2> SUFFICES
             /\ g.kind # "connect_failed" => g.c \in Conns /\ s \in Ends(g.c)'
             /\ g.kind = "peer_up" => g.d = Other(g.c, s)'
             /\ g.kind = "disconnected" =>
                  /\ <<g.c, s>> \in ended'
                  /\ \A j \in 1..Len(n) : n[j].kind = "disconnected" /\ n[j].c = g.c => j = i
             /\ g.kind \in {"connected", "accepted"} =>
                  \/ <<g.c, s>> \notin ended'
                  \/ <<g.c, s>> \in overtaken'
                  \/ \E j \in 1..Len(n) :
                       i < j /\ n[j].kind = "disconnected" /\ n[j].c = g.c
    BY <2>0 DEF EventOK
  <2>1. CASE i \in 1..k
    <3>1. g = m[i] BY <1>3, <2>0, <2>1
    <3>2. /\ g.kind # "connect_failed" => g.c \in Conns /\ s \in Ends(g.c)
          /\ g.kind = "peer_up" => g.d = Other(g.c, s)
          /\ g.kind = "disconnected" =>
               /\ <<g.c, s>> \in ended
               /\ \A j \in 1..k : m[j].kind = "disconnected" /\ m[j].c = g.c => j = i
          /\ g.kind \in {"connected", "accepted"} =>
               \/ <<g.c, s>> \notin ended
               \/ <<g.c, s>> \in overtaken
               \/ \E j \in 1..k : i < j /\ m[j].kind = "disconnected" /\ m[j].c = g.c
      BY <1>1, <2>1, <3>1 DEF MailOK, EventOK
    <3>3. /\ g.kind # "connect_failed" => g.c \in Conns /\ s \in Ends(g.c)'
          /\ g.kind = "peer_up" => g.d = Other(g.c, s)'
      BY <1>5, <3>2
    <3>4. ASSUME g.kind = "disconnected"
          PROVE  /\ <<g.c, s>> \in ended'
                 /\ \A j \in 1..Len(n) : n[j].kind = "disconnected" /\ n[j].c = g.c => j = i
      BY <1>3, <1>4, <3>2, <3>4
    <3>5. ASSUME g.kind \in {"connected", "accepted"}
          PROVE  \/ <<g.c, s>> \notin ended'
                 \/ <<g.c, s>> \in overtaken'
                 \/ \E j \in 1..Len(n) : i < j /\ n[j].kind = "disconnected" /\ n[j].c = g.c
      BY <1>3, <1>4, <2>1, <3>2, <3>5
    <3> QED BY <3>3, <3>4, <3>5
  <2>2. CASE i = k + 1
    <3>1. g = e BY <1>3, <2>0, <2>2
    <3>2. g.kind = "disconnected" => \A j \in 1..k : ~(n[j].kind = "disconnected" /\ n[j].c = g.c)
      BY <1>3, <1>6, <3>1
    <3> QED BY <1>4, <1>5, <2>2, <3>1, <3>2
  <2> QED BY <1>4, <2>1, <2>2
<1>8. MailOK(s)' BY <1>1, <1>7 DEF MailOK
<1>9. \A c \in Conns : Lost(c, s)' <=> Lost(c, s) \/ (e.kind = "disconnected" /\ c = e.c)
  BY SMT, <1>1, <1>3, <1>4 DEF Lost
<1>10. ASSUME NEW r
       PROVE  Failures(s, r)' = IF e.kind = "connect_failed" /\ e.d = r
                                  THEN Failures(s, r) \cup {k + 1} ELSE Failures(s, r)
  <2>1. \A i : i \in Failures(s, r)' <=> i \in 1..Len(n) /\ n[i].kind = "connect_failed" /\ n[i].d = r
    BY <1>1 DEF Failures
  <2>2. \A i : i \in Failures(s, r) <=> i \in 1..k /\ m[i].kind = "connect_failed" /\ m[i].d = r
    BY <1>1 DEF Failures
  <2>3. \A i \in 1..k : i \in Failures(s, r)' <=> i \in Failures(s, r) BY SMT, <1>3, <1>4, <2>1, <2>2
  <2>4. k + 1 \in Failures(s, r)' <=> e.kind = "connect_failed" /\ e.d = r BY <1>3, <1>4, <2>1
  <2>5. Failures(s, r)' \subseteq (1..k) \cup {k + 1} /\ Failures(s, r) \subseteq 1..k
    BY <1>4, <2>1, <2>2
  <2>6. PICK F, G : F = Failures(s, r) /\ G = Failures(s, r)' OBVIOUS
  <2>7. CASE k + 1 \in G
    <3>1. G = F \cup {k + 1} BY <2>3, <2>5, <2>6, <2>7
    <3> QED BY <2>4, <2>6, <2>7, <3>1
  <2>8. CASE k + 1 \notin G
    <3>1. G = F BY <2>3, <2>5, <2>6, <2>8
    <3> QED BY <2>4, <2>6, <2>8, <3>1
  <2> QED BY <2>7, <2>8
<1> QED BY <1>1, <1>3, <1>8, <1>9, <1>10

\* A handler takes an event out of the mail: the mail stays as it should be.
LEMMA Taken ==
    ASSUME ClusterTypes, NEW s \in Servers, MailOK(s), mail[s] # <<>>, mail'[s] = Tail(mail[s]),
           link' = link, ended' = ended, overtaken' = overtaken, NEW e, e = Head(mail[s])
    PROVE  /\ MailOK(s)'
           /\ \A c \in Conns : Lost(c, s)' <=> Lost(c, s) /\ ~(e.kind = "disconnected" /\ c = e.c)
           /\ e.kind # "connect_failed" =>
                \A r : /\ Failures(s, r) = {} => Failures(s, r)' = {}
                       /\ \A i \in 1..Len(mail[s]) : Failures(s, r) = {i} =>
                            \E j \in 1..Len(mail'[s]) : Failures(s, r)' = {j}
<1>1. PICK m, n, k : m = mail[s] /\ n = mail'[s] /\ k = Len(n) OBVIOUS
<1>2. m \in Seq(Events) BY <1>1 DEF ClusterTypes
<1>3. /\ k \in Nat /\ Len(m) = k + 1 /\ m[1] = e /\ \A i \in 1..k : n[i] = m[i + 1]
  BY SMT, <1>1, <1>2, TailAt
<1>4. /\ \A i \in 1..k : i + 1 \in 1..Len(m) /\ i + 1 # 1
      /\ \A i \in 1..Len(m) : i = 1 \/ (i - 1 \in 1..k /\ (i - 1) + 1 = i)
  BY SMT, <1>3
<1>5. \A c : Ends(c)' = Ends(c) /\ \A x : Other(c, x)' = Other(c, x) BY DEF Ends, Other
<1>6. ASSUME NEW i \in 1..k PROVE EventOK(s, n, i)'
  <2>0. PICK g : g = n[i] OBVIOUS
  <2> SUFFICES
             /\ g.kind # "connect_failed" => g.c \in Conns /\ s \in Ends(g.c)'
             /\ g.kind = "peer_up" => g.d = Other(g.c, s)'
             /\ g.kind = "disconnected" =>
                  /\ <<g.c, s>> \in ended'
                  /\ \A j \in 1..k : n[j].kind = "disconnected" /\ n[j].c = g.c => j = i
             /\ g.kind \in {"connected", "accepted"} =>
                  \/ <<g.c, s>> \notin ended'
                  \/ <<g.c, s>> \in overtaken'
                  \/ \E j \in 1..k : i < j /\ n[j].kind = "disconnected" /\ n[j].c = g.c
    BY <1>1, <2>0 DEF EventOK
  <2>1. g = m[i + 1] /\ i + 1 \in 1..Len(m) BY <1>3, <1>4, <2>0
  <2>2. /\ g.kind # "connect_failed" => g.c \in Conns /\ s \in Ends(g.c)
        /\ g.kind = "peer_up" => g.d = Other(g.c, s)
        /\ g.kind = "disconnected" =>
             /\ <<g.c, s>> \in ended
             /\ \A j \in 1..Len(m) : m[j].kind = "disconnected" /\ m[j].c = g.c => j = i + 1
        /\ g.kind \in {"connected", "accepted"} =>
             \/ <<g.c, s>> \notin ended
             \/ <<g.c, s>> \in overtaken
             \/ \E j \in 1..Len(m) : i + 1 < j /\ m[j].kind = "disconnected" /\ m[j].c = g.c
    BY <1>1, <2>1 DEF MailOK, EventOK
  <2>3. ASSUME g.kind = "disconnected"
        PROVE  \A j \in 1..k : n[j].kind = "disconnected" /\ n[j].c = g.c => j = i
    <3>1. SUFFICES ASSUME NEW j \in 1..k, n[j].kind = "disconnected", n[j].c = g.c PROVE j = i
      OBVIOUS
    <3>2. j + 1 = i + 1 BY SMT, <1>3, <1>4, <2>2, <2>3, <3>1
    <3> QED BY SMT, <3>2
  <2>4. ASSUME NEW j \in 1..Len(m), i + 1 < j, m[j].kind = "disconnected", m[j].c = g.c
        PROVE  \E h \in 1..k : i < h /\ n[h].kind = "disconnected" /\ n[h].c = g.c
    <3>1. j - 1 \in 1..k /\ i < j - 1 /\ n[j - 1] = m[j] BY SMT, <1>3, <1>4, <2>4
    <3> QED BY <2>4, <3>1
  <2> QED BY <1>5, <2>2, <2>3, <2>4
<1>7. MailOK(s)' BY <1>1, <1>6 DEF MailOK
<1>8. ASSUME NEW c \in Conns
      PROVE  Lost(c, s)' <=> Lost(c, s) /\ ~(e.kind = "disconnected" /\ c = e.c)
  <2>1. Lost(c, s) <=> \E i \in 1..Len(m) : m[i].kind = "disconnected" /\ m[i].c = c
    BY <1>1 DEF Lost
  <2>2. Lost(c, s)' <=> \E i \in 1..k : n[i].kind = "disconnected" /\ n[i].c = c
    BY <1>1 DEF Lost
  <2>3. e.kind = "disconnected" =>
            \A j \in 1..Len(m) : m[j].kind = "disconnected" /\ m[j].c = e.c => j = 1
    <3>1. 1 \in 1..Len(m) BY SMT, <1>3
    <3>2. EventOK(s, m, 1) BY <1>1, <3>1 DEF MailOK
    <3> QED BY <1>3, <3>2 DEF EventOK
  <2>4. ASSUME Lost(c, s)' PROVE Lost(c, s) /\ ~(e.kind = "disconnected" /\ c = e.c)
    <3>1. PICK i \in 1..k : n[i].kind = "disconnected" /\ n[i].c = c BY <2>2, <2>4
    <3>2. i + 1 \in 1..Len(m) /\ i + 1 # 1 /\ m[i + 1] = n[i] BY <1>3, <1>4
    <3> QED BY <2>1, <2>3, <3>1, <3>2
  <2>5. ASSUME Lost(c, s), ~(e.kind = "disconnected" /\ c = e.c) PROVE Lost(c, s)'
    <3>1. PICK i \in 1..Len(m) : m[i].kind = "disconnected" /\ m[i].c = c BY <2>1, <2>5
    <3>2. i # 1 BY <1>3, <2>5, <3>1
    <3>3. i - 1 \in 1..k /\ n[i - 1] = m[i] BY <1>3, <1>4, <3>2
    <3> QED BY <2>2, <3>1, <3>3
  <2> QED BY <2>4, <2>5
<1>9. ASSUME e.kind # "connect_failed", NEW r
      PROVE  /\ Failures(s, r) = {} => Failures(s, r)' = {}
             /\ \A i \in 1..Len(m) : Failures(s, r) = {i} => \E j \in 1..k : Failures(s, r)' = {j}
  <2>1. \A i : i \in Failures(s, r)' <=> i \in 1..k /\ n[i].kind = "connect_failed" /\ n[i].d = r
    BY <1>1 DEF Failures
  <2>2. \A i : i \in Failures(s, r) <=> i \in 1..Len(m) /\ m[i].kind = "connect_failed" /\ m[i].d = r
    BY <1>1 DEF Failures
  <2>3. \A i \in 1..k : i \in Failures(s, r)' <=> i + 1 \in Failures(s, r)
    BY SMT, <1>3, <1>4, <2>1, <2>2
  <2>4. Failures(s, r)' \subseteq 1..k BY <2>1
  <2>5. ASSUME NEW i \in 1..Len(m), Failures(s, r) = {i} PROVE \E j \in 1..k : Failures(s, r)' = {j}
    <3>1. i # 1 BY <1>3, <1>9, <2>2, <2>5
    <3>2. i - 1 \in 1..k /\ (i - 1) + 1 = i BY <1>4, <3>1
    <3>3. \A j \in 1..k : j + 1 = i <=> j = i - 1 BY SMT, <3>2
    <3>4. Failures(s, r)' = {i - 1} BY <2>3, <2>4, <2>5, <3>2, <3>3
    <3> QED BY <3>2, <3>4
  <2>6. Failures(s, r) = {} => Failures(s, r)' = {} BY <2>3, <2>4
  <2> QED BY <2>5, <2>6
<1> QED BY <1>1, <1>7, <1>8, <1>9

\* The two ends of a connection.
LEMMA TwoEnds ==
    ASSUME NetOK, NEW c \in Conns, NEW s \in Servers, s \in Ends(c)
    PROVE  /\ link[c].from \in Servers /\ link[c].to \in RemotesOf[link[c].from]
           /\ Other(c, s) \in Servers /\ Other(c, s) \in Ends(c) /\ Other(c, Other(c, s)) = s
<1>1. ~(link[c].from = 0 /\ link[c].to = 0) BY DEF Ends
<1>2. link[c].from \in Servers /\ link[c].to \in RemotesOf[link[c].from] BY <1>1 DEF NetOK
<1>3. link[c].to \in Servers /\ link[c].from # 0 /\ link[c].to # 0 BY <1>2, ServerAssumption
<1> QED BY <1>2, <1>3 DEF Ends, Other

\* The links and the wires, of a step that changes no link
LEMMA NetKept ==
    ASSUME ClusterInv, link' = link, due' \subseteq due, ended' = ended, overtaken \subseteq overtaken'
    PROVE  NetOK' /\ (wire' = wire => WireOK')
<1>1. \A c : Ends(c)' = Ends(c) /\ \A x : Other(c, x)' = Other(c, x) BY DEF Ends, Other
<1>2. NetOK'
  <2>1. due' \cup ended' \subseteq {e \in Conns \X Servers : e[2] \in Ends(e[1])}
    BY DEF ClusterInv, NetOK
  <2>2. due' \cap ended' \subseteq overtaken' BY DEF ClusterInv, NetOK
  <2>3. \A c \in Conns : \/ link'[c].from = 0 /\ link'[c].to = 0
                         \/ link'[c].from \in Servers /\ link'[c].to \in RemotesOf[link'[c].from]
    BY DEF ClusterInv, NetOK
  <2> QED BY <1>1, <2>1, <2>2, <2>3 DEF NetOK
<1>3. wire' = wire => WireOK' BY <1>1 DEF ClusterInv, WireOK
<1> QED BY <1>2, <1>3

\* send_syn_peer_up(): the other end will read the domain of the one that sent.
LEMMA WireSent ==
    ASSUME ClusterInv, NEW c \in Conns, NEW s \in Servers, s \in Ends(c), SendPeerUp(c, s), link' = link
    PROVE  WireOK'
<1>1. \A x : Ends(x)' = Ends(x) /\ \A y : Other(x, y)' = Other(x, y) BY DEF Ends, Other
<1>2. CASE ~link[c].open BY <1>1, <1>2 DEF SendPeerUp, ClusterInv, WireOK
<1>3. CASE link[c].open
  <2>1. PICK o, w : o = Other(c, s) /\ w = wire[c][o] OBVIOUS
  <2>2. o \in Servers /\ o \in Ends(c) /\ Other(c, o) = s BY <2>1, TwoEnds DEF ClusterInv
  <2>3. w \in Seq(Servers) /\ wire \in [Conns -> [Servers -> Seq(Servers)]]
    BY <2>1, <2>2 DEF ClusterInv, WireOK
  <2>4. wire' = [wire EXCEPT ![c] = [wire[c] EXCEPT ![o] = Append(w, s)]]
    BY <1>3, <2>1, <2>2, <2>3 DEF SendPeerUp
  <2>5. /\ Append(w, s) \in Seq(Servers) /\ Len(w) \in Nat /\ Len(Append(w, s)) = Len(w) + 1
        /\ Append(w, s)[Len(w) + 1] = s /\ \A i \in 1..Len(w) : Append(w, s)[i] = w[i]
    BY SMT, <2>3, AppendAt
  <2>6. PICK a : a = Append(w, s) OBVIOUS
  <2>7. /\ wire' \in [Conns -> [Servers -> Seq(Servers)]]
        /\ \A x \in Conns, y \in Servers : wire'[x][y] = IF x = c /\ y = o THEN a ELSE wire[x][y]
    BY <2>2, <2>3, <2>4, <2>5, <2>6
  <2>8. \A x \in Conns, y \in Servers : \A i \in 1..Len(wire[x][y]) :
             y \in Ends(x) /\ wire[x][y][i] = Other(x, y)
    BY DEF ClusterInv, WireOK
  <2>9. \A i \in 1..Len(a) : a[i] = Other(c, o)
    <3>1. \A i \in 1..Len(w) : w[i] = Other(c, o) BY <2>1, <2>2, <2>8
    <3> QED BY SMT, <2>2, <2>5, <2>6, <3>1
  <2>10. ASSUME NEW x \in Conns, NEW y \in Servers, NEW i \in 1..Len(wire'[x][y])
         PROVE  y \in Ends(x) /\ wire'[x][y][i] = Other(x, y)
    <3>1. CASE x = c /\ y = o
      <4>1. wire'[x][y] = a BY <2>7, <3>1
      <4>2. i \in 1..Len(a) /\ wire'[x][y][i] = a[i] BY <2>10, <4>1
      <4> QED BY <2>2, <2>9, <3>1, <4>2
    <3>2. CASE ~(x = c /\ y = o)
      <4>1. wire'[x][y] = wire[x][y] BY <2>7, <3>2
      <4> QED BY <2>8, <2>10, <4>1
    <3> QED BY <3>1, <3>2
  <2> QED BY <1>1, <2>7, <2>10 DEF WireOK
<1> QED BY <1>2, <1>3

\* w is what is left for s to read on connection c
Rewired(c, s, w) == wire' = [wire EXCEPT ![c][s] = w]

\* What is read, or lost, leaves the rest as it was.
LEMMA WireShorter ==
    ASSUME ClusterInv, NEW c \in Conns, NEW s \in Servers, NEW w \in Seq(Servers),
           \A i \in 1..Len(w) : \E j \in 1..Len(wire[c][s]) : w[i] = wire[c][s][j],
           Rewired(c, s, w), link' = link
    PROVE  WireOK'
<1>1. \A x : Ends(x)' = Ends(x) /\ \A y : Other(x, y)' = Other(x, y) BY DEF Ends, Other
<1>2. /\ wire \in [Conns -> [Servers -> Seq(Servers)]]
      /\ \A x \in Conns, y \in Servers : \A i \in 1..Len(wire[x][y]) :
             y \in Ends(x) /\ wire[x][y][i] = Other(x, y)
  BY DEF ClusterInv, WireOK
<1>3. /\ wire' \in [Conns -> [Servers -> Seq(Servers)]]
      /\ \A x \in Conns, y \in Servers : wire'[x][y] = IF x = c /\ y = s THEN w ELSE wire[x][y]
  BY <1>2 DEF Rewired
<1>4. ASSUME NEW x \in Conns, NEW y \in Servers, NEW i \in 1..Len(wire'[x][y])
      PROVE  y \in Ends(x) /\ wire'[x][y][i] = Other(x, y)
  <2>1. CASE x = c /\ y = s
    <3>1. wire'[x][y] = w BY <1>3, <2>1
    <3>2. PICK j \in 1..Len(wire[c][s]) : w[i] = wire[c][s][j] BY <1>4, <3>1
    <3> QED BY <1>2, <2>1, <3>1, <3>2
  <2>2. CASE ~(x = c /\ y = s)
    <3>1. wire'[x][y] = wire[x][y] BY <1>3, <2>2
    <3> QED BY SMT, <1>2, <1>4, <3>1
  <2> QED BY <2>1, <2>2
<1> QED BY <1>1, <1>3, <1>4 DEF WireOK

\* The servers other than the one that acts are as they were, where the step changes no
\* connection.
LEMMA OthersStay ==
    ASSUME ClusterInv, NEW s \in Servers, link' = link, overtaken \subseteq overtaken',
           \A x \in Servers \ {s} : Still(x) /\ \A c \in Conns : <<c, x>> \in ended' <=> <<c, x>> \in ended
    PROVE  \A x \in Servers \ {s} : ServerOK(x)'
<1>1. ASSUME NEW x \in Servers \ {s} PROVE ServerOK(x)'
  <2>1. NetStill(x) BY DEF NetStill, NetGrows, Ends, Other
  <2> QED BY <2>1, Bystander DEF ClusterInv
<1> QED BY <1>1

\* No server is running, and there is no connection.
LEMMA ClusterInit == AInit => ClusterInv
<1> SUFFICES ASSUME AInit PROVE ClusterInv OBVIOUS
<1>1. ClusterTypes
  <2>1. NoLink \in Links BY DEF NoLink, Links
  <2>2. \A s \in Servers : <<>> \in Seq(Events) BY SMT
  <2> QED BY <2>1, <2>2 DEF AInit, ClusterTypes, Zero
<1>2. NetOK BY DEF AInit, NetOK, NoLink
<1>3. WireOK BY SMT DEF AInit, WireOK
<1>4. ASSUME NEW s \in Servers PROVE ServerOK(s)
  <2>1. mail[s] = <<>> /\ peers[s] = <<>> /\ life[s] = "new" BY DEF AInit
  <2>2. MailOK(s) /\ PeersOK(s) BY SMT, <2>1 DEF MailOK, PeersOK
  <2>3. \A c \in Conns : s \notin Ends(c) BY DEF AInit, Ends, NoLink
  <2> QED BY <2>1, <2>2, <2>3 DEF ServerOK
<1> QED BY <1>1, <1>2, <1>3, <1>4 DEF ClusterInv

\* start(): a new process has one connect to each remote, and no connection: those of the
\* process before it have ended.
LEMMA StartKeeps ==
    ASSUME ClusterInv, NEW s \in Servers, Start(s)
    PROVE  ClusterInv'
<1>1. /\ life[s] # "running" /\ link' = link /\ due' = due /\ ended' = ended
      /\ overtaken' = overtaken /\ wire' = wire
  BY DEF Start, netvars
<1>2. /\ life'[s] = "running" /\ peers'[s] = <<>> /\ mail'[s] = <<>>
      /\ \A r \in RemotesOf[s] : timers'[s][r] = 0 /\ dialing'[s][r] = 1
  BY DEF Start, Zero, ClusterInv, ClusterTypes
<1>3. \A x \in Servers \ {s} : Still(x) BY DEF Start, Still, ClusterInv, ClusterTypes
<1>4. ClusterTypes' BY SMT, <1>1 DEF Start, Zero, ClusterInv, ClusterTypes
<1>5. NetOK' /\ WireOK' BY <1>1, NetKept
<1>6. \A x \in Servers \ {s} : ServerOK(x)' BY <1>1, <1>3, OthersStay
<1>7. ServerOK(s)'
  <2>1. MailOK(s)' /\ PeersOK(s)' BY SMT, <1>2 DEF MailOK, PeersOK
  <2>2. ASSUME NEW r \in RemotesOf[s] PROVE OneWay(s, r)'
    <3>1. \A c \in Conns : ~Lost(c, s)' BY SMT, <1>2 DEF Lost
    <3>2. \A c \in Conns : link[c].from = s => <<c, s>> \in ended
      BY <1>1, ServerAssumption DEF ClusterInv, ServerOK, Ends
    <3>3. HeldTo(s, r)' = {} BY <1>1, <3>1, <3>2 DEF HeldTo
    <3>4. Failures(s, r)' = {} BY SMT, <1>2 DEF Failures
    <3> QED BY <1>2, <3>3, <3>4 DEF OneWay
  <2> QED BY <1>2, <2>1, <2>2 DEF ServerOK
<1> QED BY <1>4, <1>5, <1>6, <1>7 DEF ClusterInv

\* The end of a process: its connections end with it, and the others are told.
LEMMA StoppedKeeps ==
    ASSUME ClusterInv, NEW s \in Servers, NEW how \in {"finished", "crashed"}, Stopped(s, how),
           \A x \in Servers \ {s} :
               peers'[x] = peers[x] /\ timers'[x] = timers[x] /\ dialing'[x] = dialing[x],
           peers'[s] = peers[s] \/ peers'[s] = <<>>,
           DOMAIN peers' = Servers,
           DOMAIN timers' = Servers, \A x \in Servers : DOMAIN timers'[x] = RemotesOf[x],
           DOMAIN dialing' = Servers, \A x \in Servers : DOMAIN dialing'[x] = RemotesOf[x]
    PROVE  ClusterInv'
<1>1. /\ life'[s] = how /\ mail'[s] = <<>> /\ overtaken' = overtaken
      /\ \A x \in Servers \ {s} : life'[x] = life[x] /\ mail'[x] = mail[x]
  BY DEF Stopped, ClusterInv, ClusterTypes
<1>2. \A c \in Conns : link'[c] \in Links /\ link'[c].from = link[c].from /\ link'[c].to = link[c].to
  <2>1. SUFFICES ASSUME NEW c \in Conns
                 PROVE  /\ link'[c] \in Links
                        /\ link'[c].from = link[c].from /\ link'[c].to = link[c].to
    OBVIOUS
  <2>2. PICK l, b : l = link[c] /\ b = (l.open /\ s \notin Ends(c)) OBVIOUS
  <2>3. b \in BOOLEAN BY <2>2
  <2>4. link'[c] = [l EXCEPT !.open = b] BY <2>2 DEF Stopped
  <2>5. l \in Links BY <2>2 DEF ClusterInv, ClusterTypes
  <2> QED BY <2>2, <2>3, <2>4, <2>5 DEF Links
<1>3. \A c \in Conns : Ends(c)' = Ends(c) /\ \A x : Other(c, x)' = Other(c, x)
  BY <1>2 DEF Ends, Other
<1>4. /\ due' = {e \in due : e[2] # s}
      /\ ended' = ended \cup {<<c, s>> : c \in {x \in Conns : s \in Ends(x)}}
  BY DEF Stopped
<1>5. ClusterTypes'
  <2>1. link' \in [Conns -> Links] BY <1>2 DEF Stopped
  <2>2. life' \in [Servers -> {"new", "running", "finished", "crashed"}] /\ mail' \in [Servers -> Seq(Events)]
    BY SMT DEF Stopped, ClusterInv, ClusterTypes
  <2> QED BY <2>1, <2>2 DEF ClusterTypes
<1>6. NetOK'
  <2>1. due \cup ended \subseteq {e \in Conns \X Servers : e[2] \in Ends(e[1])} /\ due \cap ended \subseteq overtaken
    BY DEF ClusterInv, NetOK
  <2>2. due' \cup ended' \subseteq {e \in Conns \X Servers : e[2] \in Ends(e[1])} BY SMT, <1>4, <2>1
  <2>3. {e \in Conns \X Servers : e[2] \in Ends(e[1])} = {e \in Conns \X Servers : e[2] \in Ends(e[1])'}
    BY <1>3
  <2>4. due' \cap ended' \subseteq overtaken' BY SMT, <1>1, <1>4, <2>1
  <2>5. \A c \in Conns : \/ link'[c].from = 0 /\ link'[c].to = 0
                         \/ link'[c].from \in Servers /\ link'[c].to \in RemotesOf[link'[c].from]
    BY <1>2 DEF ClusterInv, NetOK
  <2> QED BY <2>2, <2>3, <2>4, <2>5 DEF NetOK
<1>7. WireOK'
  <2>1. wire' = [c \in Conns |-> [wire[c] EXCEPT ![s] = <<>>]] BY DEF Stopped
  <2>2. wire \in [Conns -> [Servers -> Seq(Servers)]] BY DEF ClusterInv, WireOK
  <2>3. /\ wire' \in [Conns -> [Servers -> Seq(Servers)]]
        /\ \A c \in Conns, x \in Servers : wire'[c][x] = IF x = s THEN <<>> ELSE wire[c][x]
    BY SMT, <2>1, <2>2
  <2> QED BY SMT, <1>3, <2>3 DEF ClusterInv, WireOK
<1>8. ASSUME NEW x \in Servers \ {s} PROVE ServerOK(x)'
  <2>1. Still(x) BY <1>1 DEF Still
  <2>2. \A c \in Conns : <<c, x>> \in ended' <=> <<c, x>> \in ended BY <1>4
  <2>3. NetStill(x) BY <1>1, <1>2, <1>3, <2>2 DEF NetStill, NetGrows
  <2> QED BY <2>1, <2>3, Bystander DEF ClusterInv
<1>9. ServerOK(s)'
  <2>1. MailOK(s)'
    <3>1. mail'[s] = <<>> BY <1>1
    <3>2. 1..Len(mail'[s]) = {} BY SMT, <3>1
    <3> QED BY <3>2 DEF MailOK
  <2>2. PeersOK(s)'
    <3>1. PeersOK(s) BY DEF ClusterInv, ServerOK
    <3>2. life'[s] # "running" /\ (peers'[s] = peers[s] \/ peers'[s] = <<>>) BY <1>1
    <3>3. ASSUME NEW c \in DOMAIN peers'[s]
          PROVE  c \in Conns /\ s \in Ends(c)' /\ peers'[s][c] \in {Unknown, Other(c, s)'}
      <4>1. peers'[s] = peers[s] BY SMT, <3>2, <3>3
      <4>2. c \in DOMAIN peers[s] BY <3>3, <4>1
      <4>3. c \in Conns /\ s \in Ends(c) /\ peers[s][c] \in {Unknown, Other(c, s)}
        BY <3>1, <4>2 DEF PeersOK
      <4> QED BY <1>3, <4>1, <4>3
    <3> QED BY <3>2, <3>3 DEF PeersOK
  <2>3. \A c \in Conns : s \in Ends(c)' => <<c, s>> \in ended' BY <1>3, <1>4
  <2> QED BY <1>1, <2>1, <2>2, <2>3 DEF ServerOK
<1> QED BY <1>5, <1>6, <1>7, <1>8, <1>9 DEF ClusterInv

\* finish(), and the crash in on_connect_failed()
LEMMA FinishKeeps ==
    ASSUME ClusterInv, NEW s \in Servers, Finish(s) \/ OnConnectFailed(s)
    PROVE  ClusterInv'
<1>1. CASE Finish(s)
  <2>1. /\ peers' = [peers EXCEPT ![s] = <<>>] /\ timers' = [timers EXCEPT ![s] = Zero(s)]
        /\ dialing' = [dialing EXCEPT ![s] = Zero(s)] /\ Stopped(s, "finished")
    BY <1>1 DEF Finish
  <2>2. /\ DOMAIN peers = Servers /\ DOMAIN timers = Servers /\ DOMAIN dialing = Servers
        /\ \A x \in Servers : DOMAIN timers[x] = RemotesOf[x] /\ DOMAIN dialing[x] = RemotesOf[x]
    BY DEF ClusterInv, ClusterTypes
  <2>3. DOMAIN Zero(s) = RemotesOf[s] BY DEF Zero
  <2> HIDE DEF Zero
  <2>4. /\ peers'[s] = <<>> /\ DOMAIN peers' = Servers /\ DOMAIN timers' = Servers /\ DOMAIN dialing' = Servers
        /\ \A x \in Servers : DOMAIN timers'[x] = RemotesOf[x] /\ DOMAIN dialing'[x] = RemotesOf[x]
        /\ \A x \in Servers \ {s} :
               peers'[x] = peers[x] /\ timers'[x] = timers[x] /\ dialing'[x] = dialing[x]
    BY <2>1, <2>2, <2>3
  <2> QED BY <2>1, <2>4, StoppedKeeps
<1>2. CASE OnConnectFailed(s)
  <2>1. Stopped(s, "crashed") /\ peers' = peers /\ timers' = timers /\ dialing' = dialing
    BY <1>2 DEF OnConnectFailed
  <2> QED BY <2>1, StoppedKeeps DEF ClusterInv, ClusterTypes
<1> QED BY <1>1, <1>2

\* A server publishes an event to itself, other than that a connect failed: its ways to
\* the remotes are the same.
LEMMA PublishKeeps ==
    ASSUME ClusterInv, NEW s \in Servers, NEW e \in Events, mail' = [mail EXCEPT ![s] = Append(@, e)],
           UNCHANGED <<life, peers, timers, dialing, link>>, overtaken \subseteq overtaken',
           \A c \in Conns, x \in Servers : <<c, x>> \in ended' <=>
               <<c, x>> \in ended \/ (e.kind = "disconnected" /\ c = e.c /\ x = s),
           e.kind # "connect_failed", e.c \in Conns, s \in Ends(e.c),
           e.kind = "peer_up" => e.d = Other(e.c, s),
           e.kind = "disconnected" => <<e.c, s>> \notin ended,
           e.kind \in {"connected", "accepted"} => <<e.c, s>> \notin ended \/ <<e.c, s>> \in overtaken
    PROVE  ClusterTypes' /\ \A x \in Servers : ServerOK(x)'
<1>1. mail \in [Servers -> Seq(Events)] BY DEF ClusterInv, ClusterTypes
<1>2. mail'[s] = Append(mail[s], e) /\ \A x \in Servers \ {s} : mail'[x] = mail[x] BY <1>1
<1>3. mail' \in [Servers -> Seq(Events)]
  <2>1. Append(mail[s], e) \in Seq(Events) BY <1>1, AppendAt
  <2> QED BY <1>1, <2>1
<1>4. ClusterTypes' BY <1>3 DEF ClusterInv, ClusterTypes
<1>5. \A x \in Servers \ {s} : ServerOK(x)'
  <2>1. \A x \in Servers \ {s} : Still(x) BY <1>2 DEF Still
  <2> QED BY SMT, <2>1, OthersStay
<1>0. Posting(s, e) BY <1>2 DEF Posting
<1>61. ClusterTypes /\ MailOK(s) BY DEF ClusterInv, ServerOK
<1>62. Posted(s, e) BY <1>0, <1>61, Published
<1>6. /\ MailOK(s)'
      /\ \A c \in Conns : Lost(c, s)' <=> Lost(c, s) \/ (e.kind = "disconnected" /\ c = e.c)
      /\ \A r : Failures(s, r)' = Failures(s, r)
      /\ Len(mail[s]) \in Nat /\ Len(mail'[s]) = Len(mail[s]) + 1
  BY <1>62 DEF Posted
<1>7. \A c : Ends(c)' = Ends(c) /\ \A x : Other(c, x)' = Other(c, x) BY DEF Ends, Other
<1>8. \A c \in Conns : <<c, s>> \notin ended' \/ Lost(c, s)' <=> <<c, s>> \notin ended \/ Lost(c, s)
  BY <1>6
<1>9. ServerOK(s) BY DEF ClusterInv
<1>10. PeersOK(s)' BY <1>7, <1>8, <1>9 DEF ServerOK, PeersOK
<1>11. ASSUME life[s] = "running", NEW r \in RemotesOf[s] PROVE OneWay(s, r)'
  <2>1. HeldTo(s, r)' = HeldTo(s, r) BY <1>8 DEF HeldTo
  <2>2. OneWay(s, r) BY <1>9, <1>11 DEF ServerOK
  <2>3. PICK k, l : k = Len(mail[s]) /\ l = Len(mail'[s]) OBVIOUS
  <2>4. k \in Nat /\ l = k + 1 BY <1>6, <2>3
  <2>5. \A i \in 1..k : i \in 1..l BY SMT, <2>4
  <2>6. SameWay(s, r) BY <1>6, <2>1, <2>3, <2>5 DEF SameWay
  <2> QED BY <2>2, <2>6, WayKept
<1>12. ServerOK(s)' BY <1>6, <1>7, <1>9, <1>10, <1>11 DEF ServerOK
<1> QED BY <1>4, <1>5, <1>12

\* The end of on_new_socket
LEMMA NotifyNewKeeps ==
    ASSUME ClusterInv, NEW c \in Conns, NEW s \in Servers, NotifyNew(c, s)
    PROVE  ClusterInv'
<1>1. PICK e : e = Event(IF link[c].from = s THEN "connected" ELSE "accepted", c, Unknown) OBVIOUS
<1>2. /\ <<c, s>> \in due /\ due' \subseteq due /\ mail' = [mail EXCEPT ![s] = Append(@, e)]
      /\ UNCHANGED <<life, peers, timers, dialing, link>>
      /\ ended' = ended /\ overtaken' = overtaken /\ wire' = wire
  BY <1>1 DEF NotifyNew, Publish
<1>3. e \in Events /\ e.kind \in {"connected", "accepted"} /\ e.c = c
  BY <1>1 DEF Events, Event, Kinds, Unknown
<1>4. s \in Ends(c) /\ (<<c, s>> \notin ended \/ <<c, s>> \in overtaken)
  BY <1>2 DEF ClusterInv, NetOK
<1>5. NetOK' /\ WireOK' BY <1>2, NetKept
<1>6. ClusterTypes' /\ \A x \in Servers : ServerOK(x)' BY <1>2, <1>3, <1>4, PublishKeeps
<1> QED BY <1>5, <1>6 DEF ClusterInv

\* A greeting is received.
LEMMA ReceiveKeeps ==
    ASSUME ClusterInv, NEW c \in Conns, NEW s \in Servers, Receive(c, s)
    PROVE  ClusterInv'
<1>1. PICK w, e : w = wire[c][s] /\ e = Event("peer_up", c, Head(w)) OBVIOUS
<1>2. /\ w # <<>> /\ mail' = [mail EXCEPT ![s] = Append(@, e)]
      /\ wire' = [wire EXCEPT ![c][s] = Tail(w)]
      /\ UNCHANGED <<life, peers, timers, dialing, link>>
      /\ due' = due /\ ended' = ended /\ overtaken \subseteq overtaken'
  BY <1>1 DEF Receive, Publish, Overtakes
<1>3. w \in Seq(Servers) /\ \A i \in 1..Len(w) : s \in Ends(c) /\ w[i] = Other(c, s)
  BY <1>1 DEF ClusterInv, WireOK
<1>4. /\ Tail(w) \in Seq(Servers) /\ Len(w) \in Nat /\ Len(w) >= 1 /\ Len(Tail(w)) = Len(w) - 1
      /\ Head(w) = w[1] /\ Head(w) \in Servers /\ \A i \in 1..(Len(w) - 1) : Tail(w)[i] = w[i + 1]
  BY <1>2, <1>3, TailAt
<1>5. s \in Ends(c) /\ Head(w) = Other(c, s) BY SMT, <1>3, <1>4
<1>6. e \in Events /\ e.kind = "peer_up" /\ e.c = c /\ e.d = Head(w)
  BY <1>1, <1>4 DEF Events, Event, Kinds
<1>7. NetOK' BY <1>2, NetKept
<1>8. WireOK'
  <2>1. PICK v : v = Tail(w) OBVIOUS
  <2>2. \A i \in 1..Len(v) : \E j \in 1..Len(w) : v[i] = w[j]
    <3>1. SUFFICES ASSUME NEW i \in 1..Len(v) PROVE \E j \in 1..Len(w) : v[i] = w[j] OBVIOUS
    <3>2. i + 1 \in 1..Len(w) /\ v[i] = w[i + 1] BY SMT, <1>4, <2>1
    <3> QED BY <3>2
  <2>3. v \in Seq(Servers) /\ Rewired(c, s, v) /\ link' = link BY <1>2, <1>4, <2>1 DEF Rewired
  <2> QED BY <1>1, <2>2, <2>3, WireShorter
<1>9. ClusterTypes' /\ \A x \in Servers : ServerOK(x)' BY <1>2, <1>5, <1>6, PublishKeeps
<1> QED BY <1>7, <1>8, <1>9 DEF ClusterInv

\* on_error() of the node: the end of the connection is published.
LEMMA NotifyDisconnectKeeps ==
    ASSUME ClusterInv, NEW c \in Conns, NEW s \in Servers, NotifyDisconnect(c, s)
    PROVE  ClusterInv'
<1>1. PICK e : e = Event("disconnected", c, Unknown) OBVIOUS
<1>2. /\ s \in Ends(c) /\ <<c, s>> \notin ended /\ mail' = [mail EXCEPT ![s] = Append(@, e)]
      /\ ended' = ended \cup {<<c, s>>} /\ wire' = [wire EXCEPT ![c][s] = <<>>]
      /\ UNCHANGED <<life, peers, timers, dialing, link>> /\ due' = due
      /\ overtaken \subseteq overtaken' /\ (<<c, s>> \in due => <<c, s>> \in overtaken')
  BY <1>1 DEF NotifyDisconnect, Publish, Overtakes
<1>3. e \in Events /\ e.kind = "disconnected" /\ e.c = c BY <1>1 DEF Events, Event, Kinds, Unknown
<1>4. \A x : Ends(x)' = Ends(x) /\ \A y : Other(x, y)' = Other(x, y) BY <1>2 DEF Ends, Other
<1>5. NetOK'
  <2>1. due \cup ended \subseteq {p \in Conns \X Servers : p[2] \in Ends(p[1])} /\ due \cap ended \subseteq overtaken
    BY DEF ClusterInv, NetOK
  <2>2. due' \cup ended' \subseteq {p \in Conns \X Servers : p[2] \in Ends(p[1])} BY SMT, <1>2, <2>1
  <2>3. due' \cap ended' \subseteq overtaken' BY <1>2, <2>1
  <2>4. \A x \in Conns : \/ link'[x].from = 0 /\ link'[x].to = 0
                         \/ link'[x].from \in Servers /\ link'[x].to \in RemotesOf[link'[x].from]
    BY <1>2 DEF ClusterInv, NetOK
  <2> QED BY <1>4, <2>2, <2>3, <2>4 DEF NetOK
<1>6. WireOK'
  <2>1. PICK v : v = <<>> OBVIOUS
  <2>2. \A i \in 1..Len(v) : \E j \in 1..Len(wire[c][s]) : v[i] = wire[c][s][j] BY SMT, <2>1
  <2>3. v \in Seq(Servers) /\ Rewired(c, s, v) /\ link' = link BY SMT, <1>2, <2>1 DEF Rewired
  <2> QED BY <2>2, <2>3, WireShorter
<1>7. \A x \in Conns, y \in Servers : <<x, y>> \in ended' <=>
          <<x, y>> \in ended \/ (e.kind = "disconnected" /\ x = e.c /\ y = s)
  BY <1>2, <1>3
<1>8. ClusterTypes' /\ \A x \in Servers : ServerOK(x)' BY <1>2, <1>3, <1>7, PublishKeeps
<1> QED BY <1>5, <1>6, <1>8 DEF ClusterInv

\* A connection is cut.
LEMMA CutKeeps ==
    ASSUME ClusterInv, NEW c \in Conns, Cut(c)
    PROVE  ClusterInv'
<1>1. /\ link' = [link EXCEPT ![c].open = FALSE]
      /\ UNCHANGED <<life, peers, timers, dialing, mail, due, ended, wire, overtaken>>
  BY DEF Cut
<1>2. link' \in [Conns -> Links] /\ \A x \in Conns : link'[x].from = link[x].from /\ link'[x].to = link[x].to
  <2>1. link \in [Conns -> Links] BY DEF ClusterInv, ClusterTypes
  <2>2. PICK l : l = [link[c] EXCEPT !.open = FALSE] OBVIOUS
  <2>3. l \in Links /\ l.from = link[c].from /\ l.to = link[c].to BY <2>1, <2>2 DEF Links
  <2>4. link' = [link EXCEPT ![c] = l] BY <1>1, <2>2
  <2> QED BY <2>1, <2>3, <2>4
<1>3. \A x \in Conns : Ends(x)' = Ends(x) /\ \A y : Other(x, y)' = Other(x, y)
  BY <1>2 DEF Ends, Other
<1>4. ClusterTypes' BY <1>1, <1>2 DEF ClusterInv, ClusterTypes
<1>5. NetOK'
  <2>1. due \cup ended \subseteq {p \in Conns \X Servers : p[2] \in Ends(p[1])} /\ due \cap ended \subseteq overtaken
    BY DEF ClusterInv, NetOK
  <2>2. due' \cup ended' \subseteq {p \in Conns \X Servers : p[2] \in Ends(p[1])'} BY <1>1, <1>3, <2>1
  <2>3. \A x \in Conns : \/ link'[x].from = 0 /\ link'[x].to = 0
                         \/ link'[x].from \in Servers /\ link'[x].to \in RemotesOf[link'[x].from]
    BY <1>2 DEF ClusterInv, NetOK
  <2> QED BY <1>1, <2>1, <2>2, <2>3 DEF NetOK
<1>6. WireOK' BY <1>1, <1>3 DEF ClusterInv, WireOK
<1>7. ASSUME NEW x \in Servers PROVE ServerOK(x)'
  <2>1. Still(x) /\ NetStill(x) BY <1>1, <1>2, <1>3 DEF Still, NetStill, NetGrows
  <2> QED BY <2>1, Bystander DEF ClusterInv
<1> QED BY <1>4, <1>5, <1>6, <1>7 DEF ClusterInv

\* The node has failed to connect: the way to r is the failure.
LEMMA DialFails ==
    ASSUME ClusterInv, NEW s \in Servers, NEW r \in RemotesOf[s], life[s] = "running", dialing[s][r] > 0,
           dialing' = [dialing EXCEPT ![s][r] = @ - 1],
           Publish(s, Event("connect_failed", 0, r)),
           UNCHANGED <<link, due, life, peers, timers, ended, wire, overtaken>>
    PROVE  ClusterInv'
<1>1. PICK e : e = Event("connect_failed", 0, r) OBVIOUS
<1>2. e \in Events /\ e.kind = "connect_failed" /\ e.d = r
  <2>1. r \in Servers BY ServerAssumption
  <2> QED BY <1>1, <2>1 DEF Events, Event, Kinds
<1>3. mail \in [Servers -> Seq(Events)] BY DEF ClusterInv, ClusterTypes
<1>4. mail' = [mail EXCEPT ![s] = Append(@, e)] BY <1>1 DEF Publish
<1>5. mail'[s] = Append(mail[s], e) /\ \A x \in Servers \ {s} : mail'[x] = mail[x] BY <1>3, <1>4
<1>6. /\ DOMAIN dialing' = Servers /\ \A x \in Servers : DOMAIN dialing'[x] = RemotesOf[x]
      /\ \A x \in Servers \ {s} : dialing'[x] = dialing[x]
      /\ dialing'[s][r] = dialing[s][r] - 1 /\ \A q \in RemotesOf[s] : q # r => dialing'[s][q] = dialing[s][q]
  BY DEF ClusterInv, ClusterTypes
<1>7. ClusterTypes'
  <2>1. Append(mail[s], e) \in Seq(Events) BY <1>2, <1>3, AppendAt
  <2>2. mail' \in [Servers -> Seq(Events)] BY <1>3, <1>4, <2>1
  <2> QED BY <1>6, <2>2 DEF ClusterInv, ClusterTypes
<1>8. NetOK' /\ WireOK' BY NetKept
<1>9. \A x \in Servers \ {s} : ServerOK(x)'
  <2>1. \A x \in Servers \ {s} : Still(x) BY <1>5, <1>6 DEF Still
  <2> QED BY <2>1, OthersStay
<1>10. /\ MailOK(s)' /\ \A c \in Conns : Lost(c, s)' <=> Lost(c, s)
       /\ \A q : Failures(s, q)' = IF q = r THEN Failures(s, q) \cup {Len(mail[s]) + 1} ELSE Failures(s, q)
       /\ Len(mail[s]) \in Nat /\ Len(mail'[s]) = Len(mail[s]) + 1
  <2>1. Posting(s, e) BY <1>2, <1>5 DEF Posting
  <2>2. ClusterTypes /\ MailOK(s) BY DEF ClusterInv, ServerOK
  <2>3. Posted(s, e) BY <2>1, <2>2, Published
  <2> QED BY <1>2, <1>5, <2>3 DEF Posted
<1>11. \A c : Ends(c)' = Ends(c) /\ \A x : Other(c, x)' = Other(c, x) BY DEF Ends, Other
<1>12. ServerOK(s) BY DEF ClusterInv
<1>13. PeersOK(s)' BY <1>10, <1>11, <1>12 DEF ServerOK, PeersOK
<1>14. ASSUME NEW q \in RemotesOf[s] PROVE OneWay(s, q)'
  <2>1. HeldTo(s, q)' = HeldTo(s, q) BY <1>10 DEF HeldTo
  <2>2. OneWay(s, q) BY <1>12 DEF ServerOK
  <2>3. CASE q # r
    <3>1. Failures(s, q)' = Failures(s, q) BY <1>10, <2>3
    <3>2. PICK k, l : k = Len(mail[s]) /\ l = Len(mail'[s]) OBVIOUS
    <3>3. k \in Nat /\ l = k + 1 BY <1>10, <3>2
    <3>4. \A i \in 1..k : i \in 1..l BY SMT, <3>3
    <3>5. dialing'[s][q] = dialing[s][q] BY <1>6, <2>3
    <3>6. SameWay(s, q) BY <2>1, <3>1, <3>2, <3>4, <3>5 DEF SameWay
    <3> QED BY <2>2, <3>6, WayKept
  <2>4. CASE q = r
    <3>1. timers[s][q] = 0 /\ dialing[s][q] = 1 /\ HeldTo(s, q) = {} /\ Failures(s, q) = {}
      BY SMT, <2>2, <2>4 DEF OneWay
    <3>2. Failures(s, q)' = {Len(mail'[s])} /\ Len(mail'[s]) \in 1..Len(mail'[s])
      BY SMT, <1>10, <2>4, <3>1
    <3> QED BY SMT, <1>6, <2>1, <2>4, <3>1, <3>2 DEF OneWay
  <2> QED BY <2>3, <2>4
<1>15. ServerOK(s)' BY <1>10, <1>13, <1>14 DEF ServerOK
<1> QED BY <1>7, <1>8, <1>9, <1>15 DEF ClusterInv

\* The node has connected: the way to r is the connection.
LEMMA DialConnects ==
    ASSUME ClusterInv, NEW s \in Servers, NEW r \in RemotesOf[s], life[s] = "running", life[r] = "running",
           dialing[s][r] > 0, dialing' = [dialing EXCEPT ![s][r] = @ - 1],
           NEW c \in Conns, link[c] = NoLink,
           link' = [link EXCEPT ![c] = [from |-> s, to |-> r, open |-> TRUE]],
           due' = due \cup {<<c, s>>, <<c, r>>},
           UNCHANGED <<mail, life, peers, timers, ended, wire, overtaken>>
    PROVE  ClusterInv'
<1>1. r \in Servers /\ s # 0 /\ r # 0 BY ServerAssumption
<1>2. /\ DOMAIN dialing' = Servers /\ \A x \in Servers : DOMAIN dialing'[x] = RemotesOf[x]
      /\ \A x \in Servers \ {s} : dialing'[x] = dialing[x]
      /\ dialing'[s][r] = dialing[s][r] - 1 /\ \A q \in RemotesOf[s] : q # r => dialing'[s][q] = dialing[s][q]
  BY DEF ClusterInv, ClusterTypes
<1>3. /\ link' \in [Conns -> Links] /\ link'[c].from = s /\ link'[c].to = r
      /\ link[c].from = 0 /\ link[c].to = 0 /\ \A x \in Conns \ {c} : link'[x] = link[x]
  <2>1. link \in [Conns -> Links] BY DEF ClusterInv, ClusterTypes
  <2>2. PICK l : l = [from |-> s, to |-> r, open |-> TRUE] OBVIOUS
  <2>3. l \in Links /\ l.from = s /\ l.to = r BY <1>1, <2>2 DEF Links
  <2>4. link' = [link EXCEPT ![c] = l] BY <2>2
  <2>5. link[c].from = 0 /\ link[c].to = 0 BY SMT DEF NoLink
  <2> QED BY <2>1, <2>3, <2>4, <2>5
<1>4. /\ \A x \in Conns \ {c} : Ends(x)' = Ends(x) /\ \A y : Other(x, y)' = Other(x, y)
      /\ Ends(c) = {} /\ Ends(c)' = {s, r}
  BY <1>1, <1>3 DEF Ends, Other
<1>5. ClusterTypes' BY <1>2, <1>3 DEF ClusterInv, ClusterTypes
<1>6. \A x \in Servers : <<c, x>> \notin ended BY <1>4 DEF ClusterInv, NetOK
<1>7. NetOK'
  <2>1. due \cup ended \subseteq {p \in Conns \X Servers : p[2] \in Ends(p[1])} /\ due \cap ended \subseteq overtaken
    BY DEF ClusterInv, NetOK
  <2>2. due' \cup ended' \subseteq {p \in Conns \X Servers : p[2] \in Ends(p[1])'}
    BY SMT, <1>1, <1>4, <2>1
  <2>3. due' \cap ended' \subseteq overtaken' BY <1>1, <1>6, <2>1
  <2>4. \A x \in Conns : \/ link'[x].from = 0 /\ link'[x].to = 0
                         \/ link'[x].from \in Servers /\ link'[x].to \in RemotesOf[link'[x].from]
    BY <1>3 DEF ClusterInv, NetOK
  <2> QED BY <2>2, <2>3, <2>4 DEF NetOK
<1>8. WireOK'
  <2>1. /\ wire \in [Conns -> [Servers -> Seq(Servers)]]
        /\ \A x \in Conns, y \in Servers : \A i \in 1..Len(wire[x][y]) :
               y \in Ends(x) /\ wire[x][y][i] = Other(x, y)
    BY DEF ClusterInv, WireOK
  <2>2. \A x \in Conns, y \in Servers : \A i \in 1..Len(wire[x][y]) : x # c BY <1>4, <2>1
  <2>3. \A x \in Conns, y \in Servers : \A i \in 1..Len(wire[x][y]) :
            y \in Ends(x)' /\ wire[x][y][i] = Other(x, y)'
    BY SMT, <1>4, <2>1, <2>2
  <2> QED BY <2>1, <2>3 DEF WireOK
<1>9. ASSUME NEW x \in Servers PROVE NetGrows(x) BY <1>4 DEF NetGrows
<1>10. ASSUME NEW x \in Servers \ {s} PROVE ServerOK(x)'
  <2>1. Still(x) BY <1>2 DEF Still
  <2>2. x # 0 BY ServerAssumption
  <2>3. NetStill(x) BY <1>3, <1>4, <1>9, <2>2 DEF NetStill
  <2> QED BY <2>1, <2>3, Bystander DEF ClusterInv
<1>11. ServerOK(s) BY DEF ClusterInv
<1>12. MailOK(s)' /\ PeersOK(s)' /\ \A x \in Conns : Lost(x, s)' <=> Lost(x, s)
  BY <1>9, <1>11, MailStays
<1>13. ASSUME NEW q \in RemotesOf[s] PROVE OneWay(s, q)'
  <2>1. HeldTo(s, q)' = IF q = r THEN HeldTo(s, q) \cup {c} ELSE HeldTo(s, q)
    <3>1. \A x : x \in HeldTo(s, q)' <=> x \in Conns /\ link'[x].from = s /\ link'[x].to = q
                                         /\ (<<x, s>> \notin ended \/ Lost(x, s))
      BY <1>12 DEF HeldTo
    <3>2. \A x : x \in HeldTo(s, q) <=> x \in Conns /\ link[x].from = s /\ link[x].to = q
                                        /\ (<<x, s>> \notin ended \/ Lost(x, s))
      BY DEF HeldTo
    <3>3. \A x \in Conns \ {c} : x \in HeldTo(s, q)' <=> x \in HeldTo(s, q) BY <1>3, <3>1, <3>2
    <3>4. c \in HeldTo(s, q)' <=> q = r BY <1>3, <1>6, <3>1
    <3>5. c \notin HeldTo(s, q) BY <1>1, <1>3, <3>2
    <3>6. HeldTo(s, q)' \subseteq Conns /\ HeldTo(s, q) \subseteq Conns BY <3>1, <3>2
    <3>7. PICK F, G : F = HeldTo(s, q) /\ G = HeldTo(s, q)' OBVIOUS
    <3>8. CASE q = r
      <4>1. G = F \cup {c} BY <3>3, <3>4, <3>6, <3>7, <3>8
      <4> QED BY <3>7, <3>8, <4>1
    <3>9. CASE q # r
      <4>1. c \notin G /\ c \notin F BY <3>4, <3>5, <3>7, <3>9
      <4>2. \A x \in Conns : x \in G <=> x \in F BY <3>3, <3>7, <4>1
      <4>3. G \subseteq Conns /\ F \subseteq Conns BY <3>6, <3>7
      <4>4. G = F BY <4>2, <4>3
      <4> QED BY <3>7, <3>9, <4>4
    <3> QED BY <3>8, <3>9
  <2>2. OneWay(s, q) BY <1>11 DEF ServerOK
  <2>3. Failures(s, q)' = Failures(s, q) BY DEF Failures
  <2>4. CASE q # r
    <3>1. dialing'[s][q] = dialing[s][q] /\ HeldTo(s, q)' = HeldTo(s, q) BY <1>2, <2>1, <2>4
    <3>2. SameWay(s, q) BY <2>3, <3>1 DEF SameWay
    <3> QED BY <2>2, <3>2, WayKept
  <2>5. CASE q = r
    <3>1. timers[s][q] = 0 /\ dialing[s][q] = 1 /\ HeldTo(s, q) = {} /\ Failures(s, q) = {}
      BY SMT, <2>2, <2>5 DEF OneWay
    <3>2. HeldTo(s, q)' = {c} BY <2>1, <2>5, <3>1
    <3> QED BY SMT, <1>2, <2>3, <2>5, <3>1, <3>2 DEF OneWay
  <2> QED BY <2>4, <2>5
<1>14. ServerOK(s)' BY <1>12, <1>13 DEF ServerOK
<1> QED BY <1>5, <1>7, <1>8, <1>10, <1>14 DEF ClusterInv

\* A handler of s has been given event e.
Taking(s, e) ==
    /\ life[s] = "running" /\ mail[s] # <<>> /\ e = Head(mail[s]) /\ e.kind # "connect_failed"
    /\ mail' = [mail EXCEPT ![s] = Tail(@)]
    /\ life' = life /\ dialing' = dialing
    /\ link' = link /\ due' = due /\ ended' = ended /\ overtaken' = overtaken
    /\ \A x \in Servers \ {s} : peers'[x] = peers[x] /\ timers'[x] = timers[x]

\* What the handler may rely on, and what it leaves as it was
Took(s, e) ==
    /\ mail' \in [Servers -> Seq(Events)] /\ MailOK(s)'
    /\ e.c \in Conns /\ s \in Ends(e.c)
    /\ e.kind = "peer_up" => e.d = Other(e.c, s)
    /\ e.kind = "disconnected" => <<e.c, s>> \in ended /\ Lost(e.c, s)
    /\ e.kind \in {"connected", "accepted"} =>
         <<e.c, s>> \notin ended \/ Lost(e.c, s) \/ <<e.c, s>> \in overtaken
    /\ \A c \in Conns : Lost(c, s)' <=> Lost(c, s) /\ ~(e.kind = "disconnected" /\ c = e.c)
    /\ \A r : /\ Failures(s, r) = {} => Failures(s, r)' = {}
              /\ \A i \in 1..Len(mail[s]) : Failures(s, r) = {i} =>
                   \E j \in 1..Len(mail'[s]) : Failures(s, r)' = {j}
    /\ NetOK'
    /\ \A x \in Servers \ {s} : ServerOK(x)'

\* What every handler has in common
LEMMA HandlerTakes ==
    ASSUME ClusterInv, NEW s \in Servers, NEW e, Taking(s, e)
    PROVE  Took(s, e)
<1>1. /\ life[s] = "running" /\ mail[s] # <<>> /\ e = Head(mail[s]) /\ e.kind # "connect_failed"
      /\ mail' = [mail EXCEPT ![s] = Tail(@)] /\ life' = life /\ dialing' = dialing
      /\ link' = link /\ due' = due /\ ended' = ended /\ overtaken' = overtaken
      /\ \A x \in Servers \ {s} : peers'[x] = peers[x] /\ timers'[x] = timers[x]
  BY DEF Taking
<1>2. mail \in [Servers -> Seq(Events)] /\ ClusterTypes /\ MailOK(s)
  BY DEF ClusterInv, ClusterTypes, ServerOK
<1>3. mail'[s] = Tail(mail[s]) /\ \A x \in Servers \ {s} : mail'[x] = mail[x] BY <1>1, <1>2
<1>4. PICK m : m = mail[s] OBVIOUS
<1>5. m \in Seq(Events) /\ Tail(m) \in Seq(Events) /\ Len(m) >= 1 /\ Len(m) \in Nat /\ m[1] = e /\ e \in Events
  BY <1>1, <1>2, <1>4, TailAt
<1>6. mail' \in [Servers -> Seq(Events)] BY <1>1, <1>2, <1>4, <1>5
<1>7. /\ MailOK(s)'
      /\ \A c \in Conns : Lost(c, s)' <=> Lost(c, s) /\ ~(e.kind = "disconnected" /\ c = e.c)
      /\ \A r : /\ Failures(s, r) = {} => Failures(s, r)' = {}
                /\ \A i \in 1..Len(mail[s]) : Failures(s, r) = {i} =>
                     \E j \in 1..Len(mail'[s]) : Failures(s, r)' = {j}
  BY <1>1, <1>2, <1>3, Taken
<1>8. 1 \in 1..Len(m) BY SMT, <1>5
<1>9. EventOK(s, m, 1) BY <1>2, <1>4, <1>8 DEF MailOK
<1>10. /\ e.c \in Conns /\ s \in Ends(e.c)
       /\ e.kind = "peer_up" => e.d = Other(e.c, s)
       /\ e.kind = "disconnected" => <<e.c, s>> \in ended
       /\ e.kind \in {"connected", "accepted"} =>
            \/ <<e.c, s>> \notin ended \/ <<e.c, s>> \in overtaken
            \/ \E j \in 1..Len(m) : m[j].kind = "disconnected" /\ m[j].c = e.c
  BY <1>1, <1>5, <1>9 DEF EventOK
<1>11. Lost(e.c, s) <=> \E j \in 1..Len(m) : m[j].kind = "disconnected" /\ m[j].c = e.c
  BY <1>4 DEF Lost
<1>12. e.kind = "disconnected" => Lost(e.c, s) BY <1>5, <1>8, <1>11
<1>13. NetOK' BY <1>1, NetKept
<1>14. \A x \in Servers \ {s} : ServerOK(x)'
  <2>1. \A x \in Servers \ {s} : Still(x) BY <1>1, <1>3 DEF Still
  <2> QED BY <1>1, <2>1, OthersStay
<1> QED BY <1>6, <1>7, <1>10, <1>11, <1>12, <1>13, <1>14 DEF Took

\* The ways of s to its remotes are the same where it handles no end of a connection.
LEMMA SameWays ==
    ASSUME ClusterInv, NEW s \in Servers, NEW e, Taking(s, e), Took(s, e), e.kind # "disconnected",
           timers' = timers
    PROVE  \A r \in RemotesOf[s] : OneWay(s, r)'
<1>1. SUFFICES ASSUME NEW r \in RemotesOf[s] PROVE OneWay(s, r)' OBVIOUS
<1>2. life[s] = "running" /\ dialing' = dialing /\ link' = link /\ ended' = ended BY DEF Taking
<1>3. OneWay(s, r) BY <1>2 DEF ClusterInv, ServerOK
<1>4. \A c \in Conns : Lost(c, s)' <=> Lost(c, s) BY DEF Took
<1>5. HeldTo(s, r)' = HeldTo(s, r) BY <1>2, <1>4 DEF HeldTo
<1>6. /\ Failures(s, r) = {} => Failures(s, r)' = {}
      /\ \A i \in 1..Len(mail[s]) : Failures(s, r) = {i} => \E j \in 1..Len(mail'[s]) : Failures(s, r)' = {j}
  BY DEF Took
<1>7. SameWay(s, r) BY <1>2, <1>5, <1>6 DEF SameWay
<1> QED BY <1>3, <1>7, WayKept

\* s takes a peer to be on the connection of e, or knows its domain now.
LEMMA PeerTaken ==
    ASSUME ClusterInv, NEW s \in Servers, NEW e, Taking(s, e), Took(s, e), NEW d,
           \/ e.kind \in {"connected", "accepted"} /\ d = Unknown
           \/ e.c \in DOMAIN peers[s] /\ e.kind = "peer_up" /\ d = e.d,
           peers'[s] = With(peers[s], e.c, d)
    PROVE  PeersOK(s)'
<1>1. life' = life /\ link' = link /\ ended' = ended /\ overtaken' = overtaken /\ e.kind # "disconnected"
  BY DEF Taking
<1>2. \A c : Ends(c)' = Ends(c) /\ Other(c, s)' = Other(c, s) BY <1>1 DEF Ends, Other
<1>3. \A c \in Conns : Lost(c, s)' <=> Lost(c, s) BY <1>1 DEF Took
<1>4. \A c \in DOMAIN peers[s] :
        /\ c \in Conns /\ s \in Ends(c) /\ peers[s][c] \in {Unknown, Other(c, s)}
        /\ life[s] = "running" => <<c, s>> \notin ended \/ Lost(c, s) \/ <<c, s>> \in overtaken
  BY DEF ClusterInv, ServerOK, PeersOK
<1>5. /\ DOMAIN peers'[s] = DOMAIN peers[s] \cup {e.c} /\ peers'[s][e.c] = d
      /\ \A c \in DOMAIN peers[s] : c # e.c => peers'[s][c] = peers[s][c]
  BY DEF With
<1>6. /\ e.c \in Conns /\ s \in Ends(e.c) /\ d \in {Unknown, Other(e.c, s)}
      /\ life[s] = "running" => <<e.c, s>> \notin ended \/ Lost(e.c, s) \/ <<e.c, s>> \in overtaken
  BY <1>4 DEF Took
<1>7. ASSUME NEW c \in DOMAIN peers'[s]
      PROVE  /\ c \in Conns /\ s \in Ends(c) /\ peers'[s][c] \in {Unknown, Other(c, s)}
             /\ life[s] = "running" => <<c, s>> \notin ended \/ Lost(c, s) \/ <<c, s>> \in overtaken
  <2>1. CASE c = e.c BY <1>5, <1>6, <2>1
  <2>2. CASE c # e.c BY <1>4, <1>5, <1>7, <2>2
  <2> QED BY <2>1, <2>2
<1>8. \A c \in DOMAIN peers'[s] : c \in Conns BY <1>7
<1> QED BY <1>1, <1>2, <1>3, <1>7, <1>8 DEF PeersOK

\* The parts of the invariant, where handler s leaves the timers alone
LEMMA HandlerKeeps ==
    ASSUME ClusterInv, NEW s \in Servers, NEW e, Taking(s, e), Took(s, e), e.kind # "disconnected",
           timers' = timers, DOMAIN peers' = Servers, PeersOK(s)', WireOK'
    PROVE  ClusterInv'
<1>1. life[s] = "running" /\ life' = life /\ dialing' = dialing /\ link' = link BY DEF Taking
<1>2. ClusterTypes' BY <1>1 DEF ClusterInv, ClusterTypes, Took
<1>3. NetOK' /\ MailOK(s)' /\ \A x \in Servers \ {s} : ServerOK(x)' BY DEF Took
<1>4. \A r \in RemotesOf[s] : OneWay(s, r)' BY SameWays
<1>5. ServerOK(s)' BY <1>1, <1>3, <1>4 DEF ServerOK
<1> QED BY <1>2, <1>3, <1>5 DEF ClusterInv

\* A connection that s has made is told of.
LEMMA OnConnectedKeeps ==
    ASSUME ClusterInv, NEW s \in Servers, OnConnected(s)
    PROVE  ClusterInv'
<1>1. PICK e : e = Head(mail[s]) OBVIOUS
<1>2. /\ Heard(s, "connected") /\ peers' = [peers EXCEPT ![s] = With(@, e.c, Unknown)]
      /\ UNCHANGED <<life, timers, dialing, wire, netvars>>
  BY <1>1 DEF OnConnected
<1>3. DOMAIN peers = Servers BY DEF ClusterInv, ClusterTypes
<1>4. /\ DOMAIN peers' = Servers /\ peers'[s] = With(peers[s], e.c, Unknown)
      /\ \A x \in Servers \ {s} : peers'[x] = peers[x]
  BY <1>2, <1>3
<1>5. Taking(s, e) /\ e.kind = "connected" BY <1>1, <1>2, <1>4 DEF Heard, netvars, Taking
<1>6. Took(s, e) BY <1>5, HandlerTakes
<1>7. PeersOK(s)' BY <1>4, <1>5, <1>6, PeerTaken
<1>8. WireOK' BY <1>2, NetKept DEF netvars
<1> QED BY <1>2, <1>4, <1>5, <1>6, <1>7, <1>8, HandlerKeeps

\* A connection that s has accepted is told of, and the other end is greeted.
LEMMA OnAcceptedKeeps ==
    ASSUME ClusterInv, NEW s \in Servers, OnAccepted(s)
    PROVE  ClusterInv'
<1>1. PICK e : e = Head(mail[s]) OBVIOUS
<1>2. /\ Heard(s, "accepted") /\ peers' = [peers EXCEPT ![s] = With(@, e.c, Unknown)]
      /\ SendPeerUp(e.c, s) /\ UNCHANGED <<life, timers, dialing, netvars>>
  BY <1>1 DEF OnAccepted
<1>3. DOMAIN peers = Servers BY DEF ClusterInv, ClusterTypes
<1>4. /\ DOMAIN peers' = Servers /\ peers'[s] = With(peers[s], e.c, Unknown)
      /\ \A x \in Servers \ {s} : peers'[x] = peers[x]
  BY <1>2, <1>3
<1>5. Taking(s, e) /\ e.kind = "accepted" BY <1>1, <1>2, <1>4 DEF Heard, netvars, Taking
<1>6. Took(s, e) BY <1>5, HandlerTakes
<1>7. PeersOK(s)' BY <1>4, <1>5, <1>6, PeerTaken
<1>8. e.c \in Conns /\ s \in Ends(e.c) BY <1>6 DEF Took
<1>9. WireOK' BY <1>2, <1>8, WireSent DEF netvars
<1> QED BY <1>2, <1>4, <1>5, <1>6, <1>7, <1>9, HandlerKeeps

\* A greeting is handled: s learns the domain of a peer it has, and replies.
LEMMA OnPeerUpKeeps ==
    ASSUME ClusterInv, NEW s \in Servers, OnPeerUp(s)
    PROVE  ClusterInv'
<1>1. PICK e : e = Head(mail[s]) OBVIOUS
<1>2. /\ Heard(s, "peer_up")
      /\ peers' = IF e.c \in DOMAIN peers[s] THEN [peers EXCEPT ![s][e.c] = e.d] ELSE peers
      /\ SendPeerUp(e.c, s) \/ wire' = wire
      /\ UNCHANGED <<life, timers, dialing, netvars>>
  BY <1>1 DEF OnPeerUp
<1>3. DOMAIN peers = Servers BY DEF ClusterInv, ClusterTypes
<1>4. DOMAIN peers' = Servers /\ \A x \in Servers \ {s} : peers'[x] = peers[x] BY <1>2, <1>3
<1>5. Taking(s, e) /\ e.kind = "peer_up" BY <1>1, <1>2, <1>4 DEF Heard, netvars, Taking
<1>6. Took(s, e) BY <1>5, HandlerTakes
<1>7. e.c \in Conns /\ s \in Ends(e.c) BY <1>6 DEF Took
<1>8. WireOK'
  <2>1. CASE SendPeerUp(e.c, s) BY <1>2, <1>7, <2>1, WireSent DEF netvars
  <2>2. CASE wire' = wire BY <1>2, <2>2, NetKept DEF netvars
  <2> QED BY <1>2, <2>1, <2>2
<1>9. PeersOK(s)'
  <2>1. CASE e.c \in DOMAIN peers[s]
    <3>1. peers'[s] = [peers[s] EXCEPT ![e.c] = e.d] BY <1>2, <1>3, <2>1
    <3>2. peers'[s] = With(peers[s], e.c, e.d)
      <4>1. PeersOK(s) BY DEF ClusterInv, ServerOK
      <4> QED BY <2>1, <3>1 DEF With
    <3> QED BY <1>5, <1>6, <2>1, <3>2, PeerTaken
  <2>2. CASE e.c \notin DOMAIN peers[s]
    <3>1. peers' = peers BY <1>2, <2>2
    <3>2. life' = life /\ link' = link /\ ended' = ended /\ overtaken' = overtaken BY <1>5 DEF Taking
    <3>3. \A c : Ends(c)' = Ends(c) /\ Other(c, s)' = Other(c, s) BY <3>2 DEF Ends, Other
    <3>4. \A c \in Conns : Lost(c, s)' <=> Lost(c, s) BY <1>5, <1>6 DEF Took
    <3>5. PeersOK(s) BY DEF ClusterInv, ServerOK
    <3> QED BY <3>1, <3>2, <3>3, <3>4, <3>5 DEF PeersOK
  <2> QED BY <2>1, <2>2
<1> QED BY <1>2, <1>4, <1>5, <1>6, <1>8, <1>9, HandlerKeeps

\* The end of a connection is handled: the way to a remote is a timer now.
LEMMA OnDisconnectedKeeps ==
    ASSUME ClusterInv, NEW s \in Servers, OnDisconnected(s)
    PROVE  ClusterInv'
<1>1. PICK e : e = Head(mail[s]) OBVIOUS
<1>2. /\ Heard(s, "disconnected") /\ peers' = [peers EXCEPT ![s] = Without(@, e.c)]
      /\ link[e.c].from = s => timers' = [timers EXCEPT ![s][Other(e.c, s)] = @ + 1]
      /\ link[e.c].from # s => timers' = timers
      /\ UNCHANGED <<life, dialing, wire, netvars>>
  BY <1>1 DEF OnDisconnected
<1>3. /\ DOMAIN peers = Servers /\ DOMAIN timers = Servers
      /\ \A x \in Servers : DOMAIN timers[x] = RemotesOf[x]
  BY DEF ClusterInv, ClusterTypes
<1>4. /\ DOMAIN peers' = Servers /\ peers'[s] = Without(peers[s], e.c)
      /\ \A x \in Servers \ {s} : peers'[x] = peers[x]
  BY <1>2, <1>3
<1>5. DOMAIN timers' = Servers /\ \A x \in Servers \ {s} : timers'[x] = timers[x] BY <1>2, <1>3
<1>6. Taking(s, e) /\ e.kind = "disconnected" BY <1>1, <1>2, <1>4, <1>5 DEF Heard, netvars, Taking
<1>7. Took(s, e) BY <1>6, HandlerTakes
<1>8. /\ life[s] = "running" /\ life' = life /\ dialing' = dialing /\ link' = link /\ ended' = ended
      /\ overtaken' = overtaken
  BY <1>6 DEF Taking
<1>9. /\ e.c \in Conns /\ s \in Ends(e.c) /\ <<e.c, s>> \in ended /\ Lost(e.c, s) /\ ~Lost(e.c, s)'
      /\ \A c \in Conns : c # e.c => (Lost(c, s)' <=> Lost(c, s))
  BY <1>6, <1>7 DEF Took
<1>10. \A x \in Servers : DOMAIN timers'[x] = RemotesOf[x] BY <1>2, <1>3, <1>5
<1>11. ClusterTypes' BY <1>4, <1>5, <1>7, <1>8, <1>10 DEF ClusterInv, ClusterTypes, Took
<1>12. WireOK' BY <1>2, NetKept DEF netvars
<1>13. NetOK' /\ MailOK(s)' /\ \A x \in Servers \ {s} : ServerOK(x)' BY <1>7 DEF Took
<1>14. PeersOK(s)'
  <2>1. \A c : Ends(c)' = Ends(c) /\ Other(c, s)' = Other(c, s) BY <1>8 DEF Ends, Other
  <2>2. /\ DOMAIN peers'[s] = DOMAIN peers[s] \ {e.c}
        /\ \A c \in DOMAIN peers'[s] : peers'[s][c] = peers[s][c]
    BY <1>4 DEF Without
  <2>3. PeersOK(s) BY DEF ClusterInv, ServerOK
  <2> QED BY <1>8, <1>9, <2>1, <2>2, <2>3 DEF PeersOK
<1>15. ASSUME NEW r \in RemotesOf[s] PROVE OneWay(s, r)'
  <2>1. OneWay(s, r) BY <1>8 DEF ClusterInv, ServerOK
  <2>2. /\ Failures(s, r) = {} => Failures(s, r)' = {}
        /\ \A i \in 1..Len(mail[s]) : Failures(s, r) = {i} =>
             \E j \in 1..Len(mail'[s]) : Failures(s, r)' = {j}
    BY <1>7 DEF Took
  <2>3. \A c : c \in HeldTo(s, r)' <=> c \in HeldTo(s, r) /\ c # e.c BY <1>8, <1>9 DEF HeldTo
  <2>4. e.c \in HeldTo(s, r) <=> link[e.c].from = s /\ link[e.c].to = r BY <1>9 DEF HeldTo
  <2>5. CASE link[e.c].from = s /\ link[e.c].to = r
    <3>1. timers' = [timers EXCEPT ![s][r] = @ + 1] BY <1>2, <2>5 DEF Other
    <3>2. timers'[s][r] = timers[s][r] + 1 BY <1>3, <3>1
    <3>3. timers[s][r] = 0 /\ dialing[s][r] = 0 /\ Failures(s, r) = {} /\ \E c \in Conns : HeldTo(s, r) = {c}
      BY <2>1, <2>4, <2>5 DEF OneWay
    <3>4. HeldTo(s, r) = {e.c} BY <2>4, <2>5, <3>3
    <3>5. HeldTo(s, r)' = {} BY <2>3, <3>4
    <3>6. timers'[s][r] = 1 /\ dialing'[s][r] = 0 /\ Failures(s, r)' = {} BY SMT, <1>8, <2>2, <3>2, <3>3
    <3> QED BY <3>5, <3>6 DEF OneWay
  <2>6. CASE ~(link[e.c].from = s /\ link[e.c].to = r)
    <3>1. HeldTo(s, r)' = HeldTo(s, r) BY <2>3, <2>4, <2>6
    <3>2. timers'[s][r] = timers[s][r]
      <4>1. CASE link[e.c].from # s BY <1>2, <4>1
      <4>2. CASE link[e.c].from = s
        <5>1. timers' = [timers EXCEPT ![s][link[e.c].to] = @ + 1] BY <1>2, <4>2 DEF Other
        <5> QED BY <1>3, <2>6, <4>2, <5>1
      <4> QED BY <4>1, <4>2
    <3>3. SameWay(s, r) BY <1>8, <2>2, <3>1, <3>2 DEF SameWay
    <3> QED BY <2>1, <3>3, WayKept
  <2> QED BY <2>5, <2>6
<1>16. ServerOK(s)' BY <1>8, <1>13, <1>14, <1>15 DEF ServerOK
<1> QED BY <1>11, <1>12, <1>13, <1>16 DEF ClusterInv

\* The timer calls reconnect(): the way to r is a connect now.
LEMMA ReconnectKeeps ==
    ASSUME ClusterInv, NEW s \in Servers, NEW r \in RemotesOf[s], Reconnect(s, r)
    PROVE  ClusterInv'
<1>1. /\ life[s] = "running" /\ timers[s][r] > 0
      /\ timers' = [timers EXCEPT ![s][r] = @ - 1] /\ dialing' = [dialing EXCEPT ![s][r] = @ + 1]
      /\ UNCHANGED <<life, peers, mail, wire, link, due, ended, overtaken>>
  BY DEF Reconnect, netvars
<1>2. /\ DOMAIN dialing' = Servers /\ \A x \in Servers : DOMAIN dialing'[x] = RemotesOf[x]
      /\ \A x \in Servers \ {s} : dialing'[x] = dialing[x]
      /\ dialing'[s][r] = dialing[s][r] + 1 /\ \A q \in RemotesOf[s] : q # r => dialing'[s][q] = dialing[s][q]
  BY <1>1 DEF ClusterInv, ClusterTypes
<1>3. /\ DOMAIN timers' = Servers /\ \A x \in Servers : DOMAIN timers'[x] = RemotesOf[x]
      /\ \A x \in Servers \ {s} : timers'[x] = timers[x]
      /\ timers'[s][r] = timers[s][r] - 1 /\ \A q \in RemotesOf[s] : q # r => timers'[s][q] = timers[s][q]
  BY <1>1 DEF ClusterInv, ClusterTypes
<1>4. ClusterTypes' BY <1>1, <1>2, <1>3 DEF ClusterInv, ClusterTypes
<1>5. NetOK' /\ WireOK' BY <1>1, NetKept
<1>6. \A x \in Servers \ {s} : ServerOK(x)'
  <2>1. \A x \in Servers \ {s} : Still(x) BY <1>1, <1>2, <1>3 DEF Still
  <2> QED BY <1>1, <2>1, OthersStay
<1>7. ServerOK(s) BY DEF ClusterInv
<1>8. NetStill(s) BY <1>1, NetSame
<1>9. MailOK(s)' /\ PeersOK(s)' /\ \A c \in Conns : Lost(c, s)' <=> Lost(c, s)
  BY <1>1, <1>7, <1>8, MailStays DEF NetStill
<1>10. ASSUME NEW q \in RemotesOf[s] PROVE OneWay(s, q)'
  <2>1. HeldTo(s, q)' = HeldTo(s, q) BY <1>1, <1>9 DEF HeldTo
  <2>2. Failures(s, q)' = Failures(s, q) BY <1>1 DEF Failures
  <2>3. OneWay(s, q) BY <1>1, <1>7 DEF ServerOK
  <2>4. CASE q # r
    <3>1. dialing'[s][q] = dialing[s][q] /\ timers'[s][q] = timers[s][q] BY <1>2, <1>3, <2>4
    <3>2. mail' = mail BY <1>1
    <3>3. SameWay(s, q) BY <2>1, <2>2, <3>1, <3>2 DEF SameWay
    <3> QED BY <2>3, <3>3, WayKept
  <2>5. CASE q = r
    <3>1. timers[s][q] = 1 /\ dialing[s][q] = 0 /\ HeldTo(s, q) = {} /\ Failures(s, q) = {}
      BY SMT, <1>1, <2>3, <2>5 DEF OneWay
    <3>2. timers'[s][q] = 0 /\ dialing'[s][q] = 1 BY SMT, <1>2, <1>3, <2>5, <3>1
    <3> QED BY <2>1, <2>2, <3>1, <3>2 DEF OneWay
  <2> QED BY <2>4, <2>5
<1>11. ServerOK(s)' BY <1>1, <1>9, <1>10 DEF ServerOK
<1> QED BY <1>4, <1>5, <1>6, <1>11 DEF ClusterInv

\* The node has connected, or has failed to.
LEMMA DialedKeeps ==
    ASSUME ClusterInv, NEW s \in Servers, NEW r \in RemotesOf[s], Dialed(s, r)
    PROVE  ClusterInv'
<1>1. /\ life[s] = "running" /\ dialing[s][r] > 0 /\ dialing' = [dialing EXCEPT ![s][r] = @ - 1]
      /\ UNCHANGED <<life, peers, timers, ended, wire, overtaken>>
  BY DEF Dialed
<1>2. ASSUME life[r] = "running", NEW c \in Conns, link[c] = NoLink,
             link' = [link EXCEPT ![c] = [from |-> s, to |-> r, open |-> TRUE]],
             due' = due \cup {<<c, s>>, <<c, r>>}, mail' = mail
      PROVE  ClusterInv'
  BY <1>1, <1>2, DialConnects
<1>3. ASSUME Publish(s, Event("connect_failed", 0, r)), link' = link, due' = due PROVE ClusterInv'
  BY <1>1, <1>3, DialFails
<1> QED BY <1>2, <1>3 DEF Dialed

\* A handler of s
LEMMA HandleKeeps ==
    ASSUME ClusterInv, NEW s \in Servers, Handle(s)
    PROVE  ClusterInv'
BY OnConnectedKeeps, OnAcceptedKeeps, OnPeerUpKeeps, FinishKeeps, OnDisconnectedKeeps DEF Handle

\* A step of an io thread, or of run()
LEMMA WorkingKeeps ==
    ASSUME ClusterInv, Working
    PROVE  ClusterInv'
<1>1. ASSUME NEW s \in Servers, Handle(s) PROVE ClusterInv' BY <1>1, HandleKeeps
<1>2. ASSUME NEW s \in Servers, NEW r \in RemotesOf[s], Dialed(s, r) \/ Reconnect(s, r) PROVE ClusterInv'
  BY <1>2, DialedKeeps, ReconnectKeeps
<1>3. ASSUME NEW c \in Conns, NEW s \in Servers, Io(c, s) PROVE ClusterInv'
  BY <1>3, NotifyNewKeeps, ReceiveKeeps, NotifyDisconnectKeeps DEF Io
<1> QED BY <1>1, <1>2, <1>3 DEF Working

\* Every step keeps the invariant.
LEMMA ClusterStep ==
    ASSUME ClusterInv, [ANext]_avars
    PROVE  ClusterInv'
<1>1. CASE Working BY <1>1, WorkingKeeps
<1>2. ASSUME NEW s \in Servers, Start(s) \/ Finish(s) PROVE ClusterInv' BY <1>2, StartKeeps, FinishKeeps
<1>3. ASSUME NEW c \in Conns, Cut(c) PROVE ClusterInv' BY <1>3, CutKeeps
<1>4. CASE UNCHANGED avars
  <2>1. UNCHANGED <<life, peers, timers, dialing, mail, link, due, ended, wire, overtaken>>
    BY <1>4 DEF avars
  <2>2. ClusterTypes' BY <2>1 DEF ClusterInv, ClusterTypes
  <2>3. NetOK' /\ WireOK' BY <2>1, NetKept
  <2>4. ASSUME NEW x \in Servers PROVE ServerOK(x)'
    <3>1. Still(x) BY <2>1 DEF Still
    <3>2. NetStill(x) BY <2>1, NetSame
    <3> QED BY <3>1, <3>2, Bystander DEF ClusterInv
  <2> QED BY <2>2, <2>3, <2>4 DEF ClusterInv
<1> QED BY <1>1, <1>2, <1>3, <1>4 DEF ANext

\* The empty set has no element.
LEMMA CardEmpty == Cardinality({}) = 0
<1> DEFINE F(f) == [T \in SUBSET {} |-> IF T = {} THEN 0 ELSE 1 + f[T \ {CHOOSE x : x \in T}]]
           g == [T \in SUBSET {} |-> 0]
           c == CHOOSE f : f = F(f)
<1>1. g = F(g) OBVIOUS
<1>2. c = F(c) BY <1>1
<1>3. Cardinality({}) = c[{}] BY DEF Cardinality
<1> HIDE DEF c
<1> QED BY <1>2, <1>3

\* A set of one element has one.
LEMMA CardOne == ASSUME NEW v PROVE Cardinality({v}) = 1
<1> DEFINE F(f) == [T \in SUBSET {v} |-> IF T = {} THEN 0 ELSE 1 + f[T \ {CHOOSE x : x \in T}]]
           g == [T \in SUBSET {v} |-> IF T = {} THEN 0 ELSE 1]
           c == CHOOSE f : f = F(f)
<1>1. \A T \in SUBSET {v} : T # {} => T \ {CHOOSE x : x \in T} = {}
  <2> SUFFICES ASSUME NEW T \in SUBSET {v}, T # {} PROVE T \ {CHOOSE x : x \in T} = {} OBVIOUS
  <2>1. T = {v} OBVIOUS
  <2>2. (CHOOSE x : x \in T) \in T OBVIOUS
  <2> QED BY <2>1, <2>2
<1>2. g = F(g) BY SMT, <1>1
<1>3. c = F(c) BY <1>2
<1>4. Cardinality({v}) = c[{v}] BY DEF Cardinality
<1> HIDE DEF c
<1> QED BY SMT, <1>1, <1>3, <1>4

\* The invariant is the property.
LEMMA ClusterSafe ==
    ASSUME ClusterInv
    PROVE  OneWayToRemotes
<1>1. SUFFICES ASSUME NEW s \in Servers, life[s] = "running"
               PROVE  /\ \A r \in RemotesOf[s] :
                           timers[s][r] + dialing[s][r] + Cardinality(HeldTo(s, r))
                             + Cardinality(Failures(s, r)) = 1
                      /\ \A c \in DOMAIN peers[s] :
                           /\ peers[s][c] \in {Unknown, Other(c, s)}
                           /\ <<c, s>> \notin ended \/ Lost(c, s) \/ <<c, s>> \in overtaken
  BY DEF OneWayToRemotes
<1>2. ServerOK(s) BY DEF ClusterInv
<1>3. \A c \in DOMAIN peers[s] :
        /\ peers[s][c] \in {Unknown, Other(c, s)}
        /\ <<c, s>> \notin ended \/ Lost(c, s) \/ <<c, s>> \in overtaken
  BY <1>1, <1>2 DEF ServerOK, PeersOK
<1>4. ASSUME NEW r \in RemotesOf[s]
      PROVE  timers[s][r] + dialing[s][r] + Cardinality(HeldTo(s, r)) + Cardinality(Failures(s, r)) = 1
  <2>1. OneWay(s, r) BY <1>1, <1>2 DEF ServerOK
  <2>2. PICK h, f : h = HeldTo(s, r) /\ f = Failures(s, r) OBVIOUS
  <2>3. \/ timers[s][r] = 1 /\ dialing[s][r] = 0 /\ h = {} /\ f = {}
        \/ timers[s][r] = 0 /\ dialing[s][r] = 1 /\ h = {} /\ f = {}
        \/ timers[s][r] = 0 /\ dialing[s][r] = 0 /\ f = {} /\ \E c : h = {c}
        \/ timers[s][r] = 0 /\ dialing[s][r] = 0 /\ h = {} /\ \E i : f = {i}
    BY <2>1, <2>2 DEF OneWay
  <2>4. Cardinality({}) = 0 /\ \A x : Cardinality({x}) = 1 BY CardEmpty, CardOne
  <2>5. \/ timers[s][r] = 1 /\ dialing[s][r] = 0 /\ Cardinality(h) = 0 /\ Cardinality(f) = 0
        \/ timers[s][r] = 0 /\ dialing[s][r] = 1 /\ Cardinality(h) = 0 /\ Cardinality(f) = 0
        \/ timers[s][r] = 0 /\ dialing[s][r] = 0 /\ Cardinality(h) = 1 /\ Cardinality(f) = 0
        \/ timers[s][r] = 0 /\ dialing[s][r] = 0 /\ Cardinality(h) = 0 /\ Cardinality(f) = 1
    BY <2>3, <2>4
  <2>6. timers[s][r] + dialing[s][r] + Cardinality(h) + Cardinality(f) = 1 BY SMT, <2>5
  <2> QED BY <2>2, <2>6
<1> QED BY <1>3, <1>4

\* A running server keeps exactly one way to each of its remotes, and the peers it has are
\* on connections that have not ended or are known to have been overtaken
\* (actor_cluster.cpp), for every number of servers and of connections.
THEOREM OneWayKept == ASpec => []OneWayToRemotes
<1>1. AInit => ClusterInv BY ClusterInit
<1>2. ClusterInv /\ [ANext]_avars => ClusterInv' BY ClusterStep
<1>3. ClusterInv => OneWayToRemotes BY ClusterSafe
<1> QED BY <1>1, <1>2, <1>3, PTL DEF ASpec

=============================================================================
