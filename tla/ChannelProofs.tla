---------------------------- MODULE ChannelProofs ----------------------------
(***************************************************************************)
(* The copies of the subscriptions agree, a post reaches each of them as   *)
(* often as it should, and none after it was unsubscribed, for any topics, *)
(* threads, subscriptions and range of keys.                               *)
(***************************************************************************)
EXTENDS Channel, TLAPS

\* Zenon proves what needs no arithmetic; the other leaves say SMT.
USE Zenon

\* the keys that are not ready to be handed out
Used == DOMAIN all_subs \cup leaked

\* The proofs about the pool, of the keys.
P == INSTANCE SequenceProofs WITH
         Begin <- 1, End <- KeyEnd, Reserve <- Reserve, current <- current, seqs <- seqs,
         used <- Used, failed <- FALSE

mapVars == <<current, seqs, all_subs, entries, purge_keys, leaked, ended, made>>

Subs == [id : 1..MaxSubs, topic : Topics, mode : Modes, unsub : BOOLEAN]

\* What the entry of topic t and mode m has to be.
Copies(m, t) ==
    [k \in {x \in DOMAIN all_subs : all_subs[x].mode = m /\ all_subs[x].topic = t} |-> all_subs[k]]

\* all_subs_ and the keys: no id or key is given twice, a key that waits for the
\* purge is one that was unsubscribed or cleared.
SubsInv ==
    /\ P!Pool(current, seqs, Used)
    /\ DOMAIN all_subs \cap leaked = {}
    /\ made \in 0..MaxSubs
    /\ all_subs \in [DOMAIN all_subs -> Subs]
    /\ \A k \in DOMAIN all_subs : all_subs[k].id <= made
    /\ \A k, l \in DOMAIN all_subs : all_subs[k].id = all_subs[l].id => k = l
    /\ ended \subseteq 1..made
    /\ \A k \in DOMAIN all_subs : all_subs[k].id \in ended => all_subs[k].unsub
    /\ purge_keys \in Seq(Used)
    /\ \A i \in 1..Len(purge_keys) :
          purge_keys[i] \in DOMAIN all_subs => all_subs[purge_keys[i]].unsub

\* The entries are the copies of all_subs_.
EntriesInv ==
    /\ entries = [m \in Modes |-> entries[m]]
    /\ \A m \in Modes :
          /\ entries[m] = [t \in DOMAIN entries[m] |-> Copies(m, t)]
          /\ DOMAIN entries[m] \subseteq Topics
    /\ \A k \in DOMAIN all_subs : all_subs[k].topic \in DOMAIN entries[all_subs[k].mode]

MapInv == SubsInv /\ EntriesInv

(***************************************************************************)
(* The posts that go on.                                                   *)
(***************************************************************************)
Reading == {"post", "callback", "cb_unsub"}
PCs == Reading \cup {"idle", "lock", "unsub", "clear", "purge_wait", "purge", "pop"}

Counts == UNION {[S -> Nat] : S \in SUBSET (1..MaxSubs)}

Posts == [pc : PCs, mode : Modes, look : Nat \X Nat, msg : Nat \X Nat, stage : 0..2,
          todo : SUBSET Nat, got : Counts, threw : BOOLEAN, count : Nat, key : Nat]

\* how often the post r has called subscription number i
Count(r, i) == IF i \in DOMAIN r.got THEN r.got[i] ELSE 0

\* how often post_topic() for topic t calls the subscription with key k
Hit(r, k, t) ==
    IF IsValid(t) /\ all_subs[k].topic = t /\ all_subs[k].mode = r.mode /\ Gets(all_subs[k], r.msg)
      THEN 1 ELSE 0

\* how often the post r should have called it by now
DueSoFar(r, k) ==
    IF r.stage = 1
      THEN IF k \in r.todo THEN 0 ELSE Hit(r, k, r.look)
      ELSE Hit(r, k, r.look) + IF k \in r.todo THEN 0 ELSE Hit(r, k, GroupTopic(r.look))

OnTrack(r) ==
    /\ r.stage \in {1, 2}
    /\ r.todo \subseteq Found(r.mode, Looked(r))
    /\ \A k \in DOMAIN all_subs :
          LET n == Count(r, all_subs[k].id)
          IN  n <= DueSoFar(r, k) /\ (~r.threw => n = DueSoFar(r, k))
    /\ \A i \in DOMAIN r.got : \E k \in DOMAIN all_subs : all_subs[k].id = i

PostInv ==
    /\ th \in [Threads -> Posts]
    /\ readers \subseteq Threads
    /\ \A p \in Threads :
          /\ p \in readers <=> th[p].pc \in Reading
          /\ th[p].pc \in Reading => OnTrack(th[p])
          /\ th[p].pc = "lock" => th[p].got = <<>> /\ ~th[p].threw

ChannelInv == MapInv /\ PostInv /\ q \in Seq(Topics)

-----------------------------------------------------------------------------
\* The range of keys is one Sequence is made for, and what Channel takes from it is
\* what is proved about it.
LEMMA SamePool ==
    /\ 1 \in Nat /\ KeyEnd \in Nat /\ 1 < KeyEnd /\ Reserve \in 1..(KeyEnd - 1)
    /\ Keys!Filled = P!Filled /\ Keys!FilledTo = P!FilledTo
    /\ 1 + Keys!Batch(1) = 1 + P!Batch(1) /\ Keys!Acquired(1, <<>>) = P!Acquired(1, <<>>)
    /\ P!Values = 1..(KeyEnd - 1)
    /\ Keys!Conserved <=>
         /\ current \in 1..KeyEnd /\ P!NoRepeat(seqs)
         /\ P!Elems(seqs) \cap Used = {} /\ P!Elems(seqs) \cup Used = 1..(current - 1)
<1>1. 1 \in Nat /\ KeyEnd \in Nat /\ 1 < KeyEnd /\ Reserve \in 1..(KeyEnd - 1)  BY SMT, KeyAssumption
<1>2. /\ Keys!Filled = P!Filled /\ Keys!FilledTo = P!FilledTo
      /\ Keys!Batch(1) = P!Batch(1) /\ Keys!Acquired(1, <<>>) = P!Acquired(1, <<>>)
      /\ P!Values = 1..(KeyEnd - 1)
  BY DEF Keys!Filled, P!Filled, Keys!FilledTo, P!FilledTo, Keys!Short, P!Short,
         Keys!Acquired, P!Acquired, Keys!Batch, P!Batch, P!Values
<1>3. Keys!Conserved <=>
         /\ current \in 1..KeyEnd /\ P!NoRepeat(seqs)
         /\ P!Elems(seqs) \cap Used = {} /\ P!Elems(seqs) \cup Used = 1..(current - 1)
  BY DEF Keys!Conserved, P!NoRepeat, Keys!Elems, P!Elems, Used
<1>4. QED  BY <1>1, <1>2, <1>3

\* A new channel has no subscriptions, messages and posts.
LEMMA ChannelInit == Init => ChannelInv
<1> SUFFICES ASSUME Init PROVE ChannelInv  OBVIOUS
<1>1. Used = {} /\ DOMAIN all_subs = {}  BY SMT DEF Init, Used
<1>2. P!Pool(current, seqs, Used)
  <2>1. P!Init  BY <1>1, SamePool DEF Init, P!Init
  <2>2. QED  BY <2>1, SamePool, P!PoolInit
<1>3. SubsInv
  <2>1. all_subs \in [DOMAIN all_subs -> Subs]  BY SMT, <1>1 DEF Init
  <2>2. purge_keys \in Seq(Used) /\ Len(purge_keys) = 0  BY SMT DEF Init
  <2>3. QED  BY SMT, <1>1, <1>2, <2>1, <2>2, BoundAssumption DEF Init, SubsInv
<1>4. EntriesInv
  <2>1. entries = [m \in Modes |-> <<>>]  BY DEF Init
  <2>2. \A m \in Modes : entries[m] = <<>> /\ DOMAIN entries[m] = {}  BY SMT, <2>1
  <2>3. QED  BY SMT, <1>1, <2>1, <2>2 DEF EntriesInv
<1>5. PostInv
  <2>1. Idle \in Posts
    <3>1. <<>> \in [{} -> Nat]  BY SMT
    <3>2. <<>> \in Counts  BY <3>1 DEF Counts
    <3>3. QED  BY SMT, <3>2 DEF Idle, Posts, PCs, Reading, Modes
  <2>2. \A p \in Threads : th[p] = Idle  BY DEF Init
  <2>3. Idle.pc \notin Reading /\ Idle.pc # "lock"  BY DEF Idle, Reading
  <2>4. QED  BY <2>1, <2>2, <2>3 DEF Init, PostInv
<1>6. QED  BY SMT, <1>3, <1>4, <1>5 DEF Init, ChannelInv, MapInv

-----------------------------------------------------------------------------
(* The steps that change the map, under the unique lock.                   *)

\* subscribe() takes a key that is ready.
LEMMA SubscribeSubs ==
    ASSUME SubsInv, NEW t \in Topics, NEW m \in Modes, Subscribe(t, m)
    PROVE  \E k, s :
             /\ SubsInv'
             /\ k \notin DOMAIN all_subs /\ s \in Subs /\ s.topic = t /\ s.mode = m
             /\ all_subs' = With(all_subs, k, s)
             /\ entries' = [entries EXCEPT ![m] = Entered(entries[m], k, s)]
<1> DEFINE k == Head(P!Filled)
           s == [id |-> made + 1, topic |-> t, mode |-> m, unsub |-> FALSE]
<1>1. /\ made < MaxSubs /\ P!Filled # <<>>
      /\ all_subs' = Inserted(all_subs, k, s)
      /\ entries' = [entries EXCEPT ![m] = Entered(@, k, s)]
      /\ seqs' = Tail(P!Filled) /\ current' = P!FilledTo /\ made' = made + 1
      /\ UNCHANGED <<purge_keys, leaked, ended>>
  BY SamePool DEF Subscribe
<1>2. P!Pool(P!FilledTo, P!Filled, Used)  BY SamePool, P!FilledLemma DEF SubsInv
<1>3. /\ P!Pool(P!FilledTo, Tail(P!Filled), Used \cup {k})
      /\ k \in P!Values /\ k \notin Used
  BY <1>1, <1>2, SamePool, P!TakeLemma
<1> HIDE DEF k
<1>4. /\ made \in Nat /\ MaxSubs \in Nat /\ made + 1 \in 1..MaxSubs /\ ~(made + 1 <= made)
      /\ \A i \in Nat : i <= made => i <= made + 1 /\ i # made + 1
  BY SMT, <1>1, BoundAssumption DEF SubsInv
<1>5. s \in Subs /\ s.id = made + 1 /\ s.topic = t /\ s.mode = m /\ ~s.unsub
  BY <1>4 DEF Subs
<1> HIDE DEF s
<1>6. all_subs' = With(all_subs, k, s)  BY <1>1, <1>3 DEF Inserted, Used
<1>7. /\ DOMAIN all_subs' = DOMAIN all_subs \cup {k} /\ all_subs'[k] = s
      /\ \A x \in DOMAIN all_subs : all_subs'[x] = all_subs[x]
      /\ all_subs' \in [DOMAIN all_subs' -> Subs]
  BY <1>3, <1>5, <1>6 DEF With, SubsInv, Used
<1>8. Used' = Used \cup {k}  BY <1>1, <1>7 DEF Used
<1>9. P!Pool(current, seqs, Used)'  BY <1>1, <1>3, <1>8
<1>10. \A x \in DOMAIN all_subs : all_subs[x].id \in Nat /\ all_subs[x].id <= made
  BY SMT DEF SubsInv, Subs
<1>11. \A x \in DOMAIN all_subs' : all_subs'[x].id <= made'
  BY SMT, <1>1, <1>4, <1>5, <1>7, <1>10
<1>12. \A x, y \in DOMAIN all_subs' : all_subs'[x].id = all_subs'[y].id => x = y
  BY SMT, <1>4, <1>5, <1>7, <1>10 DEF SubsInv
<1>13. ended \subseteq 1..made /\ ended' \subseteq 1..made' /\ made + 1 \notin ended
  BY SMT, <1>1, <1>4 DEF SubsInv
<1>14. \A x \in DOMAIN all_subs' : all_subs'[x].id \in ended' => all_subs'[x].unsub
  BY SMT, <1>1, <1>5, <1>7, <1>13 DEF SubsInv
<1>15. purge_keys' \in Seq(Used') /\ \A i \in 1..Len(purge_keys) : purge_keys[i] \in Used
  BY SMT, <1>1, <1>8 DEF SubsInv
<1>16. \A i \in 1..Len(purge_keys') :
         purge_keys'[i] \in DOMAIN all_subs' => all_subs'[purge_keys'[i]].unsub
  BY <1>1, <1>3, <1>7, <1>15 DEF SubsInv
<1>17. DOMAIN all_subs' \cap leaked' = {}  BY <1>1, <1>3, <1>7 DEF SubsInv, Used
<1>18. made' \in 0..MaxSubs  BY SMT, <1>1, <1>4
<1>19. SubsInv'
  BY <1>7, <1>9, <1>11, <1>12, <1>13, <1>14, <1>15, <1>16, <1>17, <1>18 DEF SubsInv
<1>20. QED  BY <1>1, <1>3, <1>5, <1>6, <1>19 DEF Used

\* A new subscription is in one entry more, that of its mode and topic.
LEMMA CopiesWith ==
    ASSUME NEW k, NEW s, k \notin DOMAIN all_subs, all_subs' = With(all_subs, k, s)
    PROVE  \A n, u : Copies(n, u)' = IF n = s.mode /\ u = s.topic
                                       THEN With(Copies(n, u), k, s) ELSE Copies(n, u)
<1>1. /\ DOMAIN all_subs' = DOMAIN all_subs \cup {k} /\ all_subs'[k] = s
      /\ \A x \in DOMAIN all_subs : all_subs'[x] = all_subs[x]
  BY DEF With
<1> TAKE n, u
<1> DEFINE D == {x \in DOMAIN all_subs : all_subs[x].mode = n /\ all_subs[x].topic = u}
           E == {x \in DOMAIN all_subs' : all_subs'[x].mode = n /\ all_subs'[x].topic = u}
<1>2. Copies(n, u) = [x \in D |-> all_subs[x]] /\ Copies(n, u)' = [x \in E |-> all_subs'[x]]
  BY DEF Copies
<1>3. CASE n = s.mode /\ u = s.topic
  <2>1. E = D \cup {k}  BY <1>1, <1>3
  <2>2. \A x \in E : all_subs'[x] = IF x = k THEN s ELSE all_subs[x]  BY <1>1
  <2> HIDE DEF D, E
  <2>3. QED  BY SMT, <1>2, <1>3, <2>1, <2>2 DEF With
<1>4. CASE ~(n = s.mode /\ u = s.topic)
  <2>1. E = D /\ \A x \in E : all_subs'[x] = all_subs[x]  BY <1>1, <1>4
  <2> HIDE DEF D, E
  <2>2. QED  BY <1>2, <1>4, <2>1
<1>5. QED  BY <1>3, <1>4

\* subscribe() keeps the copies in line.
LEMMA SubscribeStep ==
    ASSUME MapInv, NEW t \in Topics, NEW m \in Modes, Subscribe(t, m)
    PROVE  MapInv'
<1>0. SubsInv /\ EntriesInv  BY DEF MapInv
<1>1. PICK k, s :
        /\ SubsInv'
        /\ k \notin DOMAIN all_subs /\ s \in Subs /\ s.topic = t /\ s.mode = m
        /\ all_subs' = With(all_subs, k, s)
        /\ entries' = [entries EXCEPT ![m] = Entered(entries[m], k, s)]
  BY SMT, <1>0, SubscribeSubs
<1>2. \A n, u : Copies(n, u)' = IF n = m /\ u = t THEN With(Copies(n, u), k, s) ELSE Copies(n, u)
  BY SMT, <1>1, CopiesWith
<1>3. /\ entries = [n \in Modes |-> entries[n]]
      /\ \A n \in Modes : entries[n] = [u \in DOMAIN entries[n] |-> Copies(n, u)]
  BY <1>0 DEF EntriesInv
<1>4. /\ entries' = [n \in Modes |-> entries'[n]]
      /\ entries'[m] = Entered(entries[m], k, s)
      /\ \A n \in Modes : n # m => entries'[n] = entries[n]
  BY <1>1, <1>3
<1>5. \A u : u \notin DOMAIN entries[m] => Copies(m, u) = <<>>
  <2>1. \A u : u \notin DOMAIN entries[m] =>
          {x \in DOMAIN all_subs : all_subs[x].mode = m /\ all_subs[x].topic = u} = {}
    BY <1>0 DEF EntriesInv
  <2>2. QED  BY SMT, <2>1 DEF Copies
<1>6. Entered(entries[m], k, s) = With(entries[m], t, With(Copies(m, t), k, s))
  <2>1. (IF t \in DOMAIN entries[m] THEN entries[m][t] ELSE <<>>) = Copies(m, t)
    BY <1>3, <1>5
  <2>2. k \notin DOMAIN Copies(m, t)  BY <1>1 DEF Copies
  <2>3. QED  BY <1>1, <2>1, <2>2 DEF Entered, Inserted
<1>7. DOMAIN entries'[m] = DOMAIN entries[m] \cup {t}  BY <1>4, <1>6 DEF With
<1>8. entries'[m] = [u \in DOMAIN entries'[m] |-> Copies(m, u)']
  <2>1. entries'[m] = [u \in DOMAIN entries[m] \cup {t} |->
                          IF u = t THEN With(Copies(m, t), k, s) ELSE entries[m][u]]
    BY <1>4, <1>6 DEF With
  <2>2. \A u \in DOMAIN entries[m] : entries[m][u] = Copies(m, u)  BY SMT, <1>3
  <2>3. \A u \in DOMAIN entries[m] \cup {t} :
          (IF u = t THEN With(Copies(m, t), k, s) ELSE entries[m][u]) = Copies(m, u)'
    BY <1>2, <2>2
  <2>4. QED  BY <1>7, <2>1, <2>3
<1>9. ASSUME NEW n \in Modes, n # m
      PROVE  entries'[n] = [u \in DOMAIN entries'[n] |-> Copies(n, u)']
  <2>1. entries'[n] = entries[n]  BY <1>4, <1>9
  <2>2. \A u \in DOMAIN entries[n] : Copies(n, u)' = Copies(n, u)  BY <1>2, <1>9
  <2>3. entries[n] = [u \in DOMAIN entries[n] |-> Copies(n, u)]  BY <1>3
  <2>4. QED  BY <2>1, <2>2, <2>3
<1>10. \A n \in Modes : DOMAIN entries'[n] \subseteq Topics
  BY <1>0, <1>4, <1>7 DEF EntriesInv
<1>11. \A x \in DOMAIN all_subs' : all_subs'[x].topic \in DOMAIN entries'[all_subs'[x].mode]
  <2>1. /\ DOMAIN all_subs' = DOMAIN all_subs \cup {k} /\ all_subs'[k] = s
        /\ \A x \in DOMAIN all_subs : all_subs'[x] = all_subs[x]
    BY <1>1 DEF With
  <2>2. \A x \in DOMAIN all_subs : all_subs[x].mode \in Modes  BY <1>0 DEF SubsInv, Subs
  <2>3. QED  BY SMT, <1>0, <1>1, <1>4, <1>7, <2>1, <2>2 DEF EntriesInv
<1>12. EntriesInv'  BY <1>4, <1>8, <1>9, <1>10, <1>11 DEF EntriesInv
<1>13. QED  BY <1>1, <1>12 DEF MapInv

\* unsubscribe() marks the subscription in both places.
LEMMA UnsubscribedStep ==
    ASSUME MapInv, NEW k \in DOMAIN all_subs, Unsubscribed(k),
           ended' = ended \cup {all_subs[k].id}, UNCHANGED <<current, seqs, leaked, made>>
    PROVE  MapInv'
<1>0. SubsInv /\ EntriesInv  BY DEF MapInv
<1>a. PICK m \in Modes : m = all_subs[k].mode  BY <1>0 DEF SubsInv, Subs
<1>1. PICK t, s :
        /\ m = all_subs[k].mode /\ t = all_subs[k].topic
        /\ s = [all_subs[k] EXCEPT !.unsub = TRUE]
  BY <1>a
<1>2. s \in Subs /\ s.id = all_subs[k].id /\ s.mode = m /\ s.topic = t /\ s.unsub
  BY <1>0, <1>1 DEF SubsInv, Subs
<1>3. /\ all_subs' = [all_subs EXCEPT ![k] = s]
      /\ purge_keys' = Append(purge_keys, k)
      /\ entries' = [entries EXCEPT ![m] = [entries[m] EXCEPT ![t] =
                        [entries[m][t] EXCEPT ![k] = [entries[m][t][k] EXCEPT !.unsub = TRUE]]]]
  BY <1>1 DEF Unsubscribed
<1>4. /\ DOMAIN all_subs' = DOMAIN all_subs /\ all_subs'[k] = s
      /\ \A x \in DOMAIN all_subs : x # k => all_subs'[x] = all_subs[x]
      /\ all_subs' \in [DOMAIN all_subs' -> Subs]
  BY <1>0, <1>2, <1>3 DEF SubsInv
<1>5. \A x \in DOMAIN all_subs :
        /\ all_subs'[x].id = all_subs[x].id /\ all_subs'[x].mode = all_subs[x].mode
        /\ all_subs'[x].topic = all_subs[x].topic /\ (all_subs[x].unsub => all_subs'[x].unsub)
  BY <1>1, <1>2, <1>4
<1>6. Used' = Used  BY <1>4 DEF Used
<1>7. SubsInv'
  <2>1. P!Pool(current, seqs, Used)'  BY <1>0, <1>6 DEF SubsInv
  <2>2. /\ DOMAIN all_subs' \cap leaked' = {} /\ made' \in 0..MaxSubs
        /\ \A x \in DOMAIN all_subs' : all_subs'[x].id <= made'
        /\ \A x, y \in DOMAIN all_subs' : all_subs'[x].id = all_subs'[y].id => x = y
    BY SMT, <1>0, <1>4, <1>5 DEF SubsInv
  <2>3. ended' \subseteq 1..made'
    <3>1. all_subs[k].id \in 1..made  BY SMT, <1>0, BoundAssumption DEF SubsInv, Subs
    <3>2. QED  BY <1>0, <3>1 DEF SubsInv
  <2>4. \A x \in DOMAIN all_subs' : all_subs'[x].id \in ended' => all_subs'[x].unsub
    BY <1>0, <1>2, <1>4, <1>5 DEF SubsInv
  <2>5. /\ purge_keys' \in Seq(Used') /\ Len(purge_keys) \in Nat
        /\ Len(purge_keys') = Len(purge_keys) + 1
        /\ \A i \in 1..Len(purge_keys') :
              \/ purge_keys'[i] = k
              \/ i \in 1..Len(purge_keys) /\ purge_keys'[i] = purge_keys[i]
    <3>1. purge_keys \in Seq(Used) /\ k \in Used  BY <1>0 DEF SubsInv, Used
    <3>2. QED  BY SMT, <1>3, <1>6, <3>1
  <2>6. \A i \in 1..Len(purge_keys') :
          purge_keys'[i] \in DOMAIN all_subs' => all_subs'[purge_keys'[i]].unsub
    BY <1>0, <1>2, <1>4, <1>5, <2>5 DEF SubsInv
  <2>7. QED  BY <1>4, <2>1, <2>2, <2>3, <2>4, <2>5, <2>6 DEF SubsInv
<1>8. \A n, u : Copies(n, u)' = IF n = m /\ u = t THEN [Copies(n, u) EXCEPT ![k] = s]
                                 ELSE Copies(n, u)
  <2> TAKE n, u
  <2> DEFINE C == {x \in DOMAIN all_subs : all_subs[x].mode = n /\ all_subs[x].topic = u}
  <2>1. {x \in DOMAIN all_subs' : all_subs'[x].mode = n /\ all_subs'[x].topic = u} = C
    BY <1>4, <1>5
  <2>2. Copies(n, u) = [x \in C |-> all_subs[x]] /\ Copies(n, u)' = [x \in C |-> all_subs'[x]]
    BY <2>1 DEF Copies
  <2>3. k \in C <=> n = m /\ u = t  BY <1>1
  <2>4. \A x \in C : all_subs'[x] = IF x = k THEN s ELSE all_subs[x]  BY <1>4
  <2> HIDE DEF C
  <2>5. CASE n = m /\ u = t  BY SMT, <2>2, <2>3, <2>4, <2>5
  <2>6. CASE ~(n = m /\ u = t)  BY <2>2, <2>3, <2>4, <2>6
  <2>7. QED  BY <2>5, <2>6
<1>9. /\ entries = [n \in Modes |-> entries[n]]
      /\ \A n \in Modes : entries[n] = [u \in DOMAIN entries[n] |-> Copies(n, u)]
  BY <1>0 DEF EntriesInv
<1>10. t \in DOMAIN entries[m]  BY <1>0, <1>1 DEF EntriesInv
<1>11. entries[m][t] = Copies(m, t) /\ entries[m][t][k] = all_subs[k]
  <2>1. entries[m][t] = Copies(m, t)  BY <1>9, <1>10
  <2>2. Copies(m, t)[k] = all_subs[k]  BY <1>1 DEF Copies
  <2>3. QED  BY <2>1, <2>2
<1>12. entries' = [entries EXCEPT ![m] = [entries[m] EXCEPT ![t] = Copies(m, t)']]
  <2>1. Copies(m, t)' = [Copies(m, t) EXCEPT ![k] = s]  BY <1>8
  <2>2. QED  BY <1>1, <1>3, <1>11, <2>1
<1>13. /\ entries' = [n \in Modes |-> entries'[n]]
       /\ entries'[m] = [entries[m] EXCEPT ![t] = Copies(m, t)']
       /\ \A n \in Modes : n # m => entries'[n] = entries[n]
  BY <1>9, <1>12
<1>14. \A n \in Modes : DOMAIN entries'[n] = DOMAIN entries[n]  BY <1>9, <1>13
<1>15. \A n \in Modes : entries'[n] = [u \in DOMAIN entries'[n] |-> Copies(n, u)']
  <2>1. ASSUME NEW n \in Modes, n # m
        PROVE  entries'[n] = [u \in DOMAIN entries'[n] |-> Copies(n, u)']
    <3>1. \A u : Copies(n, u)' = Copies(n, u)  BY <1>8, <2>1
    <3>2. QED  BY SMT, <1>9, <1>13, <2>1, <3>1
  <2>2. entries'[m] = [u \in DOMAIN entries'[m] |-> Copies(m, u)']
    <3>1. \A u \in DOMAIN entries[m] : u # t => entries[m][u] = Copies(m, u)'  BY <1>8, <1>9
    <3>2. entries[m] = [u \in DOMAIN entries[m] |-> entries[m][u]]  BY <1>9
    <3>3. QED  BY <1>13, <3>1, <3>2
  <2>3. QED  BY <2>1, <2>2
<1>16. EntriesInv'
  <2>1. \A x \in DOMAIN all_subs : all_subs[x].mode \in Modes  BY <1>0 DEF SubsInv, Subs
  <2>2. \A x \in DOMAIN all_subs' : all_subs'[x].topic \in DOMAIN entries'[all_subs'[x].mode]
    BY SMT, <1>0, <1>4, <1>5, <1>14, <2>1 DEF EntriesInv
  <2>3. \A n \in Modes : DOMAIN entries'[n] \subseteq Topics  BY <1>0, <1>14 DEF EntriesInv
  <2>4. QED  BY <1>13, <1>15, <2>2, <2>3 DEF EntriesInv
<1>17. QED  BY <1>7, <1>16 DEF MapInv

\* clear() leaves no subscription, and their keys to nobody.
LEMMA ClearStep ==
    ASSUME MapInv, ClearMap, made' = made
    PROVE  MapInv'
<1>0. SubsInv /\ EntriesInv  BY DEF MapInv
<1>1. /\ entries' = [n \in Modes |-> <<>>] /\ all_subs' = <<>>
      /\ leaked' = leaked \cup DOMAIN all_subs
      /\ ended' = ended \cup {all_subs[k].id : k \in DOMAIN all_subs}
      /\ UNCHANGED <<current, seqs, purge_keys>>
  BY DEF ClearMap
<1>2. DOMAIN all_subs' = {} /\ Used' = Used  BY SMT, <1>1 DEF Used
<1>3. SubsInv'
  <2>1. P!Pool(current, seqs, Used)'  BY <1>0, <1>1, <1>2 DEF SubsInv
  <2>2. all_subs' \in [DOMAIN all_subs' -> Subs]  BY SMT, <1>1, <1>2
  <2>3. ended' \subseteq 1..made'
    <3>1. \A k \in DOMAIN all_subs : all_subs[k].id \in 1..made
      BY SMT, <1>0, BoundAssumption DEF SubsInv, Subs
    <3>2. QED  BY <1>0, <1>1, <3>1 DEF SubsInv
  <2>4. purge_keys' \in Seq(Used') /\ made' \in 0..MaxSubs  BY <1>0, <1>1, <1>2 DEF SubsInv
  <2>5. QED  BY <1>2, <2>1, <2>2, <2>3, <2>4 DEF SubsInv
<1>4. \A n \in Modes : entries'[n] = <<>> /\ DOMAIN entries'[n] = {}  BY SMT, <1>1
<1>5. EntriesInv'  BY SMT, <1>1, <1>2, <1>4 DEF EntriesInv
<1>6. QED  BY <1>3, <1>5 DEF MapInv

\* purge() takes the subscriptions it finds from all_subs_ and from their entries, and
\* releases the key of each once.
LEMMA PurgeStep ==
    ASSUME MapInv, NEW p, Purge(p)
    PROVE  MapInv'
<1>0. SubsInv /\ EntriesInv  BY DEF MapInv
<1>1. PICK ks \in Released :
        /\ entries' = [n \in Modes |-> PurgedFrom(entries[n])]
        /\ all_subs' = Without(all_subs, Waiting)
        /\ seqs' = seqs \o ks /\ purge_keys' = <<>>
        /\ UNCHANGED <<current, leaked, ended, made>>
  BY DEF Purge
<1>2. Waiting \subseteq DOMAIN all_subs /\ Waiting \subseteq Used /\ Waiting \subseteq P!Values
  <2>1. Used \subseteq P!Values  BY <1>0 DEF SubsInv, P!Pool
  <2>2. QED  BY <2>1 DEF Waiting, Used
<1>3. ks \in Seq(P!Values) /\ P!NoRepeat(ks) /\ P!Elems(ks) = Waiting
  <2>1. PICK n \in 0..Len(purge_keys) : ks \in [1..n -> Waiting]  BY DEF Released, Listings
  <2>2. n \in Nat  BY SMT, <1>0 DEF SubsInv
  <2>3. ks \in Seq(Waiting) /\ Len(ks) = n  BY SMT, <2>1, <2>2
  <2>4. ks \in Seq(P!Values) /\ \A i \in 1..Len(ks) : ks[i] \in Waiting  BY SMT, <1>2, <2>3
  <2>5. P!NoRepeat(ks) /\ \A k \in Waiting : \E i \in 1..Len(ks) : ks[i] = k
    BY DEF Released, Listings, P!NoRepeat
  <2>6. QED  BY <2>4, <2>5 DEF P!Elems
<1> HIDE DEF Waiting
<1>4. /\ DOMAIN all_subs' = DOMAIN all_subs \ Waiting
      /\ \A x \in DOMAIN all_subs' : x \in DOMAIN all_subs /\ all_subs'[x] = all_subs[x]
      /\ all_subs' \in [DOMAIN all_subs' -> Subs]
  BY <1>0, <1>1 DEF Without, SubsInv
<1>5. Used' = Used \ Waiting  BY <1>0, <1>1, <1>2, <1>4 DEF Used, SubsInv
<1>6. P!Pool(current, seqs, Used)'
  <2>1. P!Pool(current, seqs \o ks, Used \ P!Elems(ks))
    BY <1>0, <1>2, <1>3, SamePool, P!GiveLemma DEF SubsInv
  <2>2. QED  BY <1>1, <1>3, <1>5, <2>1
<1>7. SubsInv'
  <2>1. purge_keys' \in Seq(Used') /\ Len(purge_keys') = 0  BY SMT, <1>1
  <2>2. /\ DOMAIN all_subs' \cap leaked' = {} /\ made' \in 0..MaxSubs /\ ended' \subseteq 1..made'
        /\ \A x \in DOMAIN all_subs' : all_subs'[x].id <= made'
        /\ \A x \in DOMAIN all_subs' : all_subs'[x].id \in ended' => all_subs'[x].unsub
    BY <1>0, <1>1, <1>4 DEF SubsInv
  <2>3. \A x, y \in DOMAIN all_subs' : all_subs'[x].id = all_subs'[y].id => x = y
    BY <1>0, <1>4 DEF SubsInv
  <2>4. QED  BY SMT, <1>4, <1>6, <2>1, <2>2, <2>3 DEF SubsInv
<1>8. /\ entries = [n \in Modes |-> entries[n]]
      /\ \A n \in Modes : entries[n] = [u \in DOMAIN entries[n] |-> Copies(n, u)]
  BY <1>0 DEF EntriesInv
<1>9. \A n \in Modes : /\ entries'[n] = PurgedFrom(entries[n])
                       /\ DOMAIN entries'[n] = DOMAIN entries[n]
  BY <1>1 DEF PurgedFrom
<1>10. \A n, u : Copies(n, u)' = Without(Copies(n, u), {k \in Waiting : all_subs[k].topic = u})
  <2> TAKE n, u
  <2> DEFINE C == {x \in DOMAIN all_subs : all_subs[x].mode = n /\ all_subs[x].topic = u}
             W == {k \in Waiting : all_subs[k].topic = u}
  <2>1. {x \in DOMAIN all_subs' : all_subs'[x].mode = n /\ all_subs'[x].topic = u} = C \ W
    BY <1>2, <1>4
  <2>2. Copies(n, u) = [x \in C |-> all_subs[x]] /\ Copies(n, u)' = [x \in C \ W |-> all_subs'[x]]
    BY <2>1 DEF Copies
  <2>3. \A x \in C \ W : all_subs'[x] = all_subs[x]  BY <1>4
  <2> HIDE DEF C, W
  <2>4. Copies(n, u)' = Without(Copies(n, u), W)  BY <2>2, <2>3 DEF Without
  <2>5. QED  BY <2>4 DEF W
<1>11. \A n \in Modes : entries'[n] = [u \in DOMAIN entries'[n] |-> Copies(n, u)']
  <2> TAKE n \in Modes
  <2>1. \A u \in DOMAIN entries[n] : entries[n][u] = Copies(n, u)  BY <1>8
  <2>2. entries'[n] = [u \in DOMAIN entries[n] |->
                         Without(entries[n][u], {k \in Waiting : all_subs[k].topic = u})]
    BY <1>9 DEF PurgedFrom
  <2>3. \A u \in DOMAIN entries[n] :
          Without(entries[n][u], {k \in Waiting : all_subs[k].topic = u}) = Copies(n, u)'
    BY <1>10, <2>1
  <2>4. QED  BY <1>9, <2>2, <2>3
<1>12. EntriesInv'
  <2>1. entries' = [n \in Modes |-> entries'[n]]  BY <1>1
  <2>2. \A x \in DOMAIN all_subs : all_subs[x].mode \in Modes  BY <1>0 DEF SubsInv, Subs
  <2>3. \A x \in DOMAIN all_subs' : all_subs'[x].topic \in DOMAIN entries'[all_subs'[x].mode]
    BY <1>0, <1>4, <1>9, <2>2 DEF EntriesInv
  <2>4. \A n \in Modes : DOMAIN entries'[n] \subseteq Topics  BY <1>0, <1>9 DEF EntriesInv
  <2>5. QED  BY <1>11, <2>1, <2>3, <2>4 DEF EntriesInv
<1>13. QED  BY <1>7, <1>12 DEF MapInv

-----------------------------------------------------------------------------
(* The steps of posts, under the shared lock.                              *)

\* What a post has done stays right while the map stays as it is.
LEMMA TrackKept ==
    ASSUME NEW r, OnTrack(r), UNCHANGED <<all_subs, entries>>
    PROVE  (OnTrack(r))'
<1>1. \A k, t : Hit(r, k, t)' = Hit(r, k, t)  BY DEF Hit
<1>2. \A k : DueSoFar(r, k)' = DueSoFar(r, k)  BY <1>1 DEF DueSoFar
<1>3. Found(r.mode, Looked(r))' = Found(r.mode, Looked(r))  BY DEF Found, Looked
<1>4. QED  BY <1>2, <1>3 DEF OnTrack, Count

\* A thread goes on, and the map stays.
LEMMA ThreadMoves ==
    ASSUME PostInv, NEW p \in Threads, NEW r \in Posts, th' = [th EXCEPT ![p] = r],
           readers' = (IF r.pc \in Reading THEN readers \cup {p} ELSE readers \ {p}),
           UNCHANGED <<all_subs, entries>>, r.pc \in Reading => OnTrack(r),
           r.pc = "lock" => r.got = <<>> /\ ~r.threw
    PROVE  PostInv'
<1>1. /\ th' \in [Threads -> Posts] /\ th'[p] = r /\ readers' \subseteq Threads
      /\ \A x \in Threads : x # p => th'[x] = th[x] /\ (x \in readers' <=> x \in readers)
  BY DEF PostInv
<1>2. p \in readers' <=> r.pc \in Reading  OBVIOUS
<1>3. ASSUME NEW x \in Threads, th'[x].pc \in Reading PROVE OnTrack(th[x])'
  <2>1. CASE x = p  BY <1>1, <1>3, <2>1, TrackKept
  <2>2. CASE x # p
    <3>1. OnTrack(th[x]) /\ th'[x] = th[x]  BY <1>1, <1>3, <2>2 DEF PostInv
    <3>2. PICK s : s = th[x]  OBVIOUS
    <3>3. QED  BY <3>1, <3>2, TrackKept
  <2>3. QED  BY <2>1, <2>2
<1>4. \A x \in Threads : th'[x].pc = "lock" => th'[x].got = <<>> /\ ~th'[x].threw
  BY <1>1 DEF PostInv
<1>5. QED  BY <1>1, <1>2, <1>3, <1>4 DEF PostInv

\* While a thread has the unique lock no post goes on.
LEMMA WriterAlone ==
    ASSUME PostInv, NEW p \in Threads, NEW r \in Posts, th' = [th EXCEPT ![p] = r],
           readers = {}, readers' = {}, r.pc \notin Reading, r.pc # "lock"
    PROVE  PostInv'
<1>1. /\ th' \in [Threads -> Posts] /\ th'[p] = r
      /\ \A x \in Threads : x # p => th'[x] = th[x]
  BY DEF PostInv
<1>2. \A x \in Threads : th'[x].pc \notin Reading  BY <1>1 DEF PostInv
<1>3. \A x \in Threads : th'[x].pc = "lock" => th'[x].got = <<>> /\ ~th'[x].threw
  BY <1>1 DEF PostInv
<1>4. QED  BY <1>1, <1>2, <1>3 DEF PostInv

\* A message is looked for only under valid topics, and every subscription that it
\* should reach there is found.
LEMMA FoundAll ==
    ASSUME MapInv, NEW r \in Posts, NEW t
    PROVE  /\ Found(r.mode, t) \subseteq DOMAIN all_subs
           /\ \A k \in Found(r.mode, t) :
                /\ IsValid(t) /\ all_subs[k].topic = t /\ all_subs[k].mode = r.mode
                /\ entries[r.mode][t][k] = all_subs[k]
           /\ \A k \in DOMAIN all_subs : k \notin Found(r.mode, t) => Hit(r, k, t) = 0
<1>0. r.mode \in Modes  BY DEF Posts
<1>1. ASSUME NEW k \in Found(r.mode, t)
      PROVE  /\ IsValid(t) /\ k \in DOMAIN all_subs
             /\ all_subs[k].topic = t /\ all_subs[k].mode = r.mode
             /\ entries[r.mode][t][k] = all_subs[k]
  <2>1. IsValid(t) /\ t \in DOMAIN entries[r.mode] /\ k \in DOMAIN entries[r.mode][t]
    BY <1>1 DEF Found
  <2>2. entries[r.mode][t] = Copies(r.mode, t)  BY <1>0, <2>1 DEF MapInv, EntriesInv
  <2>3. k \in DOMAIN Copies(r.mode, t)  BY <2>1, <2>2
  <2>4. /\ k \in DOMAIN all_subs /\ all_subs[k].topic = t /\ all_subs[k].mode = r.mode
        /\ Copies(r.mode, t)[k] = all_subs[k]
    BY <2>3 DEF Copies
  <2>5. QED  BY <2>1, <2>2, <2>4
<1>2. ASSUME NEW k \in DOMAIN all_subs, Hit(r, k, t) # 0 PROVE k \in Found(r.mode, t)
  <2>1. IsValid(t) /\ all_subs[k].topic = t /\ all_subs[k].mode = r.mode  BY <1>2 DEF Hit
  <2>2. t \in DOMAIN entries[r.mode]  BY <2>1 DEF MapInv, EntriesInv
  <2>3. entries[r.mode][t] = Copies(r.mode, t)  BY <1>0, <2>2 DEF MapInv, EntriesInv
  <2>4. k \in DOMAIN Copies(r.mode, t)  BY <2>1 DEF Copies
  <2>5. QED  BY <2>1, <2>2, <2>3, <2>4 DEF Found
<1>3. QED  BY <1>1, <1>2

\* A subscription that is found is the one in all_subs_, of that topic and mode.
LEMMA IsFound ==
    ASSUME MapInv, NEW r \in Posts, NEW t, NEW k \in Found(r.mode, t)
    PROVE  /\ k \in DOMAIN all_subs /\ IsValid(t) /\ all_subs[k].topic = t
           /\ all_subs[k].mode = r.mode /\ entries[r.mode][t][k] = all_subs[k]
BY SMT, FoundAll

\* One that is not found should not be reached under that topic.
LEMMA IsNotFound ==
    ASSUME MapInv, NEW r \in Posts, NEW t, NEW k \in DOMAIN all_subs, k \notin Found(r.mode, t)
    PROVE  Hit(r, k, t) = 0
BY FoundAll

\* The records of threads between posts.
LEMMA Records ==
    /\ Idle \in Posts /\ Idle.pc = "idle"
    /\ \A m \in Modes, look, msg \in Topics, n \in Nat :
          LET r == Posting(m, look, msg, n)
          IN  r \in Posts /\ r.pc = "lock" /\ r.got = <<>> /\ ~r.threw
    /\ \A r \in Posts : Posted(r) \in Posts /\ Posted(r).pc = "purge_wait"
    /\ \A r \in Posts : AfterPost(r) \in Posts /\ AfterPost(r).pc \in {"idle", "pop"}
<1>1. <<>> \in Counts
  <2>1. <<>> \in [{} -> Nat]  BY SMT
  <2>2. QED  BY <2>1 DEF Counts
<1>2. Idle \in Posts /\ Idle.pc = "idle" /\ Idle.got = <<>> /\ ~Idle.threw
  BY SMT, <1>1 DEF Idle, Posts, PCs, Reading, Modes
<1>3. ASSUME NEW m \in Modes, NEW look \in Topics, NEW msg \in Topics, NEW n \in Nat
      PROVE  LET r == Posting(m, look, msg, n)
             IN  r \in Posts /\ r.pc = "lock" /\ r.got = <<>> /\ ~r.threw
  BY <1>2, TopicAssumption DEF Posting, Posts, PCs
<1>4. ASSUME NEW r \in Posts PROVE Posted(r) \in Posts /\ Posted(r).pc = "purge_wait"
  BY <1>2 DEF Posted, Posts, PCs
<1>5. ASSUME NEW r \in Posts PROVE AfterPost(r) \in Posts /\ AfterPost(r).pc \in {"idle", "pop"}
  BY <1>2 DEF AfterPost, Posts, PCs
<1>6. QED  BY <1>2, <1>3, <1>4, <1>5

\* The steps of a thread outside posts and the unique lock.
LEMMA CallStep ==
    ASSUME PostInv, NEW p \in Threads, q \in Seq(Topics),
           \/ Clear(p) \/ Execute(p) \/ ExecuteEnds(p) \/ PurgeSkip(p) \/ PurgeDue(p)
           \/ \E look, m \in Topics : Publish(p, look, m)
    PROVE  PostInv' /\ q' \in Seq(Topics) /\ UNCHANGED mapVars /\ th'[p].pc # "callback"
<1>0. th \in [Threads -> Posts] /\ th[p] \in Posts  BY DEF PostInv
<1>1. UNCHANGED mapVars /\ readers' = readers
  BY DEF Clear, Execute, ExecuteEnds, PurgeSkip, PurgeDue, Publish, mapVars
<1>2. th[p].pc \notin Reading
  BY DEF Clear, Execute, ExecuteEnds, PurgeSkip, PurgeDue, Publish, Reading
<1>3. q' \in Seq(Topics)
  <2>1. CASE Execute(p)  BY SMT, <2>1 DEF Execute
  <2>2. ASSUME NEW look \in Topics, NEW m \in Topics, Publish(p, look, m)
        PROVE  q' \in Seq(Topics)
    BY SMT, <2>2 DEF Publish
  <2>3. CASE Clear(p)  BY SMT, <2>3 DEF Clear
  <2>4. CASE ExecuteEnds(p) \/ PurgeSkip(p) \/ PurgeDue(p)
    BY <2>4 DEF ExecuteEnds, PurgeSkip, PurgeDue
  <2>5. QED  BY <2>1, <2>2, <2>3, <2>4
<1>4. \E r \in Posts :
        /\ th' = [th EXCEPT ![p] = r]
        /\ r.pc \notin Reading /\ (r.pc = "lock" => r.got = <<>> /\ ~r.threw)
  <2>1. CASE Clear(p)
    <3>1. th' = [th EXCEPT ![p] = [th[p] EXCEPT !.pc = "clear"]]  BY <2>1 DEF Clear
    <3>2. [th[p] EXCEPT !.pc = "clear"] \in Posts /\ [th[p] EXCEPT !.pc = "clear"].pc = "clear"
      BY <1>0 DEF Posts, PCs
    <3>3. QED  BY <3>1, <3>2 DEF Reading
  <2>2. CASE Execute(p)
    <3>1. /\ th' = [th EXCEPT ![p] = Posting("delayed", Head(q), Head(q), th[p].count)]
          /\ Head(q) \in Topics /\ th[p].count \in Nat
      BY SMT, <1>0, <2>2 DEF Execute, Posts
    <3>2. QED  BY <3>1, Records DEF Reading, Modes
  <2>3. CASE ExecuteEnds(p)  BY <2>3, Records DEF ExecuteEnds, Reading
  <2>4. CASE PurgeSkip(p)
    <3>1. th' = [th EXCEPT ![p] = AfterPost(th[p])]  BY <2>4 DEF PurgeSkip
    <3>2. QED  BY <1>0, <3>1, Records DEF Reading
  <2>5. CASE PurgeDue(p)
    <3>1. th' = [th EXCEPT ![p] = [th[p] EXCEPT !.pc = "purge"]]  BY <2>5 DEF PurgeDue
    <3>2. [th[p] EXCEPT !.pc = "purge"] \in Posts /\ [th[p] EXCEPT !.pc = "purge"].pc = "purge"
      BY <1>0 DEF Posts, PCs
    <3>3. QED  BY <3>1, <3>2 DEF Reading
  <2>6. ASSUME NEW look \in Topics, NEW m \in Topics, Publish(p, look, m)
        PROVE  \E r \in Posts :
                 /\ th' = [th EXCEPT ![p] = r]
                 /\ r.pc \notin Reading /\ (r.pc = "lock" => r.got = <<>> /\ ~r.threw)
    BY <2>6, Records DEF Publish, Reading, Modes
  <2>7. QED  BY <2>1, <2>2, <2>3, <2>4, <2>5, <2>6
<1>5. PICK r \in Posts :
        /\ th' = [th EXCEPT ![p] = r]
        /\ r.pc \notin Reading /\ (r.pc = "lock" => r.got = <<>> /\ ~r.threw)
  BY <1>4
<1>6. readers' = readers \ {p}  BY <1>1, <1>2 DEF PostInv
<1>7. PostInv'  BY <1>1, <1>5, <1>6, ThreadMoves DEF mapVars
<1>8. QED  BY <1>0, <1>1, <1>3, <1>5, <1>7 DEF Reading

\* The records of threads in a post.
Begun(r, n, T) == [r EXCEPT !.pc = "post", !.stage = n, !.todo = T]
Second(r, n, T) == [r EXCEPT !.stage = n, !.todo = T]
Returned(r, n) == [r EXCEPT !.pc = "post", !.count = n]
Thrown(r) == [r EXCEPT !.pc = "post", !.todo = {}, !.threw = TRUE]
Asked(r, c, k) == [r EXCEPT !.pc = c, !.key = k]
Passed(r, k) == [r EXCEPT !.todo = @ \ {k}]
Called(r, k, g) == [r EXCEPT !.todo = @ \ {k}, !.pc = "callback", !.got = g]

\* s is the record of the post r at another point.
Goes(r, s, c, stage, todo, got, threw) ==
    /\ s \in Posts /\ s.pc = c /\ s.stage = stage /\ s.todo = todo /\ s.got = got /\ s.threw = threw
    /\ s.mode = r.mode /\ s.look = r.look /\ s.msg = r.msg

\* They are records of threads, and have what they had but for what was set.
LEMMA GoingBegun ==
    ASSUME NEW r \in Posts, NEW n \in 0..2, NEW T \in SUBSET Nat
    PROVE  /\ Goes(r, Begun(r, n, T), "post", n, T, r.got, r.threw)
           /\ Goes(r, Second(r, n, T), r.pc, n, T, r.got, r.threw)
<1>0. "post" \in PCs  BY DEF PCs, Reading
<1>1. Goes(r, Begun(r, n, T), "post", n, T, r.got, r.threw)  BY <1>0 DEF Posts, Begun, Goes
<1>2. Goes(r, Second(r, n, T), r.pc, n, T, r.got, r.threw)  BY DEF Posts, Second, Goes
<1>3. QED  BY <1>1, <1>2

\* So have they when a callback returned or threw,
LEMMA GoingBack ==
    ASSUME NEW r \in Posts, NEW n \in Nat
    PROVE  /\ Goes(r, Returned(r, n), "post", r.stage, r.todo, r.got, r.threw)
           /\ Goes(r, Thrown(r), "post", r.stage, {}, r.got, TRUE)
<1>0. "post" \in PCs  BY DEF PCs, Reading
<1>1. Goes(r, Returned(r, n), "post", r.stage, r.todo, r.got, r.threw)
  BY <1>0 DEF Posts, Returned, Goes
<1>2. Goes(r, Thrown(r), "post", r.stage, {}, r.got, TRUE)  BY <1>0 DEF Posts, Thrown, Goes
<1>3. QED  BY <1>1, <1>2

\* when unsubscribe() is called or returns,
LEMMA GoingAsked ==
    ASSUME NEW r \in Posts, NEW c \in PCs, NEW k \in Nat
    PROVE  Goes(r, Asked(r, c, k), c, r.stage, r.todo, r.got, r.threw)
BY DEF Posts, Asked, Goes

\* and when the loop comes to a subscription.
LEMMA GoingOn ==
    ASSUME NEW r \in Posts, NEW k, NEW g \in Counts
    PROVE  /\ Goes(r, Passed(r, k), r.pc, r.stage, r.todo \ {k}, r.got, r.threw)
           /\ Goes(r, Called(r, k, g), "callback", r.stage, r.todo \ {k}, g, r.threw)
<1>0. "callback" \in PCs  BY DEF PCs, Reading
<1>1. Goes(r, Passed(r, k), r.pc, r.stage, r.todo \ {k}, r.got, r.threw)  BY DEF Posts, Passed, Goes
<1>2. Goes(r, Called(r, k, g), "callback", r.stage, r.todo \ {k}, g, r.threw)
  BY <1>0 DEF Posts, Called, Goes
<1>3. QED  BY <1>1, <1>2

\* What is due, by the point at which the post is.
LEMMA Due ==
    ASSUME NEW r, NEW k
    PROVE  /\ \A t : Hit(r, k, t) \in {0, 1}
           /\ DueSoFar(r, k) \in 0..2
           /\ r.stage = 1 /\ k \in r.todo => DueSoFar(r, k) = 0
           /\ r.stage = 1 /\ k \notin r.todo => DueSoFar(r, k) = Hit(r, k, r.look)
           /\ r.stage = 2 /\ k \in r.todo => DueSoFar(r, k) = Hit(r, k, r.look)
           /\ r.stage = 2 /\ k \notin r.todo =>
                DueSoFar(r, k) = Hit(r, k, r.look) + Hit(r, k, GroupTopic(r.look))
<1>1. \A t : Hit(r, k, t) \in {0, 1}  BY DEF Hit
<1>2. CASE r.stage = 1  BY SMT, <1>1, <1>2 DEF DueSoFar
<1>3. CASE r.stage # 1
  <2>1. CASE k \in r.todo
    <3>1. DueSoFar(r, k) = Hit(r, k, r.look) + 0  BY <1>3, <2>1 DEF DueSoFar
    <3>2. QED  BY SMT, <1>1, <1>3, <2>1, <3>1
  <2>2. CASE k \notin r.todo
    <3>1. DueSoFar(r, k) = Hit(r, k, r.look) + Hit(r, k, GroupTopic(r.look))
      BY <1>3, <2>2 DEF DueSoFar
    <3>2. QED  BY SMT, <1>1, <1>3, <2>2, <3>1
  <2>3. QED  BY <2>1, <2>2
<1>4. QED  BY <1>2, <1>3

\* Callbacks are counted in natural numbers.
LEMMA CountNat ==
    ASSUME NEW r \in Posts, NEW i
    PROVE  Count(r, i) \in Nat
<1>1. PICK S : r.got \in [S -> Nat]  BY DEF Posts, Counts
<1>2. QED  BY <1>1 DEF Count

\* A post that has not gone on is as far as it was.
LEMMA SameTrack ==
    ASSUME NEW r, NEW s, NEW c, OnTrack(r), Goes(r, s, c, r.stage, r.todo, r.got, r.threw)
    PROVE  OnTrack(s)
<1>1. Looked(s) = Looked(r)  BY DEF Goes, Looked
<1>2. \A i : Count(s, i) = Count(r, i)  BY DEF Goes, Count
<1>3. \A k : DueSoFar(s, k) = DueSoFar(r, k)  BY DEF Goes, DueSoFar, Hit
<1>4. QED  BY <1>1, <1>2, <1>3 DEF OnTrack, Goes

\* A post whose callback threw leaves out the others of the topic.
LEMMA LessTrack ==
    ASSUME NEW r \in Posts, NEW s, NEW c, OnTrack(r), Goes(r, s, c, r.stage, {}, r.got, TRUE)
    PROVE  OnTrack(s)
<1>1. s.todo = {} /\ s.threw /\ s.got = r.got /\ s.stage \in {1, 2}  BY DEF Goes, OnTrack
<1>2. \A i : Count(s, i) = Count(r, i)  BY DEF Goes, Count
<1>3. \A k \in DOMAIN all_subs : Count(r, all_subs[k].id) <= DueSoFar(s, k)
  <2> TAKE k \in DOMAIN all_subs
  <2>1. \A t : Hit(s, k, t) = Hit(r, k, t) /\ Hit(r, k, t) \in {0, 1}  BY DEF Goes, Hit
  <2>2. /\ Count(r, all_subs[k].id) <= DueSoFar(r, k)
        /\ r.threw \/ Count(r, all_subs[k].id) = DueSoFar(r, k)
    BY DEF OnTrack
  <2>3. DueSoFar(r, k) \in 0..2 /\ DueSoFar(r, k) <= DueSoFar(s, k) /\ DueSoFar(s, k) \in 0..2
    <3>1. s.stage = r.stage /\ s.look = r.look  BY DEF Goes
    <3>2. CASE s.stage = 1
      <4>1. DueSoFar(s, k) = Hit(s, k, s.look)  BY <1>1, <3>2, Due
      <4>2. DueSoFar(r, k) \in {0, Hit(r, k, r.look)}  BY <3>1, <3>2, Due
      <4>3. QED  BY SMT, <2>1, <3>1, <4>1, <4>2
    <3>3. CASE s.stage = 2
      <4>1. DueSoFar(s, k) = Hit(s, k, s.look) + Hit(s, k, GroupTopic(s.look))  BY <1>1, <3>3, Due
      <4>2. \/ DueSoFar(r, k) = Hit(r, k, r.look)
            \/ DueSoFar(r, k) = Hit(r, k, r.look) + Hit(r, k, GroupTopic(r.look))
        BY <3>1, <3>3, Due
      <4>3. QED  BY SMT, <2>1, <3>1, <4>1, <4>2
    <3>4. QED  BY <1>1, <3>2, <3>3
  <2>4. Count(r, all_subs[k].id) \in Nat  BY CountNat
  <2>5. QED  BY SMT, <2>2, <2>3, <2>4
<1>4. QED  BY <1>1, <1>2, <1>3 DEF OnTrack

\* The steps that begin, interrupt and end a post.
LEMMA TurnStep ==
    ASSUME MapInv, PostInv, NEW p \in Threads,
           \/ PostBegin(p) \/ PostGroup(p) \/ PostEnd(p) \/ CallbackReturns(p) \/ CallbackThrows(p)
           \/ \E k \in 1..KeyEnd : UnsubscribeCall(p, k)
    PROVE  PostInv' /\ UNCHANGED <<mapVars, q>> /\ th'[p].pc # "callback"
<1>0. th \in [Threads -> Posts] /\ th[p] \in Posts  BY DEF PostInv
<1>1. UNCHANGED <<mapVars, q>>
  BY DEF PostBegin, PostGroup, PostEnd, CallbackReturns, CallbackThrows, UnsubscribeCall, mapVars
<1>2. \A t : Found(th[p].mode, t) \in SUBSET Nat
  <2>1. DOMAIN all_subs \subseteq Nat  BY SMT, SamePool DEF MapInv, SubsInv, P!Pool, Used
  <2>2. \A t : Found(th[p].mode, t) \subseteq DOMAIN all_subs  BY <1>0, FoundAll
  <2>3. QED  BY <2>1, <2>2
<1> DEFINE Turns(r) == /\ th' = [th EXCEPT ![p] = r] /\ r.pc # "callback"
                       /\ readers' = (IF r.pc \in Reading THEN readers \cup {p} ELSE readers \ {p})
                       /\ r.pc \in Reading => OnTrack(r)
                       /\ r.pc = "lock" => r.got = <<>> /\ ~r.threw
<1>3. ASSUME PostBegin(p) PROVE \E r \in Posts : Turns(r)
  <2>1. PICK T \in SUBSET Nat : T = Found(th[p].mode, th[p].look)  BY <1>2
  <2>2. PICK r : r = Begun(th[p], 1, T)  OBVIOUS
  <2>3. Goes(th[p], r, "post", 1, T, th[p].got, th[p].threw)
    <3>1. 1 \in 0..2  BY SMT
    <3>2. QED  BY <1>0, <2>2, <3>1, GoingBegun
  <2>4. th' = [th EXCEPT ![p] = r] /\ readers' = readers \cup {p} /\ th[p].pc = "lock"
    BY <1>3, <2>1, <2>2 DEF PostBegin, Begun
  <2>5. r.got = <<>> /\ ~r.threw  BY <2>3, <2>4 DEF PostInv, Goes
  <2>6. OnTrack(r)
    <3>1. Looked(r) = r.look /\ T = Found(r.mode, Looked(r))  BY <2>1, <2>3 DEF Looked, Goes
    <3>2. \A k \in DOMAIN all_subs : DueSoFar(r, k) = 0
      <4> TAKE k \in DOMAIN all_subs
      <4>1. r \in Posts /\ r.stage = 1 /\ r.todo = T /\ Looked(r) = r.look  BY <2>3, <3>1 DEF Goes
      <4>2. k \notin T => Hit(r, k, r.look) = 0  BY <3>1, <4>1, IsNotFound
      <4>3. QED  BY <4>1, <4>2, Due
    <3>3. \A k : Count(r, all_subs[k].id) = 0 /\ DOMAIN r.got = {}  BY SMT, <2>5 DEF Count
    <3>4. \A k \in DOMAIN all_subs : /\ Count(r, all_subs[k].id) <= DueSoFar(r, k)
                                     /\ Count(r, all_subs[k].id) = DueSoFar(r, k)
      BY SMT, <3>2, <3>3
    <3>5. r.stage \in {1, 2} /\ r.todo \subseteq Found(r.mode, Looked(r))  BY <2>3, <3>1 DEF Goes
    <3>6. QED  BY <3>3, <3>4, <3>5 DEF OnTrack
  <2>7. Turns(r)  BY <2>3, <2>4, <2>6 DEF Reading, Goes
  <2>8. QED  BY <2>3, <2>7 DEF Goes
<1>4. ASSUME PostGroup(p) PROVE \E r \in Posts : Turns(r)
  <2>0. th[p].pc = "post" /\ th[p].stage = 1 /\ th[p].todo = {} /\ readers' = readers
    BY <1>4 DEF PostGroup
  <2>1. PICK T \in SUBSET Nat : T = Found(th[p].mode, GroupTopic(th[p].look))  BY <1>2
  <2>2. PICK r : r = Second(th[p], 2, T)  OBVIOUS
  <2>3. Goes(th[p], r, th[p].pc, 2, T, th[p].got, th[p].threw)
    <3>1. 2 \in 0..2  BY SMT
    <3>2. QED  BY <1>0, <2>2, <3>1, GoingBegun
  <2>4. th' = [th EXCEPT ![p] = r]  BY <1>4, <2>1, <2>2 DEF PostGroup, Second
  <2>5. p \in readers /\ OnTrack(th[p])  BY <2>0 DEF PostInv, Reading
  <2>6. OnTrack(r)
    <3>0. /\ r \in Posts /\ r.stage = 2 /\ r.todo = T /\ r.got = th[p].got
          /\ r.look = th[p].look /\ r.mode = th[p].mode
      BY <2>3 DEF Goes
    <3>1. Looked(r) = GroupTopic(r.look) /\ T = Found(r.mode, Looked(r))
      <4>1. Looked(r) = GroupTopic(r.look)  BY SMT, <3>0 DEF Looked
      <4>2. QED  BY <2>1, <3>0, <4>1
    <3>2. \A k \in DOMAIN all_subs : DueSoFar(r, k) = DueSoFar(th[p], k)
      <4> TAKE k \in DOMAIN all_subs
      <4>1. Hit(r, k, r.look) = Hit(th[p], k, th[p].look) /\ Hit(r, k, r.look) \in {0, 1}
        BY <2>3 DEF Hit, Goes
      <4>2. k \notin T => Hit(r, k, GroupTopic(r.look)) = 0  BY <3>0, <3>1, IsNotFound
      <4>3. DueSoFar(th[p], k) = Hit(r, k, r.look)  BY <2>0, <4>1, Due
      <4>4. DueSoFar(r, k) = Hit(r, k, r.look)
        <5>1. CASE k \in T  BY <3>0, <5>1, Due
        <5>2. CASE k \notin T
          <6>1. DueSoFar(r, k) = Hit(r, k, r.look) + 0  BY SMT, <3>0, <4>2, <5>2, Due
          <6>2. QED  BY SMT, <4>1, <6>1
        <5>3. QED  BY <5>1, <5>2
      <4>5. QED  BY <4>3, <4>4
    <3>3. \A i : Count(r, i) = Count(th[p], i)  BY <2>3 DEF Count, Goes
    <3>4. QED  BY <2>3, <2>5, <3>1, <3>2, <3>3 DEF OnTrack, Goes
  <2>7. Turns(r)  BY <2>0, <2>3, <2>4, <2>5, <2>6 DEF Reading, Goes
  <2>8. QED  BY <2>3, <2>7 DEF Goes
<1>5. ASSUME PostEnd(p) PROVE \E r \in Posts : Turns(r)
  <2>1. th' = [th EXCEPT ![p] = Posted(th[p])] /\ readers' = readers \ {p}  BY <1>5 DEF PostEnd
  <2>2. Posted(th[p]) \in Posts /\ Posted(th[p]).pc = "purge_wait"  BY <1>0, Records
  <2>3. QED  BY <2>1, <2>2 DEF Reading
<1>6. ASSUME CallbackReturns(p) PROVE \E r \in Posts : Turns(r)
  <2>0. th[p].pc = "callback" /\ readers' = readers /\ p \in readers /\ OnTrack(th[p])
    BY <1>6 DEF CallbackReturns, PostInv, Reading
  <2>1. PICK n \in Nat : n = th[p].count + 1  BY SMT, <1>0 DEF Posts
  <2>2. PICK r : r = Returned(th[p], n)  OBVIOUS
  <2>3. Goes(th[p], r, "post", th[p].stage, th[p].todo, th[p].got, th[p].threw)
    BY <1>0, <2>2, GoingBack
  <2>4. th' = [th EXCEPT ![p] = r]
    <3>1. [th[p] EXCEPT !.pc = "post", !.count = @ + 1] = Returned(th[p], n)
      <4>1. [th[p] EXCEPT !.pc = "post"].count = th[p].count  BY <1>0 DEF Posts
      <4>2. QED  BY <2>1, <4>1 DEF Returned
    <3>2. th' = [th EXCEPT ![p] = [th[p] EXCEPT !.pc = "post", !.count = @ + 1]]
      BY <1>6 DEF CallbackReturns
    <3>3. QED  BY <2>2, <3>1, <3>2
  <2>5. OnTrack(r)  BY <2>0, <2>3, SameTrack
  <2>6. QED  BY <2>0, <2>3, <2>4, <2>5 DEF Goes, Reading
<1>7. ASSUME CallbackThrows(p) PROVE \E r \in Posts : Turns(r)
  <2>0. th[p].pc = "callback" /\ readers' = readers /\ p \in readers /\ OnTrack(th[p])
    BY <1>7 DEF CallbackThrows, PostInv, Reading
  <2>2. PICK r : r = Thrown(th[p])  OBVIOUS
  <2>3. Goes(th[p], r, "post", th[p].stage, {}, th[p].got, TRUE)  BY <1>0, <2>2, GoingBack
  <2>4. th' = [th EXCEPT ![p] = r]  BY <1>7, <2>2 DEF CallbackThrows, Thrown
  <2>5. OnTrack(r)  BY <1>0, <2>0, <2>3, LessTrack
  <2>6. QED  BY <2>0, <2>3, <2>4, <2>5 DEF Goes, Reading
<1>8. ASSUME NEW k \in 1..KeyEnd, UnsubscribeCall(p, k) PROVE \E r \in Posts : Turns(r)
  <2>0. th[p].pc \in {"idle", "callback"} /\ readers' = readers  BY <1>8 DEF UnsubscribeCall
  <2>1. PICK c \in {"unsub", "cb_unsub"} :
           /\ c = (IF th[p].pc = "idle" THEN "unsub" ELSE "cb_unsub")
           /\ th' = [th EXCEPT ![p] = Asked(th[p], c, k)]
    <3>1. PICK c \in {"unsub", "cb_unsub"} : c = (IF th[p].pc = "idle" THEN "unsub" ELSE "cb_unsub")
      OBVIOUS
    <3>2. [th[p] EXCEPT !.pc = IF @ = "idle" THEN "unsub" ELSE "cb_unsub", !.key = k] = Asked(th[p], c, k)
      BY <3>1 DEF Asked
    <3>3. th' = [th EXCEPT ![p] =
                   [th[p] EXCEPT !.pc = IF @ = "idle" THEN "unsub" ELSE "cb_unsub", !.key = k]]
      BY <1>8 DEF UnsubscribeCall
    <3>4. QED  BY <3>1, <3>2, <3>3
  <2>2. PICK r : r = Asked(th[p], c, k)  OBVIOUS
  <2>3. Goes(th[p], r, c, th[p].stage, th[p].todo, th[p].got, th[p].threw)
    <3>1. c \in PCs /\ k \in Nat  BY SMT DEF PCs, Reading
    <3>2. QED  BY <1>0, <2>2, <3>1, GoingAsked
  <2>4. CASE th[p].pc = "idle"
    <3>1. p \notin readers /\ c = "unsub"  BY <2>1, <2>4 DEF PostInv, Reading
    <3>2. QED  BY <2>0, <2>1, <2>2, <2>3, <3>1 DEF Goes, Reading
  <2>5. CASE th[p].pc = "callback"
    <3>1. p \in readers /\ OnTrack(th[p]) /\ c = "cb_unsub"  BY <2>1, <2>5 DEF PostInv, Reading
    <3>2. OnTrack(r)  BY <2>3, <3>1, SameTrack
    <3>3. QED  BY <2>0, <2>1, <2>2, <2>3, <3>1, <3>2 DEF Goes, Reading
  <2>6. QED  BY <2>0, <2>4, <2>5
<1>9. PICK r \in Posts : Turns(r)  BY <1>3, <1>4, <1>5, <1>6, <1>7, <1>8
<1>10. PostInv'  BY <1>1, <1>9, ThreadMoves DEF mapVars
<1>11. QED  BY <1>0, <1>1, <1>9, <1>10

\* What a post that comes to subscription k has to have done for it by then.
LEMMA DueOn ==
    ASSUME MapInv, NEW r \in Posts, NEW s \in Posts, OnTrack(r), NEW k \in r.todo,
           NEW c, NEW g, NEW b, Goes(r, s, c, r.stage, r.todo \ {k}, g, b)
    PROVE  /\ k \in DOMAIN all_subs /\ entries[r.mode][Looked(r)][k] = all_subs[k]
           /\ \A l : DueSoFar(r, l) \in 0..2
           /\ \A l : l # k => DueSoFar(s, l) = DueSoFar(r, l)
           /\ DueSoFar(s, k) = DueSoFar(r, k) + (IF Gets(all_subs[k], r.msg) THEN 1 ELSE 0)
<1>1. r.stage \in {1, 2} /\ k \in Found(r.mode, Looked(r))  BY DEF OnTrack
<1>2. /\ k \in DOMAIN all_subs /\ IsValid(Looked(r)) /\ all_subs[k].topic = Looked(r)
      /\ all_subs[k].mode = r.mode /\ entries[r.mode][Looked(r)][k] = all_subs[k]
  <2>1. PICK t : t = Looked(r)  OBVIOUS
  <2>2. k \in Found(r.mode, t)  BY <1>1, <2>1
  <2>3. QED  BY SMT, <2>1, <2>2, IsFound
<1>3. \A l, t : Hit(s, l, t) = Hit(r, l, t) /\ Hit(r, l, t) \in {0, 1}  BY DEF Goes, Hit
<1>4. Hit(r, k, Looked(r)) = IF Gets(all_subs[k], r.msg) THEN 1 ELSE 0  BY <1>2 DEF Hit
<1>5. s.stage = r.stage /\ s.todo = r.todo \ {k} /\ s.look = r.look  BY DEF Goes
<1>6. \A l : DueSoFar(r, l) \in 0..2  BY Due
<1>7. \A l : l # k => DueSoFar(s, l) = DueSoFar(r, l)  BY <1>3, <1>5 DEF DueSoFar
<1>8. DueSoFar(s, k) = DueSoFar(r, k) + Hit(r, k, Looked(r))
  <2>1. CASE r.stage = 1
    <3>1. Looked(r) = r.look  BY <2>1 DEF Looked
    <3>2. DueSoFar(r, k) = 0 /\ DueSoFar(s, k) = Hit(s, k, s.look)  BY <1>5, <2>1, Due
    <3>3. Hit(s, k, s.look) = Hit(r, k, Looked(r)) /\ Hit(r, k, Looked(r)) \in {0, 1}
      BY <1>3, <1>5, <3>1
    <3>4. QED  BY SMT, <3>2, <3>3
  <2>2. CASE r.stage = 2
    <3>1. Looked(r) = GroupTopic(r.look)  BY SMT, <2>2 DEF Looked
    <3>2. /\ DueSoFar(r, k) = Hit(r, k, r.look)
          /\ DueSoFar(s, k) = Hit(s, k, s.look) + Hit(s, k, GroupTopic(s.look))
      BY <1>5, <2>2, Due
    <3>3. /\ Hit(s, k, s.look) = Hit(r, k, r.look)
          /\ Hit(s, k, GroupTopic(s.look)) = Hit(r, k, Looked(r))
      BY <1>3, <1>5, <3>1
    <3>4. QED  BY <3>2, <3>3
  <2>3. QED  BY <1>1, <2>1, <2>2
<1>9. QED  BY <1>2, <1>4, <1>6, <1>7, <1>8

\* A callback of subscription number i, counted.
Counted(f, i) == With(f, i, IF i \in DOMAIN f THEN f[i] + 1 ELSE 1)

OneMore(S, f, i, h) ==
    /\ h \in [S \cup {i} -> Nat] /\ DOMAIN h = S \cup {i}
    /\ h[i] = (IF i \in S THEN f[i] ELSE 0) + 1
    /\ \A j \in S : j # i => h[j] = f[j]

\* Two counts that go up by one stay in step.
LEMMA BothUp ==
    \A c \in Nat : \A d \in 0..2 : (c <= d => c + 1 <= d + 1) /\ (c = d => c + 1 = d + 1)
BY SMT

\* It is one more of it, and of no other.
LEMMA CountUp ==
    ASSUME NEW S, NEW f \in [S -> Nat], NEW i
    PROVE  OneMore(S, f, i, Counted(f, i))
<1>1. PICK n \in Nat : n = (IF i \in S THEN f[i] ELSE 0) + 1
  <2>1. (IF i \in S THEN f[i] ELSE 0) \in Nat  OBVIOUS
  <2>2. QED  BY SMT, <2>1
<1>2. n = IF i \in DOMAIN f THEN f[i] + 1 ELSE 1  BY SMT, <1>1
<1>3. QED  BY <1>1, <1>2 DEF With, Counted, OneMore

\* A post comes to a subscription: one that was unsubscribed is not called.
LEMMA SubStep ==
    ASSUME MapInv, PostInv, NEW p \in Threads, NEW k, PostSub(p, k)
    PROVE  /\ PostInv' /\ UNCHANGED <<mapVars, q>>
           /\ \A x \in Threads : x # p => th'[x] = th[x]
           /\ \A i \in ended : i \in DOMAIN th'[p].got =>
                 i \in DOMAIN th[p].got /\ th'[p].got[i] = th[p].got[i]
<1>0. th \in [Threads -> Posts] /\ th[p] \in Posts  BY DEF PostInv
<1>1. UNCHANGED <<mapVars, q, readers>> /\ th[p].pc = "post" /\ k \in th[p].todo
  BY DEF PostSub, mapVars
<1>2. p \in readers /\ OnTrack(th[p])  BY <1>1 DEF PostInv, Reading
<1>3. Goes(th[p], Passed(th[p], k), "post", th[p].stage, th[p].todo \ {k}, th[p].got, th[p].threw)
  <2>1. th[p].got \in Counts  BY <1>0 DEF Posts
  <2>2. QED  BY <1>0, <1>1, <2>1, GoingOn
<1>4. Passed(th[p], k) \in Posts  BY <1>3 DEF Goes
<1>5. k \in DOMAIN all_subs /\ entries[th[p].mode][Looked(th[p])][k] = all_subs[k]
  BY <1>0, <1>1, <1>2, <1>3, <1>4, DueOn
<1>6. /\ all_subs[k].id \in 1..MaxSubs /\ (all_subs[k].id \in ended => all_subs[k].unsub)
      /\ \A l \in DOMAIN all_subs : all_subs[l].id = all_subs[k].id => l = k
  BY <1>5 DEF MapInv, SubsInv, Subs
<1>7. CASE ~Gets(all_subs[k], th[p].msg)
  <2>1. PICK r \in Posts : r = Passed(th[p], k)  BY <1>4
  <2>2. th' = [th EXCEPT ![p] = r]  BY <1>5, <1>7, <2>1 DEF PostSub, Passed
  <2>3. OnTrack(r)
    <3>1. \A l : DueSoFar(th[p], l) \in 0..2 /\ DueSoFar(r, l) = DueSoFar(th[p], l)
      <4>1. /\ \A l : DueSoFar(th[p], l) \in 0..2
            /\ \A l : l # k => DueSoFar(r, l) = DueSoFar(th[p], l)
            /\ DueSoFar(r, k) = DueSoFar(th[p], k) + (IF Gets(all_subs[k], th[p].msg) THEN 1 ELSE 0)
        BY <1>0, <1>1, <1>2, <1>3, <2>1, DueOn
      <4>2. QED  BY SMT, <1>7, <4>1
    <3>2. \A i : Count(r, i) = Count(th[p], i)  BY <1>3, <2>1 DEF Goes, Count
    <3>3. Looked(r) = Looked(th[p])  BY <1>3, <2>1 DEF Goes, Looked
    <3>4. QED  BY <1>2, <1>3, <2>1, <3>1, <3>2, <3>3 DEF OnTrack, Goes
  <2>4. r.pc = "post" /\ r.got = th[p].got  BY <1>3, <2>1 DEF Goes
  <2>5. PostInv'  BY <1>1, <1>2, <2>2, <2>3, <2>4, ThreadMoves DEF Reading, mapVars
  <2>6. QED  BY <1>0, <1>1, <2>2, <2>4, <2>5
<1>8. CASE Gets(all_subs[k], th[p].msg)
  <2> DEFINE i == all_subs[k].id
             g == Counted(th[p].got, i)
  <2>0. i \notin ended  BY <1>6, <1>8 DEF Gets
  <2>1. /\ g \in Counts /\ DOMAIN g = DOMAIN th[p].got \cup {i}
        /\ g[i] = Count(th[p], i) + 1 /\ \A j \in DOMAIN th[p].got : j # i => g[j] = th[p].got[j]
    <3>1. PICK S \in SUBSET (1..MaxSubs) : th[p].got \in [S -> Nat]  BY <1>0 DEF Posts, Counts
    <3>2. OneMore(S, th[p].got, i, g)  BY <3>1, CountUp
    <3> HIDE DEF g
    <3>3. g[i] = Count(th[p], i) + 1  BY <3>1, <3>2 DEF Count, OneMore
    <3>4. S \cup {i} \in SUBSET (1..MaxSubs)  BY <1>6
    <3>5. QED  BY <3>1, <3>2, <3>3, <3>4 DEF Counts, OneMore
  <2> HIDE DEF g
  <2>2. PICK r : r = Called(th[p], k, g)  OBVIOUS
  <2>3. Goes(th[p], r, "callback", th[p].stage, th[p].todo \ {k}, g, th[p].threw)
    BY <1>0, <2>1, <2>2, GoingOn
  <2>4. th' = [th EXCEPT ![p] = r]  BY <1>5, <1>8, <2>2 DEF PostSub, Called, Counted, g
  <2>5. r \in Posts /\ r.pc = "callback" /\ r.got = g /\ r.threw = th[p].threw  BY <2>3 DEF Goes
  <2>6. OnTrack(r)
    <3>1. /\ \A l : DueSoFar(th[p], l) \in 0..2
          /\ \A l : l # k => DueSoFar(r, l) = DueSoFar(th[p], l)
          /\ DueSoFar(r, k) = DueSoFar(th[p], k) + 1
      BY <1>0, <1>1, <1>2, <1>8, <2>3, <2>5, DueOn
    <3>2. Count(r, i) = Count(th[p], i) + 1 /\ \A j : j # i => Count(r, j) = Count(th[p], j)
      BY <2>1, <2>5 DEF Count
    <3>3. Looked(r) = Looked(th[p])  BY <2>3 DEF Goes, Looked
    <3>4. \A l \in DOMAIN all_subs :
             LET n == Count(r, all_subs[l].id)
             IN  n <= DueSoFar(r, l) /\ (~r.threw => n = DueSoFar(r, l))
      <4> TAKE l \in DOMAIN all_subs
      <4>1. /\ Count(th[p], all_subs[l].id) <= DueSoFar(th[p], l)
            /\ ~th[p].threw => Count(th[p], all_subs[l].id) = DueSoFar(th[p], l)
        BY <1>2 DEF OnTrack
      <4>2. Count(th[p], all_subs[l].id) \in Nat  BY <1>0, CountNat
      <4>3. CASE l = k
        <5>1. /\ Count(r, all_subs[l].id) = Count(th[p], all_subs[l].id) + 1
              /\ DueSoFar(r, l) = DueSoFar(th[p], l) + 1 /\ DueSoFar(th[p], l) \in 0..2
          BY <3>1, <3>2, <4>3
        <5>2. QED  BY <2>5, <4>1, <4>2, <5>1, BothUp
      <4>4. CASE l # k
        <5>1. all_subs[l].id # i  BY <1>6, <4>4
        <5>2. /\ Count(r, all_subs[l].id) = Count(th[p], all_subs[l].id)
              /\ DueSoFar(r, l) = DueSoFar(th[p], l)
          BY <3>1, <3>2, <4>4, <5>1
        <5>3. QED  BY <2>5, <4>1, <5>2
      <4>5. QED  BY <4>3, <4>4
    <3>5. \A j \in DOMAIN r.got : \E l \in DOMAIN all_subs : all_subs[l].id = j
      BY <1>2, <1>5, <2>1, <2>5 DEF OnTrack
    <3>6. r.stage \in {1, 2} /\ r.todo \subseteq Found(r.mode, Looked(r))
      BY <1>2, <2>3, <3>3 DEF OnTrack, Goes
    <3>7. QED  BY <3>4, <3>5, <3>6 DEF OnTrack
  <2>7. PostInv'  BY <1>1, <1>2, <2>4, <2>5, <2>6, ThreadMoves DEF Reading, mapVars
  <2>8. th'[p] = r /\ \A x \in Threads : x # p => th'[x] = th[x]  BY <1>0, <2>4
  <2>9. \A j \in ended : j \in DOMAIN r.got => j \in DOMAIN th[p].got /\ r.got[j] = th[p].got[j]
    BY <2>0, <2>1, <2>5
  <2>10. QED  BY <1>1, <2>7, <2>8, <2>9
<1>9. QED  BY <1>7, <1>8

\* What is in the map and what waits does not depend on the rest.
LEMMA MapKept ==
    ASSUME MapInv, UNCHANGED mapVars
    PROVE  MapInv'
<1>1. Used' = Used  BY DEF mapVars, Used
<1>2. P!Pool(current, seqs, Used)' <=> P!Pool(current, seqs, Used)  BY <1>1 DEF mapVars
<1>3. SubsInv'  BY <1>1, <1>2 DEF MapInv, mapVars, SubsInv
<1>4. EntriesInv'
  <2>1. entries' = entries /\ all_subs' = all_subs  BY DEF mapVars
  <2>2. \A m, t : Copies(m, t)' = Copies(m, t)  BY <2>1 DEF Copies
  <2>3. QED  BY <2>1, <2>2 DEF MapInv, EntriesInv
<1>5. QED  BY <1>3, <1>4 DEF MapInv

\* The calls that change the map have the unique lock.
LEMMA MapStep ==
    ASSUME MapInv, PostInv, NEW p \in Threads, Unsubscribe(p) \/ ClearSubs(p) \/ Purge(p)
    PROVE  MapInv' /\ PostInv' /\ q' = q /\ th[p].pc # "post"
<1>0. th \in [Threads -> Posts] /\ th[p] \in Posts  BY DEF PostInv
<1>1. readers = {} /\ readers' = {} /\ q' = q  BY DEF Unsubscribe, ClearSubs, ClearMap, Purge
<1>2. th[p].pc \notin Reading  BY <1>1 DEF PostInv
<1>3. CASE Unsubscribe(p)
  <2>1. th[p].pc = "unsub"  BY <1>2, <1>3 DEF Unsubscribe, Reading
  <2>2. MapInv'
    <3>1. UNCHANGED <<current, seqs, leaked, made>>  BY <1>3 DEF Unsubscribe
    <3>2. CASE th[p].key \in DOMAIN all_subs
      <4>1. Unsubscribed(th[p].key) /\ ended' = ended \cup {all_subs[th[p].key].id}
        BY <1>3, <3>2 DEF Unsubscribe
      <4>2. QED  BY <3>1, <3>2, <4>1, UnsubscribedStep
    <3>3. CASE th[p].key \notin DOMAIN all_subs
      <4>1. UNCHANGED mapVars  BY <1>3, <3>1, <3>3 DEF Unsubscribe, mapVars
      <4>2. QED  BY <4>1, MapKept
    <3>4. QED  BY <3>2, <3>3
  <2>3. PICK z \in Nat : z = 0  OBVIOUS
  <2>4. th' = [th EXCEPT ![p] = Asked(th[p], "idle", z)]
    <3>1. [th[p] EXCEPT !.pc = IF @ = "unsub" THEN "idle" ELSE "callback", !.key = 0]
             = Asked(th[p], "idle", z)
      BY <2>1, <2>3 DEF Asked
    <3>2. th' = [th EXCEPT ![p] =
                   [th[p] EXCEPT !.pc = IF @ = "unsub" THEN "idle" ELSE "callback", !.key = 0]]
      BY <1>3 DEF Unsubscribe
    <3>3. QED  BY <3>1, <3>2
  <2>5. Asked(th[p], "idle", z) \in Posts /\ Asked(th[p], "idle", z).pc = "idle"
    <3>1. "idle" \in PCs  BY DEF PCs
    <3>2. Goes(th[p], Asked(th[p], "idle", z), "idle", th[p].stage, th[p].todo, th[p].got, th[p].threw)
      BY <1>0, <3>1, GoingAsked
    <3>3. QED  BY <3>2 DEF Goes
  <2>6. PostInv'  BY <1>1, <2>4, <2>5, WriterAlone DEF Reading
  <2>7. QED  BY <1>1, <2>1, <2>2, <2>6
<1>4. CASE ClearSubs(p)
  <2>1. MapInv'  BY <1>4, ClearStep DEF ClearSubs
  <2>2. th' = [th EXCEPT ![p] = [th[p] EXCEPT !.pc = "idle"]] /\ th[p].pc = "clear"
    BY <1>4 DEF ClearSubs
  <2>3. [th[p] EXCEPT !.pc = "idle"] \in Posts /\ [th[p] EXCEPT !.pc = "idle"].pc = "idle"
    BY <1>0 DEF Posts, PCs
  <2>4. PostInv'  BY <1>1, <2>2, <2>3, WriterAlone DEF Reading
  <2>5. QED  BY <1>1, <2>1, <2>2, <2>4
<1>5. CASE Purge(p)
  <2>1. MapInv'  BY <1>5, PurgeStep
  <2>2. th' = [th EXCEPT ![p] = AfterPost(th[p])] /\ th[p].pc = "purge"  BY <1>5 DEF Purge
  <2>3. AfterPost(th[p]) \in Posts /\ AfterPost(th[p]).pc \in {"idle", "pop"}  BY <1>0, Records
  <2>4. PostInv'  BY <1>1, <2>2, <2>3, WriterAlone DEF Reading
  <2>5. QED  BY <1>1, <2>1, <2>2, <2>4
<1>6. QED  BY <1>3, <1>4, <1>5

\* A step of a thread is of no other thread.
LEMMA OthersStay ==
    ASSUME PostInv, NEW p \in Threads,
           \/ Step(p) \/ Clear(p)
           \/ \E k \in 1..KeyEnd : UnsubscribeCall(p, k)
           \/ \E t, m \in Topics : Publish(p, t, m)
    PROVE  \A x \in Threads : x # p => th'[x] = th[x]
<1>1. \E r : th' = [th EXCEPT ![p] = r]
  BY DEF Step, Clear, UnsubscribeCall, Publish, Unsubscribe, ClearSubs, Execute, ExecuteEnds,
         PostBegin, PostSub, CallbackReturns, CallbackThrows, PostGroup, PostEnd, PurgeSkip,
         PurgeDue, Purge
<1>2. QED  BY <1>1 DEF PostInv

\* An unsubscribed subscription is not called by the step of thread x.
NotLate(x) ==
    \A i \in ended :
        th'[x].pc = "callback" /\ th[x].pc = "post" /\ i \in DOMAIN th'[x].got =>
            i \in DOMAIN th[x].got /\ th'[x].got[i] = th[x].got[i]

\* Every step of a thread keeps the invariant, and calls no subscription late.
LEMMA ThreadStep ==
    ASSUME ChannelInv, NEW p \in Threads,
           \/ Step(p) \/ Clear(p)
           \/ \E k \in 1..KeyEnd : UnsubscribeCall(p, k)
           \/ \E t, m \in Topics : Publish(p, t, m)
    PROVE  ChannelInv' /\ \A x \in Threads : NotLate(x)
<1>0. MapInv /\ PostInv /\ q \in Seq(Topics)  BY DEF ChannelInv
<1>1. \A x \in Threads : x # p => NotLate(x)  BY <1>0, OthersStay DEF NotLate
<1>2. CASE \/ Clear(p) \/ Execute(p) \/ ExecuteEnds(p) \/ PurgeSkip(p) \/ PurgeDue(p)
           \/ \E t, m \in Topics : Publish(p, t, m)
  <2>1. PostInv' /\ q' \in Seq(Topics) /\ UNCHANGED mapVars /\ th'[p].pc # "callback"
    BY <1>0, <1>2, CallStep
  <2>2. QED  BY <1>0, <1>1, <2>1, MapKept DEF ChannelInv, NotLate
<1>3. CASE \/ PostBegin(p) \/ PostGroup(p) \/ PostEnd(p) \/ CallbackReturns(p) \/ CallbackThrows(p)
           \/ \E k \in 1..KeyEnd : UnsubscribeCall(p, k)
  <2>1. PostInv' /\ UNCHANGED <<mapVars, q>> /\ th'[p].pc # "callback"
    BY <1>0, <1>3, TurnStep
  <2>2. QED  BY <1>0, <1>1, <2>1, MapKept DEF ChannelInv, NotLate
<1>4. CASE \E k \in 1..KeyEnd : PostSub(p, k)
  <2>1. /\ PostInv' /\ UNCHANGED <<mapVars, q>>
        /\ \A i \in ended : i \in DOMAIN th'[p].got =>
              i \in DOMAIN th[p].got /\ th'[p].got[i] = th[p].got[i]
    BY <1>0, <1>4, SubStep
  <2>2. QED  BY <1>0, <1>1, <2>1, MapKept DEF ChannelInv, NotLate
<1>5. CASE Unsubscribe(p) \/ ClearSubs(p) \/ Purge(p)
  <2>1. MapInv' /\ PostInv' /\ q' = q /\ th[p].pc # "post"  BY <1>0, <1>5, MapStep
  <2>2. QED  BY <1>0, <1>1, <2>1 DEF ChannelInv, NotLate
<1>6. QED  BY <1>2, <1>3, <1>4, <1>5 DEF Step

\* Every step keeps the invariant, and calls no subscription late.
LEMMA ChannelStep ==
    ASSUME ChannelInv, [Next]_vars
    PROVE  ChannelInv' /\ (Next => \A x \in Threads : NotLate(x))
<1>0. MapInv /\ PostInv /\ q \in Seq(Topics)  BY DEF ChannelInv
<1>1. CASE \E t \in Topics, m \in Modes : Subscribe(t, m)
  <2>1. MapInv'  BY <1>0, <1>1, SubscribeStep
  <2>2. readers = {} /\ readers' = {} /\ th' = th /\ q' = q  BY <1>1 DEF Subscribe
  <2>3. \A p \in Threads : th[p].pc \notin Reading  BY <1>0, <2>2 DEF PostInv
  <2>4. PostInv'  BY <1>0, <2>2, <2>3 DEF PostInv
  <2>5. QED  BY <1>0, <2>1, <2>2, <2>4 DEF ChannelInv, NotLate
<1>2. CASE \/ \E p \in Threads : Step(p)
           \/ \E p \in Threads, k \in 1..KeyEnd : UnsubscribeCall(p, k)
           \/ \E p \in Threads : Clear(p)
           \/ \E p \in Publishers, t, m \in Topics : Publish(p, t, m)
  BY <1>2, ThreadStep DEF Threads
<1>3. CASE UNCHANGED vars
  <2>1. UNCHANGED mapVars /\ UNCHANGED <<th, readers, q, all_subs, entries>>
    BY <1>3 DEF vars, mapVars
  <2>2. MapInv'  BY <1>0, <2>1, MapKept
  <2>3. \A p \in Threads : th[p].pc \in Reading => OnTrack(th[p])'
    <3>1. \A p \in Threads : th[p].pc \in Reading => OnTrack(th[p])  BY <1>0 DEF PostInv
    <3>2. ASSUME NEW p \in Threads, th[p].pc \in Reading PROVE OnTrack(th[p])'
      <4>1. PICK r : r = th[p] /\ OnTrack(r)  BY <3>1, <3>2
      <4>2. QED  BY <2>1, <4>1, TrackKept
    <3>3. QED  BY <3>2
  <2>4. PostInv'  BY <1>0, <2>1, <2>3 DEF PostInv
  <2>5. QED  BY <1>0, <2>1, <2>2, <2>4 DEF ChannelInv, NotLate
<1>4. QED  BY <1>1, <1>2, <1>3 DEF Next

\* The copies agree when the entries are the copies of all_subs_.
LEMMA InvCopies == ChannelInv => CopiesAgree
<1> SUFFICES ASSUME ChannelInv PROVE CopiesAgree  OBVIOUS
<1>0. SubsInv /\ EntriesInv /\ PostInv  BY DEF ChannelInv, MapInv
<1>1. TypeOK
  <2>1. DOMAIN all_subs \subseteq 1..(KeyEnd - 1)
    BY <1>0, SamePool DEF SubsInv, P!Pool, Used
  <2>2. \A k \in DOMAIN all_subs : all_subs[k] \in Subs  BY <1>0 DEF SubsInv
  <2>3. \A m \in Modes : DOMAIN entries[m] \subseteq Topics  BY <1>0 DEF EntriesInv
  <2>4. readers \subseteq Threads /\ \A p \in Threads : p \in readers <=> th[p].pc \in Reading
    BY <1>0 DEF PostInv
  <2>5. q \in Seq(Topics)  BY DEF ChannelInv
  <2>6. QED  BY <2>1, <2>2, <2>3, <2>4, <2>5 DEF TypeOK, Subs, Reading
<1>2. Keys!Conserved  BY <1>0, SamePool DEF SubsInv, P!Pool
<1>3. \A i \in 1..Len(purge_keys) :
         purge_keys[i] \in DOMAIN all_subs => all_subs[purge_keys[i]].unsub
  BY <1>0 DEF SubsInv
<1>4. \A m \in Modes : \A t \in DOMAIN entries[m] : entries[m][t] = Copies(m, t)
  BY <1>0 DEF EntriesInv
<1>5. ASSUME NEW k \in DOMAIN all_subs
      PROVE  LET s == all_subs[k]
             IN  s.topic \in DOMAIN entries[s.mode] /\ k \in DOMAIN entries[s.mode][s.topic]
  <2>1. all_subs[k].mode \in Modes  BY <1>0 DEF SubsInv, Subs
  <2>2. all_subs[k].topic \in DOMAIN entries[all_subs[k].mode]  BY <1>0 DEF EntriesInv
  <2>3. entries[all_subs[k].mode][all_subs[k].topic] = Copies(all_subs[k].mode, all_subs[k].topic)
    BY <1>4, <2>1, <2>2
  <2>4. QED  BY <2>2, <2>3 DEF Copies
<1>6. ASSUME NEW m \in Modes, NEW t \in DOMAIN entries[m], NEW k \in DOMAIN entries[m][t]
      PROVE  /\ k \in DOMAIN all_subs /\ all_subs[k] = entries[m][t][k]
             /\ all_subs[k].mode = m /\ all_subs[k].topic = t
  <2>1. entries[m][t] = Copies(m, t)  BY <1>4
  <2>2. k \in DOMAIN Copies(m, t) /\ Copies(m, t)[k] = entries[m][t][k]  BY <2>1
  <2>3. QED  BY <2>2 DEF Copies
<1>7. QED  BY <1>1, <1>2, <1>3, <1>5, <1>6 DEF CopiesAgree

\* A post that is done has done what was due, for both topics.
LEMMA InvDelivered == ChannelInv => DeliveredExactly
<1> SUFFICES ASSUME ChannelInv, NEW p \in Threads, PostDone(p)
             PROVE  /\ \A k \in DOMAIN all_subs :
                         LET s == all_subs[k]
                             n == IF s.id \in DOMAIN th[p].got THEN th[p].got[s.id] ELSE 0
                             due == IF s.unsub \/ s.mode # th[p].mode THEN 0
                                    ELSE Visits(s.topic, th[p].look, th[p].msg)
                         IN  n <= due /\ (~th[p].threw => n = due)
                    /\ \A i \in DOMAIN th[p].got : \E k \in DOMAIN all_subs : all_subs[k].id = i
  BY DEF DeliveredExactly
<1>1. th[p].stage = 2 /\ th[p].todo = {} /\ OnTrack(th[p])
  BY DEF PostDone, ChannelInv, PostInv, Reading
<1>2. ASSUME NEW k \in DOMAIN all_subs
      PROVE  DueSoFar(th[p], k) = IF all_subs[k].unsub \/ all_subs[k].mode # th[p].mode THEN 0
                                  ELSE Visits(all_subs[k].topic, th[p].look, th[p].msg)
  <2>1. DueSoFar(th[p], k) = Hit(th[p], k, th[p].look) + Hit(th[p], k, GroupTopic(th[p].look))
    BY <1>1, Due
  <2>2. CASE all_subs[k].unsub \/ all_subs[k].mode # th[p].mode
    <3>1. \A t : Hit(th[p], k, t) = 0  BY <2>2 DEF Hit, Gets
    <3>2. DueSoFar(th[p], k) = 0  BY SMT, <2>1, <3>1
    <3>3. QED  BY <2>2, <3>2
  <2>3. CASE ~(all_subs[k].unsub \/ all_subs[k].mode # th[p].mode)
    <3>1. CASE IsValid(all_subs[k].topic) /\ Match(all_subs[k].topic, th[p].msg)
      <4>1. \A t : Hit(th[p], k, t) = IF all_subs[k].topic = t THEN 1 ELSE 0
        BY <2>3, <3>1 DEF Hit, Gets
      <4>2. Visits(all_subs[k].topic, th[p].look, th[p].msg) =
               Hit(th[p], k, th[p].look) + Hit(th[p], k, GroupTopic(th[p].look))
        <5>1. Visits(all_subs[k].topic, th[p].look, th[p].msg) =
                 (IF all_subs[k].topic = th[p].look THEN 1 ELSE 0)
                   + (IF all_subs[k].topic = GroupTopic(th[p].look) THEN 1 ELSE 0)
          BY <3>1 DEF Visits
        <5>2. Hit(th[p], k, th[p].look) = IF all_subs[k].topic = th[p].look THEN 1 ELSE 0  BY <4>1
        <5>3. Hit(th[p], k, GroupTopic(th[p].look)) =
                 IF all_subs[k].topic = GroupTopic(th[p].look) THEN 1 ELSE 0
          BY <4>1
        <5>4. QED  BY <5>1, <5>2, <5>3
      <4>3. QED  BY <2>1, <2>3, <4>2
    <3>2. CASE ~(IsValid(all_subs[k].topic) /\ Match(all_subs[k].topic, th[p].msg))
      <4>1. \A t : Hit(th[p], k, t) = 0  BY <3>2 DEF Hit, Gets
      <4>2. DueSoFar(th[p], k) = 0  BY SMT, <2>1, <4>1
      <4>3. Visits(all_subs[k].topic, th[p].look, th[p].msg) = 0  BY <3>2 DEF Visits
      <4>4. QED  BY <2>3, <4>2, <4>3
    <3>3. QED  BY <3>1, <3>2
  <2>4. QED  BY <2>2, <2>3
<1>3. QED  BY <1>1, <1>2 DEF OnTrack, Count

\* The invariant holds in every state.
LEMMA ChannelHolds == Spec => []ChannelInv
<1>1. ChannelInv /\ [Next]_vars => ChannelInv'  BY ChannelStep
<1>2. QED  BY ChannelInit, <1>1, PTL DEF Spec

\* For any topics, threads, subscriptions and range of keys: the two copies of every
\* subscription that sub_map keeps agree, no key is given out twice, and no key that
\* purge() will release names a live subscription, whatever subscribe(), unsubscribe(),
\* clear(), purge() and posts do in whichever order.
THEOREM CopiesKept == Spec => []CopiesAgree
<1>1. QED  BY ChannelHolds, InvCopies, PTL

\* For any topics, threads and subscriptions: when sub_map::post_mode() ends it has
\* called every live subscription as often as the topics say, no other, and when a
\* callback threw none more often, whatever the other threads do meanwhile.
THEOREM Delivered == Spec => []DeliveredExactly
<1>1. QED  BY ChannelHolds, InvDelivered, PTL

\* For any topics, threads and subscriptions: after unsubscribe() or clear() of a
\* subscription returned no step calls it.
THEOREM NoneLate == Spec => NoLateCallback
<1>1. ChannelInv /\ [Next]_vars =>
        [\A p \in Threads : \A i \in ended :
           th'[p].pc = "callback" /\ th[p].pc = "post" /\ i \in DOMAIN th'[p].got =>
              i \in DOMAIN th[p].got /\ th'[p].got[i] = th[p].got[i]]_vars
  BY ChannelStep DEF NotLate
<1>2. QED  BY ChannelHolds, <1>1, PTL DEF Spec, NoLateCallback

=============================================================================
