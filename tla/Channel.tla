------------------------------- MODULE Channel -------------------------------
(***************************************************************************)
(* channel, sub_map, sub and topic (core/channel).                         *)
(*                                                                         *)
(* A channel has a queue of messages and a sub_map.  publish() queues the  *)
(* message and posts it to the immediate subscriptions; execute(), called  *)
(* by the owner's thread only, takes the queued messages and posts them to *)
(* the delayed ones.  The sub_map has one shared_mutex: a post holds it    *)
(* shared while it calls back, subscribe, unsubscribe, clear and purge     *)
(* hold it unique for their whole body, so each of those is one step that  *)
(* waits until no post is going on.                                        *)
(***************************************************************************)
EXTENDS Integers, Sequences

CONSTANTS
    Publishers,     \* the threads that publish
    Owner,          \* the thread that calls execute()
    Topics,         \* a topic is a group and a type, type 0 is the group topic
    KeyEnd,         \* the end of the key sequence (UINT32_MAX in the code)
    Reserve,        \* its reserve (1000 in the code)
    LoopLimit,      \* config.loop_post_limit
    MaxSubs,        \* bound: subscriptions made in a behaviour
    MaxPub,         \* bound: messages published in a behaviour
    MaxPurge        \* bound: keys waiting for the purge when unsubscribe() is called

Threads == Publishers \cup {Owner}
Modes == {"immediate", "delayed"}

ASSUME OwnerAssumption == Owner \notin Publishers
ASSUME TopicAssumption == Topics \subseteq Nat \X Nat
ASSUME KeyAssumption == KeyEnd \in Nat /\ Reserve \in 1..(KeyEnd - 1)
ASSUME BoundAssumption == {MaxSubs, MaxPub, MaxPurge} \subseteq Nat

VARIABLES
    current, seqs,      \* sub_map::seq_
    all_subs,           \* sub_map::all_subs_: key -> sub
    entries,            \* entries_immediate_ and entries_delayed_: topic -> key -> sub
    purge_keys,         \* sub_map::purge_keys_
    readers,            \* the threads that hold the mutex shared
    q,                  \* channel::q_
    th,                 \* what each thread is doing
    leaked,             \* history: keys of cleared subscriptions
    ended,              \* history: subscriptions unsubscribed or cleared
    made, published     \* history: how many subscriptions and messages so far

vars == <<current, seqs, all_subs, entries, purge_keys, readers, q, th,
          leaked, ended, made, published>>

\* The keys in use are those of all_subs_ and those clear() forgot.
Keys == INSTANCE Sequence WITH
            Begin <- 1, End <- KeyEnd, Reserve <- Reserve,
            current <- current, seqs <- seqs,
            used <- DOMAIN all_subs \cup leaked, failed <- FALSE

(***************************************************************************)
(* topic                                                                   *)
(***************************************************************************)
IsValid(t) == t # <<0, 0>>

GroupTopic(t) == <<t[1], 0>>

Match(t, other) == t[1] = other[1] /\ (t[2] = 0 \/ t[2] = other[2])

(***************************************************************************)
(* A thread at rest, and one posting message m of topic m to the           *)
(* subscriptions it finds under the topic look.                            *)
(***************************************************************************)
Idle == [pc |-> "idle", mode |-> "immediate", look |-> <<0, 0>>, msg |-> <<0, 0>>,
         stage |-> 0, todo |-> {}, got |-> <<>>, threw |-> FALSE, count |-> 0, key |-> 0]

Posting(mode, look, m, count) ==
    [Idle EXCEPT !.pc = "lock", !.mode = mode, !.look = look, !.msg = m, !.count = count]

Init ==
    /\ current = 1 + Keys!Batch(1)
    /\ seqs = Keys!Acquired(1, <<>>)
    /\ all_subs = <<>>
    /\ entries = [m \in Modes |-> <<>>]
    /\ purge_keys = <<>>
    /\ readers = {}
    /\ q = <<>>
    /\ th = [p \in Threads |-> Idle]
    /\ leaked = {}
    /\ ended = {}
    /\ made = 0
    /\ published = 0

\* f with value v at x, whether x is in its domain or not
With(f, x, v) == [y \in DOMAIN f \cup {x} |-> IF y = x THEN v ELSE f[y]]

\* insert() of a map: a key that is there keeps its value
Inserted(f, x, v) == IF x \in DOMAIN f THEN f ELSE With(f, x, v)

Without(f, S) == [x \in DOMAIN f \ S |-> f[x]]

\* The sequences of at most n elements that have each element of K once.
Listings(K, n) ==
    {ks \in UNION {[1..i -> K] : i \in 0..n} :
        /\ \A k \in K : \E i \in 1..Len(ks) : ks[i] = k
        /\ \A i, j \in 1..Len(ks) : ks[i] = ks[j] => i = j}

(***************************************************************************)
(* sub_map: the operations under the unique lock                           *)
(***************************************************************************)

\* subscribe_mode(): the entry of the topic, made when it is missing
Entered(em, k, s) ==
    With(em, s.topic, Inserted(IF s.topic \in DOMAIN em THEN em[s.topic] ELSE <<>>, k, s))

\* subscribe(): any topic is accepted, also one that is not valid
Subscribe(t, mode) ==
    /\ made < MaxSubs
    /\ readers = {}
    /\ Keys!Filled # <<>>
    /\ LET k == Head(Keys!Filled)
           s == [id |-> made + 1, topic |-> t, mode |-> mode, unsub |-> FALSE]
       IN  /\ all_subs' = Inserted(all_subs, k, s)
           /\ entries' = [entries EXCEPT ![mode] = Entered(@, k, s)]
    /\ seqs' = Tail(Keys!Filled)
    /\ current' = Keys!FilledTo
    /\ made' = made + 1
    /\ UNCHANGED <<purge_keys, readers, q, th, leaked, ended, published>>

\* Faulty variant of Unsubscribed: only the copy in all_subs_ is marked.
UnsubscribedInAll(k) ==
    /\ all_subs' = [all_subs EXCEPT ![k].unsub = TRUE]
    /\ purge_keys' = Append(purge_keys, k)
    /\ UNCHANGED entries

\* unsubscribe() of a known key: both copies are marked, and the key waits for
\* the purge even when it waits already
Unsubscribed(k) ==
    /\ all_subs' = [all_subs EXCEPT ![k].unsub = TRUE]
    /\ purge_keys' = Append(purge_keys, k)
    /\ entries' = [entries EXCEPT ![all_subs[k].mode][all_subs[k].topic][k].unsub = TRUE]

\* unsubscribe(k) is called by a thread at rest, or by the callback a post is in;
\* the thread waits for the unique lock.  Calling it again before the purge is
\* allowed; an unknown key changes nothing.
UnsubscribeCall(p, k) ==
    /\ th[p].pc \in {"idle", "callback"}
    /\ k \in DOMAIN all_subs
    /\ Len(purge_keys) < MaxPurge
    /\ th' = [th EXCEPT ![p] = [th[p] EXCEPT !.pc = IF @ = "idle" THEN "unsub" ELSE "cb_unsub",
                                        !.key = k]]
    /\ UNCHANGED <<current, seqs, all_subs, entries, purge_keys, readers, q, leaked, ended, made, published>>

Unsubscribe(p) ==
    /\ th[p].pc \in {"unsub", "cb_unsub"}
    /\ readers = {}
    /\ LET k == th[p].key
       IN  IF k \in DOMAIN all_subs
             THEN Unsubscribed(k) /\ ended' = ended \cup {all_subs[k].id}
             ELSE UNCHANGED <<all_subs, entries, purge_keys, ended>>
    /\ th' = [th EXCEPT ![p] = [th[p] EXCEPT !.pc = IF @ = "unsub" THEN "idle" ELSE "callback",
                                        !.key = 0]]
    /\ UNCHANGED <<current, seqs, readers, q, leaked, made, published>>

\* Faulty variant of ClearMap: the keys of the subscriptions are released.
ClearReleases ==
    /\ readers = {}
    /\ entries' = [m \in Modes |-> <<>>]
    /\ all_subs' = <<>>
    /\ \E ks \in Listings(DOMAIN all_subs, KeyEnd) : seqs' = seqs \o ks
    /\ ended' = ended \cup {all_subs[k].id : k \in DOMAIN all_subs}
    /\ UNCHANGED <<current, purge_keys, leaked>>

\* sub_map::clear(): neither purge_keys_ nor the key sequence is touched
ClearMap ==
    /\ readers = {}
    /\ entries' = [m \in Modes |-> <<>>]
    /\ all_subs' = <<>>
    /\ leaked' = leaked \cup DOMAIN all_subs
    /\ ended' = ended \cup {all_subs[k].id : k \in DOMAIN all_subs}
    /\ UNCHANGED <<current, seqs, purge_keys>>

\* channel::clear(): the queue is emptied, then the map
Clear(p) ==
    /\ th[p].pc = "idle"
    /\ q' = <<>>
    /\ th' = [th EXCEPT ![p].pc = "clear"]
    /\ UNCHANGED <<current, seqs, all_subs, entries, purge_keys, readers, leaked, ended, made, published>>

ClearSubs(p) ==
    /\ th[p].pc = "clear"
    /\ ClearMap
    /\ th' = [th EXCEPT ![p].pc = "idle"]
    /\ UNCHANGED <<readers, q, made, published>>

(***************************************************************************)
(* channel::publish() and channel::execute()                               *)
(***************************************************************************)

\* publish(m) when look is m's topic, else publish(look, m)
Publish(p, look, m) ==
    /\ th[p].pc = "idle"
    /\ published < MaxPub
    /\ q' = Append(q, m)
    /\ published' = published + 1
    /\ th' = [th EXCEPT ![p] = Posting("immediate", look, m, 0)]
    /\ UNCHANGED <<current, seqs, all_subs, entries, purge_keys, readers, leaked, ended, made>>

\* execute() takes a message, also after a former one of the same call
Execute(p) ==
    /\ p = Owner
    /\ th[p].pc \in {"idle", "pop"}
    /\ q # <<>>
    /\ q' = Tail(q)
    /\ th' = [th EXCEPT ![p] = Posting("delayed", Head(q), Head(q), th[p].count)]
    /\ UNCHANGED <<current, seqs, all_subs, entries, purge_keys, readers, leaked, ended, made, published>>

\* the queue is empty: execute() returns
ExecuteEnds(p) ==
    /\ th[p].pc = "pop"
    /\ q = <<>>
    /\ th' = [th EXCEPT ![p] = Idle]
    /\ UNCHANGED <<current, seqs, all_subs, entries, purge_keys, readers, q, leaked, ended, made, published>>

(***************************************************************************)
(* sub_map::post()                                                         *)
(***************************************************************************)

\* post_mode() posts to the topic it is given, then to its group topic.
Looked(r) == IF r.stage = 1 THEN r.look ELSE GroupTopic(r.look)

\* post_topic(): the subscriptions of the entry of topic t, none when t is not
\* valid or has no entry
Found(mode, t) ==
    IF IsValid(t) /\ t \in DOMAIN entries[mode] THEN DOMAIN entries[mode][t] ELSE {}

\* the shared lock is taken
PostBegin(p) ==
    /\ th[p].pc = "lock"
    /\ readers' = readers \cup {p}
    /\ th' = [th EXCEPT ![p] = [th[p] EXCEPT !.pc = "post", !.stage = 1,
                                        !.todo = Found(th[p].mode, th[p].look)]]
    /\ UNCHANGED <<current, seqs, all_subs, entries, purge_keys, q, leaked, ended, made, published>>

\* Faulty variant of Gets: a subscription that waits for the purge still gets it.
GetsDead(s, m) == Match(s.topic, m)

Gets(s, m) == ~s.unsub /\ Match(s.topic, m)

\* The loop of post_topic() comes to subscription k: sub::post() calls back when
\* the topic of the message matches.  The condition of a subscription is not
\* modelled: it is always true.
PostSub(p, k) ==
    /\ th[p].pc = "post"
    /\ k \in th[p].todo
    /\ LET s == entries[th[p].mode][Looked(th[p])][k]
           g == th[p].got
       IN  IF Gets(s, th[p].msg)
             THEN th' = [th EXCEPT ![p] =
                           [th[p] EXCEPT !.todo = @ \ {k}, !.pc = "callback",
                                     !.got = With(g, s.id, IF s.id \in DOMAIN g THEN g[s.id] + 1 ELSE 1)]]
             ELSE th' = [th EXCEPT ![p] = [th[p] EXCEPT !.todo = @ \ {k}]]
    /\ UNCHANGED <<current, seqs, all_subs, entries, purge_keys, readers, q, leaked, ended, made, published>>

\* the callback returns and is counted
CallbackReturns(p) ==
    /\ th[p].pc = "callback"
    /\ th' = [th EXCEPT ![p] = [th[p] EXCEPT !.pc = "post", !.count = @ + 1]]
    /\ UNCHANGED <<current, seqs, all_subs, entries, purge_keys, readers, q, leaked, ended, made, published>>

\* the callback throws: the other subscriptions of the entry are left out
CallbackThrows(p) ==
    /\ th[p].pc = "callback"
    /\ th' = [th EXCEPT ![p] = [th[p] EXCEPT !.pc = "post", !.todo = {}, !.threw = TRUE]]
    /\ UNCHANGED <<current, seqs, all_subs, entries, purge_keys, readers, q, leaked, ended, made, published>>

\* the second post_topic() of post_mode()
PostGroup(p) ==
    /\ th[p].pc = "post" /\ th[p].stage = 1
    /\ th[p].todo = {}
    /\ th' = [th EXCEPT ![p] = [th[p] EXCEPT !.stage = 2,
                                        !.todo = Found(th[p].mode, GroupTopic(th[p].look))]]
    /\ UNCHANGED <<current, seqs, all_subs, entries, purge_keys, readers, q, leaked, ended, made, published>>

PostDone(p) == th[p].pc = "post" /\ th[p].stage = 2 /\ th[p].todo = {}

\* What a thread keeps of its post when it goes on to purge_wait()
Posted(r) == [Idle EXCEPT !.pc = "purge_wait", !.mode = r.mode, !.count = r.count]

\* Faulty variant of PostEnd: purge_wait() is called under the shared lock.
PostEndLocked(p) ==
    /\ PostDone(p)
    /\ th' = [th EXCEPT ![p] = Posted(@)]
    /\ UNCHANGED <<current, seqs, all_subs, entries, purge_keys, readers, q, leaked, ended, made, published>>

\* the shared lock is released
PostEnd(p) ==
    /\ PostDone(p)
    /\ readers' = readers \ {p}
    /\ th' = [th EXCEPT ![p] = Posted(@)]
    /\ UNCHANGED <<current, seqs, all_subs, entries, purge_keys, q, leaked, ended, made, published>>

\* Where the thread goes after a post: publish() returns; execute() goes on
\* until it has posted more than its limit.
AfterPost(r) ==
    IF r.mode = "delayed" /\ r.count <= LoopLimit
      THEN [Idle EXCEPT !.pc = "pop", !.count = r.count]
      ELSE Idle

\* purge_wait(): the interval has not passed yet (purge_tick_ is read without
\* the lock, so several threads may find that it has)
PurgeSkip(p) ==
    /\ th[p].pc = "purge_wait"
    /\ th' = [th EXCEPT ![p] = AfterPost(@)]
    /\ UNCHANGED <<current, seqs, all_subs, entries, purge_keys, readers, q, leaked, ended, made, published>>

\* the interval has passed
PurgeDue(p) ==
    /\ th[p].pc = "purge_wait"
    /\ th' = [th EXCEPT ![p].pc = "purge"]
    /\ UNCHANGED <<current, seqs, all_subs, entries, purge_keys, readers, q, leaked, ended, made, published>>

\* the subscriptions purge() finds
Waiting == {k \in DOMAIN all_subs : \E i \in 1..Len(purge_keys) : purge_keys[i] = k}

\* Faulty variant of Released: a key that waits twice is released twice.
ReleasedTwice == LET known(k) == k \in DOMAIN all_subs IN {SelectSeq(purge_keys, known)}

\* The keys purge() releases, in the order in which it comes to each for the first
\* time: a key that waits twice is found once.  There is one such sequence.
Released ==
    {ks \in Listings(Waiting, Len(purge_keys)) :
        \A i, j \in 1..Len(ks) : i < j =>
            \E x \in 1..Len(purge_keys) :
                purge_keys[x] = ks[i] /\ \A y \in 1..x : purge_keys[y] # ks[j]}

\* purge_mode(): the topic's entry stays, even when it is empty now
PurgedFrom(em) ==
    [t \in DOMAIN em |-> Without(em[t], {k \in Waiting : all_subs[k].topic = t})]

\* purge() under the unique lock
Purge(p) ==
    /\ th[p].pc = "purge"
    /\ readers = {}
    /\ entries' = [m \in Modes |-> PurgedFrom(entries[m])]
    /\ all_subs' = Without(all_subs, Waiting)
    /\ \E ks \in Released : seqs' = seqs \o ks
    /\ purge_keys' = <<>>
    /\ th' = [th EXCEPT ![p] = AfterPost(@)]
    /\ UNCHANGED <<current, readers, q, leaked, ended, made, published>>

(***************************************************************************)
(* The specification.                                                      *)
(***************************************************************************)
Step(p) ==
    \/ Unsubscribe(p)
    \/ ClearSubs(p)
    \/ Execute(p)
    \/ ExecuteEnds(p)
    \/ PostBegin(p)
    \/ \E k \in 1..KeyEnd : PostSub(p, k)
    \/ CallbackReturns(p)
    \/ CallbackThrows(p)
    \/ PostGroup(p)
    \/ PostEnd(p)
    \/ PurgeSkip(p)
    \/ PurgeDue(p)
    \/ Purge(p)

Next ==
    \/ \E t \in Topics, m \in Modes : Subscribe(t, m)
    \/ \E p \in Threads : Step(p)
    \/ \E p \in Threads, k \in 1..KeyEnd : UnsubscribeCall(p, k)
    \/ \E p \in Threads : Clear(p)
    \/ \E p \in Publishers, t, m \in Topics : Publish(p, t, m)

Spec == Init /\ [][Next]_vars

\* Every thread inside a call goes on when it can, and the owner calls execute()
\* while there are messages.
FairSpec == Spec /\ \A p \in Threads : WF_vars(Step(p))

(***************************************************************************)
(* Properties.                                                             *)
(***************************************************************************)

\* The values of the variables; the threads that hold the mutex shared are those
\* inside post_mode().
TypeOK ==
    /\ DOMAIN all_subs \subseteq 1..(KeyEnd - 1)
    /\ \A k \in DOMAIN all_subs : all_subs[k] \in
          [id : 1..MaxSubs, topic : Topics, mode : Modes, unsub : BOOLEAN]
    /\ \A m \in Modes : DOMAIN entries[m] \subseteq Topics
    /\ readers \subseteq Threads
    /\ \A p \in Threads : p \in readers <=> th[p].pc \in {"post", "callback", "cb_unsub"}
    /\ q \in Seq(Topics)

\* No key is in use twice, ready twice, or ready while in use, through any number
\* of double unsubscribes, purges and clears.  The copies of a subscription agree:
\* all_subs_ and the entry of its mode and topic have the same subscriptions with
\* the same unsubscribed mark, and no entry has another.  A key that waits for the
\* purge never names a live subscription, even when it was pushed twice or stayed
\* in the list across a clear(): purge() removes only what was unsubscribed.
CopiesAgree ==
    /\ TypeOK
    /\ Keys!Conserved
    /\ \A i \in 1..Len(purge_keys) :
          purge_keys[i] \in DOMAIN all_subs => all_subs[purge_keys[i]].unsub
    /\ \A k \in DOMAIN all_subs :
          LET s == all_subs[k]
          IN  s.topic \in DOMAIN entries[s.mode] /\ k \in DOMAIN entries[s.mode][s.topic]
    /\ \A m \in Modes : \A t \in DOMAIN entries[m] : \A k \in DOMAIN entries[m][t] :
          /\ k \in DOMAIN all_subs /\ all_subs[k] = entries[m][t][k]
          /\ all_subs[k].mode = m /\ all_subs[k].topic = t

\* How often a subscription of topic t is called for message m posted under the
\* topic look: when the message matches it, once for each of the two topics looked
\* up, look and its group, that is its own.  A topic that is not valid is not
\* looked up.
Visits(t, look, m) ==
    IF IsValid(t) /\ Match(t, m)
      THEN (IF t = look THEN 1 ELSE 0) + (IF t = GroupTopic(look) THEN 1 ELSE 0)
      ELSE 0

\* A post reaches exactly the live subscriptions of its mode that are found under
\* the topic it is posted under and match the topic of the message: once, or twice
\* when it is posted under a group topic; when a callback throws, none more often
\* than that.
DeliveredExactly ==
    \A p \in Threads : PostDone(p) =>
        /\ \A k \in DOMAIN all_subs :
             LET s == all_subs[k]
                 n == IF s.id \in DOMAIN th[p].got THEN th[p].got[s.id] ELSE 0
                 due == IF s.unsub \/ s.mode # th[p].mode THEN 0
                        ELSE Visits(s.topic, th[p].look, th[p].msg)
             IN  n <= due /\ (~th[p].threw => n = due)
        /\ \A i \in DOMAIN th[p].got : \E k \in DOMAIN all_subs : all_subs[k].id = i

\* Once unsubscribe() or clear() has returned for a subscription, its callback is
\* not called any more.
NoLateCallback ==
    [][\A p \in Threads : \A i \in ended :
         th'[p].pc = "callback" /\ th[p].pc = "post" /\ i \in DOMAIN th'[p].got =>
            i \in DOMAIN th[p].got /\ th'[p].got[i] = th[p].got[i]]_vars

\* A thread that waits in unsubscribe() for the lock its own post holds.
SelfLocked == \E p \in Threads : th[p].pc = "cb_unsub" /\ p \in readers

\* Every queued message is taken by execute() in the end, or cleared, whatever
\* callbacks throw, unless a callback called unsubscribe() of its own channel:
\* nothing else in the locking can stop the owner.
QueueDrains == q # <<>> ~> (q = <<>> \/ SelfLocked)

=============================================================================
