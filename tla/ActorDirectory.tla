--------------------------- MODULE ActorDirectory ---------------------------
(***************************************************************************)
(* actor_directory (actor_directory.hpp, actor_directory.cpp) and its name  *)
(* index (index.hpp).  Every operation takes the directory's lock several   *)
(* times and lets others in between; a step of the model is one locked      *)
(* part.  A reference in the map never has a name: add() names its own copy *)
(* of the reference after the map has made another.                         *)
(***************************************************************************)
EXTENDS Naturals, FiniteSets

CONSTANTS
    Callers,    \* threads that call the directory
    Ids,        \* actor ids
    Names,
    NoId,       \* id 0: what the index gives for a name it does not have
    NoName      \* add() without a name

ASSUME IdsAssumption == NoId \notin Ids
ASSUME NamesAssumption == NoName \notin Names

VARIABLES
    actors,     \* ids in actors_
    nameIndex,  \* name_index_
    call,       \* what a caller is doing
    answer,     \* what its last get(name) has returned
    owners,     \* history: ids that were set under a name
    raced,      \* history: callers whose name was set by another since they checked it
    calm        \* history: how often a name was set by a caller that was not raced

dvars == <<actors, nameIndex, call, answer, owners, raced, calm>>

Idle == [op |-> "idle"]

DInit ==
    /\ actors = {}
    /\ nameIndex = [n \in Names |-> NoId]
    /\ call = [c \in Callers |-> Idle]
    /\ answer = [c \in Callers |-> NoId]
    /\ owners = [n \in Names |-> {}]
    /\ raced = {}
    /\ calm = [n \in Names |-> 0]

Go(c, next) == call' = [call EXCEPT ![c] = next]

(* add(name, ref) without its first look at the index. *)
AddUnchecked(c, id, n) ==
    /\ call[c] = Idle
    /\ Go(c, [op |-> "has", id |-> id, name |-> n])
    /\ raced' = raced \ {c}
    /\ UNCHANGED <<actors, nameIndex, answer, owners, calm>>

(* add(name, ref), first part: a name in the index throws.  add(ref) starts *)
(* with the second part.                                                    *)
Add(c, id, n) ==
    /\ call[c] = Idle
    /\ n # NoName => nameIndex[n] = NoId
    /\ Go(c, [op |-> "has", id |-> id, name |-> n])
    /\ raced' = raced \ {c}
    /\ UNCHANGED <<actors, nameIndex, answer, owners, calm>>

(* add(ref): has(), which throws when the id is there. *)
Has(c) ==
    /\ call[c].op = "has"
    /\ Go(c, IF call[c].id \in actors THEN Idle ELSE [call[c] EXCEPT !.op = "insert"])
    /\ UNCHANGED <<actors, nameIndex, answer, owners, raced, calm>>

(* add(ref): the insertion, which does nothing when the id is there now. *)
Insert(c) ==
    /\ call[c].op = "insert"
    /\ actors' = actors \cup {call[c].id}
    /\ Go(c, IF call[c].name = NoName THEN Idle ELSE [call[c] EXCEPT !.op = "set"])
    /\ UNCHANGED <<nameIndex, answer, owners, raced, calm>>

(* add(name, ref), last part: index::set, whose assertion does not stop the *)
(* release build.                                                           *)
SetName(c) ==
    LET n == call[c].name
    IN  /\ call[c].op = "set"
        /\ nameIndex' = [nameIndex EXCEPT ![n] = call[c].id]
        /\ owners' = [owners EXCEPT ![n] = @ \cup {call[c].id}]
        /\ raced' = (raced \cup {d \in Callers \ {c} : call[d].op \in {"has", "insert", "set"}
                                                        /\ call[d].name = n}) \ {c}
        /\ calm' = IF c \in raced THEN calm ELSE [calm EXCEPT ![n] = @ + 1]
        /\ Go(c, Idle)
        /\ UNCHANGED <<actors, answer>>

(* del(id): get(id), and then the erasure.  The copy has no name, so the    *)
(* name stays in the index.                                                 *)
Del(c, id) ==
    /\ call[c] = Idle
    /\ Go(c, [op |-> "erase", id |-> id])
    /\ UNCHANGED <<actors, nameIndex, answer, owners, raced, calm>>

Erase(c) ==
    /\ call[c].op = "erase"
    /\ actors' = actors \ {call[c].id}
    /\ Go(c, Idle)
    /\ UNCHANGED <<nameIndex, answer, owners, raced, calm>>

(* get(name): the id of the name, and then the actor of the id. *)
GetName(c, n) ==
    /\ call[c] = Idle
    /\ Go(c, [op |-> "find", id |-> nameIndex[n], name |-> n])
    /\ UNCHANGED <<actors, nameIndex, answer, owners, raced, calm>>

Find(c) ==
    /\ call[c].op = "find"
    /\ answer' = [answer EXCEPT ![c] = IF call[c].id \in actors THEN call[c].id ELSE NoId]
    /\ Go(c, Idle)
    /\ UNCHANGED <<actors, nameIndex, owners, raced, calm>>

DNext ==
    \E c \in Callers :
        \/ \E id \in Ids, n \in Names \cup {NoName} : Add(c, id, n)
        \/ \E id \in Ids : Del(c, id)
        \/ \E n \in Names : GetName(c, n)
        \/ Has(c) \/ Insert(c) \/ SetName(c) \/ Erase(c) \/ Find(c)

DSpec == DInit /\ [][DNext]_dvars

---------------------------------------------------------------------------

(* A name leads only to an actor that was added under it, at every time and *)
(* in every answer of get(name), and for the whole life of the directory a  *)
(* name is given once, apart from adds of one name that overlap: the first  *)
(* part of add() refuses it (actor_directory.hpp:35), and del() does not    *)
(* give it back.                                                            *)
NameGivenOnce ==
    /\ \A n \in Names : nameIndex[n] # NoId => nameIndex[n] \in owners[n]
    /\ \A n \in Names : calm[n] <= 1
    /\ \A c \in Callers : answer[c] # NoId => \E n \in Names : answer[c] \in owners[n]
============================================================================
