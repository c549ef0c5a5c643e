------------------------------ MODULE SlotVector ------------------------------
(***************************************************************************)
(* slot_vector<T, MAX_SLOT> (net/util/slot_vector.hpp): a table whose      *)
(* items are found by an id made of the index of a slot and the number of  *)
(* times that the slot was given out.  tcp_node keeps its protocols in one.*)
(* The number is a uint16_t and wraps; asserts are off, as in a release.   *)
(***************************************************************************)
EXTENDS Integers, Sequences, FiniteSets, SequencesExt

CONSTANTS
    MaxSlot,    \* MAX_SLOT
    SeqLimit,     \* 2^16: the values of a slot's seq_
    Null        \* the empty ptr

ASSUME SlotAssumption == MaxSlot \in Nat /\ SeqLimit \in Nat \ {0}

VARIABLES
    slots,      \* slots_: the item and the sequence number of each, 1 the first
    freeSlots,  \* free_slots_
    usedCount   \* used_count_

slotVars == <<slots, freeSlots, usedCount>>

SlotInit == slots = <<>> /\ freeSlots = <<>> /\ usedCount = 0

\* get_free_slot_index() throws, whether there is a free slot or not
Full == Len(slots) >= MaxSlot

\* get_free_slot_index(): the slot that is free for longest, or one more
FreeIndex == IF freeSlots = <<>> THEN Len(slots) + 1 ELSE Head(freeSlots)

Grown == IF freeSlots = <<>> THEN Append(slots, [sp |-> Null, seq |-> 0]) ELSE slots

\* Faulty variant of NewId: the number of a slot is not counted up.
NewIdSame == [index |-> FreeIndex, seq |-> Grown[FreeIndex].seq]

\* the id that add() returns
NewId == [index |-> FreeIndex, seq |-> (Grown[FreeIndex].seq + 1) % SeqLimit]

\* add()
Add(sp) ==
    /\ ~Full
    /\ slots' = [Grown EXCEPT ![FreeIndex] = [sp |-> sp, seq |-> NewId.seq]]
    /\ freeSlots' = IF freeSlots = <<>> THEN freeSlots ELSE Tail(freeSlots)
    /\ usedCount' = usedCount + 1

\* get()
Get(id) ==
    IF id.index \in DOMAIN slots /\ slots[id.index].seq = id.seq
      THEN slots[id.index].sp ELSE Null

\* del(): looks at the index only
Del(id) ==
    IF id.index \in DOMAIN slots
      THEN /\ slots' = [slots EXCEPT ![id.index].sp = Null]
           /\ usedCount' = usedCount - 1
           /\ freeSlots' = Append(freeSlots, id.index)
      ELSE UNCHANGED slotVars

\* each(): the items it calls fn with
Items == {slots[i].sp : i \in DOMAIN slots} \ {Null}

(***************************************************************************)
(* What a user that deletes once what it added may rely on.                *)
(***************************************************************************)
\* The free list is the slots without an item, each once, and the count is the
\* number of the others: del() checks neither, so this is up to its callers.
SlotsConsistent ==
    /\ usedCount = Cardinality({i \in DOMAIN slots : slots[i].sp # Null})
    /\ \A i, j \in DOMAIN freeSlots : freeSlots[i] = freeSlots[j] => i = j
    /\ Range(freeSlots) = {i \in DOMAIN slots : slots[i].sp = Null}

=============================================================================
