----------------------------- MODULE LeasePool -----------------------------
(***************************************************************************)
(* The deterministic lease pool of core/src/ev_lease_pool.c as operators   *)
(* on a pool value: a function from slots to their metadata.  Slots are    *)
(* numbered, since acquire takes the first free one.                       *)
(*                                                                         *)
(* A handle names a slot and the generation it was acquired in.  A message *)
(* carries the slot only: its retain and release callbacks rebuild a       *)
(* handle from the slot's generation of the moment.  Payload sizes are     *)
(* abstracted to 0 (attaches no payload) and 1.                            *)
(***************************************************************************)
EXTENDS Integers, FiniteSets

CONSTANTS SlotCount,   \* ev_lease_pool_t.slot_count
          MaxGen       \* the last value of the generation counter before it wraps

ASSUME LeasePoolAssumption == SlotCount \in Nat \ {0} /\ MaxGen \in Nat \ {0}

Slots == 1..SlotCount
NoSlot == 0

Generations == 0..MaxGen
Slot == [inUse : BOOLEAN, refcount : Nat, generation : Generations, size : 0..1]
Handle == [slot : Slots, generation : Generations]

FreshPool ==
    [s \in Slots |-> [inUse |-> FALSE, refcount |-> 0, generation |-> 0, size |-> 0]]

-----------------------------------------------------------------------------
\* ev_lease_handle_is_live()
Live(pool, h) ==
    /\ pool[h.slot].inUse
    /\ pool[h.slot].generation = h.generation
    /\ pool[h.slot].refcount > 0

FreeSlots(pool) == {s \in Slots : ~pool[s].inUse}

\* The slot ev_lease_pool_acquire() finds first.
FirstFree(pool) == CHOOSE s \in FreeSlots(pool) : \A t \in FreeSlots(pool) : s <= t

\* ++generation, where the wrapped value 0 is skipped.
NextGeneration(g) == IF g = MaxGen THEN 1 ELSE g + 1

Acquired(pool, s, size) ==
    [pool EXCEPT ![s] = [inUse |-> TRUE, refcount |-> 1,
                         generation |-> NextGeneration(@.generation), size |-> size]]

HandleOf(pool, s) == [slot |-> s, generation |-> pool[s].generation]

\* Fault: a retain that forgets to count.
Fault_RetainedUncounted(pool, h) == pool

\* The answers of retain and release: a handle that is not live changes nothing.
Retained(pool, h) == [pool EXCEPT ![h.slot].refcount = @ + 1]

\* The last share frees the slot; the generation stays until the next acquire.
Released(pool, h) ==
    LET slot == pool[h.slot]
    IN  [pool EXCEPT ![h.slot] =
            IF slot.refcount = 1
            THEN [inUse |-> FALSE, refcount |-> 0, generation |-> slot.generation, size |-> 0]
            ELSE [slot EXCEPT !.refcount = slot.refcount - 1]]

\* The slot callbacks compare in_use and the payload size the message kept,
\* never the generation the message's share was taken in.
SlotAccepts(pool, s, size) == pool[s].inUse /\ pool[s].size = size

SlotLive(pool, s, size) ==
    SlotAccepts(pool, s, size) /\ Live(pool, HandleOf(pool, s))
=============================================================================
