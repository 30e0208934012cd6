-------------------------------- MODULE Ring --------------------------------
(***************************************************************************)
(* The circular buffer that the program keeps twice: in memory, one per    *)
(* tier (StoreTier in store.h), and on disk, one file per tier (persist.c).*)
(* Both write at head, advance it modulo the capacity, let count saturate, *)
(* and read back from (head + capacity - count) % capacity.                *)
(*                                                                         *)
(* A ring is a record [slots, head, count] over slots 0 .. cap-1.          *)
(***************************************************************************)
EXTENDS Integers, Sequences

\* A freshly allocated (zeroed) ring.
EmptyRing(cap, zero) ==
    [slots |-> [k \in 0 .. cap - 1 |-> zero], head |-> 0, count |-> 0]

\* Slips (each M_ definition below and in the other modules is the definition
\* it precedes with one plausible mistake; a run's property must catch it).
M_PutNoWrap(r, cap, e) ==
    [slots |-> [r.slots EXCEPT ![r.head] = e],
     head  |-> r.head + 1,
     count |-> IF r.count < cap THEN r.count + 1 ELSE r.count]
M_PutStuckWhenFull(r, cap, e) ==
    [slots |-> [r.slots EXCEPT ![r.head] = e],
     head  |-> IF r.count < cap THEN (r.head + 1) % cap ELSE r.head,
     count |-> IF r.count < cap THEN r.count + 1 ELSE r.count]

\* Writes one entry: tier_append in memory, persist_append on disk.
Put(r, cap, e) ==
    [slots |-> [r.slots EXCEPT ![r.head] = e],
     head  |-> (r.head + 1) % cap,
     count |-> IF r.count < cap THEN r.count + 1 ELSE r.count]

M_StartOffByOne(r, cap) == (r.head + cap - r.count + 1) % cap

\* The slot of the oldest entry, as every reader of a ring computes it.
Start(r, cap) == (r.head + cap - r.count) % cap

\* The slot of the entry with 0-based index k, counting from the oldest.
SlotOf(r, cap, k) == (Start(r, cap) + k) % cap

\* What a reader sees: the entries in reading order.
Contents(r, cap) == [k \in 1 .. r.count |-> r.slots[SlotOf(r, cap, k - 1)]]

RingType(cap, E) ==
    [slots : [0 .. cap - 1 -> E], head : 0 .. cap - 1, count : 0 .. cap]

(***************************************************************************)
(* The reference: a bounded history is the sequence of the entries kept,   *)
(* and a full one forgets its oldest entry when a new one arrives.         *)
(***************************************************************************)
Slide(s, cap, e) ==
    IF Len(s) < cap THEN Append(s, e) ELSE Append(Tail(s), e)
=============================================================================
