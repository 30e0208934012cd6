--------------------------- MODULE BoundedHistory ---------------------------
(***************************************************************************)
(* What the in-memory store promises, without rings: every tier is the     *)
(* sequence of its most recent Capacity[i] entries, oldest first.  A       *)
(* sample is added to the finest tier and, in the same step, possibly to   *)
(* coarser ones; replayed history is added to one tier at a time.          *)
(***************************************************************************)
EXTENDS Ring

CONSTANTS
    Tier,       \* the tiers; 0 is the finest
    Capacity,   \* how many entries each tier keeps
    Entry       \* what may be stored

VARIABLE window

Init == window = [i \in Tier |-> << >>]

\* t is s after one more entry has arrived.
Grows(s, t, cap) ==
    /\ Len(t) > 0
    /\ t[Len(t)] \in Entry
    /\ t = Slide(s, cap, t[Len(t)])

\* A sample reaches the finest tier and every tier whose bucket it closes.
Push ==
    \E closing \in SUBSET Tier :
        /\ 0 \in closing
        /\ \A i \in Tier :
              IF i \in closing THEN Grows(window[i], window'[i], Capacity[i])
                               ELSE window'[i] = window[i]

\* One saved entry is replayed into one tier.
Restore ==
    \E i \in Tier :
        /\ Grows(window[i], window'[i], Capacity[i])
        /\ \A j \in Tier \ {i} : window'[j] = window[j]

Next == Push \/ Restore

Spec == Init /\ [][Next]_window
=============================================================================
