---------------------------- MODULE MCLifecycle -----------------------------
(* Small instances of Lifecycle: an SD card, a disk and a network share. *)
EXTENDS Lifecycle, TLC

CONSTANTS sd, disk, share
MCSize == [d \in Mounts |-> ((sd :> 1) @@ (disk :> 2) @@ (share :> 3))[d]]
\* Any of the tiers lose all their records.
MCLosses == {[i \in Tier |-> IF i \in T THEN 1 .. 9 ELSE {}] : T \in SUBSET Tier}
=============================================================================
