---------------------------- MODULE MCRecording -----------------------------
(* Small instances of Recording. *)
EXTENDS Recording

CONSTANTS cpu, mem_used, disk

\* One metric set, kept by every run.
OneRegistry == {[ids |-> <<cpu>>, capacity |-> 4, interval_s |-> 1]}

\* A disk that comes and goes changes the metric set, its order and, through
\* the RAM budget, the capacity; a new sample interval changes the layout.
ChangingRegistries ==
    {[ids |-> <<cpu, mem_used>>, capacity |-> 3, interval_s |-> 1],
     [ids |-> <<disk, cpu>>,     capacity |-> 3, interval_s |-> 1],
     [ids |-> <<cpu, disk, mem_used>>, capacity |-> 2, interval_s |-> 1],
     [ids |-> <<cpu, mem_used>>, capacity |-> 3, interval_s |-> 2]}
=============================================================================
