------------------------------ MODULE MCStore -------------------------------
(* A small instance of the store and its queries: three tiers that all wrap *)
(* within a few pushes, none reaching back less far than the one before.    *)
EXTENDS Series, TLC

MCInterval == (0 :> 1) @@ (1 :> 2) @@ (2 :> 4)
MCCapacity == (0 :> 2) @@ (1 :> 2) @@ (2 :> 3)

\* The sampler's timer fires on time or a second late, and the wall clock may
\* be set back.
MCClockSteps == {-1, 1, 2}
=============================================================================
