------------------------------ MODULE Registry ------------------------------
(***************************************************************************)
(* The metric registry as the publishers see it: the set of metrics this   *)
(* device has, which collector_new fills and a rebuild replaces.           *)
(***************************************************************************)
CONSTANTS
    Metrics,      \* metric ids
    Registries    \* metric sets the device may have

ASSUME RegistryAssumption == Registries \subseteq SUBSET Metrics

VARIABLE reg      \* the registry
=============================================================================
