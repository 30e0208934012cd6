------------------------------ MODULE MCInflux ------------------------------
(* Small instances of Influx: two servers, a disabled and an unset one. *)
EXTENDS Influx

CONSTANTS s1, s2

MCConfigs ==
    {[enabled |-> TRUE,  url |-> s1,    interval_s |-> 1],
     [enabled |-> TRUE,  url |-> s2,    interval_s |-> 2],
     [enabled |-> TRUE,  url |-> NoUrl, interval_s |-> 1],
     [enabled |-> FALSE, url |-> s1,    interval_s |-> 1]}
=============================================================================
