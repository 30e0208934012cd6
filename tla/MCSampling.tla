----------------------------- MODULE MCSampling -----------------------------
(* A small instance of Sampling: two interfaces whose names become the same *)
(* metric id, one process more than the table can hold.                     *)
EXTENDS Sampling, TLC

CONSTANTS vlan_1, vlan_dot_1, optics, cpu_core, port1, port2

MCDeviceOrder == <<vlan_1, vlan_dot_1>>
MCMetricId == (vlan_1 :> "net.vlan_1") @@ (vlan_dot_1 :> "net.vlan_1")
MCPortOrder == <<port1, port2>>
MCSensorOrder == <<optics, cpu_core>>
\* A failed request; a sensor left out and the other one renumbered.
MCSensorAnswers == {<< >>, <<cpu_core>>}
\* The first port without its value; only the second port, and without its value.
MCPortAnswers == {<<[port |-> port1, given |-> FALSE], [port |-> port2, given |-> TRUE]>>,
                  <<[port |-> port2, given |-> FALSE]>>}
=============================================================================
