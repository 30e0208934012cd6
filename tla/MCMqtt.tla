------------------------------- MODULE MCMqtt -------------------------------
(* Small instances of Mqtt: brokers, prefixes, settings and metric sets.     *)
EXTENDS Mqtt

On(h, p, d, all) ==
    [enabled |-> TRUE, host |-> h, topic_prefix |-> p, discovery |-> d, discovery_all |-> all]
Off(h, p) ==
    [enabled |-> FALSE, host |-> h, topic_prefix |-> p, discovery |-> TRUE, discovery_all |-> FALSE]

\* Every kind of change on one prefix: broker, discovery settings, disabled, no host.
LinkConfigs ==
    {On("a", "p", TRUE, FALSE), On("a", "p", TRUE, TRUE), On("b", "p", FALSE, FALSE),
     On("none", "p", TRUE, FALSE), Off("a", "p")}
PrefixConfigs == {On("a", "p", TRUE, FALSE), On("a", "q", TRUE, FALSE)}

\* Named sensors come and go with the service account.
LinkRegistries == {{"sensor", "zone"}, {"zone"}}
OneRegistry == {{"sensor", "zone"}}
LinkSelections == {{"sensor", "zone"}, {"sensor"}}
OneSelection == {{"sensor", "zone"}}
=============================================================================
