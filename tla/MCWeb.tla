------------------------------- MODULE MCWeb --------------------------------
(* A small instance of Web. *)
EXTENDS Web, TLC

CONSTANTS MqttPassword, InfluxEnabled, typed

MCValuesOf == (SampleInterval :> {"1", "99"}) @@ (MqttPassword :> {Blank, typed})
    @@ (InfluxEnabled :> {"no", "yes"})
MCFallback == (SampleInterval :> "1") @@ (MqttPassword :> Blank)
    @@ (InfluxEnabled :> "no")
MCParsed == ("1" :> 1) @@ ("99" :> 99) @@ (Blank :> 0)
MCUnfilled == (SampleInterval :> Blank) @@ (MqttPassword :> Blank)
    @@ (InfluxEnabled :> "on")
=============================================================================
