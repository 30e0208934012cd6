-------------------------------- MODULE Mqtt --------------------------------
(***************************************************************************)
(* The MQTT publisher of mqtt.c: one client of the Paho library, created   *)
(* and destroyed by the main loop when settings change, whose callbacks    *)
(* run on Paho's own thread; and what the brokers retain, which is the     *)
(* availability topic and the Home Assistant discovery configs.            *)
(*                                                                         *)
(* Nothing in struct Mqtt is locked, so main and the callback thread       *)
(* interleave between any two of their publishes.  A publish arrives if    *)
(* the session is up and is lost otherwise.  Alert messages are the        *)
(* subject of Alerts.                                                      *)
(***************************************************************************)
EXTENDS Registry, FiniteSets, Integers

CONSTANTS
    Essential,     \* the ones is_essential accepts on any device
    RawZones,      \* the ones it accepts when no metric of NamedSensors exists
    NamedSensors,
    Hosts, NoHost, \* brokers; an empty host
    Prefixes,      \* topic prefixes
    Configs,       \* settings: [enabled, host, topic_prefix, discovery, discovery_all]
    Selections,    \* sets of metrics that may be selected for transmission
    ConnectFails,   \* whether creating or connecting a client may fail
    MaxApplies, MaxDrops, MaxChanges, MaxStarts   \* bounds

ASSUME MqttAssumption ==
    /\ Essential \subseteq Metrics /\ NamedSensors \subseteq Essential
    /\ RawZones \subseteq Metrics \ Essential
    /\ NoHost \notin Hosts
    /\ \A c \in Configs : /\ c.host \in Hosts \cup {NoHost} /\ c.topic_prefix \in Prefixes
                          /\ {c.enabled, c.discovery, c.discovery_all} \subseteq BOOLEAN
    /\ \A s \in Selections : s \subseteq Metrics
    /\ ConnectFails \in BOOLEAN
    /\ {MaxApplies, MaxDrops, MaxChanges, MaxStarts} \subseteq Nat

VARIABLES
    main,           \* what the main loop does: [pc, then]
    config,         \* mqtt->config
    client,         \* mqtt->client: {} or one [host, prefix of its will, up, tries]
    connected,      \* mqtt->connected
    discovery_sent, \* mqtt->discovery_sent
    due,            \* last_publish is 0 or an interval ago
    cb,             \* the callback thread: [pc, wanted, withdraw]
    lost,           \* Paho has yet to call on_connection_lost
    transmit,       \* metrics selected for transmission
    status,         \* retained <prefix>/status of every broker
    entities,       \* metrics with a retained discovery config, by broker
    told,           \* auxiliary: a state message went out in this session
    raced,          \* auxiliary: main and a callback have ever overlapped
    current,        \* auxiliary: configs were published since reg or transmit changed
    applies, drops, changes, starts   \* counted for the bounds

mine == <<config, client, connected, discovery_sent, due>>
world == <<reg, transmit>>
broker == <<status, entities>>
counts == <<applies, drops, changes, starts>>
vars == <<main, mine, cb, lost, world, broker, told, raced, current, counts>>

Idle == [pc |-> "idle", wanted |-> {}, withdraw |-> FALSE]
Doing(pc) == main.pc = pc
Go(pc) == main' = [pc |-> pc, then |-> "idle"]

Up == \E c \in client : c.up
Overlap == raced \/ cb.pc # "idle"

\* Retains s on the status topic, if the message arrives.
PublishStatus(s) ==
    [h \in Hosts |-> [p \in Prefixes |->
        IF Up /\ p = config.topic_prefix /\ \E c \in client : c.host = h THEN s ELSE status[h][p]]]

\* The broker publishes the will of a session that ended without a DISCONNECT.
WillPublished ==
    [h \in Hosts |-> [p \in Prefixes |->
        IF \E c \in client : c.up /\ c.host = h /\ c.prefix = p THEN "offline" ELSE status[h][p]]]

is_essential(m) == m \in Essential \/ (m \in RawZones /\ reg \cap NamedSensors = {})

\* Metrics that publish_discovery wants to be entities.
Wanted == {m \in reg \cap transmit : config.discovery_all \/ is_essential(m)}

\* The retained configs once publish_discovery has gone through the registry.
publish_discovery(wanted, withdraw) ==
    [h \in Hosts |->
        IF Up /\ \E c \in client : c.host = h
        THEN wanted \cup (IF withdraw THEN entities[h] \ reg ELSE entities[h])
        ELSE entities[h]]

Init ==
    /\ main = [pc |-> "stopped", then |-> "idle"]
    /\ config \in Configs
    /\ client = {} /\ connected = FALSE /\ discovery_sent = FALSE /\ due = TRUE
    /\ cb = Idle /\ lost = FALSE
    /\ reg \in Registries /\ transmit \in Selections
    /\ status = [h \in Hosts |-> [p \in Prefixes |-> "none"]]
    /\ entities = [h \in Hosts |-> {}]
    /\ told = FALSE /\ raced = FALSE /\ current = FALSE
    /\ applies = 0 /\ drops = 0 /\ changes = 0 /\ starts = 0

(***************************************************************************)
(* The main loop.                                                          *)
(***************************************************************************)
\* mqtt_new and the first apply_mqtt_settings; the metric set may be another.
Start ==
    /\ main.pc \in {"stopped", "killed"} /\ starts < MaxStarts /\ starts' = starts + 1
    /\ reg' \in Registries
    /\ IF config.enabled /\ config.host # NoHost THEN Go("connect") ELSE Go("idle")
    /\ current' = FALSE
    /\ client' = {} /\ connected' = FALSE /\ discovery_sent' = FALSE /\ due' = TRUE
    /\ cb' = Idle /\ lost' = FALSE
    /\ UNCHANGED <<config, transmit, broker, told, raced, applies, drops, changes>>

connection_differs(c) ==
    <<c.enabled, c.host, c.topic_prefix>> # <<config.enabled, config.host, config.topic_prefix>>

M_NeverRediscovers(c) == FALSE

\* Discovery is republished on an open connection when its settings change.
Rediscovers(c) ==
    /\ connected /\ c.discovery
    /\ <<c.discovery, c.discovery_all>> # <<config.discovery, config.discovery_all>>

\* The new settings are in place before the old connection is closed.
mqtt_apply(c) ==
    /\ Doing("idle") /\ applies < MaxApplies /\ applies' = applies + 1
    /\ config' = c
    /\ raced' = Overlap
    /\ UNCHANGED <<client, connected, due, cb, lost, world, status, told, drops, changes, starts>>
    /\ LET asked == c.enabled /\ c.host # NoHost
           reconnect == connection_differs(c) \/ client = {}
       IN  IF asked /\ ~reconnect /\ Rediscovers(c)
           THEN /\ entities' = publish_discovery(Wanted', TRUE)
                /\ discovery_sent' = TRUE
                /\ current' = (current \/ Up)
                /\ UNCHANGED main
           ELSE /\ main' = IF ~asked THEN [pc |-> "disconnect", then |-> "idle"]
                           ELSE IF reconnect THEN [pc |-> "disconnect", then |-> "connect"]
                           ELSE main
                /\ UNCHANGED <<discovery_sent, entities, current>>

M_DisconnectSilently ==
    /\ Doing("disconnect")
    /\ main' = IF client = {} THEN [pc |-> main.then, then |-> "idle"]
               ELSE [pc |-> IF connected THEN "clean" ELSE "destroy", then |-> main.then]
    /\ raced' = Overlap
    /\ UNCHANGED <<mine, cb, lost, world, broker, told, current, counts>>

\* disconnect: an open connection retracts "online" and says DISCONNECT.
disconnect ==
    /\ Doing("disconnect")
    /\ main' = IF client = {} THEN [pc |-> main.then, then |-> "idle"]
               ELSE [pc |-> IF connected THEN "clean" ELSE "destroy", then |-> main.then]
    /\ status' = IF connected THEN PublishStatus("offline") ELSE status
    /\ raced' = Overlap
    /\ UNCHANGED <<mine, cb, lost, world, entities, told, current, counts>>

\* Its end, MQTTAsync_destroy.  A session that is up without main knowing may
\* end with its will or without.
Destroy ==
    /\ main.pc \in {"clean", "destroy"}
    /\ main' = [pc |-> main.then, then |-> "idle"]
    /\ status' \in IF main.pc = "clean" THEN {status} ELSE {status, WillPublished}
    /\ client' = {} /\ connected' = FALSE /\ discovery_sent' = FALSE
    /\ lost' = FALSE
    /\ raced' = Overlap
    /\ UNCHANGED <<config, due, cb, world, entities, told, current, counts>>

\* A client that retries in the background; one that does not, because
\* MQTTAsync_connect returned an error and Paho keeps trying only what it has
\* accepted; or none if it cannot be created.
connect_now ==
    /\ Doing("connect")
    /\ Go("idle")
    /\ LET new(tries) == {[host |-> config.host, prefix |-> config.topic_prefix,
                           up |-> FALSE, tries |-> tries]}
       IN  client' \in {new(TRUE)} \cup (IF ConnectFails THEN {new(FALSE), {}} ELSE {})
    /\ raced' = Overlap
    /\ UNCHANGED <<config, connected, discovery_sent, due, cb, lost, world, broker, told, current, counts>>

\* on_sample_tick; time passes, so a message that is not due may be next time.
mqtt_tick ==
    /\ Doing("idle")
    /\ IF connected /\ config.enabled /\ due
       THEN due' = FALSE /\ told' = (told \/ Up)
       ELSE due' \in {due, TRUE} /\ UNCHANGED told
    /\ UNCHANGED <<main, config, client, connected, discovery_sent, cb, lost, world, broker,
                   raced, current, counts>>

\* rebuild_for_new_storage and selection_set_disabled: neither tells mqtt.
Rebuild ==
    /\ Doing("idle") /\ changes < MaxChanges /\ changes' = changes + 1
    /\ reg' \in Registries \ {reg}
    /\ raced' = Overlap /\ current' = FALSE
    /\ UNCHANGED <<main, mine, cb, lost, transmit, broker, told, applies, drops, starts>>
selection_set_disabled ==
    /\ Doing("idle") /\ changes < MaxChanges /\ changes' = changes + 1
    /\ transmit' \in Selections \ {transmit}
    /\ raced' = Overlap /\ current' = FALSE
    /\ UNCHANGED <<main, mine, cb, lost, reg, broker, told, applies, drops, starts>>

\* SIGTERM: mqtt_free disconnects.
mqtt_free ==
    /\ Doing("idle")
    /\ main' = [pc |-> "disconnect", then |-> "stopped"]
    /\ raced' = Overlap
    /\ UNCHANGED <<mine, cb, lost, world, broker, told, current, counts>>

(***************************************************************************)
(* The Paho library and the brokers.                                       *)
(***************************************************************************)
\* The background connection succeeds and on_connected is called.
PahoConnect ==
    /\ (\E c \in client : c.tries) /\ ~Up /\ cb.pc = "idle" /\ ~lost
    /\ client' = {[c EXCEPT !.up = TRUE] : c \in client}
    /\ cb' = [Idle EXCEPT !.pc = "connected"]
    /\ told' = FALSE
    /\ raced' = (raced \/ ~Doing("idle"))
    /\ UNCHANGED <<main, config, connected, discovery_sent, due, lost, world, broker, current, counts>>

\* The session breaks and the broker publishes the will.
PahoDrop ==
    /\ Up /\ drops < MaxDrops /\ drops' = drops + 1
    /\ client' = {[c EXCEPT !.up = FALSE] : c \in client}
    /\ status' = WillPublished
    /\ lost' = TRUE
    /\ UNCHANGED <<main, config, connected, discovery_sent, due, cb, world, entities, told, raced,
                   current, applies, changes, starts>>

\* The process dies: the broker publishes the will.
Kill ==
    /\ main.pc \notin {"stopped", "killed"}
    /\ Go("killed")
    /\ status' = WillPublished
    /\ client' = {} /\ connected' = FALSE /\ discovery_sent' = FALSE /\ due' = TRUE
    /\ cb' = Idle /\ lost' = FALSE
    /\ UNCHANGED <<config, world, entities, told, raced, current, counts>>

(***************************************************************************)
(* The callbacks, on Paho's thread.                                        *)
(***************************************************************************)
CbConnected ==
    /\ cb.pc = "connected"
    /\ connected' = TRUE
    /\ cb' = [cb EXCEPT !.pc = "online"]
    /\ UNCHANGED <<main, config, client, discovery_sent, due, lost, world, broker, told, raced, current, counts>>

M_OnlineOncePerClient ==
    /\ cb.pc = "online"
    /\ status' = IF discovery_sent THEN status ELSE PublishStatus("online")
    /\ cb' = [cb EXCEPT !.pc = IF config.discovery THEN "discover" ELSE "reset"]
    /\ UNCHANGED <<main, mine, lost, world, entities, told, raced, current, counts>>

CbOnline ==
    /\ cb.pc = "online"
    /\ status' = PublishStatus("online")
    /\ cb' = [cb EXCEPT !.pc = IF config.discovery THEN "discover" ELSE "reset"]
    /\ UNCHANGED <<main, mine, lost, world, entities, told, raced, current, counts>>

\* publish_discovery decides metric by metric what is wanted ...
CbDiscover ==
    /\ cb.pc = "discover"
    /\ cb' = [pc |-> "publish", wanted |-> Wanted, withdraw |-> ~discovery_sent]
    /\ UNCHANGED <<main, mine, lost, world, broker, told, raced, current, counts>>

\* ... and publishes it, some decided before main changed anything, some after.
CbPublish ==
    /\ cb.pc = "publish"
    /\ \E after \in SUBSET reg :
          entities' = publish_discovery((cb.wanted \ after) \cup (Wanted \cap after), cb.withdraw)
    /\ discovery_sent' = TRUE
    /\ current' = (current \/ Up)
    /\ cb' = [Idle EXCEPT !.pc = "reset"]
    /\ UNCHANGED <<main, config, client, connected, due, lost, world, status, told, raced, counts>>

M_IntervalNotReset ==
    /\ cb.pc = "reset"
    /\ cb' = Idle
    /\ UNCHANGED <<main, mine, lost, world, broker, told, raced, current, counts>>

CbReset ==
    /\ cb.pc = "reset"
    /\ due' = TRUE
    /\ cb' = Idle
    /\ UNCHANGED <<main, config, client, connected, discovery_sent, lost, world, broker, told, raced,
                   current, counts>>

on_connection_lost ==
    /\ lost /\ cb.pc = "idle"
    /\ connected' = FALSE /\ lost' = FALSE
    /\ UNCHANGED <<main, config, client, discovery_sent, due, cb, world, broker, told, raced, current, counts>>

on_connected == CbConnected \/ CbOnline \/ CbDiscover \/ CbPublish \/ CbReset
MainStep == disconnect \/ Destroy \/ connect_now

Next ==
    \/ Start
    \/ \E c \in Configs : mqtt_apply(c)
    \/ MainStep
    \/ mqtt_tick
    \/ Rebuild
    \/ selection_set_disabled
    \/ mqtt_free
    \/ PahoConnect
    \/ PahoDrop
    \/ Kill
    \/ on_connected
    \/ on_connection_lost

(***************************************************************************)
(* Handlers and callbacks run to their end.  Paho keeps retrying           *)
(* (automaticReconnect), and a broker that keeps being asked accepts.      *)
(***************************************************************************)
Fairness ==
    /\ WF_vars(MainStep) /\ WF_vars(on_connected) /\ WF_vars(on_connection_lost)
    /\ WF_vars(PahoConnect)

Spec == Init /\ [][Next]_vars /\ Fairness

-----------------------------------------------------------------------------
\* Home Assistant's availability is right (the will, on_connected, disconnect):
\* a topic says "online" only while the session that said so is up, whatever
\* drops, restarts and changes of broker there were, unless a settings change
\* or a stop has overlapped a callback.
OnlineMeansConnected ==
    ~raced => \A h \in Hosts, p \in Prefixes :
        status[h][p] = "online" => \E c \in client : c.up /\ c.host = h /\ c.prefix = p

Settled == ~raced /\ Doing("idle") /\ cb.pc = "idle" /\ connected /\ Up

\* On a settled connection every metric the discovery settings ask for has its
\* retained config, though publishes into a dropped session were lost
\* (publish_discovery, mqtt_apply).
DiscoveryComplete ==
    Settled /\ config.discovery /\ current =>
        \A c \in client : Wanted \subseteq entities[c.host]

\* The first sample after a connection publishes the state at once: last_publish
\* was reset, whenever the tick fell between the callback's steps (on_connected).
FirstSamplePublishes == Doing("idle") /\ cb.pc = "idle" /\ connected /\ Up /\ ~told => due

\* A client that stays comes online, after a drop too (on_connected), if its
\* MQTTAsync_connect was accepted: after an error nothing tries again until the
\* connection settings change (mqtt_apply), though line 329 says it does.
ComesOnline ==
    (Doing("idle") /\ \E c \in client : c.tries)
        ~> \/ ~Doing("idle")
           \/ connected /\ \E c \in client : c.up /\ status[c.host][c.prefix] = "online"

-----------------------------------------------------------------------------
(* What the documentation says, where the code does something else.        *)

\* mqtt.c:253 says that a clean stop retracts "online" itself.
StopRetracts ==
    Doing("stopped") /\ ~raced => \A h \in Hosts, p \in Prefixes : status[h][p] # "online"
=============================================================================
