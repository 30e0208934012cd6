------------------------------- MODULE Alerts -------------------------------
(***************************************************************************)
(* Threshold alerting (alerts.c): rules evaluated at every sample, edited  *)
(* over HTTP, saved to a file, and mirrored to the device's event system   *)
(* and, while the broker is connected, to retained MQTT messages.          *)
(*                                                                         *)
(* All of it runs on the main loop, one handler at a time.  A reading is   *)
(* "low", "high" or "nan"; the threshold lies between low and high, so a   *)
(* changed threshold is represented by a changed comparison.  Names are    *)
(* left out.                                                               *)
(***************************************************************************)
EXTENDS Registry, Integers, FiniteSets, Sequences, Functions

CONSTANTS
    Defaults,          \* default rule id -> the metric it watches
    DefaultOrder,      \* the ids of Defaults in the order alerts_new adds them
    UserIds,           \* further rule ids a user may pick
    MAX_RULES,         \* size of the rule table (64)
    DefaultDuration,   \* duration_s of a default rule (300)
    Edits,             \* form bodies: [metric, op, duration_s, enabled], Keep if absent
    Keep, NoMetric,    \* a field that is absent; an empty metric
    ClockSteps,        \* by how much time(NULL) may move between two samples
    EventsFail,        \* whether declaring or sending an event may fail
    OtherTopics,       \* the messages another broker or another topic prefix may hold
    MaxSamples, MaxLaunches, MaxEdits, MaxLinks   \* bounds

DefaultIds == DOMAIN Defaults
RuleIds == DefaultIds \cup UserIds
Op == {"above", "below"}

ASSUME AlertsAssumption ==
    /\ DefaultOrder \in Seq(DefaultIds) /\ IsInjective(DefaultOrder)
    /\ Range(DefaultOrder) = DefaultIds
    /\ \A id \in DefaultIds : Defaults[id] \in Metrics
    /\ DefaultIds \cap UserIds = {} /\ NoMetric \notin Metrics /\ Keep \notin Metrics
    /\ MAX_RULES \in Nat \ {0} /\ DefaultDuration \in Nat
    /\ \A e \in Edits : /\ e.metric \in Metrics \cup {Keep} /\ e.op \in Op \cup {Keep}
                        /\ e.duration_s \in Nat \cup {Keep} /\ e.enabled \in BOOLEAN \cup {Keep}
    /\ ClockSteps \subseteq Int /\ EventsFail \in BOOLEAN
    /\ OtherTopics \subseteq [RuleIds -> {"none", "firing", "cleared"}]
    /\ IsFiniteSet(RuleIds)
    /\ {MaxSamples, MaxLaunches, MaxEdits, MaxLinks} \subseteq Nat

VARIABLES
    rules,    \* alerts->rules: a rule per id in the table
    file,     \* RULES_FILE: the saved part of each rule
    events,   \* the device's stateful events: "none", "inactive" or "active"
    retained, \* the retained alert messages: "none", "firing" or "cleared"
    link,     \* the session with the broker: "up", "off" or, as long as the program
              \* takes it for connected though it has dropped, "broken"
    clock,    \* time(NULL)
    uptime,   \* number of samples taken, which is the time that really passed
    launches, edits, links,   \* counted for the bounds
    held,     \* auxiliary: when each rule's condition was first seen to hold, or 0
    raised,   \* auxiliary: rules that ought to fire, by the time that really passed
    missed,   \* auxiliary: rules whose last change of state the broker was not told of
    unsent,   \* auxiliary: rules whose last change the event system was not told of
    unsaved,  \* auxiliary: the last save_rules failed
    unguarded \* auxiliary: default rules that found the table full, or their id in use

alertsVars == <<reg, rules, file, events, retained, link, clock, uptime, launches, edits,
          links, held, raised, missed, unsent, unsaved, unguarded>>

\* The saved part of a rule, and a rule in the table.
Saved(rule) == [metric |-> rule.metric, op |-> rule.op, duration_s |-> rule.duration_s,
                enabled |-> rule.enabled, builtin |-> rule.builtin]
Fresh(c) == [metric |-> c.metric, op |-> c.op, duration_s |-> c.duration_s,
             enabled |-> c.enabled, builtin |-> c.builtin,
             firing |-> FALSE, breach_since |-> 0, declared |-> FALSE]

DefaultRule(id) == Fresh([metric |-> Defaults[id], op |-> "above",
                          duration_s |-> DefaultDuration, enabled |-> TRUE, builtin |-> TRUE])
BlankRule == Fresh([metric |-> NoMetric, op |-> "above", duration_s |-> 0,
                    enabled |-> FALSE, builtin |-> FALSE])

Ids(t) == DOMAIN t
Keeping(t, S) == [id \in Ids(t) \cap S |-> t[id]]
With(t, id, rule) == [j \in Ids(t) \cup {id} |-> IF j = id THEN rule ELSE t[j]]

(***************************************************************************)
(* alerts_new: load, add the defaults this device calls for, prune, and    *)
(* declare an event for each rule.                                         *)
(***************************************************************************)
Expected(r) == {id \in DefaultIds : Defaults[id] \in r}

\* Rules without a metric are not loaded.
load_rules == [id \in {j \in Ids(file) : file[j].metric # NoMetric} |-> Fresh(file[id])]

add_rule(t, id, rule) ==
    IF Cardinality(Ids(t)) >= MAX_RULES \/ id \in Ids(t) THEN t ELSE With(t, id, rule)

\* a comes before b in DefaultOrder.
AddedBefore(a, b) ==
    \E i, j \in DOMAIN DefaultOrder : i < j /\ DefaultOrder[i] = a /\ DefaultOrder[j] = b

\* add_rule of one default after another: the missing ones, for as long as the
\* table has room.
AddDefaults(t, r) ==
    LET missing == Expected(r) \ Ids(t)
        added == {id \in missing :
                    Cardinality(Ids(t)) + Cardinality({j \in missing : AddedBefore(j, id)}) < MAX_RULES}
    IN  [id \in Ids(t) \cup added |-> IF id \in Ids(t) THEN t[id] ELSE DefaultRule(id)]

M_PruneAllMissing(t, r) == Keeping(t, {id \in RuleIds : id \in Ids(t) /\ t[id].metric \in r})

prune_stale_builtins(t, r) ==
    Keeping(t, {id \in RuleIds : id \in Expected(r) \/ (id \in Ids(t) /\ ~t[id].builtin)})

\* ax_event_handler_declare succeeds for the rules of D, of those not declared.
Undeclared(t) == {id \in Ids(t) : ~t[id].declared}
Declare(t, D) == [id \in Ids(t) |-> [t[id] EXCEPT !.declared = @ \/ id \in D]]
MaySucceed(S) == IF EventsFail THEN SUBSET S ELSE {S}

SaveAll(t) == [id \in Ids(t) |-> Saved(t[id])]

\* A save that fails is logged, and leaves the file as it was.
save_rules(t) ==
    \E saved \in BOOLEAN :
        file' = (IF saved THEN SaveAll(t) ELSE file) /\ unsaved' = ~saved

Firing(id) == id \in Ids(rules) /\ rules[id].firing

\* The program starts, or rebuild_for_new_storage replaces the rules: firing
\* states are not saved, and all events of the old handler are gone.
alerts_new(r) ==
    LET added == AddDefaults(load_rules, r)
        kept == prune_stale_builtins(added, r)
        taken == {id \in Ids(load_rules) : ~load_rules[id].builtin}
    IN  /\ reg' = r
        /\ \E D \in MaySucceed(Ids(kept)) :
              /\ rules' = Declare(kept, D)
              /\ events' = [id \in RuleIds |-> IF id \in D THEN "inactive" ELSE "none"]
        /\ save_rules(kept)
        /\ unguarded' = IF Cardinality(Ids(load_rules) \cup Expected(r)) > MAX_RULES
                        THEN Expected(r) ELSE taken

Launch(r) ==
    /\ launches < MaxLaunches /\ launches' = launches + 1
    /\ alerts_new(r)
    /\ link' \in {link, "off"}
    /\ held' = [id \in RuleIds |-> 0] /\ raised' = {} /\ unsent' = {}
    /\ missed' = missed \cup {id \in RuleIds : Firing(id)}
    /\ UNCHANGED <<retained, clock, uptime, edits, links>>

AlertsInit ==
    /\ reg = {} /\ rules = << >> /\ file = << >>
    /\ events = [id \in RuleIds |-> "none"]
    /\ retained = [id \in RuleIds |-> "none"]
    /\ link = "off"
    /\ clock = 1 /\ uptime = 0 /\ launches = 0 /\ edits = 0 /\ links = 0
    /\ held = [id \in RuleIds |-> 0] /\ raised = {}
    /\ missed = {} /\ unsent = {} /\ unsaved = FALSE /\ unguarded = {}

(***************************************************************************)
(* alerts_evaluate: every rule against the readings of one sample.         *)
(***************************************************************************)
Readable(rule, values) == rule.enabled /\ rule.metric \in reg /\ values[rule.metric] # "nan"
Breached(rule, values) == values[rule.metric] = IF rule.op = "above" THEN "high" ELSE "low"

M_KeepBreachOverGaps(rule, values, t) ==
    IF ~Readable(rule, values) THEN rule
    ELSE IF ~Breached(rule, values) THEN [rule EXCEPT !.breach_since = 0, !.firing = FALSE]
    ELSE LET since == IF rule.breach_since = 0 THEN t ELSE rule.breach_since
         IN  [rule EXCEPT !.breach_since = since,
                          !.firing = @ \/ t - since >= rule.duration_s]

Evaluated(rule, values, t) ==
    IF ~Readable(rule, values) THEN [rule EXCEPT !.breach_since = 0]
    ELSE IF ~Breached(rule, values) THEN [rule EXCEPT !.breach_since = 0, !.firing = FALSE]
    ELSE LET since == IF rule.breach_since = 0 THEN t ELSE rule.breach_since
         IN  [rule EXCEPT !.breach_since = since,
                          !.firing = @ \/ t - since >= rule.duration_s]

M_SendFiringOnly(sent) ==
    [id \in RuleIds |-> IF id \in sent /\ rules'[id].firing THEN "active" ELSE events[id]]

\* The events once the rules of "sent" have sent theirs.
send_state(sent) ==
    [id \in RuleIds |-> IF id \in sent THEN IF rules'[id].firing THEN "active" ELSE "inactive"
                        ELSE events[id]]

M_NotifyFiringOnly(changed) ==
    [id \in RuleIds |-> IF id \in changed /\ link = "up" /\ rules'[id].firing THEN "firing"
                        ELSE retained[id]]

\* on_alert_changed and mqtt_publish_alert, for rules that have started or stopped
\* firing.  What is not connected sends nothing, and a session that has just
\* broken takes the message and loses it.
mqtt_publish_alert(changed) ==
    [id \in RuleIds |-> IF id \in changed /\ link = "up"
                        THEN IF rules'[id].firing THEN "firing" ELSE "cleared"
                        ELSE retained[id]]

alerts_evaluate(values, t) ==
    /\ rules' = [id \in Ids(rules) |-> Evaluated(rules[id], values, t)]
    /\ LET changed == {id \in Ids(rules) : rules'[id].firing # rules[id].firing}
       IN  /\ \E sent \in MaySucceed({id \in changed : rules[id].declared}) :
                 /\ events' = send_state(sent)
                 /\ unsent' = (unsent \cup changed) \ sent
           /\ retained' = mqtt_publish_alert(changed)
           /\ missed' = IF link = "up" THEN missed \ changed ELSE missed \cup changed

\* on_sample_tick.
Sample(values, d) ==
    /\ launches > 0 /\ uptime < MaxSamples
    /\ clock + d > 0
    /\ uptime' = uptime + 1 /\ clock' = clock + d
    /\ alerts_evaluate(values, clock + d)
    /\ held' = [id \in RuleIds |->
                  IF id \in Ids(rules) /\ Readable(rules[id], values) /\ Breached(rules[id], values)
                  THEN IF held[id] = 0 THEN uptime' ELSE held[id] ELSE 0]
    /\ raised' = {id \in Ids(rules) :
                    IF Readable(rules[id], values) /\ ~Breached(rules[id], values) THEN FALSE
                    ELSE \/ id \in raised
                         \/ held'[id] > 0 /\ uptime' - held'[id] >= rules[id].duration_s}
    /\ UNCHANGED <<reg, file, link, launches, edits, links, unsaved, unguarded>>

(***************************************************************************)
(* alerts_apply: one form body.                                            *)
(***************************************************************************)
Given(field, old) == IF field = Keep THEN old ELSE field

Edited(rule, e) ==
    [rule EXCEPT !.metric = IF rule.builtin THEN @ ELSE Given(e.metric, @),
                 !.op = Given(e.op, @),
                 !.duration_s = Given(e.duration_s, @),
                 !.enabled = Given(e.enabled, @)]

\* action=save, for an existing rule or a new one if the table has room.
Save(id, e) ==
    /\ launches > 0 /\ edits < MaxEdits /\ edits' = edits + 1
    /\ id \in Ids(add_rule(rules, id, BlankRule))
    /\ LET old == add_rule(rules, id, BlankRule)[id]
           new == Edited(old, e)
           table == With(rules, id, new)
       IN  \E D \in MaySucceed({id} \cap Undeclared(table)) :
              /\ rules' = Declare(table, D)
              /\ events' = [j \in RuleIds |-> IF j \in D THEN "inactive" ELSE events[j]]
              /\ save_rules(table)
              /\ held' = IF <<new.metric, new.op>> = <<old.metric, old.op>> THEN held
                         ELSE [held EXCEPT ![id] = 0]
    /\ UNCHANGED <<reg, retained, link, clock, uptime, launches, links, raised, missed, unsent, unguarded>>

M_DeleteAny(id) ==
    /\ edits < MaxEdits /\ edits' = edits + 1
    /\ id \in Ids(rules)
    /\ rules' = Keeping(rules, RuleIds \ {id})
    /\ save_rules(rules')
    /\ held' = [held EXCEPT ![id] = 0] /\ raised' = raised \ {id} /\ unsent' = unsent \ {id}
    /\ missed' = IF Firing(id) THEN missed \cup {id} ELSE missed
    /\ UNCHANGED <<reg, events, retained, link, clock, uptime, launches, links, unguarded>>

\* action=delete.  The event stays declared, in the state it was in.
Delete(id) ==
    /\ edits < MaxEdits /\ edits' = edits + 1
    /\ id \in Ids(rules) /\ ~rules[id].builtin
    /\ rules' = Keeping(rules, RuleIds \ {id})
    /\ save_rules(rules')
    /\ held' = [held EXCEPT ![id] = 0] /\ raised' = raised \ {id} /\ unsent' = unsent \ {id}
    /\ missed' = IF Firing(id) THEN missed \cup {id} ELSE missed
    /\ UNCHANGED <<reg, events, retained, link, clock, uptime, launches, links, unguarded>>

SessionTurns == [off |-> {"up"}, up |-> {"broken", "off"}, broken |-> {"off"}]

\* A session begins, breaks, is found to be lost, or is ended by another change of
\* the settings; on_connected and on_connection_lost publish no alert.
LinkChange ==
    /\ links < MaxLinks /\ links' = links + 1
    /\ link' \in SessionTurns[link]
    /\ UNCHANGED <<reg, rules, file, events, retained, clock, uptime, launches, edits,
                   held, raised, missed, unsent, unsaved, unguarded>>

\* mqtt_apply, with another broker or topic prefix: the messages are elsewhere from
\* now on, and none is published for it.
TopicChange ==
    /\ links < MaxLinks /\ links' = links + 1
    /\ link' = "off" /\ retained' \in OtherTopics
    /\ missed' = RuleIds
    /\ UNCHANGED <<reg, rules, file, events, clock, uptime, launches, edits,
                   held, raised, unsent, unsaved, unguarded>>

AlertsNext ==
    \/ \E r \in Registries : Launch(r)
    \/ \E values \in [Metrics -> {"low", "high", "nan"}], d \in ClockSteps : Sample(values, d)
    \/ \E id \in RuleIds : (\E e \in Edits : Save(id, e)) \/ Delete(id)
    \/ LinkChange \/ TopicChange

AlertsSpec == AlertsInit /\ [][AlertsNext]_alertsVars

-----------------------------------------------------------------------------
(***************************************************************************)
(* A rule fires exactly when it should, by the time that really passed: it *)
(* starts when its condition has been read as true at every sample for its *)
(* duration, a missing reading starts the count again, and only a reading  *)
(* within bounds clears it, not a gap, a disabled rule or a metric that is *)
(* gone (alerts_evaluate).  It is so when the clock is steady and no edit  *)
(* replaces the condition.                                                 *)
(***************************************************************************)
AlarmIsExact == {id \in Ids(rules) : rules[id].firing} = raised

\* The event of a declared rule is active exactly while the rule fires, through
\* edits, deletions and restarts, and whichever declarations failed before.
\* Excepted are rules whose last change happened while their event was undeclared,
\* or could not be sent (declare_rule, send_state).
EventMirrorsRule ==
    \A id \in Ids(rules) \ unsent :
        rules[id].declared => (events[id] = "active" <=> rules[id].firing)

\* The broker's retained message is the rule's state, except for rules whose
\* last change happened while there was no session or in one that had broken, or
\* was a restart, a deletion, or a change of broker or topic (mqtt_publish_alert).
BrokerMirrorsUnlessMissed ==
    \A id \in RuleIds \ missed : retained[id] = "firing" <=> Firing(id)

\* Every default rule this device calls for is there, unless the table had no room
\* for all of them beside the saved rules, or a rule of a user had the id: no edit,
\* no deletion and no failing save loses one (alerts_new, alerts_apply).
DefaultCover == launches > 0 => Expected(reg) \ unguarded \subseteq Ids(rules)

\* The rules a user made survive a restart as they were, whatever has happened
\* to the device's metrics and however often they could not be saved before, if the
\* last save succeeded (save_rules, load_rules, prune_stale_builtins).
UserRulesSurvive ==
    [][launches' # launches /\ launches > 0 /\ ~unsaved =>
          \A id \in Ids(rules) :
              ~rules[id].builtin /\ rules[id].metric # NoMetric =>
                  id \in Ids(rules)' /\ Saved(rules[id]) = Saved(rules[id])']_alertsVars

-----------------------------------------------------------------------------
(* What the documentation says, where the code does something else.        *)

\* README.md:315 says a rule fires once the condition has held for its duration,
\* so a single noisy sample cannot raise an alarm.
OneSampleRaisesNothing ==
    [][uptime' # uptime =>
          \A id \in Ids(rules) :
              ~Firing(id) /\ Firing(id)' /\ rules[id].duration_s > 0 => held'[id] < uptime']_alertsVars
=============================================================================
