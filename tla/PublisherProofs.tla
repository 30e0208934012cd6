-------------------------- MODULE PublisherProofs ---------------------------
(***************************************************************************)
(* Proofs about the two parts that tell the outside world what the samples *)
(* say: the alerts (AlertsSpec) and the MQTT publisher (Spec), for any     *)
(* metrics, rules, edits, brokers and settings.                            *)
(***************************************************************************)
EXTENDS Alerts, Mqtt, FiniteSetTheorems, TLAPS

-----------------------------------------------------------------------------
(* The rule table.                                                         *)

Condition == Metrics \cup {NoMetric}
Rule == [metric : Condition, op : Op, duration_s : Nat, enabled : BOOLEAN, builtin : BOOLEAN,
         firing : BOOLEAN, breach_since : Int, declared : BOOLEAN]

Function(t) == t = [id \in Ids(t) |-> t[id]]
Table(t) == Function(t) /\ Ids(t) \subseteq RuleIds /\ \A id \in Ids(t) : t[id] \in Rule

Messages ==
    /\ Function(events) /\ Ids(events) = RuleIds
    /\ Function(retained) /\ Ids(retained) = RuleIds

SavedRule == [metric : Condition, op : Op, duration_s : Nat, enabled : BOOLEAN, builtin : BOOLEAN]
SavedTable(f) == Function(f) /\ Ids(f) \subseteq RuleIds /\ \A id \in Ids(f) : f[id] \in SavedRule

\* The shape of the state: what is saved is the table unless the last save failed,
\* and every default that was added is there as a built-in rule, which no deletion
\* takes.
Shape ==
    /\ Table(rules) /\ SavedTable(file)
    /\ ~unsaved => file = SaveAll(rules)
    /\ clock \in Int /\ uptime \in Nat
    /\ Messages
    /\ \A id \in Expected(reg) \ unguarded : id \in Ids(rules) /\ rules[id].builtin

LEMMA DefaultType ==
    ASSUME NEW id \in DefaultIds
    PROVE  /\ DefaultRule(id) \in Rule /\ DefaultRule(id).builtin = TRUE
           /\ DefaultRule(id).firing = FALSE /\ DefaultRule(id).breach_since = 0
  BY AlertsAssumption DEF DefaultRule, Fresh, Rule, Condition, Op

LEMMA BlankType == BlankRule \in Rule /\ BlankRule.firing = FALSE /\ BlankRule.breach_since = 0
  BY DEF BlankRule, Fresh, Rule, Condition, Op

\* What a rule keeps when it is evaluated, declared and edited.
\* What one evaluation makes of the two fields it changes.
SinceOf(rule, values, t) ==
    IF Readable(rule, values) /\ Breached(rule, values)
    THEN IF rule.breach_since = 0 THEN t ELSE rule.breach_since
    ELSE 0
FiresOf(rule, values, t) ==
    IF ~Readable(rule, values) THEN rule.firing
    ELSE IF ~Breached(rule, values) THEN FALSE
    ELSE rule.firing \/ t - SinceOf(rule, values, t) >= rule.duration_s

\* A rule with other values in those two fields.
Timed(rule, since, fires) == [rule EXCEPT !.breach_since = since, !.firing = fires]

LEMMA TimedFields ==
    ASSUME NEW rule \in Rule, NEW since \in Int, NEW fires \in BOOLEAN
    PROVE  /\ Timed(rule, since, fires) \in Rule
           /\ Saved(Timed(rule, since, fires)) = Saved(rule)
           /\ Timed(rule, since, fires).declared = rule.declared
           /\ Timed(rule, since, fires).builtin = rule.builtin
           /\ Timed(rule, since, fires).firing = fires
           /\ Timed(rule, since, fires).breach_since = since
  BY DEF Timed, Rule, Saved

LEMMA EvaluatedIsTimed ==
    ASSUME NEW rule \in Rule, NEW values, NEW t \in Int
    PROVE  /\ SinceOf(rule, values, t) \in Int /\ FiresOf(rule, values, t) \in BOOLEAN
           /\ Evaluated(rule, values, t) =
                 Timed(rule, SinceOf(rule, values, t), FiresOf(rule, values, t))
<1>1. rule.firing \in BOOLEAN /\ rule.breach_since \in Int
  BY DEF Rule
<1>2. SinceOf(rule, values, t) \in Int
  BY <1>1 DEF SinceOf
<1>3. FiresOf(rule, values, t) \in BOOLEAN
  BY <1>1, Zenon DEF FiresOf
<1>4. CASE ~Readable(rule, values)
  <2>1. Evaluated(rule, values, t) = [rule EXCEPT !.breach_since = 0]
    BY <1>4, Zenon DEF Evaluated
  <2>2. [rule EXCEPT !.breach_since = 0] = Timed(rule, 0, rule.firing)
    BY DEF Timed, Rule
  <2> QED
    BY <1>2, <1>3, <1>4, <2>1, <2>2, Zenon DEF SinceOf, FiresOf
<1>5. CASE Readable(rule, values) /\ ~Breached(rule, values)
  BY <1>2, <1>3, <1>5, Zenon DEF Evaluated, SinceOf, FiresOf, Timed
<1>6. CASE Readable(rule, values) /\ Breached(rule, values)
  <2>1. CASE rule.breach_since = 0
    BY <1>2, <1>3, <1>6, <2>1, Zenon DEF Evaluated, SinceOf, FiresOf, Timed
  <2>2. CASE rule.breach_since # 0
    BY <1>2, <1>3, <1>6, <2>2, Zenon DEF Evaluated, SinceOf, FiresOf, Timed
  <2> QED
    BY <2>1, <2>2
<1> QED
  BY <1>4, <1>5, <1>6

LEMMA EditedKeeps ==
    ASSUME NEW rule \in Rule, NEW e \in Edits
    PROVE  /\ Edited(rule, e) \in Rule
           /\ Edited(rule, e).declared = rule.declared
           /\ Edited(rule, e).builtin = rule.builtin
           /\ Edited(rule, e).firing = rule.firing
           /\ Edited(rule, e).breach_since = rule.breach_since
  BY AlertsAssumption DEF Edited, Given, Rule, Condition

LEMMA DeclareKeeps ==
    ASSUME NEW t, Table(t), NEW D
    PROVE  /\ Table(Declare(t, D)) /\ Ids(Declare(t, D)) = Ids(t)
           /\ \A id \in Ids(t) :
                 /\ Saved(Declare(t, D)[id]) = Saved(t[id])
                 /\ Declare(t, D)[id].builtin = t[id].builtin
                 /\ Declare(t, D)[id].firing = t[id].firing
                 /\ Declare(t, D)[id].breach_since = t[id].breach_since
                 /\ Declare(t, D)[id].declared = (t[id].declared \/ id \in D)
  BY ZenonT(60) DEF Declare, Table, Function, Ids, Rule, Saved

LEMMA SavedAll ==
    ASSUME NEW t, Table(t)
    PROVE  SavedTable(SaveAll(t)) /\ Ids(SaveAll(t)) = Ids(t) /\ \A id \in Ids(t) : SaveAll(t)[id] = Saved(t[id])
<1>1. SaveAll(t) = [id \in Ids(t) |-> Saved(t[id])]
  BY DEF SaveAll
<1>2. /\ Ids(SaveAll(t)) = Ids(t) /\ Function(SaveAll(t))
      /\ \A id \in Ids(t) : SaveAll(t)[id] = Saved(t[id])
  BY <1>1 DEF Ids, Function
<1>3. \A id \in Ids(t) : Saved(t[id]) \in SavedRule
  BY DEF Table, Rule, Saved, SavedRule
<1> QED
  BY <1>2, <1>3 DEF SavedTable, Table

\* save_rules leaves a table of saved rules, and the present one if it succeeds.
LEMMA SavesTable ==
    ASSUME NEW t, Table(t), SavedTable(file), save_rules(t)
    PROVE  SavedTable(file') /\ (~unsaved' => file' = SaveAll(t))
BY SavedAll DEF save_rules

\* alerts_new: what is loaded, completed and pruned is a table of fresh rules,
\* and the rules a user made come through as they were saved.
LEMMA LoadedRules ==
    ASSUME Shape
    PROVE  /\ Table(load_rules)
           /\ \A id \in Ids(load_rules) : ~load_rules[id].firing /\ load_rules[id].breach_since = 0
           /\ ~unsaved =>
                 \A id \in Ids(rules) :
                     rules[id].metric # NoMetric =>
                        /\ id \in Ids(load_rules)
                        /\ Saved(load_rules[id]) = Saved(rules[id])
                        /\ load_rules[id].builtin = rules[id].builtin
<1>1. SavedTable(file)
  BY DEF Shape
<1>2. \A e \in SavedRule :
         /\ Fresh(e) \in Rule /\ Saved(Fresh(e)) = e /\ Fresh(e).builtin = e.builtin
         /\ Fresh(e).firing = FALSE /\ Fresh(e).breach_since = 0
  BY DEF SavedRule, Rule, Fresh, Saved
<1>3. /\ Ids(load_rules) = {id \in Ids(file) : file[id].metric # NoMetric}
      /\ \A id \in Ids(load_rules) : load_rules[id] = Fresh(file[id])
      /\ Function(load_rules)
  BY DEF load_rules, Ids, Function
<1>4. Table(load_rules) /\ \A id \in Ids(load_rules) : ~load_rules[id].firing /\ load_rules[id].breach_since = 0
  BY <1>1, <1>2, <1>3 DEF SavedTable, Table
<1>5. ASSUME ~unsaved, NEW id \in Ids(rules), rules[id].metric # NoMetric
      PROVE  /\ id \in Ids(load_rules) /\ Saved(load_rules[id]) = Saved(rules[id])
             /\ load_rules[id].builtin = rules[id].builtin
  <2>1. id \in Ids(file) /\ file[id] = Saved(rules[id])
    BY <1>5, SavedAll DEF Shape
  <2>2. Saved(rules[id]).metric = rules[id].metric /\ Saved(rules[id]).builtin = rules[id].builtin
    BY DEF Saved
  <2> QED
    BY <1>1, <1>2, <1>3, <1>5, <2>1, <2>2 DEF SavedTable
<1> QED
  BY <1>4, <1>5

LEMMA CompletedRules ==
    ASSUME NEW t, Table(t), NEW r, \A id \in Ids(t) : ~t[id].firing /\ t[id].breach_since = 0
    PROVE  /\ Table(AddDefaults(t, r))
           /\ \A id \in Ids(AddDefaults(t, r)) :
                 ~AddDefaults(t, r)[id].firing /\ AddDefaults(t, r)[id].breach_since = 0
           /\ \A id \in Ids(t) : id \in Ids(AddDefaults(t, r)) /\ AddDefaults(t, r)[id] = t[id]
<1> DEFINE missing == Expected(r) \ Ids(t)
           added == {id \in missing : Cardinality(Ids(t))
                        + Cardinality({j \in missing : AddedBefore(j, id)}) < MAX_RULES}
           u == AddDefaults(t, r)
<1>1. u = [id \in Ids(t) \cup added |-> IF id \in Ids(t) THEN t[id] ELSE DefaultRule(id)]
  BY DEF AddDefaults
<1>2. added \subseteq DefaultIds
  BY DEF Expected
<1> HIDE DEF added, u
<1>3. Ids(u) = Ids(t) \cup added /\ Function(u)
  BY <1>1 DEF Ids, Function
<1>4. \A id \in Ids(u) : u[id] = IF id \in Ids(t) THEN t[id] ELSE DefaultRule(id)
  BY <1>1, <1>3
<1>5. \A id \in Ids(u) : u[id] \in Rule /\ ~u[id].firing /\ u[id].breach_since = 0
  BY <1>2, <1>3, <1>4, DefaultType DEF Table
<1>6. Table(u) /\ \A id \in Ids(t) : id \in Ids(u) /\ u[id] = t[id]
  BY <1>2, <1>3, <1>4, <1>5 DEF Table, RuleIds
<1> QED
  BY <1>5, <1>6 DEF u

\* AddDefaults adds all of them if the table has room for all.
LEMMA DefaultsFit ==
    ASSUME NEW t, Table(t), NEW r, Cardinality(Ids(t) \cup Expected(r)) <= MAX_RULES
    PROVE  \A id \in Expected(r) :
              /\ id \in Ids(AddDefaults(t, r))
              /\ id \notin Ids(t) => AddDefaults(t, r)[id].builtin = TRUE
<1> DEFINE missing == Expected(r) \ Ids(t)
           before(id) == {j \in missing : AddedBefore(j, id)}
           added == {id \in missing : Cardinality(Ids(t)) + Cardinality(before(id)) < MAX_RULES}
           all == Ids(t) \cup Expected(r)
<1>1. Expected(r) \subseteq DefaultIds
  BY DEF Expected
<1>2. IsFiniteSet(all) /\ IsFiniteSet(Ids(t))
  BY <1>1, AlertsAssumption, FS_Subset DEF Table, RuleIds
<1>3. ASSUME NEW id \in missing PROVE id \in added
  <2>1. id \notin before(id)
    <3>1. ~AddedBefore(id, id)
      BY AlertsAssumption DEF AddedBefore, IsInjective
    <3> QED
      BY <3>1
  <2> DEFINE others == Ids(t) \cup before(id)
  <2>2. others \in SUBSET (all \ {id})
    BY <2>1
  <2>3. IsFiniteSet(all \ {id}) /\ Cardinality(all \ {id}) = Cardinality(all) - 1
    BY <1>2, FS_RemoveElement
  <2>4. Cardinality(others) <= Cardinality(all) - 1
    BY <2>2, <2>3, FS_Subset
  <2>5. IsFiniteSet(before(id))
    BY <1>2, FS_Subset
  <2>6. Cardinality(others) = Cardinality(Ids(t)) + Cardinality(before(id))
    <3>1. Ids(t) \cap before(id) = {}
      OBVIOUS
    <3>2. Cardinality(others) = Cardinality(Ids(t)) + Cardinality(before(id)) - Cardinality(Ids(t) \cap before(id))
      BY <1>2, <2>5, FS_Union
    <3>3. Cardinality(Ids(t)) \in Nat /\ Cardinality(before(id)) \in Nat
      BY <1>2, <2>5, FS_CardinalityType
    <3> HIDE DEF before, others
    <3> QED
      BY <3>1, <3>2, <3>3, FS_EmptySet
  <2>7. Cardinality(all) \in Nat /\ Cardinality(Ids(t)) \in Nat /\ Cardinality(before(id)) \in Nat
    BY <1>2, <2>5, FS_CardinalityType
  <2>8. Cardinality(Ids(t)) + Cardinality(before(id)) < MAX_RULES
    <3> HIDE DEF before, others
    <3> QED
      BY <2>4, <2>6, <2>7, AlertsAssumption
  <2> QED
    BY <2>8
<1>4. AddDefaults(t, r) = [id \in Ids(t) \cup added |-> IF id \in Ids(t) THEN t[id] ELSE DefaultRule(id)]
  BY DEF AddDefaults
<1>5. \A id \in missing : DefaultRule(id).builtin = TRUE
  BY <1>1, DefaultType
<1> HIDE DEF added
<1> QED
  BY <1>3, <1>4, <1>5 DEF Ids

LEMMA PrunedRules ==
    ASSUME NEW t, Table(t), NEW r
    PROVE  /\ Table(prune_stale_builtins(t, r))
           /\ Ids(prune_stale_builtins(t, r)) \subseteq Ids(t)
           /\ \A id \in Ids(prune_stale_builtins(t, r)) : prune_stale_builtins(t, r)[id] = t[id]
           /\ \A id \in Ids(t) : ~t[id].builtin => id \in Ids(prune_stale_builtins(t, r))
           /\ \A id \in Ids(t) \cap Expected(r) : id \in Ids(prune_stale_builtins(t, r))
  BY DEF prune_stale_builtins, Keeping, Table, Function, Ids, Expected, RuleIds

\* The rules alerts_new ends with, before their events are declared.
Kept(r) == prune_stale_builtins(AddDefaults(load_rules, r), r)

\* The default rules that find the table full, or their id in use.
Unguarded(r) ==
    IF Cardinality(Ids(load_rules) \cup Expected(r)) > MAX_RULES THEN Expected(r)
    ELSE {id \in Ids(load_rules) : ~load_rules[id].builtin}

LEMMA KeptRules ==
    ASSUME Shape, NEW r
    PROVE  /\ Table(Kept(r))
           /\ \A id \in Ids(Kept(r)) : ~Kept(r)[id].firing /\ Kept(r)[id].breach_since = 0
           /\ ~unsaved =>
                 \A id \in Ids(rules) :
                     ~rules[id].builtin /\ rules[id].metric # NoMetric =>
                        id \in Ids(Kept(r)) /\ Saved(Kept(r)[id]) = Saved(rules[id])
           /\ \A id \in Expected(r) \ Unguarded(r) : id \in Ids(Kept(r)) /\ Kept(r)[id].builtin
<1> DEFINE added == AddDefaults(load_rules, r)
<1>1. /\ Table(added) /\ \A id \in Ids(added) : ~added[id].firing /\ added[id].breach_since = 0
      /\ \A id \in Ids(load_rules) : id \in Ids(added) /\ added[id] = load_rules[id]
  BY LoadedRules, CompletedRules
<1>2. ASSUME NEW id \in Expected(r) \ Unguarded(r) PROVE id \in Ids(added) /\ added[id].builtin
  <2>1. Cardinality(Ids(load_rules) \cup Expected(r)) <= MAX_RULES
    <3>1. ~(Cardinality(Ids(load_rules) \cup Expected(r)) > MAX_RULES)
      BY <1>2 DEF Unguarded
    <3>2. Ids(load_rules) \cup Expected(r) \in SUBSET RuleIds
      BY LoadedRules DEF Table, Expected, RuleIds
    <3>3. Cardinality(Ids(load_rules) \cup Expected(r)) \in Nat
      BY <3>2, AlertsAssumption, FS_Subset, FS_CardinalityType
    <3> QED
      BY <3>1, <3>3, AlertsAssumption
  <2>2. id \in Ids(added) /\ (id \notin Ids(load_rules) => added[id].builtin = TRUE)
    BY <2>1, LoadedRules, DefaultsFit
  <2>3. id \in Ids(load_rules) => load_rules[id].builtin
    BY <1>2, <2>1 DEF Unguarded
  <2> QED
    BY <1>1, <2>2, <2>3
<1> HIDE DEF added
<1>3. Kept(r) = prune_stale_builtins(added, r)
  BY DEF Kept, added
<1>4. \A id \in Expected(r) \ Unguarded(r) : id \in Ids(Kept(r)) /\ Kept(r)[id].builtin
  BY <1>1, <1>2, <1>3, PrunedRules
<1> QED
  BY <1>1, <1>3, <1>4, LoadedRules, PrunedRules

\* alerts_apply, action=save: the rule that is edited, and the table with it.
Old(id) == add_rule(rules, id, BlankRule)[id]
Saving(id, e) == With(rules, id, Edited(Old(id), e))

LEMMA OldRule ==
    ASSUME Shape, NEW id \in RuleIds, id \in Ids(add_rule(rules, id, BlankRule))
    PROVE  Old(id) \in Rule /\ Old(id) = IF id \in Ids(rules) THEN rules[id] ELSE BlankRule
<1>1. CASE id \in Ids(rules)
  BY <1>1 DEF Old, add_rule, Shape, Table
<1>2. CASE id \notin Ids(rules)
  <2>1. add_rule(rules, id, BlankRule) = With(rules, id, BlankRule)
    BY <1>2 DEF add_rule
  <2> QED
    BY <1>2, <2>1, BlankType DEF Old, With, Ids
<1> QED
  BY <1>1, <1>2

LEMMA SavingTable ==
    ASSUME Shape, NEW id \in RuleIds, id \in Ids(add_rule(rules, id, BlankRule)), NEW e \in Edits
    PROVE  /\ Table(Saving(id, e)) /\ Ids(Saving(id, e)) = Ids(rules) \cup {id}
           /\ Saving(id, e)[id] = Edited(Old(id), e)
           /\ \A j \in Ids(rules) \ {id} : Saving(id, e)[j] = rules[j]
<1>1. Edited(Old(id), e) \in Rule
  BY OldRule, EditedKeeps
<1>2. /\ Ids(Saving(id, e)) = Ids(rules) \cup {id} /\ Function(Saving(id, e))
      /\ Saving(id, e)[id] = Edited(Old(id), e)
      /\ \A j \in Ids(rules) \ {id} : Saving(id, e)[j] = rules[j]
  BY DEF Saving, With, Ids, Function
<1> QED
  BY <1>1, <1>2 DEF Table, Shape

\* The four handlers, as what they do to the table.
LEMMA LaunchDoes ==
    ASSUME Shape, NEW r, Launch(r)
    PROVE  /\ reg' = r /\ unguarded' = Unguarded(r) /\ save_rules(Kept(r))
           /\ \E D \in MaySucceed(Ids(Kept(r))) :
                 /\ rules' = Declare(Kept(r), D)
                 /\ events' = [id \in RuleIds |-> IF id \in D THEN "inactive" ELSE "none"]
  BY DEF Launch, alerts_new, Kept, Unguarded

LEMMA SaveDoes ==
    ASSUME Shape, NEW id \in RuleIds, NEW e \in Edits, Save(id, e)
    PROVE  /\ id \in Ids(add_rule(rules, id, BlankRule))
           /\ save_rules(Saving(id, e))
           /\ \E D \in MaySucceed({id} \cap Undeclared(Saving(id, e))) :
                 /\ rules' = Declare(Saving(id, e), D)
                 /\ events' = [j \in RuleIds |-> IF j \in D THEN "inactive" ELSE events[j]]
  BY DEF Save, Saving, Old

LEMMA SaveAllSame ==
    ASSUME NEW t, NEW u, Ids(t) = Ids(u), \A id \in Ids(t) : Saved(t[id]) = Saved(u[id])
    PROVE  SaveAll(t) = SaveAll(u)
  BY DEF SaveAll

LEMMA SampleDoes ==
    ASSUME Shape, NEW values, NEW d \in ClockSteps, Sample(values, d)
    PROVE  /\ Table(rules') /\ Ids(rules') = Ids(rules) /\ clock' \in Int /\ uptime' \in Nat
           /\ \A id \in Ids(rules) :
                 /\ rules'[id].declared = rules[id].declared
                 /\ rules'[id].builtin = rules[id].builtin
                 /\ rules'[id].firing = FiresOf(rules[id], values, clock')
                 /\ rules'[id].breach_since = SinceOf(rules[id], values, clock')
           /\ SaveAll(rules') = SaveAll(rules)
<1>1. clock' = clock + d /\ uptime' = uptime + 1 /\ clock' \in Int /\ uptime' \in Nat
  BY AlertsAssumption DEF Sample, Shape
<1>2. rules' = [id \in Ids(rules) |-> Evaluated(rules[id], values, clock')]
  BY <1>1 DEF Sample, alerts_evaluate
<1>3. /\ Ids(rules') = Ids(rules) /\ Function(rules')
      /\ \A id \in Ids(rules) : rules'[id] = Evaluated(rules[id], values, clock')
  BY <1>2 DEF Ids, Function
<1>4. \A id \in Ids(rules) :
         /\ rules[id] \in Rule
         /\ SinceOf(rules[id], values, clock') \in Int /\ FiresOf(rules[id], values, clock') \in BOOLEAN
         /\ rules'[id] = Timed(rules[id], SinceOf(rules[id], values, clock'), FiresOf(rules[id], values, clock'))
  BY <1>1, <1>3, EvaluatedIsTimed DEF Shape, Table
<1>5. \A id \in Ids(rules) :
         /\ rules'[id] \in Rule /\ Saved(rules'[id]) = Saved(rules[id])
         /\ rules'[id].declared = rules[id].declared
         /\ rules'[id].builtin = rules[id].builtin
         /\ rules'[id].firing = FiresOf(rules[id], values, clock')
         /\ rules'[id].breach_since = SinceOf(rules[id], values, clock')
  BY <1>4, TimedFields
<1> QED
  BY <1>1, <1>3, <1>5, SaveAllSame DEF Table, Shape

-----------------------------------------------------------------------------
(***************************************************************************)
(* Events and retained messages mirror the rules, and the file mirrors the *)
(* table.  EventMirrorsRule needs to know that the event system was not    *)
(* told of a rule that fires while its event is undeclared.                *)
(***************************************************************************)
Untold == \A id \in Ids(rules) : rules[id].firing /\ ~rules[id].declared => id \in unsent

Mirrors == Shape /\ Untold /\ EventMirrorsRule /\ BrokerMirrorsUnlessMissed

LEMMA InitMirrors == AlertsInit => Mirrors
<1> SUFFICES ASSUME AlertsInit PROVE Mirrors
  OBVIOUS
<1>1. Ids(rules) = {} /\ Function(rules) /\ file = rules
  BY DEF AlertsInit, Ids, Function
<1>2. file = SaveAll(rules) /\ SavedTable(file)
  BY <1>1 DEF AlertsInit, SaveAll, SavedTable, Ids
<1>3. Expected(reg) = {}
  BY DEF AlertsInit, Expected
<1>4. Messages /\ clock \in Int /\ uptime \in Nat
  BY DEF AlertsInit, Messages, Function, Ids
<1>5. Shape
  BY <1>1, <1>2, <1>3, <1>4 DEF Shape, Table
<1> QED
  BY <1>1, <1>5 DEF AlertsInit, Mirrors, Untold, EventMirrorsRule, BrokerMirrorsUnlessMissed, Firing

LEMMA Some == ASSUME NEW S, NEW D \in MaySucceed(S) PROVE D \subseteq S
  BY DEF MaySucceed

LEMMA LaunchMirrors == ASSUME Mirrors, NEW r \in Registries, Launch(r) PROVE Mirrors'
<1> USE DEF Mirrors
<1>1. PICK D \in MaySucceed(Ids(Kept(r))) :
         /\ rules' = Declare(Kept(r), D)
         /\ events' = [id \in RuleIds |-> IF id \in D THEN "inactive" ELSE "none"]
  BY LaunchDoes
<1>2. reg' = r /\ unguarded' = Unguarded(r) /\ save_rules(Kept(r))
  BY LaunchDoes
<1>3. /\ Table(Kept(r)) /\ \A id \in Ids(Kept(r)) : ~Kept(r)[id].firing
      /\ \A id \in Expected(r) \ Unguarded(r) : id \in Ids(Kept(r)) /\ Kept(r)[id].builtin
  BY KeptRules
<1>4. /\ Table(rules') /\ Ids(rules') = Ids(Kept(r))
      /\ \A id \in Ids(rules') :
            /\ ~rules'[id].firing
            /\ Saved(rules'[id]) = Saved(Kept(r)[id])
            /\ rules'[id].builtin = Kept(r)[id].builtin
  BY <1>1, <1>3, DeclareKeeps
<1>5. SavedTable(file') /\ (~unsaved' => file' = SaveAll(rules'))
  <2>1. SavedTable(file') /\ (~unsaved' => file' = SaveAll(Kept(r)))
    BY <1>2, <1>3, SavesTable DEF Shape
  <2>2. SaveAll(Kept(r)) = SaveAll(rules')
    BY <1>4, SaveAllSame
  <2> QED
    BY <2>1, <2>2
<1>6. Messages' /\ clock' \in Int /\ uptime' \in Nat
  BY <1>1 DEF Launch, Shape, Messages, Function, Ids
<1>7. \A id \in Expected(reg') \ unguarded' : id \in Ids(rules') /\ rules'[id].builtin
  BY <1>2, <1>3, <1>4
<1>8. Shape'
  BY <1>4, <1>5, <1>6, <1>7 DEF Shape, Expected
<1>9. Untold' /\ EventMirrorsRule'
  <2>1. Untold'
    BY <1>4 DEF Untold
  <2>2. \A id \in Ids(rules') : events'[id] # "active"
    BY <1>1, <1>4 DEF Table
  <2> QED
    BY <1>4, <2>1, <2>2 DEF EventMirrorsRule
<1>10. BrokerMirrorsUnlessMissed'
  <2>1. /\ missed' = missed \cup {id \in RuleIds : Firing(id)}
        /\ retained' = retained
    BY DEF Launch
  <2>2. \A id \in RuleIds : ~Firing(id)'
    BY <1>4 DEF Firing
  <2>3. \A id \in RuleIds \ missed' : retained[id] # "firing"
    BY <2>1 DEF BrokerMirrorsUnlessMissed
  <2> QED
    BY <2>1, <2>2, <2>3 DEF BrokerMirrorsUnlessMissed
<1> QED
  BY <1>8, <1>9, <1>10

LEMMA SaveMirrors == ASSUME Mirrors, NEW id \in RuleIds, NEW e \in Edits, Save(id, e) PROVE Mirrors'
<1> USE DEF Mirrors
<1> DEFINE table == Saving(id, e)
<1>1. id \in Ids(add_rule(rules, id, BlankRule)) /\ save_rules(table)
  BY SaveDoes
<1>2. PICK D \in MaySucceed({id} \cap Undeclared(table)) :
         /\ rules' = Declare(table, D)
         /\ events' = [j \in RuleIds |-> IF j \in D THEN "inactive" ELSE events[j]]
  BY SaveDoes
<1>3. D \subseteq {id} \cap Undeclared(table)
  BY <1>2, Some
<1>4. /\ Table(table) /\ Ids(table) = Ids(rules) \cup {id}
      /\ table[id] = Edited(Old(id), e)
      /\ \A j \in Ids(rules) \ {id} : table[j] = rules[j]
  BY <1>1, SavingTable
<1>5. Old(id) \in Rule /\ Old(id) = IF id \in Ids(rules) THEN rules[id] ELSE BlankRule
  BY <1>1, OldRule
<1>6. /\ table[id].declared = Old(id).declared /\ table[id].builtin = Old(id).builtin
      /\ table[id].firing = Old(id).firing
  BY <1>4, <1>5, EditedKeeps
<1> HIDE DEF table
<1>7. /\ Table(rules') /\ Ids(rules') = Ids(table)
      /\ \A j \in Ids(table) :
            /\ Saved(rules'[j]) = Saved(table[j])
            /\ rules'[j].builtin = table[j].builtin
            /\ rules'[j].firing = table[j].firing
            /\ rules'[j].declared = (table[j].declared \/ j \in D)
  BY <1>2, <1>4, DeclareKeeps
<1>8. \A j \in Ids(rules) :
         rules'[j].builtin = rules[j].builtin /\ rules'[j].firing = rules[j].firing
  BY <1>4, <1>5, <1>6, <1>7
<1>9. \A j \in Ids(rules') \ Ids(rules) : j = id /\ rules'[j].firing = FALSE
  BY <1>4, <1>5, <1>6, <1>7, BlankType
<1>10. Shape'
  <2>1. SavedTable(file') /\ (~unsaved' => file' = SaveAll(rules'))
    <3>1. SavedTable(file') /\ (~unsaved' => file' = SaveAll(table))
      BY <1>1, <1>4, SavesTable DEF Shape
    <3>2. SaveAll(table) = SaveAll(rules')
      BY <1>7, SaveAllSame
    <3> QED
      BY <3>1, <3>2
  <2>2. Messages' /\ clock' \in Int /\ uptime' \in Nat /\ reg' = reg /\ unguarded' = unguarded
    BY <1>2 DEF Save, Shape, Messages, Function, Ids
  <2>3. \A j \in Expected(reg) \ unguarded : j \in Ids(rules') /\ rules'[j].builtin
    BY <1>4, <1>7, <1>8 DEF Shape
  <2> QED
    BY <1>7, <2>1, <2>2, <2>3 DEF Shape
<1>11. \A j \in D : j = id /\ events'[j] = "inactive" /\ ~table[j].declared
  BY <1>2, <1>3 DEF Undeclared
<1>12. \A j \in RuleIds \ D : events'[j] = events[j]
  BY <1>2
<1>13. \A j \in Ids(rules') :
          rules'[j].declared <=> j \in D \/ (j \in Ids(rules) /\ rules[j].declared)
  <2>1. \A j \in Ids(rules) : table[j].declared = rules[j].declared
    BY <1>4, <1>5, <1>6
  <2>2. \A j \in Ids(rules') \ Ids(rules) : table[j].declared = FALSE
    <3>1. BlankRule.declared = FALSE
      BY DEF BlankRule, Fresh
    <3> QED
      BY <1>4, <1>5, <1>6, <1>9, <3>1
  <2> QED
    BY <1>7, <2>1, <2>2, Zenon
<1>14. unsent' = unsent
  BY DEF Save
<1>15. Untold'
  BY <1>8, <1>9, <1>13, <1>14 DEF Untold
<1>16. EventMirrorsRule'
  <2> SUFFICES ASSUME NEW j \in Ids(rules') \ unsent, rules'[j].declared
               PROVE  events'[j] = "active" <=> rules'[j].firing
    BY <1>14 DEF EventMirrorsRule
  <2>1. j \in RuleIds
    BY <1>7 DEF Table
  <2>2. CASE j \in D /\ j \in Ids(rules)
    <3>1. ~rules[j].declared
      BY <1>4, <1>5, <1>6, <1>11, <2>2
    <3> QED
      BY <1>8, <1>11, <2>2, <3>1 DEF Untold
  <2>3. CASE j \in D /\ j \notin Ids(rules)
    BY <1>9, <1>11, <2>3
  <2>4. CASE j \notin D
    BY <1>8, <1>12, <1>13, <2>1, <2>4 DEF EventMirrorsRule
  <2> QED
    BY <2>2, <2>3, <2>4
<1>17. BrokerMirrorsUnlessMissed'
  <2>1. retained' = retained /\ missed' = missed
    BY DEF Save
  <2>2. \A j \in RuleIds : Firing(j)' <=> Firing(j)
    BY <1>4, <1>7, <1>8, <1>9 DEF Firing
  <2> QED
    BY <2>1, <2>2 DEF BrokerMirrorsUnlessMissed
<1> QED
  BY <1>10, <1>15, <1>16, <1>17

LEMMA DeleteMirrors == ASSUME Mirrors, NEW id \in RuleIds, Delete(id) PROVE Mirrors'
<1> USE DEF Mirrors
<1>1. /\ ~rules[id].builtin /\ rules' = Keeping(rules, RuleIds \ {id}) /\ save_rules(rules')
      /\ UNCHANGED <<reg, events, retained, clock, uptime, unguarded>>
      /\ missed' = IF Firing(id) THEN missed \cup {id} ELSE missed
      /\ unsent' = unsent \ {id}
  BY DEF Delete
<1>2. /\ Ids(rules') = Ids(rules) \ {id} /\ Table(rules')
      /\ \A j \in Ids(rules') : rules'[j] = rules[j]
  BY <1>1 DEF Keeping, Shape, Table, Function, Ids
<1>3. Shape'
  <2>1. SavedTable(file') /\ (~unsaved' => file' = SaveAll(rules'))
    BY <1>1, <1>2, SavesTable DEF Shape
  <2> QED
    BY <1>1, <1>2, <2>1 DEF Shape, Messages
<1>4. Untold' /\ EventMirrorsRule'
  BY <1>1, <1>2 DEF Untold, EventMirrorsRule
<1>5. \A j \in RuleIds : IF j = id THEN ~Firing(j)' ELSE Firing(j)' <=> Firing(j)
  BY <1>2 DEF Firing
<1>6. BrokerMirrorsUnlessMissed'
  BY <1>1, <1>5 DEF BrokerMirrorsUnlessMissed
<1> QED
  BY <1>3, <1>4, <1>6

LEMMA SampleMirrors ==
    ASSUME Mirrors, NEW values, NEW d \in ClockSteps, Sample(values, d) PROVE Mirrors'
<1> USE DEF Mirrors
<1> DEFINE changed == {id \in Ids(rules) : rules'[id].firing # rules[id].firing}
           announced == {id \in changed : rules[id].declared}
<1>1. /\ Table(rules') /\ Ids(rules') = Ids(rules) /\ clock' \in Int /\ uptime' \in Nat
      /\ \A id \in Ids(rules) :
            /\ rules'[id].declared = rules[id].declared
            /\ rules'[id].builtin = rules[id].builtin
      /\ SaveAll(rules') = SaveAll(rules)
  BY SampleDoes
<1>2. PICK sent \in MaySucceed(announced) : events' = send_state(sent) /\ unsent' = (unsent \cup changed) \ sent
  BY DEF Sample, alerts_evaluate
<1>3. /\ retained' = mqtt_publish_alert(changed)
      /\ missed' = IF link = "up" THEN missed \ changed ELSE missed \cup changed
      /\ UNCHANGED <<reg, file, unsaved, unguarded>>
  BY DEF Sample, alerts_evaluate
<1>4. /\ \A id \in Ids(rules) : id \in changed <=> rules'[id].firing # rules[id].firing
      /\ changed \subseteq Ids(rules)
      /\ sent \subseteq changed /\ \A id \in sent : rules[id].declared
  BY <1>2, Some
<1> HIDE DEF changed, announced
<1>5. Ids(rules) \subseteq RuleIds
  BY DEF Shape, Table
<1>6. Shape'
  <2>1. Messages'
    BY <1>2, <1>3 DEF Shape, Messages, send_state, mqtt_publish_alert, Function, Ids
  <2> QED
    BY <1>1, <1>3, <2>1 DEF Shape
<1>7. Untold'
  BY <1>1, <1>2, <1>4 DEF Untold
<1>8. \A id \in Ids(rules) :
         events'[id] = IF id \in sent THEN IF rules'[id].firing THEN "active" ELSE "inactive"
                       ELSE events[id]
  BY <1>2, <1>5 DEF send_state
<1>9. EventMirrorsRule'
  BY <1>1, <1>2, <1>4, <1>8 DEF EventMirrorsRule
<1>10. \A id \in RuleIds :
          retained'[id] = IF id \in changed /\ link = "up"
                          THEN IF rules'[id].firing THEN "firing" ELSE "cleared"
                          ELSE retained[id]
  BY <1>3 DEF mqtt_publish_alert
<1>11. BrokerMirrorsUnlessMissed'
  <2> SUFFICES ASSUME NEW id \in RuleIds \ missed' PROVE retained'[id] = "firing" <=> Firing(id)'
    BY DEF BrokerMirrorsUnlessMissed
  <2>1. CASE id \in changed
    BY <1>1, <1>3, <1>4, <1>10, <2>1 DEF Firing
  <2>2. CASE id \notin changed
    <3>1. id \notin missed
      BY <1>3, <2>2
    <3>2. Firing(id)' <=> Firing(id)
      BY <1>1, <1>4, <2>2 DEF Firing
    <3> QED
      BY <1>10, <2>2, <3>1, <3>2 DEF BrokerMirrorsUnlessMissed
  <2> QED
    BY <2>1, <2>2
<1> QED
  BY <1>6, <1>7, <1>9, <1>11

LEMMA MirrorsStep == ASSUME Mirrors, [AlertsNext]_alertsVars PROVE Mirrors'
<1>1. CASE LinkChange \/ UNCHANGED alertsVars
  BY <1>1 DEF LinkChange, alertsVars, Mirrors, Shape, Messages, Untold, EventMirrorsRule,
              BrokerMirrorsUnlessMissed, Firing
<1>2. CASE TopicChange
  <2>1. /\ retained' \in [RuleIds -> {"none", "firing", "cleared"}] /\ missed' = RuleIds
        /\ UNCHANGED <<reg, rules, file, events, clock, uptime, unsent, unsaved, unguarded>>
    BY <1>2, AlertsAssumption DEF TopicChange
  <2>2. Messages'
    BY <2>1 DEF Mirrors, Shape, Messages, Function, Ids
  <2>3. Shape' /\ Untold' /\ EventMirrorsRule'
    BY <2>1, <2>2 DEF Mirrors, Shape, Untold, EventMirrorsRule
  <2> QED
    BY <2>1, <2>3 DEF Mirrors, BrokerMirrorsUnlessMissed
<1> QED
  BY <1>1, <1>2, LaunchMirrors, SaveMirrors, DeleteMirrors, SampleMirrors DEF AlertsNext

LEMMA MirrorsHold == AlertsSpec => []Mirrors
  BY InitMirrors, MirrorsStep, PTL DEF AlertsSpec

(***************************************************************************)
(* For any rules, edits, restarts and failures of the event system: the    *)
(* event of a declared rule is active exactly while it fires, unless its   *)
(* last change was while it was undeclared or could not be sent            *)
(* (declare_rule, send_state).                                             *)
(***************************************************************************)
THEOREM EventsMirrorRules == AlertsSpec => []EventMirrorsRule
<1>1. Mirrors => EventMirrorsRule
  BY DEF Mirrors
<1> QED
  BY <1>1, MirrorsHold, PTL

(***************************************************************************)
(* For any rules, sessions that break unnoticed, brokers and topics: the   *)
(* retained message is the rule's state unless the last change was missed  *)
(* (on_alert_changed, mqtt_publish_alert, mqtt_apply).                     *)
(***************************************************************************)
THEOREM MessagesMirrorRules == AlertsSpec => []BrokerMirrorsUnlessMissed
<1>1. Mirrors => BrokerMirrorsUnlessMissed
  BY DEF Mirrors
<1> QED
  BY <1>1, MirrorsHold, PTL

(***************************************************************************)
(* For any defaults, table size and devices, and though saves may fail:    *)
(* every default rule the device calls for is in the table, if the table   *)
(* had room for all and no rule of a user has its id (alerts_new,          *)
(* alerts_apply).                                                          *)
(***************************************************************************)
THEOREM DefaultsAreCovered == AlertsSpec => []DefaultCover
<1>1. Mirrors => DefaultCover
  BY DEF Mirrors, Shape, DefaultCover
<1> QED
  BY <1>1, MirrorsHold, PTL

(***************************************************************************)
(* For any devices and table size: a restart leaves the rules of the user  *)
(* as they were, if the last save succeeded (save_rules, load_rules,       *)
(* prune_stale_builtins).                                                  *)
(***************************************************************************)
THEOREM UserRulesAreKept == AlertsSpec => UserRulesSurvive
<1> DEFINE Survive == launches' # launches /\ launches > 0 /\ ~unsaved =>
                         \A id \in Ids(rules) :
                             ~rules[id].builtin /\ rules[id].metric # NoMetric =>
                                 id \in Ids(rules)' /\ Saved(rules[id]) = Saved(rules[id])'
<1>1. ASSUME Mirrors, [AlertsNext]_alertsVars PROVE Survive
  <2>1. ASSUME NEW r \in Registries, Launch(r) PROVE Survive
    <3>1. PICK D \in MaySucceed(Ids(Kept(r))) : rules' = Declare(Kept(r), D)
      BY <1>1, <2>1, LaunchDoes DEF Mirrors
    <3>2. /\ Table(Kept(r))
          /\ ~unsaved =>
                \A id \in Ids(rules) :
                    ~rules[id].builtin /\ rules[id].metric # NoMetric =>
                       id \in Ids(Kept(r)) /\ Saved(Kept(r)[id]) = Saved(rules[id])
      BY <1>1, KeptRules DEF Mirrors
    <3>3. Ids(rules') = Ids(Kept(r)) /\ \A id \in Ids(rules') : Saved(rules'[id]) = Saved(Kept(r)[id])
      BY <3>1, <3>2, DeclareKeeps
    <3> QED
      BY <3>2, <3>3
  <2>2. CASE UNCHANGED launches
    BY <2>2
  <2> QED
    BY <1>1, <2>1, <2>2 DEF AlertsNext, Sample, Save, Delete, LinkChange, TopicChange, alertsVars
<1> QED
  BY <1>1, MirrorsHold, PTL DEF AlertsSpec, UserRulesSurvive

-----------------------------------------------------------------------------
(***************************************************************************)
(* Alarms are exact.  The code times a breach on the wall clock and the    *)
(* property counts samples, so the two agree as long as the clock moves as *)
(* time passes and no edit gives another condition to a rule that is       *)
(* timing a breach.  The invariant ties breach_since to when the condition *)
(* was first seen to hold.                                                 *)
(***************************************************************************)
SteadyClock == clock' - clock = uptime' - uptime

SameCondition ==
    \A id \in Ids(rules) \cap Ids(rules') :
        rules[id].breach_since # 0 /\ rules'[id].breach_since # 0 =>
            <<rules'[id].metric, rules'[id].op>> = <<rules[id].metric, rules[id].op>>

Timing ==
    /\ clock = uptime + 1
    /\ Function(held) /\ Ids(held) = RuleIds
    /\ \A id \in RuleIds : held[id] \in 0 .. uptime
    /\ \A id \in RuleIds \ Ids(rules) : held[id] = 0
    /\ \A id \in Ids(rules) : rules[id].breach_since = IF held[id] = 0 THEN 0 ELSE held[id] + 1

Exact == Shape /\ Timing /\ AlarmIsExact

LEMMA InitExact == AlertsInit => Exact
<1> SUFFICES ASSUME AlertsInit PROVE Exact
  OBVIOUS
<1>1. Ids(rules) = {} /\ Shape
  BY InitMirrors DEF AlertsInit, Ids, Mirrors
<1>2. Timing
  BY <1>1 DEF AlertsInit, Timing, Function, Ids
<1> QED
  BY <1>1, <1>2 DEF AlertsInit, Exact, AlarmIsExact

LEMMA LaunchExact == ASSUME Exact, NEW r \in Registries, Launch(r) PROVE Timing' /\ AlarmIsExact'
<1>1. PICK D \in MaySucceed(Ids(Kept(r))) : rules' = Declare(Kept(r), D)
  BY LaunchDoes DEF Exact
<1>2. /\ Table(Kept(r))
      /\ \A id \in Ids(Kept(r)) : ~Kept(r)[id].firing /\ Kept(r)[id].breach_since = 0
  BY KeptRules DEF Exact
<1>3. /\ Table(rules')
      /\ \A id \in Ids(rules') : ~rules'[id].firing /\ rules'[id].breach_since = 0
  <2>1. /\ Table(rules') /\ Ids(rules') = Ids(Kept(r))
        /\ \A id \in Ids(Kept(r)) : /\ rules'[id].firing = Kept(r)[id].firing
                                    /\ rules'[id].breach_since = Kept(r)[id].breach_since
    BY <1>1, <1>2, DeclareKeeps
  <2> QED
    BY <1>2, <2>1
<1>4. held' = [id \in RuleIds |-> 0] /\ raised' = {} /\ UNCHANGED <<clock, uptime>>
  BY DEF Launch
<1> QED
  BY <1>3, <1>4 DEF Exact, Shape, Timing, AlarmIsExact, Table, Function, Ids

LEMMA SaveExact ==
    ASSUME Exact, NEW id \in RuleIds, NEW e \in Edits, Save(id, e), SameCondition
    PROVE  Timing' /\ AlarmIsExact'
<1> USE DEF Exact
<1> DEFINE table == Saving(id, e)
<1>1. id \in Ids(add_rule(rules, id, BlankRule))
  BY SaveDoes
<1>2. PICK D : rules' = Declare(table, D)
  BY SaveDoes
<1>3. /\ Table(table) /\ Ids(table) = Ids(rules) \cup {id}
      /\ table[id] = Edited(Old(id), e)
      /\ \A j \in Ids(rules) \ {id} : table[j] = rules[j]
  BY <1>1, SavingTable
<1>4. Old(id) \in Rule /\ Old(id) = IF id \in Ids(rules) THEN rules[id] ELSE BlankRule
  BY <1>1, OldRule
<1>5. table[id].firing = Old(id).firing /\ table[id].breach_since = Old(id).breach_since
  BY <1>3, <1>4, EditedKeeps
<1> HIDE DEF table
<1>6. /\ Table(rules') /\ Ids(rules') = Ids(rules) \cup {id}
      /\ \A j \in Ids(rules') :
            /\ Saved(rules'[j]) = Saved(table[j])
            /\ rules'[j].firing = table[j].firing
            /\ rules'[j].breach_since = table[j].breach_since
  BY <1>2, <1>3, DeclareKeeps
<1>7. \A j \in Ids(rules) :
         rules'[j].firing = rules[j].firing /\ rules'[j].breach_since = rules[j].breach_since
  BY <1>3, <1>4, <1>5, <1>6
<1>8. \A j \in Ids(rules') \ Ids(rules) : rules'[j].firing = FALSE /\ rules'[j].breach_since = 0
  BY <1>3, <1>4, <1>5, <1>6, BlankType
<1>9. AlarmIsExact'
  <2>1. raised' = raised
    BY DEF Save
  <2> QED
    BY <1>6, <1>7, <1>8, <2>1 DEF AlarmIsExact
<1>10. held' = held
  <2>1. held' = IF <<table[id].metric, table[id].op>> = <<Old(id).metric, Old(id).op>>
                THEN held ELSE [held EXCEPT ![id] = 0]
    BY <1>3 DEF Save, Old
  <2>2. CASE <<table[id].metric, table[id].op>> = <<Old(id).metric, Old(id).op>>
    BY <2>1, <2>2
  <2>3. CASE <<table[id].metric, table[id].op>> # <<Old(id).metric, Old(id).op>>
    <3>1. <<rules'[id].metric, rules'[id].op>> = <<table[id].metric, table[id].op>>
      BY <1>3, <1>6 DEF Saved
    <3>2. id \in Ids(rules) => rules[id].breach_since = 0
      BY <1>4, <1>6, <1>7, <2>3, <3>1 DEF SameCondition
    <3>3. held[id] = 0
      BY <3>2 DEF Timing
    <3> QED
      BY <2>1, <2>3, <3>3 DEF Timing, Function, Ids
  <2> QED
    BY <2>2, <2>3
<1>11. Timing'
  <2>1. UNCHANGED <<clock, uptime>>
    BY DEF Save
  <2>2. \A j \in Ids(rules') : rules'[j].breach_since = IF held[j] = 0 THEN 0 ELSE held[j] + 1
    BY <1>6, <1>7, <1>8 DEF Timing, Table
  <2> QED
    BY <1>6, <1>10, <2>1, <2>2 DEF Timing
<1> QED
  BY <1>9, <1>11

LEMMA DeleteExact == ASSUME Exact, NEW id \in RuleIds, Delete(id) PROVE Timing' /\ AlarmIsExact'
<1> USE DEF Exact
<1>1. /\ rules' = Keeping(rules, RuleIds \ {id}) /\ held' = [held EXCEPT ![id] = 0]
      /\ raised' = raised \ {id} /\ UNCHANGED <<clock, uptime>>
  BY DEF Delete
<1>2. /\ Ids(rules') = Ids(rules) \ {id} /\ \A j \in Ids(rules') : rules'[j] = rules[j]
  BY <1>1 DEF Keeping, Shape, Table, Ids
<1>3. \A j \in RuleIds : held'[j] = IF j = id THEN 0 ELSE held[j]
  BY <1>1 DEF Timing, Ids
<1>4. Function(held') /\ Ids(held') = RuleIds
  BY <1>1 DEF Timing, Function, Ids
<1>5. Timing'
  <2>1. uptime \in Nat /\ \A j \in RuleIds : held'[j] \in 0 .. uptime
    BY <1>3 DEF Shape, Timing
  <2>2. \A j \in RuleIds \ Ids(rules') : held'[j] = 0
    BY <1>2, <1>3 DEF Timing
  <2>3. \A j \in Ids(rules') : rules'[j].breach_since = IF held'[j] = 0 THEN 0 ELSE held'[j] + 1
    BY <1>2, <1>3 DEF Timing, Shape, Table
  <2> QED
    BY <1>1, <1>4, <2>1, <2>2, <2>3 DEF Timing
<1> QED
  BY <1>1, <1>2, <1>5 DEF AlarmIsExact

LEMMA SampleExact ==
    ASSUME Exact, NEW values, NEW d \in ClockSteps, Sample(values, d), SteadyClock
    PROVE  Timing' /\ AlarmIsExact'
<1> USE DEF Exact
<1> DEFINE seen(id) == Readable(rules[id], values) /\ Breached(rules[id], values)
           within(id) == Readable(rules[id], values) /\ ~Breached(rules[id], values)
<1>1. /\ Ids(rules') = Ids(rules) /\ Ids(rules) \subseteq RuleIds
      /\ clock' \in Int /\ uptime' \in Nat /\ uptime \in Nat
      /\ \A id \in Ids(rules) :
            /\ rules'[id].firing = FiresOf(rules[id], values, clock')
            /\ rules'[id].breach_since = SinceOf(rules[id], values, clock')
  BY SampleDoes DEF Shape, Table
<1>2. uptime' = uptime + 1 /\ clock' = uptime' + 1
  BY <1>1 DEF Sample, SteadyClock, Timing, Shape
<1>3. /\ Function(held') /\ Ids(held') = RuleIds
      /\ \A id \in RuleIds :
            held'[id] = IF id \in Ids(rules) /\ seen(id)
                        THEN IF held[id] = 0 THEN uptime' ELSE held[id] ELSE 0
  BY DEF Sample, Function, Ids
<1>4. \A id \in Ids(rules) :
         /\ rules[id].breach_since = IF held[id] = 0 THEN 0 ELSE held[id] + 1
         /\ held[id] \in 0 .. uptime
         /\ rules[id].firing \in BOOLEAN /\ rules[id].duration_s \in Nat
  BY <1>1 DEF Timing, Shape, Table, Rule
<1>5. \A id \in Ids(rules) :
         SinceOf(rules[id], values, clock') = IF held'[id] = 0 THEN 0 ELSE held'[id] + 1
  BY <1>1, <1>2, <1>3, <1>4 DEF SinceOf
<1>6. Timing'
  <2>1. \A id \in RuleIds : held'[id] \in 0 .. uptime'
    BY <1>1, <1>2, <1>3, <1>4
  <2> QED
    BY <1>1, <1>2, <1>3, <1>5, <2>1 DEF Timing
<1>7. \A id \in Ids(rules) :
         FiresOf(rules[id], values, clock') <=>
            IF within(id) THEN FALSE
            ELSE rules[id].firing \/ (held'[id] > 0 /\ uptime' - held'[id] >= rules[id].duration_s)
  <2> SUFFICES ASSUME NEW id \in Ids(rules)
               PROVE  FiresOf(rules[id], values, clock') <=>
                         IF within(id) THEN FALSE
                         ELSE \/ rules[id].firing
                              \/ held'[id] > 0 /\ uptime' - held'[id] >= rules[id].duration_s
    OBVIOUS
  <2>1. held'[id] \in Nat /\ (held'[id] > 0 <=> seen(id))
    BY <1>1, <1>2, <1>3, <1>4
  <2>2. CASE seen(id)
    <3>1. clock' - SinceOf(rules[id], values, clock') = uptime' - held'[id]
      BY <1>1, <1>2, <1>5, <2>1, <2>2
    <3> QED
      BY <2>1, <2>2, <3>1 DEF FiresOf
  <2>3. CASE ~seen(id)
    BY <2>1, <2>3 DEF FiresOf
  <2> QED
    BY <2>2, <2>3
<1>8. raised' = {id \in Ids(rules) :
                   IF within(id) THEN FALSE
                   ELSE id \in raised \/ (held'[id] > 0 /\ uptime' - held'[id] >= rules[id].duration_s)}
  BY DEF Sample
<1>9. AlarmIsExact'
  <2>1. \A id \in Ids(rules) : id \in raised <=> rules[id].firing
    BY DEF AlarmIsExact
  <2>2. \A id \in Ids(rules) : rules'[id].firing <=> id \in raised'
    BY <1>1, <1>7, <1>8, <2>1
  <2>3. raised' \subseteq Ids(rules)
    BY <1>8
  <2> QED
    BY <1>1, <2>2, <2>3 DEF AlarmIsExact
<1> QED
  BY <1>6, <1>9

(***************************************************************************)
(* For any rules, readings, retunings, deletions and restarts: if the wall *)
(* clock is steady and no edit replaces the condition of a rule that is    *)
(* timing, a rule fires exactly when it should (alerts_evaluate).          *)
(***************************************************************************)
THEOREM AlarmsAreExact ==
    AlertsSpec /\ [][SteadyClock /\ SameCondition]_alertsVars => []AlarmIsExact
<1>1. ASSUME Mirrors, Mirrors', Exact, [AlertsNext]_alertsVars, [SteadyClock /\ SameCondition]_alertsVars
      PROVE  Exact'
  <2>1. CASE LinkChange \/ TopicChange \/ UNCHANGED alertsVars
    BY <1>1, <2>1 DEF LinkChange, TopicChange, alertsVars, Mirrors, Exact, Timing, AlarmIsExact
  <2>2. CASE ~UNCHANGED alertsVars
    BY <1>1, <2>1, <2>2, LaunchExact, SaveExact, DeleteExact, SampleExact DEF AlertsNext, Mirrors, Exact
  <2> QED
    BY <2>1, <2>2
<1>2. Exact => AlarmIsExact
  BY DEF Exact
<1> QED
  BY <1>1, <1>2, InitExact, MirrorsHold, PTL DEF AlertsSpec

-----------------------------------------------------------------------------
(***************************************************************************)
(* The MQTT publisher.  Main and the callback thread share everything, so  *)
(* each fact says at which of their steps it holds; main is elsewhere than *)
(* in its loop only while a handler runs.                                  *)
(***************************************************************************)
MainPc == {"stopped", "killed", "idle", "disconnect", "clean", "destroy", "connect"}
CbPc == {"idle", "connected", "online", "discover", "publish", "reset"}
Client == [host : Hosts, prefix : Prefixes, up : BOOLEAN, tries : BOOLEAN]

LinkTypes ==
    /\ main \in [pc : MainPc, then : {"idle", "connect", "stopped"}]
    /\ cb \in [pc : CbPc, wanted : SUBSET Metrics, withdraw : BOOLEAN]
    /\ config \in Configs /\ reg \subseteq Metrics /\ transmit \subseteq Metrics
    /\ client \subseteq Client /\ \A c, d \in client : c = d

\* A handler that will connect has a host to connect to, and no client is left
\* when it does, nor when the program is not running.
Connecting ==
    /\ "connect" \in {main.pc, main.then} => config.host # NoHost
    /\ main.pc \in {"connect", "stopped", "killed"} => client = {}

\* A session that is up is known to main once on_connected has begun, and
\* on_connection_lost is not due for it, ...
Known ==
    /\ Up /\ cb.pc # "connected" => connected
    /\ lost => ~Up

\* ... and as long as nothing has raced, no callback runs while a handler does,
\* so a client that main destroys without a DISCONNECT is not connected.
Apart ==
    ~raced => /\ main.pc # "idle" => cb.pc = "idle"
              /\ main.pc = "destroy" => ~Up

Session == LinkTypes /\ Connecting /\ Known /\ Apart

\* The client once its session has come up (u is TRUE) or gone down.
LEMMA ClientTurns ==
    ASSUME LinkTypes, NEW u \in BOOLEAN, client' = {[c EXCEPT !.up = u] : c \in client}
    PROVE  /\ client' \subseteq Client /\ \A c, d \in client' : c = d
           /\ \A c \in client' : /\ c.up = u
                                 /\ \E d \in client : d.host = c.host /\ d.prefix = c.prefix
           /\ \A d \in client : \E c \in client' : c.up = u /\ d.host = c.host /\ d.prefix = c.prefix
<1>1. \A c \in client : /\ [c EXCEPT !.up = u] \in Client /\ [c EXCEPT !.up = u].up = u
                        /\ [c EXCEPT !.up = u].host = c.host /\ [c EXCEPT !.up = u].prefix = c.prefix
  BY DEF LinkTypes, Client
<1>2. \A c \in client' : \E d \in client : c = [d EXCEPT !.up = u]
  OBVIOUS
<1>3. \A d \in client : [d EXCEPT !.up = u] \in client'
  OBVIOUS
<1>4. client' \subseteq Client
  BY <1>1, <1>2
<1>5. \A c, d \in client' : c = d
  BY <1>2 DEF LinkTypes
<1>6. \A c \in client' : c.up = u /\ \E d \in client : d.host = c.host /\ d.prefix = c.prefix
  <2> SUFFICES ASSUME NEW c \in client'
               PROVE  c.up = u /\ \E d \in client : d.host = c.host /\ d.prefix = c.prefix
    OBVIOUS
  <2>1. PICK d \in client : c = [d EXCEPT !.up = u]
    BY <1>2
  <2>2. c.up = u /\ d.host = c.host /\ d.prefix = c.prefix
    BY <1>1, <2>1
  <2> QED
    BY <2>2
<1>7. \A d \in client : \E c \in client' : c.up = u /\ d.host = c.host /\ d.prefix = c.prefix
  BY <1>1, <1>3
<1> QED
  BY <1>4, <1>5, <1>6, <1>7

\* mqtt_apply: the connection is closed, replaced or kept.
LEMMA ApplyDoes ==
    ASSUME LinkTypes, NEW c \in Configs, mqtt_apply(c)
    PROVE  /\ main' \in [pc : MainPc, then : {"idle", "connect", "stopped"}]
           /\ main.pc = "idle" /\ config' = c /\ raced' = Overlap
           /\ UNCHANGED <<client, connected, due, cb, lost, reg, transmit, status, told>>
           /\ \/ /\ main'.pc = "disconnect" /\ main'.then = "idle"
                 /\ UNCHANGED <<entities, current>>
              \/ /\ main'.pc = "disconnect" /\ main'.then = "connect" /\ c.host # NoHost
                 /\ UNCHANGED <<entities, current>>
              \/ /\ main' = main /\ c.host # NoHost /\ ~connection_differs(c)
                 /\ IF Rediscovers(c)
                    THEN entities' = publish_discovery(Wanted', TRUE) /\ current' = (current \/ Up)
                    ELSE UNCHANGED <<entities, current>>
<1>1. /\ main.pc = "idle" /\ config' = c /\ raced' = Overlap
      /\ UNCHANGED <<client, connected, due, cb, lost, reg, transmit, status, told>>
  BY DEF mqtt_apply, Doing, world
<1> DEFINE asked == c.enabled /\ c.host # NoHost
           reconnect == connection_differs(c) \/ client = {}
<1>2. CASE asked /\ ~reconnect /\ Rediscovers(c)
  <2>1. entities' = publish_discovery(Wanted', TRUE) /\ current' = (current \/ Up) /\ main' = main
    BY <1>2 DEF mqtt_apply
  <2> QED
    BY <1>1, <1>2, <2>1 DEF LinkTypes
<1>3. CASE ~(asked /\ ~reconnect /\ Rediscovers(c))
  <2>1. /\ main' = IF ~asked THEN [pc |-> "disconnect", then |-> "idle"]
                   ELSE IF reconnect THEN [pc |-> "disconnect", then |-> "connect"]
                   ELSE main
        /\ UNCHANGED <<entities, current>>
    BY <1>3 DEF mqtt_apply
  <2>2. CASE ~asked
    BY <1>1, <2>1, <2>2 DEF MainPc
  <2>3. CASE asked /\ reconnect
    BY <1>1, <2>1, <2>3 DEF MainPc
  <2>4. CASE asked /\ ~reconnect
    BY <1>1, <1>3, <2>1, <2>4 DEF LinkTypes
  <2> QED
    BY <2>2, <2>3, <2>4
<1> QED
  BY <1>2, <1>3

LEMMA TypesStep == ASSUME LinkTypes, Connecting, [Next]_vars PROVE LinkTypes'
<1> USE DEF LinkTypes
<1>1. CASE Start
  BY <1>1, RegistryAssumption DEF Start, Go, Idle, CbPc, MainPc
<1>2. ASSUME NEW c \in Configs, mqtt_apply(c) PROVE LinkTypes'
  BY <1>2, ApplyDoes
<1>3. CASE disconnect
  BY <1>3 DEF disconnect, MainPc, mine, world
<1>4. CASE Destroy
  BY <1>4 DEF Destroy, MainPc, world
<1>5. CASE connect_now
  <2>1. \A t \in BOOLEAN : [host |-> config.host, prefix |-> config.topic_prefix,
                            up |-> FALSE, tries |-> t] \in Client
    BY <1>5, MqttAssumption DEF connect_now, Doing, Connecting, Client
  <2> QED
    BY <1>5, <2>1 DEF connect_now, Go, MainPc, world
<1>6. CASE mqtt_tick \/ UNCHANGED vars
  BY <1>6 DEF mqtt_tick, world, vars, mine
<1>7. CASE Rebuild \/ selection_set_disabled
  BY <1>7, MqttAssumption, RegistryAssumption DEF Rebuild, selection_set_disabled, mine
<1>8. CASE mqtt_free
  BY <1>8 DEF mqtt_free, MainPc, mine, world
<1>9. CASE PahoConnect
  BY <1>9, ClientTurns DEF PahoConnect, Idle, CbPc, world
<1>10. CASE PahoDrop
  BY <1>10, ClientTurns DEF PahoDrop, world
<1>11. CASE Kill
  BY <1>11 DEF Kill, Go, Idle, MainPc, CbPc, world
<1>12. CASE CbConnected
  BY <1>12 DEF CbConnected, CbPc, world
<1>13. CASE CbOnline
  BY <1>13 DEF CbOnline, CbPc, mine, world
<1>14. CASE CbDiscover
  BY <1>14 DEF CbDiscover, CbPc, mine, world, Wanted
<1>15. CASE CbPublish \/ CbReset
  <2>1. cb' \in {Idle, [Idle EXCEPT !.pc = "reset"]} /\ UNCHANGED <<main, config, client, reg, transmit>>
    BY <1>15 DEF CbPublish, CbReset, world
  <2>2. /\ Idle \in [pc : CbPc, wanted : SUBSET Metrics, withdraw : BOOLEAN]
        /\ [Idle EXCEPT !.pc = "reset"] \in [pc : CbPc, wanted : SUBSET Metrics, withdraw : BOOLEAN]
    BY DEF Idle, CbPc
  <2> QED
    BY <2>1, <2>2
<1>16. CASE on_connection_lost
  BY <1>16 DEF on_connection_lost, world
<1> QED
  BY <1>1, <1>2, <1>3, <1>4, <1>5, <1>6, <1>7, <1>8, <1>9, <1>10, <1>11, <1>12, <1>13, <1>14, <1>15, <1>16
  DEF Next, MainStep, on_connected

LEMMA UpTurns ==
    ASSUME LinkTypes, NEW u \in BOOLEAN, client' = {[c EXCEPT !.up = u] : c \in client}
    PROVE  Up' => u
  BY ClientTurns DEF Up

LEMMA SessionStep == ASSUME Session, [Next]_vars PROVE Session'
<1> USE DEF Session
<1>1. LinkTypes'
  BY TypesStep
<1>2. Connecting'
  <2> USE DEF Connecting
  <2>1. CASE Start
    BY <2>1 DEF Start, Go
  <2>2. ASSUME NEW c \in Configs, mqtt_apply(c) PROVE Connecting'
    BY <2>2, ApplyDoes DEF LinkTypes
  <2>3. CASE MainStep
    BY <2>3 DEF MainStep, disconnect, Destroy, connect_now, Doing, Go, LinkTypes, MainPc, mine
  <2>4. CASE mqtt_free \/ Kill
    BY <2>4 DEF mqtt_free, Kill, Go, mine
  <2>5. CASE PahoConnect \/ PahoDrop
    BY <2>5 DEF PahoConnect, PahoDrop, Up
  <2>6. CASE UNCHANGED <<main, config, client>>
    BY <2>6
  <2> QED
    BY <2>1, <2>2, <2>3, <2>4, <2>5, <2>6
    DEF Next, mqtt_tick, Rebuild, selection_set_disabled, on_connected, CbConnected, CbOnline,
        CbDiscover, CbPublish, CbReset, on_connection_lost, vars, mine
<1>3. Known'
  <2> USE DEF Known
  <2>1. CASE Start \/ Kill \/ Destroy
    BY <2>1 DEF Start, Kill, Destroy, Up
  <2>2. CASE connect_now
    BY <2>2 DEF connect_now, Up
  <2>3. CASE PahoConnect
    BY <2>3 DEF PahoConnect, Idle
  <2>4. CASE PahoDrop
    BY <2>4, UpTurns DEF PahoDrop
  <2>5. CASE CbConnected
    BY <2>5 DEF CbConnected, Up
  <2>6. CASE CbOnline \/ CbDiscover \/ CbPublish \/ CbReset
    BY <2>6 DEF CbOnline, CbDiscover, CbPublish, CbReset, mine, Up
  <2>7. CASE on_connection_lost
    BY <2>7 DEF on_connection_lost, Up
  <2>8. CASE UNCHANGED <<client, cb, connected, lost>>
    BY <2>8 DEF Up
  <2> QED
    BY <2>1, <2>2, <2>3, <2>4, <2>5, <2>6, <2>7, <2>8
    DEF Next, MainStep, mqtt_apply, disconnect, mqtt_tick, Rebuild, selection_set_disabled, mqtt_free,
        on_connected, vars, mine
<1>4. Apart'
  <2> USE DEF Apart
  <2>1. CASE Start
    BY <2>1 DEF Start, Go, Idle, Up
  <2>2. ASSUME NEW c \in Configs, mqtt_apply(c) PROVE Apart'
    <3>1. raced' = Overlap /\ cb' = cb /\ main'.pc # "destroy"
      BY <2>2, ApplyDoes
    <3> QED
      BY <3>1 DEF Overlap
  <2>3. CASE disconnect
    <3>1. raced' = Overlap /\ UNCHANGED <<cb, client, connected>>
      BY <2>3 DEF disconnect, mine
    <3>2. ~raced' => ~raced /\ cb.pc = "idle"
      BY <3>1 DEF Overlap
    <3>3. main'.pc = "destroy" => ~connected
      BY <2>3 DEF disconnect, LinkTypes
    <3> QED
      BY <3>1, <3>2, <3>3 DEF Known, Up
  <2>4. CASE Destroy
    BY <2>4 DEF Destroy, Overlap, Up
  <2>5. CASE connect_now
    BY <2>5 DEF connect_now, Go, Overlap, Up
  <2>6. CASE mqtt_free
    BY <2>6 DEF mqtt_free, Overlap, mine
  <2>7. CASE PahoConnect
    BY <2>7 DEF PahoConnect, Doing
  <2>8. CASE PahoDrop
    BY <2>8, UpTurns DEF PahoDrop
  <2>9. CASE Kill
    BY <2>9 DEF Kill, Go, Idle, Up
  <2>10. CASE on_connected
    <3>1. UNCHANGED <<main, client, raced>> /\ cb.pc # "idle"
      BY <2>10 DEF on_connected, CbConnected, CbOnline, CbDiscover, CbPublish, CbReset, mine
    <3> QED
      BY <3>1 DEF Up
  <2>11. CASE mqtt_tick \/ Rebuild \/ selection_set_disabled \/ on_connection_lost \/ UNCHANGED vars
    BY <2>11 DEF mqtt_tick, Rebuild, selection_set_disabled, on_connection_lost, vars, mine, Overlap, Up, Doing
  <2> QED
    BY <2>1, <2>2, <2>3, <2>4, <2>5, <2>6, <2>7, <2>8, <2>9, <2>10, <2>11 DEF Next, MainStep
<1> QED
  BY <1>1, <1>2, <1>3, <1>4

LEMMA InitSession == Init => Session
  BY RegistryAssumption, MqttAssumption
  DEF Init, Session, LinkTypes, Connecting, Known, Apart, Idle, Up, MainPc, CbPc

LEMMA SessionHolds == Spec => []Session
  BY InitSession, SessionStep, PTL DEF Spec

-----------------------------------------------------------------------------
(* The first sample of a session publishes the state.                      *)

Promised == Up /\ ~told /\ cb.pc = "idle" => due

LEMMA PromisedStep == ASSUME Session, Promised, [Next]_vars PROVE Promised'
<1> USE DEF Promised
<1>1. CASE Start \/ Kill
  BY <1>1 DEF Start, Kill
<1>2. CASE mqtt_tick
  BY <1>2 DEF mqtt_tick, Up
<1>3. CASE Destroy \/ connect_now
  BY <1>3 DEF Destroy, connect_now, Up
<1>4. CASE PahoConnect
  BY <1>4 DEF PahoConnect, Idle
<1>5. CASE PahoDrop
  BY <1>5, UpTurns DEF PahoDrop, Session
<1>6. CASE CbReset
  BY <1>6 DEF CbReset
<1>7. CASE CbConnected \/ CbOnline
  <2>1. cb'.pc # "idle"
    BY <1>7 DEF CbConnected, CbOnline, Session, LinkTypes
  <2> QED
    BY <2>1
<1>8. CASE CbDiscover \/ CbPublish
  <2>1. cb'.pc # "idle"
    BY <1>8 DEF CbDiscover, CbPublish, Idle
  <2> QED
    BY <2>1
<1>9. CASE UNCHANGED <<client, told, cb, due>>
  BY <1>9 DEF Up
<1> QED
  BY <1>1, <1>2, <1>3, <1>4, <1>5, <1>6, <1>7, <1>8, <1>9
  DEF Next, MainStep, on_connected, mqtt_apply, disconnect, Rebuild, selection_set_disabled, mqtt_free,
      on_connection_lost, vars, mine

(***************************************************************************)
(* For any settings, drops and overlaps of main with a callback: the first *)
(* sample of a session publishes at once (on_connected, mqtt_tick).        *)
(***************************************************************************)
THEOREM FirstSampleIsPublished == Spec => []FirstSamplePublishes
<1>1. Init => Promised
  BY DEF Init, Promised
<1>2. Promised => FirstSamplePublishes
  BY DEF Promised, FirstSamplePublishes
<1> QED
  BY <1>1, <1>2, PromisedStep, SessionHolds, PTL DEF Spec

-----------------------------------------------------------------------------
(* Discovery.                                                              *)

\* What the callback decided to publish is what is wanted, unless main raced.
Decided == ~raced /\ cb.pc = "publish" => cb.wanted = Wanted

Discovered ==
    ~raced /\ Up /\ cb.pc \in {"reset", "idle"} /\ main.pc = "idle" /\ config.discovery /\ current =>
        \A c \in client : Wanted \subseteq entities[c.host]

\* publish_discovery into a session that is up leaves every wanted config.
LEMMA PublishesWanted ==
    ASSUME LinkTypes, Up, NEW wanted, NEW withdraw, NEW c \in client
    PROVE  wanted \subseteq publish_discovery(wanted, withdraw)[c.host]
<1>1. c.host \in Hosts
  BY DEF LinkTypes, Client
<1> QED
  BY <1>1 DEF publish_discovery

LEMMA DecidedStep == ASSUME Session, Decided, [Next]_vars PROVE Decided'
<1> USE DEF Decided
<1>1. CASE Start \/ Kill \/ PahoConnect
  BY <1>1 DEF Start, Kill, PahoConnect, Idle
<1>2. ASSUME NEW c \in Configs, mqtt_apply(c) PROVE Decided'
  <2>1. raced' = Overlap /\ cb' = cb
    BY <1>2, ApplyDoes DEF Session
  <2> QED
    BY <2>1 DEF Overlap
<1>3. CASE Rebuild \/ selection_set_disabled
  <2>1. raced' = Overlap /\ cb' = cb
    BY <1>3 DEF Rebuild, selection_set_disabled
  <2> QED
    BY <2>1 DEF Overlap
<1>4. CASE MainStep \/ mqtt_free
  <2>1. raced' = Overlap /\ cb' = cb
    BY <1>4 DEF MainStep, disconnect, Destroy, connect_now, mqtt_free
  <2> QED
    BY <2>1 DEF Overlap
<1>5. CASE CbConnected \/ CbOnline
  <2>1. cb'.pc # "publish"
    BY <1>5 DEF CbConnected, CbOnline, Session, LinkTypes
  <2> QED
    BY <2>1
<1>6. CASE CbDiscover
  <2>1. cb'.wanted = Wanted /\ UNCHANGED <<config, reg, transmit>>
    BY <1>6 DEF CbDiscover, mine, world
  <2>2. Wanted' = Wanted
    BY <2>1 DEF Wanted, is_essential
  <2> QED
    BY <2>1, <2>2
<1>7. CASE CbPublish \/ CbReset
  <2>1. cb'.pc # "publish"
    BY <1>7 DEF CbPublish, CbReset, Idle
  <2> QED
    BY <2>1
<1>8. CASE PahoDrop \/ mqtt_tick \/ on_connection_lost \/ UNCHANGED vars
  <2>1. UNCHANGED <<cb, raced, config, reg, transmit>>
    BY <1>8 DEF PahoDrop, mqtt_tick, on_connection_lost, vars, mine, world
  <2> QED
    BY <2>1 DEF Wanted, is_essential
<1> QED
  BY <1>1, <1>2, <1>3, <1>4, <1>5, <1>6, <1>7, <1>8 DEF Next, on_connected

LEMMA DiscoveredStep == ASSUME Session, Decided, Discovered, [Next]_vars PROVE Discovered'
<1> USE DEF Discovered
<1>1. CASE Start \/ Kill \/ Destroy \/ connect_now
  <2>1. \A c \in client' : ~c.up
    BY <1>1 DEF Start, Kill, Destroy, connect_now
  <2> QED
    BY <2>1 DEF Up
<1>2. ASSUME NEW c \in Configs, mqtt_apply(c) PROVE Discovered'
  <2> SUFFICES ASSUME ~raced', Up', main'.pc = "idle", c.discovery, current', NEW d \in client
               PROVE  Wanted' \subseteq entities'[d.host]
    BY <1>2, ApplyDoes DEF Session
  <2>1. /\ UNCHANGED <<client, reg, transmit>> /\ config' = c /\ main.pc = "idle"
        /\ ~raced /\ cb.pc = "idle" /\ Up /\ connected
        /\ IF Rediscovers(c)
           THEN entities' = publish_discovery(Wanted', TRUE)
           ELSE UNCHANGED <<entities, current>>
    BY <1>2, ApplyDoes DEF Session, Overlap, Up, Known
  <2>2. CASE Rediscovers(c)
    BY <2>1, <2>2, PublishesWanted DEF Session
  <2>3. CASE ~Rediscovers(c)
    <3>1. <<c.discovery, c.discovery_all>> = <<config.discovery, config.discovery_all>>
      BY <2>1, <2>3 DEF Rediscovers
    <3>2. Wanted' = Wanted /\ config.discovery
      BY <2>1, <3>1 DEF Wanted, is_essential
    <3> QED
      BY <2>1, <2>3, <3>2
  <2> QED
    BY <2>2, <2>3
<1>3. CASE disconnect
  <2>1. CASE client = {}
    BY <1>3, <2>1 DEF disconnect, mine, Up
  <2>2. CASE client # {}
    <3>1. main'.pc # "idle"
      BY <1>3, <2>2 DEF disconnect
    <3> QED
      BY <3>1
  <2> QED
    BY <2>1, <2>2
<1>4. CASE Rebuild \/ selection_set_disabled
  BY <1>4 DEF Rebuild, selection_set_disabled
<1>5. CASE mqtt_free
  BY <1>5 DEF mqtt_free
<1>6. CASE PahoConnect
  BY <1>6 DEF PahoConnect, Idle
<1>7. CASE PahoDrop
  BY <1>7, UpTurns DEF PahoDrop, Session
<1>8. CASE CbConnected \/ CbDiscover
  <2>1. cb'.pc \notin {"reset", "idle"}
    BY <1>8 DEF CbConnected, CbDiscover, Session, LinkTypes
  <2> QED
    BY <2>1
<1>9. CASE CbOnline
  <2>1. config' = config /\ (config.discovery => cb'.pc = "discover")
    BY <1>9 DEF CbOnline, mine, Session, LinkTypes
  <2> QED
    BY <2>1
<1>10. CASE CbPublish
  <2> SUFFICES ASSUME ~raced', Up', NEW d \in client PROVE Wanted' \subseteq entities'[d.host]
    BY <1>10 DEF CbPublish
  <2>1. cb.pc = "publish" /\ UNCHANGED <<raced, client, config, reg, transmit>>
    BY <1>10 DEF CbPublish, world
  <2>2. PICK after \in SUBSET reg :
           entities' = publish_discovery((cb.wanted \ after) \cup (Wanted \cap after), cb.withdraw)
    BY <1>10 DEF CbPublish
  <2>3. (cb.wanted \ after) \cup (Wanted \cap after) = Wanted
    BY <2>1 DEF Decided
  <2>4. Wanted' = Wanted /\ Up
    BY <2>1 DEF Wanted, is_essential, Up
  <2> QED
    BY <2>2, <2>3, <2>4, PublishesWanted DEF Session
<1>11. CASE CbReset \/ mqtt_tick \/ on_connection_lost \/ UNCHANGED vars
  <2>1. /\ UNCHANGED <<raced, client, main, config, reg, transmit, current, entities>>
        /\ cb'.pc \in {"reset", "idle"} => cb.pc \in {"reset", "idle"}
    BY <1>11 DEF CbReset, mqtt_tick, on_connection_lost, vars, mine, world, broker
  <2> QED
    BY <2>1 DEF Up, Wanted, is_essential
<1> QED
  BY <1>1, <1>2, <1>3, <1>4, <1>5, <1>6, <1>7, <1>8, <1>9, <1>10, <1>11 DEF Next, MainStep, on_connected

(***************************************************************************)
(* For any metrics, settings and brokers: on a settled connection every    *)
(* metric that discovery asks for has its retained config, though every    *)
(* session may have dropped half-way (publish_discovery, mqtt_apply).      *)
(***************************************************************************)
THEOREM DiscoveryIsComplete == Spec => []DiscoveryComplete
<1>1. Init => Decided /\ Discovered
  BY DEF Init, Decided, Discovered, Idle, Up
<1>2. Discovered => DiscoveryComplete
  BY DEF Discovered, DiscoveryComplete, Settled, Doing
<1> QED
  BY <1>1, <1>2, DecidedStep, DiscoveredStep, SessionHolds, PTL DEF Spec

-----------------------------------------------------------------------------
(***************************************************************************)
(* Availability.  A disconnect publishes "offline" on the topic of the new *)
(* settings, so "online" means connected as long as the topic prefix stays *)
(* the same.                                                               *)
(***************************************************************************)
SamePrefix == config'.topic_prefix = config.topic_prefix

Available ==
    /\ \A c \in client : c.prefix = config.topic_prefix
    /\ OnlineMeansConnected
    /\ ~raced /\ main.pc = "clean" => \A h \in Hosts, p \in Prefixes : status[h][p] # "online"

NoneOnline == \A h \in Hosts, p \in Prefixes : status[h][p] # "online"

\* No topic says "online" once the will or "offline" has been published.
LEMMA WillRetracts ==
    ASSUME OnlineMeansConnected, ~raced, status' = WillPublished PROVE NoneOnline'
<1>1. \A h \in Hosts, p \in Prefixes :
         status'[h][p] = IF \E c \in client : c.up /\ c.host = h /\ c.prefix = p THEN "offline" ELSE status[h][p]
  BY DEF WillPublished
<1> QED
  BY <1>1 DEF OnlineMeansConnected, NoneOnline

LEMMA DownIsOffline == ASSUME OnlineMeansConnected, ~raced, ~Up PROVE NoneOnline
  BY DEF OnlineMeansConnected, NoneOnline, Up

LEMMA PublishedStatus ==
    ASSUME NEW s, status' = PublishStatus(s)
    PROVE  \A h \in Hosts, p \in Prefixes :
              status'[h][p] = IF Up /\ p = config.topic_prefix /\ \E c \in client : c.host = h
                              THEN s ELSE status[h][p]
  BY DEF PublishStatus

LEMMA AvailableStep ==
    ASSUME Session, Available, [Next]_vars, SamePrefix \/ UNCHANGED vars PROVE Available'
<1> USE DEF Session
<1>1. CASE Start
  <2>1. client = {} /\ client' = {} /\ status' = status /\ raced' = raced /\ main'.pc # "clean"
    BY <1>1 DEF Start, Connecting, Go, broker
  <2> QED
    BY <2>1 DEF Available, OnlineMeansConnected
<1>2. ASSUME NEW c \in Configs, mqtt_apply(c) PROVE Available'
  <2>1. UNCHANGED <<client, status>> /\ raced' = Overlap /\ main'.pc # "clean"
    BY <1>2, ApplyDoes
  <2>2. config'.topic_prefix = config.topic_prefix
    BY DEF SamePrefix, vars, mine
  <2> QED
    BY <2>1, <2>2 DEF Available, OnlineMeansConnected, Overlap
<1>3. CASE disconnect
  <2>1. /\ UNCHANGED <<client, config>> /\ raced' = Overlap
        /\ status' = IF connected THEN PublishStatus("offline") ELSE status
        /\ main'.pc = "clean" => connected
    BY <1>3 DEF disconnect, mine, LinkTypes
  <2>2. CASE raced'
    BY <2>1, <2>2 DEF Available, OnlineMeansConnected
  <2>3. CASE ~raced'
    <3>1. ~raced /\ cb.pc = "idle"
      BY <2>1, <2>3 DEF Overlap
    <3>2. NoneOnline'
      <4>1. CASE connected /\ Up
        <5>1. \A h \in Hosts, p \in Prefixes :
                 status'[h][p] = IF p = config.topic_prefix /\ \E c \in client : c.host = h
                                 THEN "offline" ELSE status[h][p]
          BY <2>1, <4>1, PublishedStatus
        <5>2. \A h \in Hosts, p \in Prefixes :
                 status[h][p] = "online" => p = config.topic_prefix /\ \E c \in client : c.host = h
          BY <3>1 DEF Available, OnlineMeansConnected
        <5> QED
          BY <5>1, <5>2 DEF NoneOnline
      <4>2. CASE connected /\ ~Up
        <5>1. \A h \in Hosts, p \in Prefixes : status'[h][p] = status[h][p]
          BY <2>1, <4>2, PublishedStatus
        <5> QED
          BY <3>1, <4>2, <5>1, DownIsOffline DEF Available, NoneOnline
      <4>3. CASE ~connected
        BY <2>1, <3>1, <4>3, DownIsOffline DEF Available, NoneOnline, Known
      <4> QED
        BY <4>1, <4>2, <4>3
    <3> QED
      BY <2>1, <3>2 DEF Available, OnlineMeansConnected, NoneOnline
  <2> QED
    BY <2>2, <2>3
<1>4. CASE Destroy
  <2>1. /\ client' = {} /\ raced' = Overlap /\ main'.pc # "clean"
        /\ main.pc \in {"clean", "destroy"}
        /\ status' = status \/ (main.pc = "destroy" /\ status' = WillPublished)
    BY <1>4 DEF Destroy, LinkTypes
  <2>2. ~raced' => NoneOnline'
    <3> SUFFICES ASSUME ~raced' PROVE NoneOnline'
      OBVIOUS
    <3>1. ~raced
      BY <2>1 DEF Overlap
    <3>2. NoneOnline
      BY <2>1, <3>1, DownIsOffline DEF Available, NoneOnline, Apart
    <3> QED
      BY <2>1, <3>1, <3>2, WillRetracts DEF Available, NoneOnline
  <2> QED
    BY <2>1, <2>2 DEF Available, OnlineMeansConnected, NoneOnline
<1>5. CASE connect_now
  <2>1. /\ client = {} /\ status' = status /\ config' = config /\ raced' = Overlap /\ main'.pc # "clean"
        /\ \A c \in client' : c.prefix = config.topic_prefix
    BY <1>5 DEF connect_now, Connecting, Doing, Go, broker
  <2> QED
    BY <2>1 DEF Available, OnlineMeansConnected, Overlap
<1>6. CASE Rebuild \/ selection_set_disabled \/ mqtt_free
  <2>1. UNCHANGED <<client, config, status>> /\ raced' = Overlap /\ main'.pc # "clean"
    BY <1>6 DEF Rebuild, selection_set_disabled, mqtt_free, mine, broker, Doing
  <2> QED
    BY <2>1 DEF Available, OnlineMeansConnected, Overlap
<1>7. CASE PahoConnect
  <2>1. /\ ~Up /\ UNCHANGED <<config, status, main>> /\ raced' = (raced \/ main.pc # "idle")
        /\ \A c \in client' : \E d \in client : d.prefix = c.prefix
    BY <1>7, ClientTurns DEF PahoConnect, broker, Doing
  <2>2. ~raced' => NoneOnline'
    BY <2>1, DownIsOffline DEF Available, NoneOnline
  <2>3. \A c \in client' : c.prefix = config'.topic_prefix
    BY <2>1 DEF Available
  <2> QED
    BY <2>2, <2>3 DEF Available, OnlineMeansConnected, NoneOnline
<1>8. CASE PahoDrop
  <2>1. /\ UNCHANGED <<config, main, raced>> /\ status' = WillPublished
        /\ \A c \in client' : \E d \in client : d.prefix = c.prefix
    BY <1>8, ClientTurns DEF PahoDrop
  <2>2. ~raced' => NoneOnline'
    BY <2>1, WillRetracts DEF Available
  <2>3. \A c \in client' : c.prefix = config'.topic_prefix
    BY <2>1 DEF Available
  <2> QED
    BY <2>2, <2>3 DEF Available, OnlineMeansConnected, NoneOnline
<1>9. CASE Kill
  <2>1. client' = {} /\ raced' = raced /\ status' = WillPublished /\ main'.pc # "clean"
    BY <1>9 DEF Kill, Go
  <2>2. ~raced' => NoneOnline'
    BY <2>1, WillRetracts DEF Available
  <2> QED
    BY <2>1, <2>2 DEF Available, OnlineMeansConnected, NoneOnline
<1>10. CASE CbOnline
  <2>1. /\ UNCHANGED <<client, config, main, raced>> /\ status' = PublishStatus("online")
        /\ cb.pc # "idle"
    BY <1>10 DEF CbOnline, mine
  <2>2. ~raced => main.pc # "clean"
    BY <2>1 DEF Apart
  <2>3. \A h \in Hosts, p \in Prefixes :
           status'[h][p] = IF Up /\ p = config.topic_prefix /\ \E c \in client : c.host = h
                           THEN "online" ELSE status[h][p]
    BY <2>1, PublishedStatus
  <2>4. \A h \in Hosts : Up /\ (\E c \in client : c.host = h) =>
           \E c \in client : c.up /\ c.host = h /\ c.prefix = config.topic_prefix
    BY DEF Up, LinkTypes, Available
  <2>5. OnlineMeansConnected'
    BY <2>1, <2>3, <2>4 DEF Available, OnlineMeansConnected
  <2> QED
    BY <2>1, <2>2, <2>5 DEF Available
<1>11. CASE mqtt_tick \/ on_connection_lost \/ CbConnected \/ CbDiscover \/ CbPublish \/ CbReset \/ UNCHANGED vars
  <2>1. UNCHANGED <<client, config, main, raced, status>>
    BY <1>11 DEF mqtt_tick, on_connection_lost, CbConnected, CbDiscover, CbPublish, CbReset, vars, mine, broker
  <2> QED
    BY <2>1 DEF Available, OnlineMeansConnected
<1> QED
  BY <1>1, <1>2, <1>3, <1>4, <1>5, <1>6, <1>7, <1>8, <1>9, <1>10, <1>11 DEF Next, MainStep, on_connected

(***************************************************************************)
(* For any brokers, settings, drops and restarts, if no settings change    *)
(* replaces the topic prefix: a topic says "online" only while the session *)
(* that said so is up, unless a callback has overlapped a handler          *)
(* (on_connected, disconnect, the will).                                   *)
(***************************************************************************)
THEOREM OnlineIsConnected == Spec /\ [][SamePrefix]_vars => []OnlineMeansConnected
<1>1. Init => Available
  BY DEF Init, Available, OnlineMeansConnected
<1>2. Available => OnlineMeansConnected
  BY DEF Available
<1>3. ASSUME Session, Available, [Next]_vars, [SamePrefix]_vars PROVE Available'
  BY <1>3, AvailableStep
<1> QED
  BY <1>1, <1>2, <1>3, SessionHolds, PTL DEF Spec
=============================================================================
