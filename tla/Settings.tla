------------------------------ MODULE Settings ------------------------------
(***************************************************************************)
(* Parameters, the settings form and the metric selection (main.c,         *)
(* selection.c, app.js).  A parameter lives in the device's parameter      *)
(* store and, as the program's copy, in parameters[i].value.  It changes   *)
(* by a request on the admin port, by the dashboard's form, or behind the  *)
(* program's back, of which a callback tells it later.  A change restarts  *)
(* the sampler and applies the MQTT and InfluxDB settings.                 *)
(*                                                                         *)
(* The parameter store and its callbacks are external.  Requests on the    *)
(* viewer port that could change something are refused, so none of them is *)
(* an action here.  A body that is cut short is just another body.         *)
(***************************************************************************)
EXTENDS Integers, Sequences, FiniteSets

CONSTANTS
    ValuesOf,          \* for each parameter, the values it is given
    Fallback,          \* for each parameter, its default
    Blank,             \* the empty string
    Secrets,           \* parameters that settings_json does not return
    KeptWhenBlank,     \* the ones collectSettings leaves out when empty (MqttPassword)
    Unfilled,          \* what the form's fields hold on a page that is just loaded
    StuckBoxes,        \* checkboxes missing in CHECKBOXES (InfluxEnabled)
    SampleInterval,    \* the parameter the sampler's timer depends on
    Parsed,            \* g_ascii_strtoull of its values
    Scopes, Metrics    \* what a metric may be deselected for; metric ids

Params == DOMAIN ValuesOf

ASSUME SettingsAssumption ==
    /\ KeptWhenBlank \subseteq Secrets /\ Secrets \subseteq Params /\ StuckBoxes \subseteq Params
    /\ SampleInterval \in Params /\ IsFiniteSet(Params)
    /\ Unfilled = [p \in Params |-> Unfilled[p]] /\ \A p \in Secrets : Unfilled[p] = Blank
    /\ Fallback \in [Params -> UNION {ValuesOf[p] : p \in Params}]
    /\ \A p \in Params : Fallback[p] \in ValuesOf[p]
    /\ \A v \in ValuesOf[SampleInterval] \cup {Unfilled[SampleInterval]} : Parsed[v] \in Nat

VARIABLES
    state,              \* "down", "loading" (parameters read, no callbacks yet) or "running"
    stored,             \* the parameter store
    value,              \* parameters[i].value
    registered,         \* parameters with a callback
    pending,            \* callbacks that are not yet dispatched, as pairs
    applied,            \* the values restart_sampler and the two apply functions last saw
    sample_interval_s,  \* the period of the sample timer
    timers,             \* how many sample timers the main loop has
    fine_interval,      \* tiers[0].interval_s
    form,               \* the form of a dashboard: what each field would send
    dialog,             \* whether it is shown
    edited,             \* the fields the user has touched since they were filled
    disabled,           \* selection->disabled
    selection_file,     \* SELECTION_FILE
    unheard,            \* auxiliary: parameters whose value the program missed
    wanted,             \* auxiliary: the selection asked for
    secret,             \* auxiliary: the KeptWhenBlank parameters as they were given
    unsaved             \* auxiliary: the last save of the selection failed

parameterVars == <<state, stored, value, registered, pending, applied, sample_interval_s,
                   timers, fine_interval, unheard>>
formVars == <<form, dialog, edited>>
selectionVars == <<disabled, selection_file, unsaved>>
settingsVars == <<parameterVars, formVars, selectionVars, wanted, secret>>

Clamp(n, low, high) == IF n < low THEN low ELSE IF n > high THEN high ELSE n
IntervalOf(v) == Clamp(Parsed[v[SampleInterval]], 1, 10)
NoneDisabled == [s \in Scopes |-> {}]

SettingsInit ==
    /\ state = "down" /\ stored = Fallback /\ value = Fallback
    /\ registered = {} /\ pending = << >> /\ applied = Fallback
    /\ sample_interval_s = 0 /\ timers = 0 /\ fine_interval = 0
    /\ form = Unfilled /\ dialog = FALSE /\ edited = {}
    /\ disabled = NoneDisabled /\ selection_file = NoneDisabled
    /\ unheard = {} /\ unsaved = FALSE
    /\ wanted = NoneDisabled /\ secret = [p \in KeptWhenBlank |-> Fallback[p]]

(***************************************************************************)
(* main: parameters are loaded and their callbacks registered, either of   *)
(* which may fail for some.                                                *)
(***************************************************************************)
load_parameter(failing) ==
    /\ state = "down" /\ state' = "loading"
    /\ value' = [p \in Params |-> IF p \in failing THEN Fallback[p] ELSE stored[p]]
    /\ unheard' = failing
    /\ UNCHANGED <<stored, registered, pending, applied, sample_interval_s, timers,
                   fine_interval, formVars, selectionVars, wanted, secret>>

M_TimerKept(v) ==
    /\ applied' = v
    /\ sample_interval_s' = IntervalOf(v)
    /\ timers' = timers + 1

\* restart_sampler and the two apply functions, with the values v.
ApplyAll(v) ==
    /\ applied' = v
    /\ sample_interval_s' = IntervalOf(v)
    /\ timers' = IF IntervalOf(v) = sample_interval_s /\ timers > 0 THEN timers
                 ELSE (IF timers > 0 THEN timers - 1 ELSE 0) + 1

\* The rest of main, up to the main loop.
Launch(failing) ==
    /\ state = "loading" /\ state' = "running"
    /\ registered' = Params \ failing
    /\ fine_interval' = IntervalOf(value)
    /\ ApplyAll(value)
    /\ disabled' = selection_file
    /\ wanted' = IF unsaved THEN selection_file ELSE wanted
    /\ UNCHANGED <<stored, value, pending, unheard, formVars, selection_file, unsaved, secret>>

\* The program ends, by SIGTERM or by a kill; a dashboard keeps its form.
Stop ==
    /\ state = "running" /\ state' = "down"
    /\ registered' = {} /\ pending' = << >> /\ timers' = 0 /\ sample_interval_s' = 0
    /\ UNCHANGED <<stored, value, applied, fine_interval, unheard, formVars, selectionVars,
                   wanted, secret>>

\* rebuild_for_new_storage: the store is made again, for the present interval.
Rebuild ==
    /\ state = "running"
    /\ fine_interval' = sample_interval_s
    /\ UNCHANGED <<state, stored, value, registered, pending, applied, sample_interval_s, timers,
                   unheard, formVars, selectionVars,
                   wanted, secret>>

(***************************************************************************)
(* Changes.                                                                *)
(***************************************************************************)
\* Someone else sets a parameter.
OutsideChange(p, v) ==
    /\ v # stored[p]
    /\ stored' = [stored EXCEPT ![p] = v]
    /\ pending' = IF p \in registered THEN Append(pending, <<p, v>>) ELSE pending
    /\ unheard' = IF p \in registered THEN unheard \ {p}
                  ELSE IF state = "down" THEN unheard ELSE unheard \cup {p}
    /\ secret' = [q \in KeptWhenBlank |-> IF q = p THEN v ELSE secret[q]]
    /\ UNCHANGED <<state, value, registered, applied, sample_interval_s, timers, fine_interval,
                   formVars, selectionVars, wanted>>

\* The main loop dispatches a callback, which may be older than what was set since.
on_parameter_changed ==
    /\ state = "running" /\ pending # << >>
    /\ pending' = Tail(pending)
    /\ LET p == Head(pending)[1]
           v == Head(pending)[2]
       IN  IF value[p] = v THEN UNCHANGED <<value, applied, sample_interval_s, timers>>
           ELSE /\ value' = [value EXCEPT ![p] = v]
                /\ ApplyAll(value')
    /\ UNCHANGED <<state, stored, registered, fine_interval, unheard, formVars, selectionVars,
                   wanted, secret>>

M_ValueThoughSetFailed(body, failing) ==
    [p \in Params |-> IF p \in DOMAIN body THEN body[p] ELSE value[p]]

\* apply_settings_body: what differs is set, and kept if that succeeded.
Written(body, failing) == {p \in DOMAIN body : value[p] # body[p]} \ failing
Accepted(body, failing) ==
    [p \in Params |-> IF p \in Written(body, failing) THEN body[p] ELSE value[p]]

\* POST settings.  Every write is reported back by a callback.
PostSettings(body, failing) ==
    /\ state = "running"
    /\ value' = Accepted(body, failing)
    /\ LET written == Written(body, failing)
       IN  /\ stored' = [p \in Params |-> IF p \in written THEN body[p] ELSE stored[p]]
           /\ \E told \in [1 .. Cardinality(written \cap registered) -> written \cap registered] :
                 /\ \A p \in written \cap registered : \E i \in DOMAIN told :
                       told[i] = p /\ \A j \in DOMAIN told \ {i} : told[j] # p
                 /\ pending' = pending \o [i \in DOMAIN told |-> <<told[i], body[told[i]]>>]
           /\ unheard' = unheard \ written
           /\ IF written = {} THEN UNCHANGED <<applied, sample_interval_s, timers>>
              ELSE ApplyAll(value')
    /\ UNCHANGED <<state, registered, fine_interval, selectionVars, wanted>>

\* A script posts some settings.
Post(body, failing) ==
    /\ PostSettings(body, failing)
    /\ secret' = [p \in KeptWhenBlank |->
          IF p \in Written(body, failing) THEN body[p] ELSE secret[p]]
    /\ UNCHANGED formVars

(***************************************************************************)
(* The dashboard's form.                                                   *)
(***************************************************************************)
\* openSettings: settings_json, then fillSettings.
OpenForm ==
    /\ state = "running"
    /\ form' = [p \in Params |-> IF p \in Secrets THEN Blank ELSE value[p]]
    /\ dialog' = TRUE /\ edited' = {}
    /\ UNCHANGED <<parameterVars, selectionVars, wanted, secret>>

\* openSettings when the fetch fails: the dialog is shown all the same, with what
\* its fields last held or, on a page that is loaded anew, with nothing.
OpenUnfilled ==
    /\ dialog' = TRUE
    /\ \/ UNCHANGED <<form, edited>>
       \/ form' = Unfilled /\ edited' = {}
    /\ UNCHANGED <<parameterVars, selectionVars, wanted, secret>>

\* Ticking a box that is not in CHECKBOXES does not change what the form sends.
EditForm(p, v) ==
    /\ dialog
    /\ form' = IF p \in StuckBoxes THEN form ELSE [form EXCEPT ![p] = v]
    /\ edited' = edited \cup {p}
    /\ UNCHANGED <<dialog, parameterVars, selectionVars, wanted, secret>>

M_SendsBlankSecrets == form

\* What the form sends.
collectSettings ==
    [p \in {q \in Params : q \in KeptWhenBlank => form[q] # Blank} |-> form[p]]

\* saveSettings: the form is posted and, if the answer comes, closed.  Its fields
\* keep what they hold.
SaveForm(failing, answered) ==
    /\ dialog
    /\ PostSettings(collectSettings, failing)
    /\ secret' = [p \in KeptWhenBlank |->
          IF p \in edited \ failing /\ form[p] \notin {Blank, value[p]} THEN form[p] ELSE secret[p]]
    /\ dialog' = ~answered
    /\ UNCHANGED <<form, edited>>

(***************************************************************************)
(* The metric selection.                                                   *)
(***************************************************************************)
M_SaveOneScope(scope, ids) == [selection_file EXCEPT ![scope] = ids]

\* save: what the file holds once it is written.
save(scope, ids) == [disabled EXCEPT ![scope] = ids]

selection_set_disabled(scope, ids, saved) ==
    /\ state = "running"
    /\ disabled' = [disabled EXCEPT ![scope] = ids]
    /\ selection_file' = IF saved THEN save(scope, ids) ELSE selection_file
    /\ unsaved' = ~saved
    /\ wanted' = [wanted EXCEPT ![scope] = ids]
    /\ UNCHANGED <<parameterVars, formVars, secret>>

-----------------------------------------------------------------------------
(***************************************************************************)
(* Once all callbacks have been dispatched the program's copy of every     *)
(* parameter is what the store holds, in whatever order requests, outside  *)
(* changes and callbacks came, and whichever writes failed.  Excepted is a *)
(* parameter that the program missed, because it could not be read, has no *)
(* callback or was changed before its callback was registered              *)
(* (load_parameter, on_parameter_changed, apply_settings_body).            *)
(***************************************************************************)
QuiescentAgrees ==
    state = "running" /\ pending = << >> => \A p \in Params \ unheard : value[p] = stored[p]

\* MQTT, InfluxDB and the sampler always run with the program's present values,
\* and the main loop has exactly one sample timer, however settings change.
AppliedFollowsValues ==
    state = "running" =>
        /\ applied = value /\ sample_interval_s = IntervalOf(value)
        /\ timers = 1

\* No save of the form, stale, unfilled, repeated or half failed, changes the MQTT
\* password unless the user typed one since the fields were last filled:
\* collectSettings leaves an empty one out.
PasswordKept == \A p \in KeptWhenBlank : stored[p] = secret[p]

\* The metrics deselected for display and for transmission survive any sequence of
\* changes and restarts, except a change whose file could not be written.
SelectionSurvives == state = "running" => disabled = wanted
=============================================================================
