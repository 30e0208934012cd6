-------------------------------- MODULE Web ---------------------------------
(***************************************************************************)
(* The parts of main.c that face the outside, composed: requests that      *)
(* change settings or the selection, callbacks of the parameter store, the *)
(* dashboard's form, and the event stream, which the sample timer drives.  *)
(* One main loop runs all handlers, one at a time and each to its end; a   *)
(* broadcast may wait in the middle for a client (EventStream), and then   *)
(* nothing else is dispatched.                                             *)
(***************************************************************************)
EXTENDS Settings, EventStream

CONSTANTS
    MaxChanges,      \* bound on requests, edits, outside changes, restarts and
                     \* clients that stop reading or are reset
    MaxFields        \* bound on the fields of a script's request

ASSUME WebAssumption == MaxChanges \in Nat /\ MaxFields \in Nat

VARIABLE changes   \* how many of them there have been

vars == <<settingsVars, streamVars, changes>>

Init == SettingsInit /\ StreamInit /\ changes = 0

Change == changes < MaxChanges /\ changes' = changes + 1

Bodies ==
    UNION {{b \in [S -> UNION {ValuesOf[p] : p \in S}] : \A p \in S : b[p] \in ValuesOf[p]} :
              S \in {T \in SUBSET Params : Cardinality(T) \in 1 .. MaxFields}}

AtMostOne(S) == {{}} \cup {{p} : p \in S}

Start ==
    /\ MainLoopFree
    /\ \/ \E failing \in AtMostOne(Params) : load_parameter(failing)
       \/ \E failing \in AtMostOne(Params) : Launch(failing)
    /\ UNCHANGED <<streamVars, changes>>

\* The sockets close with the program, which may be killed while it waits.
End ==
    /\ Change /\ Stop
    /\ stream_close

Outside ==
    /\ Change
    /\ \E p \in Params : \E v \in ValuesOf[p] : OutsideChange(p, v)
    /\ UNCHANGED streamVars

Callback == MainLoopFree /\ on_parameter_changed /\ UNCHANGED <<streamVars, changes>>

Request ==
    /\ MainLoopFree /\ Change
    /\ \/ \E body \in Bodies : \E failing \in AtMostOne(DOMAIN body) : Post(body, failing)
       \/ \E scope \in Scopes, ids \in SUBSET Metrics, saved \in BOOLEAN :
             selection_set_disabled(scope, ids, saved)
       \/ Rebuild
    /\ UNCHANGED streamVars

\* Filling the form changes nothing else, so it does not count.
Form ==
    /\ \/ MainLoopFree /\ OpenForm /\ UNCHANGED changes
       \/ /\ Change
          /\ \/ OpenUnfilled
             \/ \E p \in Params : \E v \in ValuesOf[p] : EditForm(p, v)
             \/ /\ MainLoopFree
                /\ \E failing \in AtMostOne(Params), answered \in BOOLEAN : SaveForm(failing, answered)
    /\ UNCHANGED streamVars

\* on_sample_tick, as far as the clients see it.
Tick ==
    /\ \/ state = "running" /\ timers > 0 /\ sse_broadcast
       \/ \E c \in Clients : sse_write(c)
    /\ UNCHANGED <<settingsVars, changes>>

Client ==
    /\ state = "running"
    /\ \E c \in Clients : \/ MainLoopFree /\ sse_add(c) /\ UNCHANGED changes
                          \/ ClientReads(c) /\ UNCHANGED changes
                          \/ Change /\ ClientGone(c)
    /\ UNCHANGED settingsVars

Next == Start \/ End \/ Outside \/ Callback \/ Request \/ Form \/ Tick \/ Client

\* The main loop dispatches its timer again and again, and a handler goes on
\* unless it waits.
Fairness ==
    /\ WF_streamVars(state = "running" /\ timers > 0 /\ sse_broadcast)
    /\ WF_streamVars(\E c \in Clients : sse_write(c))

Spec == Init /\ [][Next]_vars /\ Fairness

-----------------------------------------------------------------------------
\* A client that never reads again, whether it closed its connection or hangs, is
\* dropped in the end, whatever its socket reports and however often the sampler is
\* restarted, unless a broadcast waits for ever (sse_broadcast, restart_sampler).
DeadIsDropped ==
    []<>MainLoopFree =>
        \A c \in Clients : (c \in Streaming /\ peer[c] # "reading") ~> c \notin Streaming
=============================================================================
