----------------------------- MODULE WebProofs ------------------------------
(***************************************************************************)
(* Proofs about Web for any parameters, values, metrics and clients: what  *)
(* runs follows the parameters, the password and the selection are kept,   *)
(* only stalled clients are dropped, and the program's copy of the         *)
(* parameters agrees with the parameter store.                             *)
(***************************************************************************)
EXTENDS Web, FiniteSetTheorems, TLAPS

Full(f) == f = [p \in Params |-> f[p]]

\* The store and the program's copy have a value for every parameter.
Complete == Full(stored) /\ Full(value)

\* No timer exists while the program does not run.
Applied ==
    IF state = "running"
    THEN applied = value /\ sample_interval_s = IntervalOf(value) /\ timers = 1
    ELSE timers = 0

LEMMA CompleteStep == ASSUME Complete, [Next]_vars PROVE Complete'
<1>1. CASE Start
  BY <1>1 DEF Start, load_parameter, Launch, Complete, Full
<1>2. CASE Outside
  BY <1>2 DEF Outside, OutsideChange, Complete, Full
<1>3. CASE Callback
  BY <1>3 DEF Callback, on_parameter_changed, Complete, Full
<1>4. ASSUME NEW body, NEW failing, PostSettings(body, failing) PROVE Complete'
  BY <1>4 DEF PostSettings, Accepted, Complete, Full
<1>5. CASE Request
  BY <1>4, <1>5 DEF Request, Post, selection_set_disabled, Rebuild, parameterVars, Complete, Full
<1>6. CASE Form
  BY <1>4, <1>6 DEF Form, OpenForm, OpenUnfilled, EditForm, SaveForm, parameterVars, Complete, Full
<1>7. CASE End \/ Tick \/ Client \/ UNCHANGED vars
  BY <1>7 DEF End, Stop, Tick, Client, vars, settingsVars, parameterVars, Complete, Full
<1> QED
  BY <1>1, <1>2, <1>3, <1>5, <1>6, <1>7 DEF Next

LEMMA CompleteHolds == Spec => []Complete
<1>1. Init => Complete
  BY SettingsAssumption DEF Init, SettingsInit, Complete, Full
<1> QED
  BY <1>1, CompleteStep, PTL DEF Spec

LEMMA ApplyKeeps ==
    ASSUME timers \in {0, 1}, NEW v, ApplyAll(v)
    PROVE  applied' = v /\ sample_interval_s' = IntervalOf(v) /\ timers' = 1
BY DEF ApplyAll

LEMMA PostApplied ==
    ASSUME Complete, Applied, NEW body, NEW failing, PostSettings(body, failing) PROVE Applied'
<1>1. state = "running" /\ state' = "running" /\ timers = 1 /\ value' = Accepted(body, failing)
  BY DEF PostSettings, Applied
<1>2. CASE Written(body, failing) = {}
  <2>1. UNCHANGED <<applied, sample_interval_s, timers>>
    BY <1>2 DEF PostSettings
  <2>2. value' = value
    BY <1>1, <1>2 DEF Accepted, Complete, Full
  <2> QED
    BY <1>1, <2>1, <2>2 DEF Applied, IntervalOf
<1>3. CASE Written(body, failing) # {}
  <2>1. ApplyAll(value')
    BY <1>3 DEF PostSettings
  <2> QED
    BY <1>1, <2>1, ApplyKeeps DEF Applied, IntervalOf
<1> QED
  BY <1>2, <1>3

LEMMA AppliedStep == ASSUME Complete, Applied, [Next]_vars PROVE Applied'
<1>1. CASE Start
  <2>1. CASE \E failing \in AtMostOne(Params) : load_parameter(failing)
    BY <2>1 DEF load_parameter, Applied
  <2>2. CASE \E failing \in AtMostOne(Params) : Launch(failing)
    BY <2>2, ApplyKeeps DEF Launch, Applied, IntervalOf
  <2> QED
    BY <1>1, <2>1, <2>2 DEF Start
<1>2. CASE Callback
  <2>1. state = "running" /\ state' = "running" /\ timers = 1
    BY <1>2 DEF Callback, on_parameter_changed, Applied
  <2>2. CASE UNCHANGED <<value, applied, sample_interval_s, timers>>
    BY <2>1, <2>2 DEF Applied, IntervalOf
  <2>3. CASE ApplyAll(value')
    BY <2>1, <2>3, ApplyKeeps DEF Applied, IntervalOf
  <2> QED
    BY <1>2, <2>2, <2>3 DEF Callback, on_parameter_changed
<1>3. CASE Request
  BY <1>3, PostApplied DEF Request, Post, selection_set_disabled, Rebuild, parameterVars, Applied, IntervalOf
<1>4. CASE Form
  BY <1>4, PostApplied DEF Form, OpenForm, OpenUnfilled, EditForm, SaveForm, parameterVars, Applied, IntervalOf
<1>5. CASE End
  BY <1>5 DEF End, Stop, Applied
<1>6. CASE Outside \/ Tick \/ Client \/ UNCHANGED vars
  BY <1>6 DEF Outside, OutsideChange, Tick, Client, vars, settingsVars, parameterVars, Applied, IntervalOf
<1> QED
  BY <1>1, <1>2, <1>3, <1>4, <1>5, <1>6 DEF Next

(***************************************************************************)
(* However requests, callbacks, forms and restarts interleave, and         *)
(* whichever writes fail, the sampler, MQTT and InfluxDB run with the      *)
(* program's present values and there is exactly one sample timer.         *)
(***************************************************************************)
THEOREM SettingsAreApplied == Spec => []AppliedFollowsValues
<1>1. Init => Applied
  BY DEF Init, SettingsInit, Applied
<1>2. Complete /\ Applied /\ [Next]_vars => Applied'
  BY AppliedStep
<1>3. Applied => AppliedFollowsValues
  BY DEF Applied, AppliedFollowsValues
<1> QED
  BY <1>1, <1>2, <1>3, CompleteHolds, PTL DEF Spec

-----------------------------------------------------------------------------
\* The file is what was asked for, unless it could not be written.
Chosen ==
    /\ state = "running" => disabled = wanted
    /\ ~unsaved => selection_file = wanted

LEMMA ChosenStep == ASSUME Chosen, [Next]_vars PROVE Chosen'
<1>1. CASE Start
  BY <1>1 DEF Start, load_parameter, Launch, selectionVars, Chosen
<1>2. CASE Request
  <2>1. CASE \E scope \in Scopes, ids \in SUBSET Metrics, saved \in BOOLEAN :
                selection_set_disabled(scope, ids, saved)
    BY <2>1 DEF selection_set_disabled, save, parameterVars, Chosen
  <2>2. CASE Rebuild \/ \E body \in Bodies : \E failing \in AtMostOne(DOMAIN body) : Post(body, failing)
    BY <2>2 DEF Rebuild, Post, PostSettings, selectionVars, Chosen
  <2> QED
    BY <1>2, <2>1, <2>2 DEF Request
<1>3. CASE End
  BY <1>3 DEF End, Stop, selectionVars, Chosen
<1>4. CASE Form
  BY <1>4 DEF Form, OpenForm, OpenUnfilled, EditForm, SaveForm, PostSettings, selectionVars, parameterVars, Chosen
<1>5. CASE Outside \/ Callback
  BY <1>5 DEF Outside, OutsideChange, Callback, on_parameter_changed, selectionVars, Chosen
<1>6. CASE Tick \/ Client \/ UNCHANGED vars
  BY <1>6 DEF Tick, Client, vars, settingsVars, selectionVars, parameterVars, Chosen
<1> QED
  BY <1>1, <1>2, <1>3, <1>4, <1>5, <1>6 DEF Next

(***************************************************************************)
(* The metrics deselected in the two scopes survive any sequence of        *)
(* requests and restarts whose file could be written.                      *)
(***************************************************************************)
THEOREM SelectionIsKept == Spec => []SelectionSurvives
<1>1. Init => Chosen
  BY DEF Init, SettingsInit, Chosen
<1>2. Chosen => SelectionSurvives
  BY DEF Chosen, SelectionSurvives
<1> QED
  BY <1>1, <1>2, ChosenStep, PTL DEF Spec

-----------------------------------------------------------------------------
\* A form has a password in it only if the user has typed one.
Fields == Full(form) /\ \A p \in KeptWhenBlank : form[p] # Blank => p \in edited

LEMMA FieldsStay == ASSUME Fields, UNCHANGED <<form, edited>> PROVE Fields'
BY DEF Fields, Full

Typed ==
    /\ PasswordKept
    /\ Fields

LEMMA TypedStep == ASSUME Complete, Typed, [Next]_vars PROVE Typed'
<1>p. KeptWhenBlank \subseteq Secrets /\ Secrets \subseteq Params
  BY SettingsAssumption
<1>1. CASE Outside
  <2>1. PasswordKept'
    BY <1>p, <1>1 DEF Outside, OutsideChange, Typed, PasswordKept, Complete, Full
  <2> QED
    BY <1>1, <2>1, FieldsStay DEF Outside, OutsideChange, formVars, Typed
<1>2. CASE Request
  <2>1. CASE \E body \in Bodies : \E failing \in AtMostOne(DOMAIN body) : Post(body, failing)
    BY <1>p, <2>1, FieldsStay DEF Post, PostSettings, formVars, Typed, PasswordKept
  <2>2. CASE Rebuild \/ \E scope \in Scopes, ids \in SUBSET Metrics, saved \in BOOLEAN :
                selection_set_disabled(scope, ids, saved)
    BY <2>2, FieldsStay DEF Rebuild, selection_set_disabled, formVars, parameterVars, Typed, PasswordKept
  <2> QED
    BY <1>2, <2>1, <2>2 DEF Request
<1>3. CASE Form
  <2>1. CASE OpenForm
    BY <1>p, <2>1 DEF OpenForm, parameterVars, Typed, Fields, PasswordKept, Full
  <2>2. CASE OpenUnfilled
    <3>1. PasswordKept'
      BY <2>2 DEF OpenUnfilled, parameterVars, Typed, PasswordKept
    <3>2. CASE form' = Unfilled /\ edited' = {}
      <4>1. form' = [p \in Params |-> form'[p]]
        BY <3>2, SettingsAssumption
      <4>2. \A p \in KeptWhenBlank : form'[p] = Blank
        BY <1>p, <3>2, SettingsAssumption
      <4> QED
        BY <3>1, <4>1, <4>2 DEF Typed, Fields, Full
    <3> QED
      BY <2>2, <3>1, <3>2, FieldsStay DEF OpenUnfilled, Typed
  <2>3. CASE \E p \in Params : \E v \in ValuesOf[p] : EditForm(p, v)
    <3>1. PasswordKept'
      BY <2>3 DEF EditForm, parameterVars, Typed, PasswordKept
    <3>2. Fields'
      <4>1. PICK p \in Params : \E v \in ValuesOf[p] : EditForm(p, v)
        BY <2>3
      <4>2. PICK v \in ValuesOf[p] : EditForm(p, v)
        BY <4>1
      <4>3. form = [q \in Params |-> form[q]]
        BY DEF Typed, Fields, Full
      <4>4. form' = [q \in Params |-> form'[q]] /\ \A q \in Params \ {p} : form'[q] = form[q]
        <5>1. CASE p \in StuckBoxes
          BY <4>2, <4>3, <5>1 DEF EditForm
        <5>2. CASE p \notin StuckBoxes
          BY <4>2, <4>3, <5>2 DEF EditForm
        <5> QED
          BY <5>1, <5>2
      <4>5. edited' = edited \cup {p}
        BY <4>2 DEF EditForm
      <4> QED
        BY <1>p, <4>4, <4>5 DEF Typed, Fields, Full
    <3> QED
      BY <3>1, <3>2 DEF Typed
  <2>4. CASE \E failing \in AtMostOne(Params), answered \in BOOLEAN : SaveForm(failing, answered)
    <3>1. PasswordKept'
      <4>1. PICK failing \in AtMostOne(Params), answered \in BOOLEAN : SaveForm(failing, answered)
        BY <2>4
      <4>2. /\ stored' = [p \in Params |->
                 IF p \in Written(collectSettings, failing) THEN collectSettings[p] ELSE stored[p]]
            /\ secret' = [p \in KeptWhenBlank |->
                 IF p \in edited \ failing /\ form[p] \notin {Blank, value[p]} THEN form[p] ELSE secret[p]]
        BY <4>1 DEF SaveForm, PostSettings
      <4>3. ASSUME NEW p \in KeptWhenBlank
            PROVE  /\ p \in Written(collectSettings, failing)
                         <=> form[p] # Blank /\ value[p] # form[p] /\ p \notin failing
                   /\ form[p] # Blank => collectSettings[p] = form[p] /\ p \in edited
        BY <1>p DEF Written, collectSettings, Typed, Fields
      <4> QED
        BY <1>p, <4>2, <4>3 DEF Typed, PasswordKept
    <3> QED
      BY <2>4, <3>1, FieldsStay DEF SaveForm, Typed
  <2> QED
    BY <1>3, <2>1, <2>2, <2>3, <2>4 DEF Form
<1>4. CASE Start \/ End \/ Callback
  BY <1>4, FieldsStay DEF Start, load_parameter, Launch, End, Stop, Callback, on_parameter_changed, formVars,
              Typed, PasswordKept
<1>5. CASE Tick \/ Client \/ UNCHANGED vars
  BY <1>5, FieldsStay DEF Tick, Client, vars, settingsVars, formVars, parameterVars, Typed, PasswordKept
<1> QED
  BY <1>1, <1>2, <1>3, <1>4, <1>5 DEF Next

(***************************************************************************)
(* No save of the settings form changes the MQTT password unless the user  *)
(* typed one into it, however stale or unfilled the form and whatever      *)
(* fails.                                                                  *)
(***************************************************************************)
THEOREM PasswordIsKept == Spec => []PasswordKept
<1>1. Init => Typed
  BY SettingsAssumption DEF Init, SettingsInit, Typed, Fields, PasswordKept, Full
<1>2. Typed => PasswordKept
  BY DEF Typed
<1> QED
  BY <1>1, <1>2, TypedStep, CompleteHolds, PTL DEF Spec

-----------------------------------------------------------------------------
\* The code's count is the number of frames missed in a row, and where a write
\* waits for room none is missed.
Counted ==
    /\ Streaming \subseteq Clients
    /\ room \in [Clients -> Nat] /\ missed \in [Clients -> Nat]
    /\ \A c \in Streaming : sse_clients[c].stalled = missed[c] /\ missed[c] < SSE_MAX_STALLED
    /\ dropped \subseteq Clients
    /\ \A c \in dropped : missed[c] = SSE_MAX_STALLED
    /\ unwritten \subseteq Streaming /\ dropped \cap Streaming = {}
    /\ (dropped = {}) \/ ~waits

LEMMA BroadcastCounts == ASSUME Counted, sse_broadcast PROVE Counted'
BY EventStreamAssumption DEF Counted, sse_broadcast, Streaming

LEMMA WriteCounts == ASSUME Counted, NEW c \in Clients, sse_write(c) PROVE Counted'
<1>1. /\ Stalled(c) = missed'[c]
      /\ Stalled(c) \in Nat /\ Stalled(c) <= SSE_MAX_STALLED
      /\ \A d \in Clients \ {c} : missed'[d] = missed[d]
      /\ c \in Streaming /\ c \notin dropped
  BY EventStreamAssumption DEF Counted, sse_write, Stalled, CountOn
<1>2. room' \in [Clients -> Nat] /\ missed' \in [Clients -> Nat]
  BY EventStreamAssumption DEF Counted, sse_write, CountOn, FRAME
<1>3. /\ Streaming' = IF Dropped(c) THEN Streaming \ {c} ELSE Streaming
      /\ \A d \in Streaming' : sse_clients'[d].stalled = IF d = c THEN Stalled(c) ELSE sse_clients[d].stalled
  BY DEF sse_write, Streaming
<1>4. c \in Streaming' => Stalled(c) < SSE_MAX_STALLED
  BY <1>1, <1>3, EventStreamAssumption DEF Dropped
<1>5. /\ unwritten' = unwritten \ {c} /\ waits' = waits
      /\ dropped' = IF Dropped(c) /\ ~Failing(c) THEN dropped \cup {c} ELSE dropped
  BY DEF sse_write
<1>6. ASSUME Dropped(c), ~Failing(c) PROVE Stalled(c) = SSE_MAX_STALLED /\ ~waits
  <2>1. Stalled(c) >= SSE_MAX_STALLED
    BY <1>6 DEF Dropped
  <2>2. room[c] = 0
    BY <2>1, EventStreamAssumption DEF Stalled, Counted
  <2> QED
    BY <1>1, <1>6, <2>1, <2>2, EventStreamAssumption DEF sse_write
<1> QED
  BY <1>1, <1>2, <1>3, <1>4, <1>5, <1>6, EventStreamAssumption DEF Counted

LEMMA CountedStep == ASSUME Counted, [Next]_vars PROVE Counted'
<1>1. CASE Tick
  BY <1>1, BroadcastCounts, WriteCounts DEF Tick
<1>2. ASSUME NEW c \in Clients, sse_add(c) PROVE Counted'
  BY <1>2, EventStreamAssumption DEF sse_add, Counted, Streaming
<1>3. ASSUME NEW c \in Clients, ClientReads(c) PROVE Counted'
  BY <1>3, EventStreamAssumption DEF ClientReads, Counted, Streaming
<1>4. CASE Client
  BY <1>2, <1>3, <1>4 DEF Client, ClientGone, Counted, Streaming
<1>5. CASE End
  BY <1>5, EventStreamAssumption DEF End, stream_close, Counted, Streaming
<1>6. CASE Start \/ Outside \/ Callback \/ Request \/ Form \/ UNCHANGED vars
  BY <1>6 DEF Start, Outside, Callback, Request, Form, vars, streamVars, Counted, Streaming
<1> QED
  BY <1>1, <1>4, <1>5, <1>6 DEF Next

(***************************************************************************)
(* For any number of clients: a client that can be written to is dropped   *)
(* exactly when it has missed SSE_MAX_STALLED frames in a row, and none is *)
(* where a write waits for room.                                           *)
(***************************************************************************)
THEOREM OnlyStalledAreDropped == Spec => []DroppedWhenStalled
<1>1. Init => Counted
  BY EventStreamAssumption DEF Init, StreamInit, Counted, Streaming
<1>2. Counted => DroppedWhenStalled
  BY DEF Counted, DroppedWhenStalled
<1> QED
  BY <1>1, <1>2, CountedStep, PTL DEF Spec
-----------------------------------------------------------------------------
(***************************************************************************)
(* The program's copy of the parameters agrees with the parameter store    *)
(* once all callbacks are dispatched.  The invariant says what the         *)
(* callbacks still under way will bring: for every parameter the last of   *)
(* them carries the stored value, and if there is none the two agree       *)
(* already.                                                                *)
(***************************************************************************)
Val == {Blank} \cup {Unfilled[p] : p \in Params} \cup UNION {ValuesOf[p] : p \in Params}
News == Params \X Val

Silent(s, p) == \A i \in 1 .. Len(s) : s[i][1] # p
Final(s, p, v) ==
    \E i \in 1 .. Len(s) : s[i][1] = p /\ s[i][2] = v /\ \A j \in 1 .. Len(s) : j > i => s[j][1] # p

(***************************************************************************)
(* Queues of news.                                                         *)
(***************************************************************************)
LEMMA SeqOfFunction ==
    ASSUME NEW n \in Nat, NEW f \in [1 .. n -> News] PROVE f \in Seq(News) /\ Len(f) = n
OBVIOUS

LEMMA ConcatSilent ==
    ASSUME NEW s \in Seq(News), NEW t \in Seq(News), NEW p, Silent(t, p)
    PROVE  /\ Silent(s, p) => Silent(s \o t, p)
           /\ \A v : Final(s, p, v) => Final(s \o t, p, v)
<1>1. /\ Len(s \o t) = Len(s) + Len(t) /\ Len(s) \in Nat /\ Len(t) \in Nat
      /\ \A i \in 1 .. Len(s) : (s \o t)[i] = s[i]
      /\ \A i \in 1 .. Len(s) + Len(t) : i > Len(s) => (s \o t)[i] = t[i - Len(s)]
  OBVIOUS
<1>2. \A i \in 1 .. Len(s \o t) : i > Len(s) => (s \o t)[i][1] # p
  BY <1>1 DEF Silent
<1>3. Silent(s, p) => Silent(s \o t, p)
  BY <1>1, <1>2 DEF Silent
<1>4. ASSUME NEW v, Final(s, p, v) PROVE Final(s \o t, p, v)
  <2>1. PICK i \in 1 .. Len(s) :
           s[i][1] = p /\ s[i][2] = v /\ \A j \in 1 .. Len(s) : j > i => s[j][1] # p
    BY <1>4 DEF Final
  <2>2. i \in 1 .. Len(s \o t) /\ (s \o t)[i] = s[i]
    BY <1>1
  <2>3. \A j \in 1 .. Len(s \o t) : j > i => (s \o t)[j][1] # p
    BY <1>1, <1>2, <2>1
  <2> QED
    BY <2>1, <2>2, <2>3 DEF Final
<1> QED
  BY <1>3, <1>4

LEMMA ConcatFinal ==
    ASSUME NEW s \in Seq(News), NEW t \in Seq(News), NEW p, NEW v, Final(t, p, v)
    PROVE  Final(s \o t, p, v)
<1>1. /\ Len(s \o t) = Len(s) + Len(t) /\ Len(s) \in Nat /\ Len(t) \in Nat
      /\ \A i \in 1 .. Len(s) + Len(t) : i > Len(s) => (s \o t)[i] = t[i - Len(s)]
  OBVIOUS
<1>2. PICK i \in 1 .. Len(t) :
         t[i][1] = p /\ t[i][2] = v /\ \A j \in 1 .. Len(t) : j > i => t[j][1] # p
  BY DEF Final
<1>3. Len(s) + i \in 1 .. Len(s \o t) /\ (s \o t)[Len(s) + i] = t[i]
  BY <1>1
<1>4. ASSUME NEW j \in 1 .. Len(s \o t), j > Len(s) + i PROVE (s \o t)[j][1] # p
  BY <1>1, <1>2, <1>4
<1> QED
  BY <1>2, <1>3, <1>4 DEF Final

LEMMA TailNews ==
    ASSUME NEW s \in Seq(News), s # << >>, NEW p
    PROVE  /\ Head(s) \in News /\ Tail(s) \in Seq(News)
           /\ Silent(s, p) => Silent(Tail(s), p) /\ Head(s)[1] # p
           /\ \A v : Final(s, p, v) => \/ Final(Tail(s), p, v)
                                       \/ Head(s)[1] = p /\ Head(s)[2] = v /\ Silent(Tail(s), p)
<1>1. /\ Len(s) \in Nat \ {0} /\ Len(Tail(s)) = Len(s) - 1 /\ Head(s) = s[1]
      /\ \A i \in 1 .. Len(s) - 1 : Tail(s)[i] = s[i + 1]
      /\ Head(s) \in News /\ Tail(s) \in Seq(News)
  OBVIOUS
<1>2. ASSUME Silent(s, p) PROVE Silent(Tail(s), p) /\ Head(s)[1] # p
  BY <1>1, <1>2 DEF Silent
<1>3. ASSUME NEW v, Final(s, p, v)
      PROVE  \/ Final(Tail(s), p, v)
             \/ Head(s)[1] = p /\ Head(s)[2] = v /\ Silent(Tail(s), p)
  <2>1. PICK i \in 1 .. Len(s) :
           s[i][1] = p /\ s[i][2] = v /\ \A j \in 1 .. Len(s) : j > i => s[j][1] # p
    BY <1>3 DEF Final
  <2>2. \A j \in 1 .. Len(Tail(s)) : j + 1 > i => Tail(s)[j][1] # p
    BY <1>1, <2>1
  <2>3. CASE i = 1
    BY <1>1, <2>1, <2>2, <2>3 DEF Silent
  <2>4. CASE i > 1
    <3>1. i - 1 \in 1 .. Len(Tail(s)) /\ Tail(s)[i - 1] = s[i]
      BY <1>1, <2>4
    <3>2. \A j \in 1 .. Len(Tail(s)) : j > i - 1 => Tail(s)[j][1] # p
      BY <1>1, <2>2
    <3> QED
      BY <2>1, <3>1, <3>2 DEF Final
  <2> QED
    BY <2>3, <2>4
<1> QED
  BY <1>1, <1>2, <1>3

LEMMA OneNews ==
    ASSUME NEW e \in News, NEW p
    PROVE  /\ <<e>> \in Seq(News)
           /\ e[1] # p => Silent(<<e>>, p)
           /\ e[1] = p => Final(<<e>>, p, e[2])
BY DEF Silent, Final

-----------------------------------------------------------------------------
Types ==
    /\ stored \in [Params -> Val] /\ value \in [Params -> Val]
    /\ pending \in Seq(News) /\ registered \subseteq Params
    /\ form \in [Params -> Val]

\* What the program knows of a parameter is right or will be.
Heard(p) ==
    \/ Silent(pending, p) /\ value[p] = stored[p]
    \/ Final(pending, p, stored[p])

Agreement ==
    /\ Types
    /\ \A p \in Params : p \notin registered => Silent(pending, p)
    /\ state # "running" => pending = << >> /\ registered = {}
    /\ state = "loading" => \A p \in Params \ unheard : value[p] = stored[p]
    /\ state = "running" => \A p \in Params \ unheard : Heard(p)

\* What a request may ask for.
Sensible(body) == DOMAIN body \subseteq Params /\ \A p \in DOMAIN body : body[p] \in Val

\* The news of a request: each parameter in S once, in some order.
OnceEach(told, S) ==
    /\ told \in [1 .. Cardinality(S) -> S]
    /\ \A p \in S : \E i \in DOMAIN told : told[i] = p /\ \A j \in DOMAIN told \ {i} : told[j] # p
Report(body, told) == [i \in DOMAIN told |-> <<told[i], body[told[i]]>>]

LEMMA NewsOf ==
    ASSUME NEW body, Sensible(body), NEW S \in SUBSET Params, S \subseteq DOMAIN body,
           NEW told, OnceEach(told, S)
    PROVE  /\ Report(body, told) \in Seq(News)
           /\ \A p \in S : Final(Report(body, told), p, body[p])
           /\ \A p : p \notin S => Silent(Report(body, told), p)
<1> DEFINE news == Report(body, told)
<1>1. Cardinality(S) \in Nat
  BY SettingsAssumption, FS_Subset, FS_CardinalityType
<1>2. DOMAIN told = 1 .. Cardinality(S) /\ \A i \in DOMAIN told : told[i] \in S
  BY DEF OnceEach
<1>3. \A i \in 1 .. Cardinality(S) : news[i] \in News /\ news[i] = <<told[i], body[told[i]]>>
  BY <1>2 DEF Sensible, News, Report
<1>4. news \in Seq(News) /\ Len(news) = Cardinality(S)
  <2>1. news \in [1 .. Cardinality(S) -> News]
    BY <1>2, <1>3 DEF Report
  <2> QED
    BY <1>1, <2>1, SeqOfFunction
<1>5. ASSUME NEW p, p \notin S PROVE Silent(news, p)
  <2>1. \A i \in 1 .. Cardinality(S) : told[i] # p /\ news[i][1] = told[i]
    BY <1>2, <1>3, <1>5
  <2> QED
    BY <1>4, <2>1 DEF Silent
<1>6. ASSUME NEW p \in S PROVE Final(news, p, body[p])
  <2>1. PICK i \in 1 .. Cardinality(S) :
           told[i] = p /\ \A j \in 1 .. Cardinality(S) : j # i => told[j] # p
    BY <1>2 DEF OnceEach
  <2>2. news[i][1] = p /\ news[i][2] = body[p]
    BY <1>3, <2>1
  <2>3. \A j \in 1 .. Len(news) : j > i => news[j][1] # p
    BY <1>1, <1>3, <1>4, <2>1
  <2> QED
    BY <1>4, <2>1, <2>2, <2>3 DEF Final
<1> QED
  BY <1>4, <1>5, <1>6

LEMMA PostAgrees ==
    ASSUME Agreement, NEW body, Sensible(body), NEW failing, PostSettings(body, failing),
           form' = form
    PROVE  Agreement'
<1> DEFINE written == Written(body, failing)
           S == written \cap registered
<1>1. written \subseteq DOMAIN body /\ written \subseteq Params /\ S \subseteq Params
  BY DEF Written, Sensible
<1>2. PICK told : OnceEach(told, S) /\ pending' = pending \o Report(body, told)
  BY DEF PostSettings, OnceEach, Report
<1> DEFINE news == Report(body, told)
<1>3. /\ news \in Seq(News) /\ pending \in Seq(News) /\ pending' = pending \o news
      /\ \A p \in S : Final(news, p, body[p])
      /\ \A p : p \notin S => Silent(news, p)
  BY <1>1, <1>2, NewsOf DEF Agreement, Types
<1> HIDE DEF news
<1>4. /\ state = "running" /\ state' = "running" /\ registered' = registered
      /\ unheard' = unheard \ written
      /\ value' = [p \in Params |-> IF p \in written THEN body[p] ELSE value[p]]
      /\ stored' = [p \in Params |-> IF p \in written THEN body[p] ELSE stored[p]]
  BY DEF PostSettings, Accepted
<1> HIDE DEF written
<1>5. Types'
  <2>1. pending' \in Seq(News)
    BY <1>3
  <2>2. \A p \in written : body[p] \in Val
    BY <1>1 DEF Sensible
  <2> QED
    BY <1>4, <2>1, <2>2 DEF Agreement, Types
<1>6. ASSUME NEW p \in Params, p \notin S
      PROVE  /\ Silent(pending, p) => Silent(pending', p)
             /\ \A v : Final(pending, p, v) => Final(pending', p, v)
  BY <1>3, <1>6, ConcatSilent
<1>7. ASSUME NEW p \in Params \ unheard' PROVE Heard(p)'
  <2>1. CASE p \in S
    <3>1. Final(pending', p, body[p])
      BY <1>3, <2>1, ConcatFinal
    <3> QED
      BY <1>4, <2>1, <3>1 DEF Heard
  <2>2. CASE p \in written /\ p \notin S
    <3>1. Silent(pending', p)
      BY <1>6, <2>2 DEF Agreement
    <3> QED
      BY <1>4, <2>2, <3>1 DEF Heard
  <2>3. CASE p \notin written
    <3>1. Heard(p) /\ value'[p] = value[p] /\ stored'[p] = stored[p]
      BY <1>4, <1>7, <2>3 DEF Agreement
    <3> QED
      BY <1>6, <2>3, <3>1 DEF Heard
  <2> QED
    BY <2>1, <2>2, <2>3
<1>8. ASSUME NEW p \in Params, p \notin registered' PROVE Silent(pending', p)
  BY <1>4, <1>6, <1>8 DEF Agreement
<1> QED
  BY <1>4, <1>5, <1>7, <1>8 DEF Agreement

LEMMA QuietStep ==
    ASSUME Agreement, UNCHANGED parameterVars, form' \in [Params -> Val] \/ form' = form
    PROVE  Agreement'
BY DEF Agreement, Types, Heard, Silent, Final, parameterVars

LEMMA OutsideAgrees ==
    ASSUME Agreement, NEW p \in Params, NEW v \in ValuesOf[p], OutsideChange(p, v) PROVE Agreement'
<1>0. v \in Val /\ <<p, v>> \in News /\ pending \in Seq(News)
  BY DEF Val, News, Agreement, Types
<1>1. /\ stored' = [stored EXCEPT ![p] = v] /\ value' = value /\ form' = form
      /\ state' = state /\ registered' = registered
  BY DEF OutsideChange, formVars
<1>2. CASE p \in registered
  <2>1. pending' = pending \o <<<<p, v>>>> /\ unheard' = unheard \ {p}
    BY <1>0, <1>2 DEF OutsideChange
  <2>2. <<<<p, v>>>> \in Seq(News) /\ Final(<<<<p, v>>>>, p, v)
    BY <1>0, OneNews
  <2>3. \A q \in Params : q # p => Silent(<<<<p, v>>>>, q)
    BY <1>0, OneNews
  <2>4. Final(pending', p, v) /\ pending' \in Seq(News)
    <3>1. pending' \in Seq(News)
      BY <1>0, <2>1, <2>2
    <3>2. Final(pending \o <<<<p, v>>>>, p, v)
      BY <1>0, <2>2, ConcatFinal, Zenon
    <3> QED
      BY <2>1, <3>1, <3>2
  <2>5. ASSUME NEW q \in Params, q # p
        PROVE  /\ Silent(pending, q) => Silent(pending', q)
               /\ \A w : Final(pending, q, w) => Final(pending', q, w)
    BY <1>0, <2>1, <2>2, <2>3, <2>5, ConcatSilent
  <2>6. state = "running"
    BY <1>2 DEF Agreement
  <2>7. Types'
    BY <1>0, <1>1, <2>4 DEF Agreement, Types
  <2>8. ASSUME NEW q \in Params \ unheard' PROVE Heard(q)'
    <3>1. CASE q = p
      BY <1>1, <2>4, <3>1 DEF Heard, Agreement, Types
    <3>2. CASE q # p
      <4>1. Heard(q) /\ value'[q] = value[q] /\ stored'[q] = stored[q]
        BY <1>1, <2>1, <2>6, <2>8, <3>2 DEF Agreement, Types
      <4> QED
        BY <2>5, <3>2, <4>1 DEF Heard
    <3> QED
      BY <3>1, <3>2
  <2>9. ASSUME NEW q \in Params, q \notin registered' PROVE Silent(pending', q)
    BY <1>1, <1>2, <2>5, <2>9 DEF Agreement
  <2> QED
    BY <1>1, <2>6, <2>7, <2>8, <2>9 DEF Agreement
<1>3. CASE p \notin registered
  <2>1. pending' = pending /\ (state # "down" => unheard' = unheard \cup {p})
    BY <1>3 DEF OutsideChange
  <2>2. \A q \in Params : q # p => stored'[q] = stored[q]
    BY <1>1 DEF Agreement, Types
  <2>3. Types'
    BY <1>0, <1>1, <2>1 DEF Agreement, Types
  <2>4. ASSUME state = "running", NEW q \in Params \ unheard' PROVE Heard(q)'
    <3>1. Heard(q) /\ q # p
      BY <2>1, <2>4 DEF Agreement
    <3> QED
      BY <1>1, <2>1, <2>2, <3>1 DEF Heard, Silent, Final
  <2>5. state' = "loading" => \A q \in Params \ unheard' : value'[q] = stored'[q]
    BY <1>1, <2>1, <2>2 DEF Agreement
  <2>6. \A q \in Params : q \notin registered' => Silent(pending', q)
    BY <1>1, <2>1 DEF Agreement
  <2> QED
    BY <1>1, <2>1, <2>3, <2>4, <2>5, <2>6 DEF Agreement
<1> QED
  BY <1>2, <1>3

LEMMA CallbackAgrees == ASSUME Agreement, on_parameter_changed PROVE Agreement'
<1> DEFINE p == Head(pending)[1]
           v == Head(pending)[2]
<1>1. /\ state = "running" /\ pending # << >> /\ pending' = Tail(pending) /\ stored' = stored
      /\ state' = state /\ registered' = registered /\ unheard' = unheard /\ form' = form
  BY DEF on_parameter_changed, formVars
<1>2. pending \in Seq(News) /\ Head(pending) \in News /\ Tail(pending) \in Seq(News)
  BY <1>1, TailNews DEF Agreement, Types
<1>3. p \in Params /\ v \in Val
  BY <1>2 DEF News
<1>4. value' \in [Params -> Val] /\ value'[p] = v /\ \A q \in Params : q # p => value'[q] = value[q]
  <2>1. value \in [Params -> Val] /\ ((value' = value /\ value[p] = v) \/ value' = [value EXCEPT ![p] = v])
    BY DEF on_parameter_changed, Agreement, Types
  <2> QED
    BY <1>3, <2>1
<1> HIDE DEF p, v
<1>5. ASSUME NEW q \in Params
      PROVE  /\ Silent(pending, q) => Silent(pending', q) /\ p # q
             /\ \A w : Final(pending, q, w) => Final(pending', q, w) \/ (p = q /\ v = w /\ Silent(pending', q))
  BY <1>1, <1>2, TailNews DEF p, v
<1>6. Types'
  BY <1>1, <1>2, <1>4 DEF Agreement, Types
<1>7. ASSUME NEW q \in Params \ unheard' PROVE Heard(q)'
  <2>1. Heard(q)
    BY <1>1, <1>7 DEF Agreement
  <2>2. CASE Silent(pending, q) /\ value[q] = stored[q]
    BY <1>1, <1>4, <1>5, <2>2 DEF Heard
  <2>3. CASE Final(pending, q, stored[q])
    BY <1>1, <1>4, <1>5, <2>3 DEF Heard
  <2> QED
    BY <2>1, <2>2, <2>3 DEF Heard
<1>8. \A q \in Params : q \notin registered' => Silent(pending', q)
  BY <1>1, <1>5 DEF Agreement
<1> QED
  BY <1>1, <1>6, <1>7, <1>8 DEF Agreement

LEMMA StartAgrees == ASSUME Agreement, Start PROVE Agreement'
<1>e. \A p : Silent(<< >>, p)
  BY DEF Silent
<1>f. Fallback \in [Params -> Val]
  BY SettingsAssumption DEF Val
<1>1. ASSUME NEW failing, load_parameter(failing) PROVE Agreement'
  BY <1>1, <1>e, <1>f DEF load_parameter, formVars, Agreement, Types
<1>2. ASSUME NEW failing, Launch(failing) PROVE Agreement'
  <2>1. /\ state = "loading" /\ state' = "running" /\ registered' \subseteq Params
        /\ pending' = pending /\ pending = << >> /\ form' = form
        /\ stored' = stored /\ value' = value /\ unheard' = unheard
    BY <1>2 DEF Launch, formVars, Agreement
  <2>2. \A p \in Params \ unheard' : Heard(p)'
    BY <1>e, <2>1 DEF Agreement, Heard
  <2> QED
    BY <1>e, <2>1, <2>2 DEF Agreement, Types
<1> QED
  BY <1>1, <1>2 DEF Start

LEMMA AgreementStep == ASSUME Agreement, [Next]_vars PROVE Agreement'
<1>1. CASE Request
  <2>1. ASSUME NEW body \in Bodies, NEW failing, Post(body, failing) PROVE Agreement'
    <3>1. Sensible(body)
      BY DEF Bodies, Sensible, Val
    <3> QED
      BY <2>1, <3>1, PostAgrees DEF Post, formVars
  <2>2. ASSUME NEW scope, NEW ids, NEW saved, selection_set_disabled(scope, ids, saved) PROVE Agreement'
    BY <2>2, QuietStep DEF selection_set_disabled, formVars
  <2>3. CASE Rebuild
    BY <2>3 DEF Rebuild, formVars, Agreement, Types, Heard, Silent, Final
  <2> QED
    BY <1>1, <2>1, <2>2, <2>3 DEF Request
<1>2. CASE Form
  <2>1. CASE OpenForm
    <3>1. form' \in [Params -> Val] /\ UNCHANGED parameterVars
      BY <2>1 DEF OpenForm, Agreement, Types, Val
    <3> QED
      BY <3>1, QuietStep
  <2>2. ASSUME NEW p \in Params, NEW v \in ValuesOf[p], EditForm(p, v) PROVE Agreement'
    <3>1. (form' \in [Params -> Val] \/ form' = form) /\ UNCHANGED parameterVars
      BY <2>2 DEF EditForm, Agreement, Types, Val
    <3> QED
      BY <3>1, QuietStep
  <2>3. ASSUME NEW failing, NEW answered, SaveForm(failing, answered) PROVE Agreement'
    <3>1. Sensible(collectSettings)
      BY <2>3 DEF SaveForm, Agreement, Types, collectSettings, Sensible
    <3> QED
      BY <2>3, <3>1, PostAgrees DEF SaveForm
  <2>4. CASE OpenUnfilled
    <3>1. (form' \in [Params -> Val] \/ form' = form) /\ UNCHANGED parameterVars
      BY <2>4, SettingsAssumption DEF OpenUnfilled, Val
    <3> QED
      BY <3>1, QuietStep
  <2> QED
    BY <1>2, <2>1, <2>2, <2>3, <2>4 DEF Form
<1>3. CASE End
  <2>1. \A p : Silent(<< >>, p)
    BY DEF Silent
  <2> QED
    BY <1>3, <2>1 DEF End, Stop, formVars, Agreement, Types
<1>4. CASE Tick \/ Client \/ UNCHANGED vars
  BY <1>4, QuietStep DEF Tick, Client, vars, settingsVars, formVars
<1> QED
  BY <1>1, <1>2, <1>3, <1>4, StartAgrees, OutsideAgrees, CallbackAgrees DEF Next, Outside, Callback

(***************************************************************************)
(* For any parameters: once every callback has been dispatched the         *)
(* program's copy of a parameter is what the store holds, in whatever      *)
(* order requests, outside changes and callbacks came and whichever writes *)
(* failed, unless the program missed it when it started.                   *)
(***************************************************************************)
THEOREM ParametersAgree == Spec => []QuiescentAgrees
<1>1. Init => Agreement
  <2>1. Fallback \in [Params -> Val] /\ Unfilled \in [Params -> Val] /\ \A p : Silent(<< >>, p)
    BY SettingsAssumption DEF Val, Silent
  <2> QED
    BY <2>1 DEF Init, SettingsInit, Agreement, Types
<1>2. Agreement => QuiescentAgrees
  <2>1. \A p, v : ~Final(<< >>, p, v)
    BY DEF Final
  <2> QED
    BY <2>1 DEF Agreement, QuiescentAgrees, Heard
<1> QED
  BY <1>1, <1>2, AgreementStep, PTL DEF Spec
=============================================================================
