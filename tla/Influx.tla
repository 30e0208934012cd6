------------------------------- MODULE Influx -------------------------------
(***************************************************************************)
(* The InfluxDB writer of influx.c: the main loop builds payloads and      *)
(* queues them, a worker thread pops and writes them, settings change at   *)
(* any time, and influx_free stops the worker.                             *)
(*                                                                         *)
(* The two threads share the queue (GAsyncQueue: every operation on it is  *)
(* atomic), and the configuration and the state under state_lock; a        *)
(* critical section is one step.  influx_state reads the state without the *)
(* lock, so a read that meets set_state may return a mixture.              *)
(*                                                                         *)
(* A payload is the address of its buffer, which the allocator may reuse   *)
(* once it is freed.                                                       *)
(***************************************************************************)
EXTENDS Integers, Sequences, FiniteSets

CONSTANTS
    Buffers,       \* addresses a payload may have
    QUIT,          \* the address of the static QUIT marker
    Configs,       \* settings: [enabled, url, interval_s]
    NoUrl,         \* an empty url
    MaxInterval,   \* no interval_s is longer, in sampling periods
    Nothing        \* no configuration, no buffer

ASSUME InfluxAssumption ==
    /\ QUIT \notin Buffers /\ Nothing \notin Buffers /\ QUIT # Nothing
    /\ Cardinality(Buffers) >= 3
    /\ MaxInterval \in Nat \ {0}
    /\ \A c \in Configs : c.enabled \in BOOLEAN /\ c.interval_s \in 1 .. MaxInterval
    /\ Nothing \notin Configs

Results == {"connected", "unauthorized", "error"}
States == Results \cup {"disabled", "pending"}

VARIABLES
    main,      \* where the main loop is: "idle", "push", "join" or "freed"
    config,    \* influx->config
    elapsed,   \* sampling periods since last_write; MaxInterval once due anyway
    queue,     \* influx->queue
    state,     \* influx->state
    status,    \* api.influx_status, or "torn"
    worker,    \* the worker: pc, its payload, its copy of the config, its result
    heap,      \* allocated payloads
    newest,    \* auxiliary: the payload built last
    source     \* auxiliary: the configuration whose write set the state

vars == <<main, config, elapsed, queue, state, status, worker, heap, newest, source>>

Idle == [pc |-> "pop", payload |-> Nothing, config |-> Nothing, result |-> "error"]

\* influx_new, then apply_influx_settings.
Init ==
    /\ main = "idle"
    /\ config \in Configs
    /\ elapsed = MaxInterval
    /\ queue = << >>
    /\ state = IF config.enabled THEN "pending" ELSE "disabled"
    /\ status = "empty"
    /\ worker = Idle
    /\ heap = {}
    /\ newest = Nothing /\ source = Nothing

Queued == {queue[j] : j \in 1 .. Len(queue)}

(***************************************************************************)
(* The main loop.                                                          *)
(***************************************************************************)
\* A changed setting: the writer is due at once when it has just been enabled.
influx_apply(c) ==
    /\ main = "idle"
    /\ config' = c
    /\ state' = IF ~c.enabled THEN "disabled"
                ELSE IF ~config.enabled THEN "pending" ELSE state
    /\ elapsed' = IF c.enabled /\ ~config.enabled THEN MaxInterval ELSE elapsed
    /\ source' = IF c.enabled /\ config.enabled THEN source ELSE Nothing
    /\ UNCHANGED <<main, queue, status, worker, heap, newest>>

\* influx_state, read while the worker may be inside set_state.
influx_state(s) ==
    IF ~config.enabled THEN s = "disabled"
    ELSE s \in {state} \cup (IF worker.pc = "set" THEN {worker.result, "torn"} ELSE {})

Age == IF elapsed < MaxInterval THEN elapsed + 1 ELSE MaxInterval
Due == config.enabled /\ config.url # NoUrl /\ Age >= config.interval_s

\* on_sample_tick when nothing is due.
QuietTick ==
    /\ main = "idle" /\ ~Due
    /\ elapsed' = Age
    /\ influx_state(status')
    /\ UNCHANGED <<main, config, queue, state, worker, heap, newest, source>>

M_TickWithoutDraining ==
    /\ main = "idle" /\ Due
    /\ main' = "push"
    /\ elapsed' = 0
    /\ UNCHANGED <<config, queue, state, status, worker, heap, newest, source>>

\* influx_tick, up to the end of the loop that drops what is still queued.
influx_tick ==
    /\ main = "idle" /\ Due
    /\ main' = "push"
    /\ elapsed' = 0
    /\ queue' = << >> /\ heap' = heap \ Queued
    /\ UNCHANGED <<config, state, status, worker, newest, source>>

\* The rest of it: build_payload and push, unless the line has no fields.
Push ==
    /\ main = "push"
    /\ main' = "idle"
    /\ \/ \E p \in Buffers \ heap :
             /\ queue' = Append(queue, p) /\ heap' = heap \cup {p}
             /\ newest' = p
       \/ UNCHANGED <<queue, heap, newest>>
    /\ influx_state(status')
    /\ UNCHANGED <<config, elapsed, state, worker, source>>

M_FreeWithoutQuit ==
    /\ main = "idle"
    /\ main' = "join"
    /\ UNCHANGED <<config, elapsed, queue, state, status, worker, heap, newest, source>>

\* influx_free: stopping, and the marker that wakes the worker.
influx_free ==
    /\ main = "idle"
    /\ main' = "join"
    /\ queue' = Append(queue, QUIT)
    /\ UNCHANGED <<config, elapsed, state, status, worker, heap, newest, source>>

M_JoinWithoutWaiting ==
    /\ main = "join"
    /\ main' = "freed"
    /\ queue' = << >> /\ heap' = heap \ Queued
    /\ UNCHANGED <<config, elapsed, state, status, worker, newest, source>>

\* g_thread_join returns; what is left in the queue is freed with it.
Join ==
    /\ main = "join" /\ worker.pc = "done"
    /\ main' = "freed"
    /\ queue' = << >> /\ heap' = heap \ Queued
    /\ UNCHANGED <<config, elapsed, state, status, worker, newest, source>>

(***************************************************************************)
(* The worker thread (worker_main).                                        *)
(***************************************************************************)
Pop ==
    /\ worker.pc = "pop" /\ queue # << >>
    /\ queue' = Tail(queue)
    /\ worker' = IF Head(queue) = QUIT THEN [Idle EXCEPT !.pc = "done"]
                 ELSE [Idle EXCEPT !.pc = "config", !.payload = Head(queue)]
    /\ UNCHANGED <<main, config, elapsed, state, status, heap, newest, source>>

\* Copies the settings under the lock; a disabled writer drops the payload.
CopyConfig ==
    /\ worker.pc = "config"
    /\ IF config.enabled /\ config.url # NoUrl
       THEN /\ worker' = [worker EXCEPT !.pc = "write", !.config = config]
            /\ UNCHANGED heap
       ELSE /\ worker' = Idle
            /\ heap' = heap \ {worker.payload}
    /\ UNCHANGED <<main, config, elapsed, queue, state, status, newest, source>>

\* write_payload: the request ends, at the latest after INFLUX_TIMEOUT.
write_payload ==
    /\ worker.pc = "write"
    /\ \E r \in Results : worker' = [worker EXCEPT !.pc = "set", !.result = r]
    /\ UNCHANGED <<main, config, elapsed, queue, state, status, heap, newest, source>>

M_SuccessNotReported ==
    /\ worker.pc = "set"
    /\ state' = IF worker.result = "connected" THEN state ELSE worker.result
    /\ source' = IF worker.result = "connected" THEN source ELSE worker.config
    /\ worker' = Idle
    /\ heap' = heap \ {worker.payload}
    /\ UNCHANGED <<main, config, elapsed, queue, status, newest>>

\* set_state, and the payload is freed.
set_state ==
    /\ worker.pc = "set"
    /\ state' = worker.result
    /\ source' = worker.config
    /\ worker' = Idle
    /\ heap' = heap \ {worker.payload}
    /\ UNCHANGED <<main, config, elapsed, queue, status, newest>>

Worker == Pop \/ CopyConfig \/ write_payload \/ set_state

Next ==
    \/ \E c \in Configs : influx_apply(c)
    \/ QuietTick
    \/ influx_tick
    \/ Push
    \/ influx_free
    \/ Join
    \/ Worker

(***************************************************************************)
(* The sampling timer keeps firing and handlers run to their end.  The     *)
(* worker is woken when something is queued: main needs a whole sampling   *)
(* period before it drops the payload again, so a worker that finds work   *)
(* again and again does get to pop it.                                     *)
(***************************************************************************)
Fairness ==
    /\ WF_vars(QuietTick \/ influx_tick) /\ WF_vars(Push) /\ WF_vars(Join)
    /\ SF_vars(Pop)
    /\ WF_vars(CopyConfig) /\ WF_vars(write_payload) /\ WF_vars(set_state)

Spec == Init /\ [][Next]_vars /\ Fairness

-----------------------------------------------------------------------------
\* Every variable keeps its type.
TypeOK ==
    /\ main \in {"idle", "push", "join", "freed"}
    /\ config \in Configs
    /\ elapsed \in 0 .. MaxInterval
    /\ queue \in Seq(Buffers \cup {QUIT})
    /\ state \in States
    /\ status \in States \cup {"empty", "torn"}
    /\ worker \in [pc : {"pop", "config", "write", "set", "done"},
                   payload : Buffers \cup {Nothing}, config : Configs \cup {Nothing},
                   result : Results]
    /\ heap \subseteq Buffers
    /\ newest \in Buffers \cup {Nothing}
    /\ source \in Configs \cup {Nothing}

\* The payload the worker owns, if any.
Held == {worker.payload} \ {Nothing}

(***************************************************************************)
(* No payload is leaked, freed twice or used after it was freed: at every  *)
(* moment the allocated payloads are the queued ones and the one the       *)
(* worker holds, which are different buffers; and when influx_free returns *)
(* nothing is allocated and the worker has ended.  Main drains the queue   *)
(* while the worker may pop it, so this rests on both threads.             *)
(***************************************************************************)
OwnedOnce ==
    /\ heap = (Queued \ {QUIT}) \cup Held
    /\ Held \cap Queued = {}
    /\ \A i, j \in 1 .. Len(queue) : queue[i] = queue[j] => i = j
    /\ main = "freed" => heap = {} /\ worker.pc = "done"

\* The queue holds a single payload, the newest one built: a slow server
\* delays samples by at most the write in progress and builds no backlog.
QueueHoldsNewest ==
    /\ Queued \subseteq {newest, QUIT}
    /\ \A i, j \in 1 .. Len(queue) : queue[i] # QUIT /\ queue[j] # QUIT => i = j

\* After influx_free has been called it returns, whatever the worker was doing:
\* the marker behind a last payload is reached (influx_free, worker_main).
ShutdownCompletes == main = "join" ~> main = "freed"

(***************************************************************************)
(* A status that came from an earlier configuration does not stay: while   *)
(* the settings do not change and there is something to send again and     *)
(* again, the reported state is eventually the result of a write made with *)
(* them, or "disabled" when they say so.  (For a while it is stale: a      *)
(* request in flight sets the state after influx_apply has reset it.)      *)
(***************************************************************************)
StatusCatchesUp ==
    /\ ~config.enabled ~> config.enabled \/ status = "disabled" \/ main \in {"join", "freed"}
    /\ []<><<Push /\ heap' # heap>>_vars =>
           \A c \in {d \in Configs : d.enabled /\ d.url # NoUrl} :
               config = c ~> config # c \/ source = c
=============================================================================
