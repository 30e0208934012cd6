---------------------------- MODULE InfluxProofs ----------------------------
(***************************************************************************)
(* Ownership of payloads in Influx, for every set of buffers and settings. *)
(*                                                                         *)
(* OwnedOnce is not inductive: that main may drain the queue while the     *)
(* worker pops it rests on what the queue can look like in each phase of   *)
(* main (Shape) and on when the worker holds a payload (Worked).           *)
(***************************************************************************)
EXTENDS Influx, SequenceTheorems, TLAPS

\* What the queue holds: at most one payload, and behind it the marker.
Shape ==
    \/ queue = << >> /\ (main = "join" => worker.pc = "done")
    \/ main = "idle" /\ \E p \in Buffers : queue = <<p>> /\ p = newest
    \/ main = "join" /\ worker.pc # "done" /\ queue = <<QUIT>>
    \/ main = "join" /\ worker.pc # "done" /\ \E p \in Buffers : queue = <<p, QUIT>> /\ p = newest

\* The worker holds a payload exactly between its pop and its free; it has
\* ended only after the marker, and main has passed the join only after that.
Worked ==
    /\ worker.payload # Nothing <=> worker.pc \in {"config", "write", "set"}
    /\ worker.pc \in {"write", "set"} => worker.config \in Configs
    /\ worker.pc = "done" => main \in {"join", "freed"} /\ queue = << >>
    /\ main = "freed" => worker.pc = "done"

Owned ==
    /\ heap = (Queued \ {QUIT}) \cup Held
    /\ Held \cap Queued = {}

Inv == TypeOK /\ Shape /\ Worked /\ Owned

LEMMA Constants ==
    /\ QUIT \notin Buffers /\ Nothing \notin Buffers /\ QUIT # Nothing
    /\ MaxInterval \in Nat \ {0}
  BY InfluxAssumption

\* The elements of the four queues Shape allows.
LEMMA QueuedOf ==
    /\ queue = << >> => Queued = {}
    /\ \A p : queue = <<p>> => Queued = {p}
    /\ \A p, q : queue = <<p, q>> => Queued = {p, q}
<1>1. queue = << >> => Queued = {}
  BY DEF Queued
<1>2. ASSUME NEW p, queue = <<p>> PROVE Queued = {p}
  <2>1. Len(queue) = 1 /\ queue[1] = p
    BY <1>2
  <2>2. 1 .. Len(queue) = {1}
    BY <2>1
  <2> QED
    BY <2>1, <2>2 DEF Queued
<1>3. ASSUME NEW p, NEW q, queue = <<p, q>> PROVE Queued = {p, q}
  <2>1. Len(queue) = 2 /\ queue[1] = p /\ queue[2] = q
    BY <1>3
  <2>2. 1 .. Len(queue) = {1, 2}
    BY <2>1
  <2> QED
    BY <2>1, <2>2 DEF Queued
<1> QED
  BY <1>1, <1>2, <1>3

\* The invariant gives both safety properties of the run.
LEMMA InvGives == Inv => OwnedOnce /\ QueueHoldsNewest
<1> SUFFICES ASSUME Inv PROVE OwnedOnce /\ QueueHoldsNewest
  OBVIOUS
<1> USE Constants, QueuedOf DEF Inv
<1>1. CASE queue = << >>
  BY <1>1 DEF Owned, Worked, Held, OwnedOnce, QueueHoldsNewest
<1>2. CASE main = "idle" /\ \E p \in Buffers : queue = <<p>> /\ p = newest
  BY <1>2 DEF Owned, OwnedOnce, QueueHoldsNewest
<1>3. CASE main = "join" /\ queue = <<QUIT>>
  BY <1>3 DEF Owned, OwnedOnce, QueueHoldsNewest
<1>4. CASE main = "join" /\ \E p \in Buffers : queue = <<p, QUIT>> /\ p = newest
  BY <1>4 DEF Owned, OwnedOnce, QueueHoldsNewest
<1> QED
  BY <1>1, <1>2, <1>3, <1>4 DEF Shape

LEMMA InitInv == Init => Inv
<1> SUFFICES ASSUME Init PROVE Inv
  OBVIOUS
<1> USE Constants
<1>1. TypeOK
  <2>1. state \in States /\ status \in States \cup {"empty", "torn"}
    BY DEF Init, States
  <2>2. worker \in [pc : {"pop", "config", "write", "set", "done"},
                   payload : Buffers \cup {Nothing}, config : Configs \cup {Nothing},
                   result : Results]
    BY DEF Init, Idle, Results
  <2> QED
    BY <2>1, <2>2 DEF Init, TypeOK
<1>2. Shape
  BY DEF Init, Shape
<1>3. Worked
  BY DEF Init, Idle, Worked
<1>4. Owned
  BY QueuedOf DEF Init, Idle, Owned, Held
<1> QED
  BY <1>1, <1>2, <1>3, <1>4 DEF Inv

-----------------------------------------------------------------------------
\* Steps that leave the queue, the heap and the worker's place alone.
LEMMA QuietSteps ==
    ASSUME Inv, \/ \E c \in Configs : influx_apply(c)
                \/ QuietTick
    PROVE  Inv'
<1> USE Constants DEF Inv
<1>1. main' = main /\ queue' = queue /\ worker' = worker /\ heap' = heap /\ newest' = newest
  BY DEF influx_apply, QuietTick
<1>2. Queued' = Queued /\ Held' = Held
  BY <1>1 DEF Queued, Held
<1>3. TypeOK'
  <2>1. CASE \E c \in Configs : influx_apply(c)
    BY <2>1, <1>1 DEF influx_apply, TypeOK, States
  <2>2. CASE QuietTick
    <3>1. status' \in States \cup {"empty", "torn"}
      BY <2>2 DEF QuietTick, influx_state, TypeOK, States, Results
    <3>2. Age \in 0 .. MaxInterval
      BY DEF Age, TypeOK
    <3> QED
      BY <2>2, <3>1, <3>2, <1>1 DEF QuietTick, TypeOK
  <2> QED
    BY <2>1, <2>2
<1>4. Shape' /\ Worked' /\ Owned'
  BY <1>1, <1>2 DEF Shape, Worked, Owned
<1> QED
  BY <1>3, <1>4

\* influx_tick frees what is queued and empties the queue.
LEMMA TickStep == ASSUME Inv, influx_tick PROVE Inv'
<1> USE Constants DEF Inv, influx_tick
<1>1. Queued' = {} /\ Held' = Held
  BY DEF Queued, Held
<1>2. TypeOK'
  BY DEF TypeOK
<1>3. Shape' /\ Worked'
  BY DEF Shape, Worked
<1>4. QUIT \notin Queued
  BY QueuedOf DEF Shape
<1>5. Owned'
  BY <1>1, <1>4 DEF Owned
<1> QED
  BY <1>2, <1>3, <1>5

\* Push queues a buffer that is not allocated, so nobody holds it.
LEMMA PushStep == ASSUME Inv, Push PROVE Inv'
<1> USE Constants DEF Inv
<1>0. main = "push" /\ main' = "idle" /\ queue = << >> /\ worker' = worker /\ Held' = Held
      /\ config' = config /\ elapsed' = elapsed /\ state' = state /\ source' = source
  BY DEF Push, Shape, Held
<1>1. status' \in States \cup {"empty", "torn"}
  BY DEF Push, influx_state, TypeOK, States, Results
<1>2. CASE UNCHANGED <<queue, heap, newest>>
  <2>1. Queued' = Queued
    BY <1>2 DEF Queued
  <2> QED
    BY <1>0, <1>1, <1>2, <2>1 DEF TypeOK, Shape, Worked, Owned
<1>3. ASSUME NEW p \in Buffers \ heap,
             queue' = Append(queue, p), heap' = heap \cup {p}, newest' = p
      PROVE  Inv'
  <2>1. queue' = <<p>>
    BY <1>0, <1>3
  <2>2. Queued' = {p}
    <3>1. Len(queue') = 1 /\ queue'[1] = p
      BY <2>1
    <3>2. 1 .. Len(queue') = {1}
      BY <3>1
    <3> QED
      BY <3>1, <3>2 DEF Queued
  <2>3. Queued = {}
    BY <1>0, QueuedOf
  <2>4. TypeOK'
    BY <1>0, <1>1, <1>3, <2>1 DEF TypeOK
  <2>5. Shape' /\ Worked'
    BY <1>0, <1>3, <2>1 DEF Shape, Worked
  <2>6. Owned'
    BY <1>0, <1>3, <2>2, <2>3 DEF Owned
  <2> QED
    BY <2>4, <2>5, <2>6
<1> QED
  BY <1>2, <1>3 DEF Push

\* influx_free puts the marker behind what is queued.
LEMMA FreeStep == ASSUME Inv, influx_free PROVE Inv'
<1> USE Constants DEF Inv
<1>0. main = "idle" /\ main' = "join" /\ queue' = Append(queue, QUIT) /\ worker' = worker
      /\ heap' = heap /\ newest' = newest /\ Held' = Held
  BY DEF influx_free, Held
<1>1. TypeOK'
  BY <1>0 DEF TypeOK, influx_free
<1>2. worker.pc # "done"
  BY <1>0 DEF Worked
<1>3. CASE queue = << >>
  <2>1. queue' = <<QUIT>>
    BY <1>0, <1>3
  <2>2. Queued = {} /\ Queued' = {QUIT}
    <3>1. Len(queue') = 1 /\ queue'[1] = QUIT
      BY <2>1
    <3>2. 1 .. Len(queue') = {1}
      BY <3>1
    <3> QED
      BY <3>1, <3>2, <1>3, QueuedOf DEF Queued
  <2>3. Owned'
    BY <1>0, <2>2 DEF Owned, Held, TypeOK
  <2> QED
    BY <1>0, <1>1, <1>2, <2>1, <2>3 DEF Shape, Worked
<1>4. CASE \E p \in Buffers : queue = <<p>> /\ p = newest
  <2>1. PICK p \in Buffers : queue = <<p>> /\ p = newest
    BY <1>4
  <2>2. queue' = <<p, QUIT>>
    <3> DEFINE S == Buffers \cup {QUIT}
               s == Append(<<p>>, QUIT)
               t == <<p, QUIT>>
    <3>1. <<p>> \in Seq(S) /\ t \in Seq(S) /\ QUIT \in S /\ Len(<<p>>) = 1 /\ Len(t) = 2
      OBVIOUS
    <3>2. s \in Seq(S) /\ Len(s) = 2 /\ s[1] = p /\ s[2] = QUIT
      <4>1. s \in Seq(S) /\ Len(s) = Len(<<p>>) + 1 /\ s[Len(<<p>>) + 1] = QUIT
        BY <3>1, AppendProperties
      <4>2. \A i \in 1 .. Len(<<p>>) : s[i] = <<p>>[i]
        BY <3>1, AppendProperties
      <4> QED
        BY <3>1, <4>1, <4>2
    <3>3. \A i \in 1 .. Len(s) : s[i] = t[i]
      <4>1. 1 .. Len(s) = {1, 2}
        BY <3>2
      <4> QED
        BY <3>2, <4>1
    <3>4. s = t
      <4> HIDE DEF s, t
      <4> QED
        BY <3>1, <3>2, <3>3, SeqEqual
    <3> QED
      BY <1>0, <2>1, <3>4
  <2>3. Queued = {p} /\ Queued' = {p, QUIT}
    <3>1. Len(queue') = 2 /\ queue'[1] = p /\ queue'[2] = QUIT
      BY <2>2
    <3>2. 1 .. Len(queue') = {1, 2}
      BY <3>1
    <3> QED
      BY <3>1, <3>2, <2>1, QueuedOf DEF Queued
  <2>4. Owned'
    BY <1>0, <2>3 DEF Owned, Held, TypeOK
  <2> QED
    BY <1>0, <1>1, <1>2, <2>1, <2>2, <2>4 DEF Shape, Worked
<1> QED
  BY <1>0, <1>3, <1>4 DEF Shape

\* The join comes after the worker's end, so the queue is already empty.
LEMMA JoinStep == ASSUME Inv, Join PROVE Inv'
<1> USE Constants DEF Inv, Join
<1>1. queue = << >> /\ Queued = {} /\ Queued' = {} /\ Held' = Held
  BY QueuedOf DEF Worked, Queued, Held
<1>2. TypeOK'
  BY DEF TypeOK
<1>3. Shape' /\ Worked' /\ Owned'
  BY <1>1 DEF Shape, Worked, Owned
<1> QED
  BY <1>2, <1>3

\* The worker takes the head of the queue: a payload, or the marker alone.
LEMMA PopStep == ASSUME Inv, Pop PROVE Inv'
<1> USE Constants DEF Inv
<1>0. /\ worker.pc = "pop" /\ queue # << >> /\ queue' = Tail(queue)
      /\ main' = main /\ heap' = heap /\ newest' = newest
      /\ config' = config /\ elapsed' = elapsed /\ state' = state /\ status' = status
      /\ source' = source
  BY DEF Pop
<1>1. Held = {}
  BY <1>0 DEF Worked, Held
<1>2. ASSUME NEW p \in Buffers, Head(queue) = p
      PROVE  /\ worker' = [pc |-> "config", payload |-> p, config |-> Nothing, result |-> "error"]
             /\ Held' = {p}
  BY <1>2 DEF Pop, Idle, Held
<1>3. CASE main = "idle" /\ \E p \in Buffers : queue = <<p>> /\ p = newest
  <2>1. PICK p \in Buffers : queue = <<p>> /\ p = newest
    BY <1>3
  <2>2. Head(queue) = p /\ queue' = << >>
    BY <1>0, <2>1
  <2>3. Queued = {p} /\ Queued' = {}
    BY <2>1, <2>2, QueuedOf DEF Queued
  <2>4. TypeOK'
    BY <1>0, <1>2, <2>2 DEF TypeOK, Results
  <2>5. Shape' /\ Worked' /\ Owned'
    BY <1>0, <1>1, <1>2, <1>3, <2>2, <2>3 DEF Shape, Worked, Owned
  <2> QED
    BY <2>4, <2>5
<1>4. CASE main = "join" /\ queue = <<QUIT>>
  <2>1. Head(queue) = QUIT /\ queue' = << >>
    BY <1>0, <1>4
  <2>2. worker' = [pc |-> "done", payload |-> Nothing, config |-> Nothing, result |-> "error"]
    BY <2>1 DEF Pop, Idle
  <2>3. Queued = {QUIT} /\ Queued' = {} /\ Held' = {}
    BY <1>4, <2>1, <2>2, QueuedOf DEF Queued, Held
  <2>4. TypeOK'
    BY <1>0, <2>1, <2>2 DEF TypeOK, Results
  <2>5. Shape' /\ Worked' /\ Owned'
    BY <1>0, <1>1, <1>4, <2>1, <2>2, <2>3 DEF Shape, Worked, Owned
  <2> QED
    BY <2>4, <2>5
<1>5. CASE main = "join" /\ \E p \in Buffers : queue = <<p, QUIT>> /\ p = newest
  <2>1. PICK p \in Buffers : queue = <<p, QUIT>> /\ p = newest
    BY <1>5
  <2>2. Head(queue) = p /\ queue' = <<QUIT>>
    BY <1>0, <2>1
  <2>3. Queued = {p, QUIT} /\ Queued' = {QUIT}
    <3>1. Len(queue') = 1 /\ queue'[1] = QUIT
      BY <2>2
    <3>2. 1 .. Len(queue') = {1}
      BY <3>1
    <3> QED
      BY <3>1, <3>2, <2>1, QueuedOf DEF Queued
  <2>4. TypeOK'
    BY <1>0, <1>2, <2>2 DEF TypeOK, Results
  <2>5. Shape' /\ Worked' /\ Owned'
    BY <1>0, <1>1, <1>2, <1>5, <2>2, <2>3 DEF Shape, Worked, Owned
  <2> QED
    BY <2>4, <2>5
<1> QED
  BY <1>0, <1>3, <1>4, <1>5 DEF Shape

\* The worker between its pop and its free.
LEMMA WorkStep == ASSUME Inv, CopyConfig \/ write_payload \/ set_state PROVE Inv'
<1> USE Constants DEF Inv
<1>0. /\ main' = main /\ queue' = queue /\ newest' = newest
      /\ config' = config /\ elapsed' = elapsed /\ status' = status
      /\ worker.pc \in {"config", "write", "set"}
      /\ worker.payload \in Buffers /\ Held = {worker.payload}
  BY DEF CopyConfig, write_payload, set_state, Worked, TypeOK, Held
<1>1. Queued' = Queued
  BY <1>0 DEF Queued
<1>2. ASSUME worker' = Idle, heap' = heap \ {worker.payload}
      PROVE  Shape' /\ Worked' /\ Owned'
  BY <1>0, <1>1, <1>2 DEF Idle, Shape, Worked, Owned, Held
<1>3. ASSUME heap' = heap, worker'.payload = worker.payload,
             worker'.pc \in {"write", "set"}, worker'.config \in Configs
      PROVE  Shape' /\ Worked' /\ Owned'
  BY <1>0, <1>1, <1>3 DEF Shape, Worked, Owned, Held
<1>4. CASE CopyConfig
  <2>1. CASE config.enabled /\ config.url # NoUrl
    <3>1. /\ heap' = heap
          /\ worker' = [worker EXCEPT !.pc = "write", !.config = config]
      BY <1>4, <2>1 DEF CopyConfig
    <3>2. TypeOK'
      BY <1>0, <1>4, <3>1 DEF CopyConfig, TypeOK
    <3>3. worker'.payload = worker.payload /\ worker'.pc = "write" /\ worker'.config \in Configs
      BY <3>1 DEF TypeOK
    <3> QED
      BY <1>3, <3>1, <3>2, <3>3
  <2>2. CASE ~(config.enabled /\ config.url # NoUrl)
    <3>1. worker' = Idle /\ heap' = heap \ {worker.payload}
      BY <1>4, <2>2 DEF CopyConfig
    <3>2. TypeOK'
      BY <1>0, <1>4, <3>1 DEF CopyConfig, TypeOK, Idle, Results
    <3> QED
      BY <1>2, <3>1, <3>2
  <2> QED
    BY <2>1, <2>2
<1>5. CASE write_payload
  <2>1. PICK r \in Results : worker' = [worker EXCEPT !.pc = "set", !.result = r]
    BY <1>5 DEF write_payload
  <2>2. TypeOK'
    BY <1>0, <1>5, <2>1 DEF write_payload, TypeOK
  <2>3. heap' = heap /\ worker'.payload = worker.payload /\ worker'.pc = "set"
        /\ worker'.config \in Configs
    BY <1>5, <2>1 DEF write_payload, TypeOK, Worked
  <2> QED
    BY <1>3, <2>2, <2>3
<1>6. CASE set_state
  <2>1. worker' = Idle /\ heap' = heap \ {worker.payload}
    BY <1>6 DEF set_state
  <2>2. TypeOK'
    BY <1>0, <1>6, <2>1 DEF set_state, TypeOK, Worked, Idle, Results, States
  <2> QED
    BY <1>2, <2>1, <2>2
<1> QED
  BY <1>4, <1>5, <1>6

\* One step of either thread preserves the invariant.
LEMMA NextInv == ASSUME Inv, [Next]_vars PROVE Inv'
<1>1. CASE UNCHANGED vars
  BY <1>1 DEF vars, Inv, TypeOK, Shape, Worked, Owned, Held, Queued
<1>2. CASE Next
  BY <1>2, QuietSteps, TickStep, PushStep, FreeStep, JoinStep, PopStep, WorkStep DEF Next, Worker
<1> QED
  BY <1>1, <1>2

(***************************************************************************)
(* Whatever the interleaving of main loop and worker, and whatever the     *)
(* settings, no payload is leaked, freed twice or used after its free, and *)
(* the queue never holds more than the newest payload.                     *)
(***************************************************************************)
THEOREM PayloadsOwnedOnce == Spec => [](TypeOK /\ OwnedOnce /\ QueueHoldsNewest)
<1>1. Inv => TypeOK /\ OwnedOnce /\ QueueHoldsNewest
  BY InvGives DEF Inv
<1> QED
  BY <1>1, InitInv, NextInv, PTL DEF Spec

\* However slow the server is, influx_tick leaves a single payload in the queue, the
\* newest one built.
THEOREM NoBacklog == Spec => []QueueHoldsNewest
BY PayloadsOwnedOnce, PTL
=============================================================================
