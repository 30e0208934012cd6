------------------------------ MODULE Sampling ------------------------------
(***************************************************************************)
(* The sampler: on_sample_tick takes a sample with the collector and ages  *)
(* or scans the process table, at most a timer's jitter and a blocked main *)
(* loop after the previous one, while the kernel goes on between the       *)
(* handlers.  rebuild_for_new_storage replaces the collector and keeps the *)
(* process table.  What the rest of the handler does with the sample is    *)
(* the subject of Store, Alerts, Mqtt and Influx.                          *)
(***************************************************************************)
EXTENDS Collector, Procs

CONSTANTS
    Gaps,         \* seconds that may lie between two samples
    MaxEvents     \* bound on kernel events, faults and rebuilds

ASSUME SamplingAssumption == Gaps \subseteq Nat \ {0} /\ MaxEvents \in Nat

VARIABLE events   \* how many of them there have been

vars == <<collectorVars, procsVars, events>>

(***************************************************************************)
(* What the sources of a sample yield when nothing fails, and with one     *)
(* fault: a file that does not open, a request that fails or is answered   *)
(* with another numbering or list than at discovery, or without some of    *)
(* the values, a /proc that does not open, or a process that is gone       *)
(* before its stat is read.                                                *)
(***************************************************************************)
Sound == [opened |-> {"stat", "net"}, temperatures |-> SensorOrder, ports |-> Listing(PortOrder),
          proc |-> TRUE, read |-> Living]

Faulty ==
    {[Sound EXCEPT !.opened = {f}] : f \in {"stat", "net"}}
        \cup {[Sound EXCEPT !.temperatures = t] : t \in SensorAnswers}
        \cup {[Sound EXCEPT !.ports = q] : q \in {NoAnswer} \cup PortAnswers}
        \cup {[Sound EXCEPT !.proc = FALSE]}
        \cup {[Sound EXCEPT !.read = Living \ {p}] : p \in Living}

Event == events < MaxEvents /\ events' = events + 1

\* The kernel has booted; the service account may not be granted, which is a fault.
Init ==
    /\ net = [d \in Device |-> [there |-> TRUE, count |-> 0]]
    /\ cpu = [busy |-> 0, idle |-> 0, iowait |-> 0]
    /\ level = [s \in Slow |-> 0]
    /\ vapix \in BOOLEAN
    /\ registry = {} /\ devices = {} /\ slow = [sensors |-> << >>, poe |-> << >>]
    /\ prev = << >> /\ prev_cpu = cpu /\ first = TRUE /\ slow_wait = 0
    /\ slow_cache = << >> /\ values = << >>
    /\ moved = << >> /\ intact = {} /\ unread = {} /\ actual = << >>
    /\ ran = cpu /\ polled = << >> /\ shifted = {}
    /\ ProcsInit
    /\ events = IF vapix THEN 0 ELSE 1

\* main and rebuild_for_new_storage: discovery, in which a request may fail.
Discover ==
    /\ \/ registry = {} /\ collector_new(SensorOrder, Listing(PortOrder)) /\ UNCHANGED events
       \/ Event /\ collector_new(SensorOrder, Listing(PortOrder))
       \/ Event /\ collector_new(<< >>, Listing(PortOrder))
       \/ Event /\ collector_new(SensorOrder, NoAnswer)
    /\ UNCHANGED <<kernel, vapix, procsVars>>

on_sample_tick(seconds, given) ==
    /\ registry # {}
    /\ procs_tick(seconds, given.proc, given.read)
    /\ collector_sample(seconds, given.opened, given.temperatures, given.ports)

Tick ==
    \E seconds \in Gaps :
        \/ on_sample_tick(seconds, Sound) /\ UNCHANGED events
        \/ Event /\ \E given \in Faulty : on_sample_tick(seconds, given)

KernelStep == registry # {} /\ Event /\ Kernel /\ UNCHANGED procsVars
ProcessStep == registry # {} /\ Event /\ Processes /\ UNCHANGED collectorVars

Next == Discover \/ Tick \/ KernelStep \/ ProcessStep

\* The process table's part of a tick, which no other step takes.
TableTick ==
    /\ registry # {}
    /\ \E seconds \in Gaps, opened \in BOOLEAN, read \in SUBSET Living :
          procs_tick(seconds, opened, read)

\* The main loop dispatches the sample timer again and again, and its handler
\* includes procs_tick.
Fairness == WF_procsVars(TableTick)

Spec == Init /\ [][Next]_vars /\ Fairness

-----------------------------------------------------------------------------
\* A process that goes on living is listed sooner or later, even if the table was
\* full of processes that had exited when it started, unless more processes live
\* than the table can hold (scan).
ProcessIsListed ==
    \A p \in Pids :
        (p \in Living /\ Cardinality(Living) <= PROCS_MAX)
            ~> (p \in Listed \/ p \notin Living \/ Cardinality(Living) > PROCS_MAX)
=============================================================================
