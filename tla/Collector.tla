----------------------------- MODULE Collector ------------------------------
(***************************************************************************)
(* The collector (collect.c): what it finds when it is created, and what a *)
(* sample makes of the kernel's counters and of the slow sources.          *)
(*                                                                         *)
(* Interfaces and disks are devices with one event counter; CPU time has   *)
(* three counters, of which the kernel may decrease iowait; sensors, PoE   *)
(* ports and flash wear are sources with a level.  Gauges read afresh from *)
(* /proc at every sample have no state and are left out.  The kernel and   *)
(* the VAPIX CGIs are external.  Times are relative: a sample comes        *)
(* "seconds" after the previous one.                                       *)
(***************************************************************************)
EXTENDS Integers, SequencesExt, FiniteSetsExt

CONSTANTS
    DeviceOrder,      \* interfaces and disks, in the order the kernel lists them
    MetricId,         \* the metric id of a device after sanitize: two may coincide
    MAX_DEVICES,      \* devices a collector keeps (MAX_IFACES, MAX_DISKS)
    SensorOrder,      \* sensors, in the order the device numbers them; fan and
                      \* heater count as sensors
    PortOrder,        \* PoE ports, in the order the device lists them
    Flash,            \* sources of flash wear, read from /sys
    SensorAnswers,    \* what temperaturecontrol.cgi may answer: the sensor of each number
    PortAnswers,      \* what getportstatuses.cgi may answer: for each <PortStatus>
                      \* the port and whether its value is given
    SLOW_INTERVAL_S,  \* seconds between two polls of the slow sources
    WORD,             \* 2^64: subtraction of counters is modulo WORD
    NAN               \* the reading that is not there

Device == Range(DeviceOrder)
Sensors == Range(SensorOrder)
Port == Range(PortOrder)
Name(k) == DeviceOrder[k]
Slow == Sensors \cup Port \cup Flash

ASSUME CollectorAssumption ==
    /\ MAX_DEVICES \in Nat \ {0} /\ SLOW_INTERVAL_S \in Nat \ {0} /\ WORD \in Nat \ {0}
    /\ DeviceOrder \in Seq(Device) /\ DOMAIN MetricId = Device
    /\ PortOrder \in Seq(Port) /\ IsInjective(PortOrder)
    /\ SensorOrder \in Seq(Sensors) /\ IsInjective(SensorOrder)
    /\ Range(MetricId) \cap ({"cpu.usage", "cpu.iowait", "poe.total"} \cup Slow) = {}
    /\ {"cpu.usage", "cpu.iowait", "poe.total", "none"} \cap Slow = {}
    /\ Sensors \cap Port = {} /\ Sensors \cap Flash = {} /\ Port \cap Flash = {}
    /\ \A a \in SensorAnswers : IsFiniteSet(DOMAIN a) /\ DOMAIN a \subseteq Nat /\ Range(a) \subseteq Sensors
    /\ PortAnswers \subseteq Seq([port : Port, given : BOOLEAN])

VARIABLES
    net,          \* kernel: [there, count] of each device
    cpu,          \* kernel: the counters busy, idle and iowait
    level,        \* the present level of each slow source
    vapix,        \* vapix_available: the service account was acquired at start
    registry,     \* the metric ids; empty before discovery
    devices,      \* the devices found, by their place in DeviceOrder
    slow,         \* [sensors, poe]: the sensors by number and the ports in order, as found
    prev,         \* the counter of each device when it was last read
    prev_cpu,     \* the CPU counters when they were last read
    first,        \* prev_us = 0: no sample taken yet
    slow_wait,    \* slow_deadline, in seconds after the previous sample
    slow_cache,   \* the held readings of the slow sources
    values,       \* the sample: a reading for every id of the registry
    moved,        \* auxiliary: events of each device since the previous sample
    intact,       \* auxiliary: the devices read by the previous sample and not re-created since
    unread,       \* auxiliary: the devices the previous sample missed and that are still there
    actual,       \* auxiliary: moved, intact, unread and ran as the latest sample found them
    ran,          \* auxiliary: CPU time since it was last read, or since boot
    polled,       \* auxiliary: the level of a slow source when an answer last listed it
    shifted       \* auxiliary: the sources whose latest answer did not number or list
                  \* them as discovery found them

kernel == <<net, cpu, level>>
program == <<vapix, registry, devices, slow, prev, prev_cpu, first, slow_wait, slow_cache, values>>
truth == <<moved, intact, unread, actual, ran, polled, shifted>>
collectorVars == <<kernel, program, truth>>

(***************************************************************************)
(* Discovery.  metrics_register returns the index of an id that is already *)
(* there, so two devices whose names are sanitized to the same id share    *)
(* one metric, and the registry is a set of ids.                           *)
(***************************************************************************)

NoAnswer == <<[port |-> "none", given |-> FALSE]>>
\* vapix_get: the body, or nothing without an account.  A failed request is an
\* answer that names no sensor, or NoAnswer for the ports.
vapix_get(answer, nothing) == IF vapix THEN answer ELSE nothing

FirstOf(s, n) == IF Len(s) <= n THEN s ELSE SubSeq(s, 1, n)

\* The devices there are, as far as the collector has room.
discover_devices ==
    LET there == {k \in DOMAIN DeviceOrder : net[Name(k)].there}
    IN  {k \in there : Cardinality({j \in there : j < k}) < MAX_DEVICES}

\* The sensors and the ports that the answers name.
discover_sensors(answer) == vapix_get(answer, << >>)
discover_poe(answer) ==
    IF vapix_get(answer, NoAnswer) = NoAnswer THEN << >>
    ELSE [i \in DOMAIN answer |-> answer[i].port]
\* The answer that lists some ports in order with their values.
Listing(ports) == [i \in DOMAIN ports |-> [port |-> ports[i], given |-> TRUE]]

\* collector_new, given the answers of the CGIs.
collector_new(temperatures, ports) ==
    LET found == discover_devices
        sensors == discover_sensors(temperatures)
        poe == discover_poe(ports)
    IN  /\ devices' = found
        /\ slow' = [sensors |-> sensors, poe |-> poe]
        /\ registry' = {"cpu.usage", "cpu.iowait"} \cup {MetricId[Name(k)] : k \in found}
              \cup Range(sensors) \cup Range(poe) \cup {p \in {"poe.total"} : poe # << >>} \cup Flash
        /\ slow_cache' = [s \in Slow \cup {"poe.total"} |-> NAN]
        /\ prev' = [d \in Device |-> 0]
        /\ prev_cpu' = [busy |-> 0, idle |-> 0, iowait |-> 0]
        /\ first' = TRUE /\ slow_wait' = 0
        /\ values' = << >>
        /\ intact' = {} /\ unread' = {} /\ actual' = << >> /\ shifted' = {}
        /\ moved' = [d \in Device |-> 0]
        /\ ran' = cpu
        /\ polled' = [s \in Slow |-> NAN]

(***************************************************************************)
(* Sampling.                                                               *)
(***************************************************************************)
M_RateWraps(d, seconds) ==
    [dev |-> d, events |-> (net[d].count - prev[d]) % WORD, seconds |-> seconds]

\* rate: nothing when the counter went back, because it wrapped or was reset.
rate(d, seconds) ==
    IF seconds <= 0 \/ net[d].count < prev[d] THEN NAN
    ELSE [dev |-> d, events |-> net[d].count - prev[d], seconds |-> seconds]

Known == {Name(k) : k \in devices}

\* The devices of a sample that share metric id i; the last one sets it.
Readers(i) == {k \in devices : net[Name(k)].there /\ MetricId[Name(k)] = i}

\* sample_ifaces and sample_disks, when the file could be opened.
DeviceReading(i, seconds) ==
    IF first \/ Readers(i) = {} THEN NAN ELSE rate(Name(Max(Readers(i))), seconds)

\* What a sample leaves as the devices' previous readings.
Baseline(opened) ==
    [d \in Device |-> IF opened /\ d \in Known /\ net[d].there
                      THEN net[d].count ELSE prev[d]]

Total(t) == t.busy + t.idle + t.iowait
IdleOf(t) == t.idle + t.iowait
Since(now, before) == (now - before) % WORD
TotalSince == Since(Total(cpu), Total(prev_cpu))
IdleSince == Since(IdleOf(cpu), IdleOf(prev_cpu))

M_UsageUnguarded ==
    IF ~first /\ TotalSince > 0
    THEN [part |-> Since(TotalSince, IdleSince), of |-> TotalSince] ELSE NAN

\* sample_cpu: shares of the time since the previous reading.
Usage ==
    IF ~first /\ Total(cpu) > Total(prev_cpu) /\ TotalSince >= IdleSince
    THEN [part |-> TotalSince - IdleSince, of |-> TotalSince] ELSE NAN
Iowait ==
    IF ~first /\ TotalSince > 0
    THEN [part |-> Since(cpu.iowait, prev_cpu.iowait), of |-> TotalSince] ELSE NAN

\* The reading of a metric whose source was found at some of the places, given
\* the source whose value the answer has at each place ("none": no value).
Reading(found, s, held, answer) ==
    LET places == {k \in DOMAIN found \cap DOMAIN answer : found[k] = s}
        taken == answer[CHOOSE k \in places : TRUE]
    IN  IF places = {} THEN held ELSE IF taken = "none" THEN NAN ELSE level[taken]

\* sample_sensors: the metric found as number k takes the value of number k; a
\* number that is not answered leaves its reading as it was.
sample_sensors(s, held, answer) == Reading(slow.sensors, s, held, answer)

\* xml_value from the i-th <PortStatus> on: the port whose value is found, which
\* is a later one if the i-th does not give it.
xml_value(answer, i) ==
    LET later == {j \in DOMAIN answer : i <= j /\ answer[j].given}
    IN  IF later = {} THEN "none" ELSE answer[Min(later)].port

\* The values that sample_poe takes for the ports found, and their sum.
Taken(answer) == [i \in DOMAIN FirstOf(answer, Len(slow.poe)) |-> xml_value(answer, i)]
TotalDraw(taken) ==
    MapThenSumSet(LAMBDA i : level[taken[i]], {i \in DOMAIN taken : taken[i] # "none"})

\* sample_poe: the i-th <PortStatus> is taken for the i-th port found.
sample_poe(s, held, answer) ==
    IF slow.poe = << >> \/ answer = NoAnswer THEN held
    ELSE IF s = "poe.total" THEN TotalDraw(Taken(answer))
    ELSE Reading(slow.poe, s, held, Taken(answer))

M_ForgetHeld(cache, temperatures, ports) ==
    [s \in DOMAIN cache |->
        IF s \in Flash THEN level[s]
        ELSE IF s \in Sensors THEN sample_sensors(s, NAN, temperatures)
        ELSE sample_poe(s, NAN, ports)]

\* One poll of all slow sources; flash wear is a file that is always there.
Poll(cache, temperatures, ports) ==
    [s \in DOMAIN cache |->
        IF s \in Flash THEN level[s]
        ELSE IF s \in Sensors THEN sample_sensors(s, cache[s], temperatures)
        ELSE sample_poe(s, cache[s], ports)]

\* Auxiliary: the sources found whose level a poll is given, and those that it
\* numbers or lists otherwise than discovery found them.
Answered(temperatures, ports) ==
    (Range(slow.sensors) \cap Range(temperatures))
        \cup {p \in Range(slow.poe) : \E i \in DOMAIN ports : ports[i] = [port |-> p, given |-> TRUE]}
Displaced(temperatures, ports) ==
    {s \in Range(slow.sensors) :
        \E k \in DOMAIN temperatures, j \in DOMAIN slow.sensors :
            (k = j) # (temperatures[k] = slow.sensors[j])}
        \cup {p \in Range(slow.poe) :
                ports # NoAnswer /\ FirstOf(ports, Len(slow.poe)) # Listing(slow.poe)}

\* now >= slow_deadline.
PollDue(seconds) == slow_wait - seconds <= 0

\* collector_sample.  "opened" says which of the two files in /proc could be opened.
collector_sample(seconds, opened, temperatures, ports) ==
    LET due == PollDue(seconds)
        cache == IF due THEN Poll(slow_cache, vapix_get(temperatures, << >>), vapix_get(ports, NoAnswer)) ELSE slow_cache
        cpuRead == "stat" \in opened
        netRead == "net" \in opened
    IN  /\ UNCHANGED <<kernel, vapix, registry, devices, slow>>
        /\ slow_cache' = cache
        /\ slow_wait' = IF due THEN SLOW_INTERVAL_S ELSE slow_wait - seconds
        /\ values' = [i \in registry |->
              CASE i = "cpu.usage" -> IF cpuRead THEN Usage ELSE NAN
                [] i = "cpu.iowait" -> IF cpuRead THEN Iowait ELSE NAN
                [] i \in Slow \cup {"poe.total"} -> cache[i]
                [] OTHER -> IF netRead THEN DeviceReading(i, seconds) ELSE NAN]
        /\ prev' = Baseline(netRead)
        /\ prev_cpu' = IF cpuRead THEN cpu ELSE prev_cpu
        /\ first' = FALSE
        /\ actual' = [moved |-> moved, intact |-> intact, unread |-> unread, ran |-> ran]
        /\ unread' = IF netRead THEN {} ELSE {d \in Device : net[d].there}
        /\ moved' = [d \in Device |-> 0]
        /\ intact' = IF netRead THEN {d \in Known : net[d].there} ELSE {}
        /\ ran' = IF cpuRead THEN [busy |-> 0, idle |-> 0, iowait |-> 0] ELSE ran
        /\ polled' = [s \in Slow |->
              IF due /\ (s \in Answered(temperatures, ports) \/ s \in Flash)
              THEN level[s] ELSE polled[s]]
        /\ shifted' = IF due THEN (shifted \ Answered(temperatures, ports)) \cup Displaced(temperatures, ports)
                      ELSE shifted

(***************************************************************************)
(* The kernel and the sensors, between two handlers.                       *)
(***************************************************************************)
Traffic(d) ==
    /\ net[d].there
    /\ net' = [net EXCEPT ![d].count = @ + 1]
    /\ moved' = [moved EXCEPT ![d] = @ + 1]
    /\ UNCHANGED <<cpu, level, program, intact, unread, actual, ran, polled, shifted>>

\* An interface that comes back is a new one: its counters start at zero.
ComeAndGo(d) ==
    /\ net' = [net EXCEPT ![d] = [there |-> ~net[d].there, count |-> 0]]
    /\ intact' = intact \ {d} /\ unread' = unread \ {d}
    /\ UNCHANGED <<cpu, level, program, moved, actual, ran, polled, shifted>>

CpuTime(f, step) ==
    /\ cpu[f] + step >= 0
    /\ cpu' = [cpu EXCEPT ![f] = @ + step]
    /\ ran' = [ran EXCEPT ![f] = @ + step]
    /\ UNCHANGED <<net, level, program, moved, intact, unread, actual, polled, shifted>>

LevelChange(s) ==
    /\ level' = [level EXCEPT ![s] = 1 - @]
    /\ UNCHANGED <<net, cpu, program, truth>>

Kernel ==
    \/ \E d \in Device : Traffic(d) \/ ComeAndGo(d)
    \/ \E f \in {"busy", "idle", "iowait"} : CpuTime(f, 1)
    \/ CpuTime("iowait", -1)
    \/ \E s \in Slow : LevelChange(s)

-----------------------------------------------------------------------------
Sampled(i) == i \in DOMAIN values /\ values[i] # NAN

(***************************************************************************)
(* A rate never claims more events than its device really had since the    *)
(* previous sample, also when the device was re-created in between, and it *)
(* is exact when it was not.  The exception is a device the previous       *)
(* sample could not read, because the file did not open: the counter is    *)
(* compared with an older reading but divided by the last interval only    *)
(* (sample_ifaces, sample_disks, rate).                                    *)
(***************************************************************************)
RateNotOverstated ==
    \A i \in {MetricId[d] : d \in Device} : Sampled(i) =>
        LET r == values[i]
        IN  /\ r.dev \in actual.intact => r.events = actual.moved[r.dev]
            /\ r.events <= actual.moved[r.dev] \/ r.dev \in actual.unread

\* The CPU usage shown is the busy share of the time since the last reading,
\* within 0 and 100%, even if the kernel has decreased iowait.  The share of
\* iowait is exact too if the kernel has not (sample_cpu).
SharesExact ==
    /\ Sampled("cpu.usage") => /\ values["cpu.usage"].part = actual.ran.busy
                               /\ values["cpu.usage"].of = Total(actual.ran)
                               /\ values["cpu.usage"].part <= values["cpu.usage"].of
    /\ Sampled("cpu.iowait") /\ actual.ran.iowait >= 0 =>
          values["cpu.iowait"] = [part |-> actual.ran.iowait, of |-> Total(actual.ran)]

\* A slow reading is held until its own source answers again and never becomes
\* the reading of another source, whatever is left out of an answer.  Sensors are
\* found by number and ports by position, and the value of a port that gives none
\* is looked for in the next ones; so it does not hold for the sources of a kind
\* from an answer that numbers them otherwise than at discovery, or lists other
\* ports or a port without its value, until an answer has them as found
\* (sample_sensors, sample_poe, xml_value, collector_sample).
SlowAttributed ==
    \A s \in Slow \cap DOMAIN values : values[s] = polled[s] \/ s \in shifted
=============================================================================
