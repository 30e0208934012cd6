--------------------------- MODULE SamplingProofs ---------------------------
(***************************************************************************)
(* Proofs about Sampling for any number of processes and devices: the CPU  *)
(* time shown of a process is what it used, and no rate is overstated.     *)
(***************************************************************************)
EXTENDS Sampling, WellFoundedInduction, TLAPS

\* What a process used since the last scan is what its entry lacks.
Billed ==
    /\ age \in Int /\ age >= -1 /\ (age = -1 => Listed = {})
    /\ spent \in [Pids -> Nat] /\ Listed \subseteq Pids /\ Living \subseteq Pids
    /\ \A p \in Living : jiffies[p] \in Nat
    /\ \A p \in Listed : table[p].jiffies \in Nat
    /\ \A p \in Listed \cap Living :
          p \notin exited /\ ~blind => jiffies[p] = table[p].jiffies + spent[p]
    /\ Listed \ Living \subseteq exited
    /\ CpuShareTrue

\* The fields of an entry.
LEMMA EntryFields ==
    ASSUME NEW p, NEW base, NEW elapsed
    PROVE  /\ EntryOf(p, base, elapsed).jiffies = jiffies[p]
           /\ EntryOf(p, base, elapsed).spent = IF p \in Listed THEN spent[p] ELSE 0
           /\ EntryOf(p, base, elapsed).odd = (p \in Listed /\ (p \in exited \/ blind))
           /\ EntryOf(p, base, elapsed).cpu =
                 IF elapsed > 0 /\ jiffies[p] >= base THEN Cpu(jiffies[p] - base, elapsed)
                 ELSE IF p \in Listed THEN table[p].cpu ELSE Cpu(0, 0)
BY Zenon DEF EntryOf

LEMMA ScanBills ==
    ASSUME Billed, NEW seconds \in Gaps, NEW read, read \subseteq Living,
           NEW elapsed, elapsed = (IF age = -1 THEN 0 ELSE age + seconds),
           scan(read, elapsed), UNCHANGED jiffies, exited' = {}, spent' = [p \in Pids |-> 0],
           blind' = FALSE, age' = 0
    PROVE  Billed'
<1>g. seconds \in Nat /\ seconds > 0
  BY SamplingAssumption
<1>1. PICK new \in Admitted(read) :
         table' = [p \in (read \cap Listed) \cup new |-> Scanned(p, elapsed)]
  BY DEF scan
<1>2. new \subseteq read /\ new \cap Listed = {}
  BY <1>1 DEF Admitted
<1>3. Listed' = (read \cap Listed) \cup new /\ \A p \in Listed' : table'[p] = Scanned(p, elapsed)
  BY <1>1 DEF Listed
<1>4. Listed' \subseteq Living /\ Living' = Living /\ Living \subseteq Pids
  BY <1>2, <1>3 DEF Billed, Living
<1>5. \A p \in Listed' : table'[p].jiffies = jiffies[p]
  BY <1>3, EntryFields DEF Scanned
<1>6. ASSUME NEW p \in Listed' PROVE table'[p].odd \/ table'[p].cpu.used = table'[p].spent
  <2>0. jiffies[p] \in Nat
    BY <1>4 DEF Billed
  <2>1. CASE p \notin Listed
    <3>1. table'[p].spent = 0 /\ table'[p].cpu \in {Cpu(jiffies[p] - jiffies[p], elapsed), Cpu(0, 0)}
      BY <1>3, <2>1, EntryFields DEF Scanned
    <3> QED
      BY <2>0, <3>1 DEF Cpu
  <2>2. CASE p \in Listed /\ (p \in exited \/ blind)
    <3>1. table'[p] = EntryOf(p, table[p].jiffies, elapsed)
      BY <1>3, <2>2 DEF Scanned
    <3>2. table'[p].odd = (p \in Listed /\ (p \in exited \/ blind))
      <4>1. EntryOf(p, table[p].jiffies, elapsed).odd = (p \in Listed /\ (p \in exited \/ blind))
        BY Zenon DEF EntryOf
      <4> QED
        BY <3>1, <4>1, Zenon
    <3> QED
      BY <2>2, <3>2, Zenon
  <2>3. CASE p \in Listed /\ p \notin exited /\ ~blind
    <3>1. elapsed > 0
      BY <1>g, <2>3 DEF Billed
    <3>2. jiffies[p] = table[p].jiffies + spent[p] /\ table[p].jiffies \in Nat /\ spent[p] \in Nat
      BY <1>4, <2>3 DEF Billed
    <3>3. table'[p].spent = spent[p] /\ table'[p].cpu = Cpu(jiffies[p] - table[p].jiffies, elapsed)
      BY <1>3, <2>3, <3>1, <3>2, EntryFields DEF Scanned
    <3> QED
      BY <3>2, <3>3 DEF Cpu
  <2> QED
    BY <2>1, <2>2, <2>3
<1>7. \A p \in Listed' \cap Living' : jiffies'[p] = table'[p].jiffies + spent'[p]
  BY <1>4, <1>5 DEF Billed
<1> QED
  BY <1>4, <1>5, <1>6, <1>7 DEF Billed, CpuShareTrue

LEMMA TickBills ==
    ASSUME Billed, NEW seconds \in Gaps, NEW opened \in BOOLEAN, NEW read, read \subseteq Living,
           procs_tick(seconds, opened, read)
    PROVE  Billed'
<1>g. seconds \in Nat /\ seconds > 0
  BY SamplingAssumption
<1>1. CASE ~ScanDue(seconds)
  <2>1. age # -1 /\ age' = age + seconds /\ UNCHANGED <<jiffies, table, spent, exited, blind>>
    BY <1>1 DEF procs_tick, ScanDue
  <2> QED
    BY <1>g, <2>1 DEF Billed, CpuShareTrue, Listed, Living
<1>2. CASE ScanDue(seconds) /\ opened
  BY <1>2, ScanBills DEF procs_tick
<1>3. CASE ScanDue(seconds) /\ ~opened
  <2>1. age' = 0 /\ UNCHANGED <<jiffies, table, exited>> /\ blind' = TRUE
        /\ spent' = [p \in Pids |-> 0]
    BY <1>3 DEF procs_tick
  <2> QED
    BY <2>1 DEF Billed, CpuShareTrue, Listed, Living
<1> QED
  BY <1>1, <1>2, <1>3

LEMMA BilledStep == ASSUME Billed, [Next]_vars PROVE Billed'
<1>1. ASSUME NEW p \in Pids, Spawn(p) PROVE Billed'
  <2>1. Living' = Living \cup {p} /\ \A q \in Living' : jiffies'[q] = IF q = p THEN 0 ELSE jiffies[q]
    BY <1>1 DEF Spawn, Living
  <2>2. p \notin Living /\ Listed' = Listed /\ UNCHANGED <<table, age, exited, blind>>
        /\ spent' = [spent EXCEPT ![p] = 0]
    BY <1>1 DEF Spawn, Listed
  <2>3. \A q \in Listed' \cap Living' :
           q \notin exited' /\ ~blind' => jiffies'[q] = table'[q].jiffies + spent'[q]
    BY <2>1, <2>2 DEF Billed
  <2> QED
    BY <2>1, <2>2, <2>3 DEF Billed, CpuShareTrue
<1>2. ASSUME NEW p \in Pids, Exit(p) PROVE Billed'
  <2>1. Living' = Living \ {p} /\ \A q \in Living' : jiffies'[q] = jiffies[q]
    BY <1>2 DEF Exit, Living
  <2>2. Listed' = Listed /\ UNCHANGED <<table, age, spent, blind>> /\ exited' = exited \cup {p}
    BY <1>2 DEF Exit, Listed
  <2> QED
    BY <2>1, <2>2 DEF Billed, CpuShareTrue
<1>3. ASSUME NEW p \in Pids, Run(p) PROVE Billed'
  <2>1. /\ p \in Living /\ Living' = Living
        /\ \A q \in Living : jiffies'[q] = IF q = p THEN jiffies[q] + 1 ELSE jiffies[q]
    BY <1>3 DEF Run, Living
  <2>2. Listed' = Listed /\ UNCHANGED <<table, age, exited, blind>> /\ spent' = [spent EXCEPT ![p] = @ + 1]
    BY <1>3 DEF Run, Listed
  <2>3. \A q \in Listed' \cap Living' :
           q \notin exited' /\ ~blind' => jiffies'[q] = table'[q].jiffies + spent'[q]
    BY <2>1, <2>2 DEF Billed
  <2> QED
    BY <2>1, <2>2, <2>3 DEF Billed, CpuShareTrue
<1>4. CASE Tick
  <2>1. PICK seconds \in Gaps : \E given \in {Sound} \cup Faulty : on_sample_tick(seconds, given)
    BY <1>4 DEF Tick
  <2>2. PICK given \in {Sound} \cup Faulty : on_sample_tick(seconds, given)
    BY <2>1
  <2>3. given.proc \in BOOLEAN /\ given.read \subseteq Living
    <3>1. CASE given = Sound
      BY <3>1 DEF Sound
    <3>2. CASE given \in Faulty
      BY <3>2, Zenon DEF Faulty, Sound
    <3> QED
      BY <3>1, <3>2
  <2> QED
    BY <2>2, <2>3, TickBills DEF on_sample_tick
<1>5. CASE Discover \/ KernelStep \/ UNCHANGED vars
  BY <1>5 DEF Discover, KernelStep, vars, procsVars, Billed, CpuShareTrue, Listed, Living
<1> QED
  BY <1>1, <1>2, <1>3, <1>4, <1>5 DEF Next, ProcessStep, Processes

(***************************************************************************)
(* For any number of processes, whatever the size of the table, however    *)
(* they come and go and whichever scans fail: a process is shown with the  *)
(* CPU time it used between the last two scans, unless its pid was used    *)
(* again in between or the earlier scan failed (scan, procs_tick).         *)
(***************************************************************************)
THEOREM ProcessesAreBilled == Spec => []CpuShareTrue
<1>1. Init => Billed
  BY DEF Init, ProcsInit, Billed, CpuShareTrue, Listed, Living
<1>2. Billed => CpuShareTrue
  BY DEF Billed
<1> QED
  BY <1>1, <1>2, BilledStep, PTL DEF Spec

-----------------------------------------------------------------------------
(***************************************************************************)
(* The largest of some places exists, because "less than" on the natural   *)
(* numbers is well founded.                                                *)
(***************************************************************************)
Before == {pair \in Nat \X Nat : pair[1] < pair[2]}

LEMMA BeforeIsWellFounded == IsWellFoundedOn(Before, Nat)
<1>1. Before = OpToRel(<, Nat)
  BY Zenon DEF Before, OpToRel
<1> QED
  BY <1>1, NatLessThanWellFounded, Zenon

LEMMA LastPlace == ASSUME NEW n \in Nat, NEW S \in SUBSET (1 .. n), S # {} PROVE Max(S) \in S
<1> DEFINE T == {k \in Nat : n - k \in S}
<1>0. PICK s \in S : TRUE
  OBVIOUS
<1>1. T \subseteq Nat /\ n - s \in T
  BY <1>0
<1>2. PICK x \in T : \A y \in T : ~(<<y, x>> \in Before)
  <2> HIDE DEF T
  <2> QED
    BY <1>1, BeforeIsWellFounded, WFMin, Zenon
<1>3. x \in Nat /\ n - x \in S
  BY <1>2
<1>4. ASSUME NEW k \in S PROVE n - x >= k
  <2>1. n - k \in T /\ n - k \in Nat
    OBVIOUS
  <2>2. <<n - k, x>> \notin Before
    BY <1>2, <2>1
  <2> QED
    BY <1>3, <2>1, <2>2 DEF Before
<1> QED
  BY <1>3, <1>4 DEF Max

\* How far a counter is ahead of its previous reading.
Metered ==
    /\ net \in [Device -> [there : BOOLEAN, count : Nat]]
    /\ \A d \in Device : ~net[d].there => net[d].count = 0
    /\ registry # {} =>
          /\ moved \in [Device -> Nat] /\ prev \in [Device -> Nat]
          /\ devices \subseteq DOMAIN DeviceOrder
    /\ registry # {} /\ ~first =>
          \A d \in Known : /\ d \in intact => net[d].there /\ net[d].count = prev[d] + moved[d]
                           /\ d \notin unread => net[d].count <= prev[d] + moved[d]
    /\ registry # {} \/ values = << >>
    /\ RateNotOverstated

LEMMA KnownIsDevice == ASSUME devices \subseteq DOMAIN DeviceOrder PROVE Known \subseteq Device
BY CollectorAssumption DEF Known, Name

LEMMA SampleMeters ==
    ASSUME Metered, registry # {}, NEW seconds \in Gaps, NEW opened, NEW temperatures, NEW ports,
           collector_sample(seconds, opened, temperatures, ports)
    PROVE  Metered'
<1> DEFINE netRead == "net" \in opened
<1>k. Known \subseteq Device /\ Known' = Known
  BY KnownIsDevice DEF Metered, collector_sample, Known
<1>1. /\ net' = net /\ registry' = registry /\ devices' = devices /\ first' = FALSE
      /\ prev' = Baseline(netRead) /\ moved' = [d \in Device |-> 0]
      /\ unread' = IF netRead THEN {} ELSE {d \in Device : net[d].there}
      /\ intact' = IF netRead THEN {d \in Known : net[d].there} ELSE {}
  BY DEF collector_sample, kernel
<1>2. actual'.moved = moved /\ actual'.intact = intact /\ actual'.unread = unread
  BY DEF collector_sample
<1>3. /\ DOMAIN values' = registry
      /\ \A i \in registry \cap Range(MetricId) :
            values'[i] = IF netRead THEN DeviceReading(i, seconds) ELSE NAN
  BY CollectorAssumption DEF collector_sample
<1>4. /\ moved \in [Device -> Nat] /\ prev \in [Device -> Nat]
      /\ net \in [Device -> [there : BOOLEAN, count : Nat]]
      /\ devices \subseteq DOMAIN DeviceOrder
  BY DEF Metered
<1>5. ASSUME NEW i \in registry \cap Range(MetricId), values'[i] # NAN
      PROVE  LET r == values'[i]
             IN  /\ r.dev \in intact => r.events = moved[r.dev]
                 /\ r.events <= moved[r.dev] \/ r.dev \in unread
  <2> DEFINE d == Name(Max(Readers(i)))
  <2>1. ~first /\ Readers(i) # {} /\ values'[i] = rate(d, seconds)
    BY <1>3, <1>5 DEF DeviceReading
  <2>2. Max(Readers(i)) \in Readers(i)
    <3>1. Readers(i) \in SUBSET (1 .. Len(DeviceOrder)) /\ Len(DeviceOrder) \in Nat
      BY <1>4, CollectorAssumption DEF Readers
    <3> QED
      BY <2>1, <3>1, LastPlace
  <2>3. d \in Known /\ d \in Device
    BY <1>k, <2>2 DEF Readers, Known
  <2> HIDE DEF d
  <2>4. net[d].count \in Nat /\ prev[d] \in Nat /\ moved[d] \in Nat
    BY <1>4, <2>3
  <2>5. net[d].count >= prev[d] /\ values'[i].dev = d /\ values'[i].events = net[d].count - prev[d]
    BY <1>5, <2>1, <2>4 DEF rate
  <2>6. /\ d \in intact => net[d].count = prev[d] + moved[d]
        /\ d \notin unread => net[d].count <= prev[d] + moved[d]
    BY <2>1, <2>3 DEF Metered
  <2> QED
    BY <2>4, <2>5, <2>6
<1>6. RateNotOverstated'
  <2>1. \A d \in Device : MetricId[d] \in Range(MetricId)
    BY CollectorAssumption DEF Range
  <2> QED
    BY <1>2, <1>3, <1>5, <2>1 DEF RateNotOverstated, Sampled
<1>7. prev' \in [Device -> Nat] /\ moved' \in [Device -> Nat]
  BY <1>1, <1>4 DEF Baseline
<1>8. ASSUME NEW d \in Known
      PROVE  /\ d \in intact' => net[d].there /\ net[d].count = prev'[d] + moved'[d]
             /\ d \notin unread' => net[d].count <= prev'[d] + moved'[d]
  <2>1. d \in Device /\ net[d].count \in Nat /\ moved'[d] = 0 /\ prev'[d] \in Nat
    BY <1>k, <1>1, <1>4, <1>7
  <2>2. netRead /\ net[d].there => prev'[d] = net[d].count
    BY <1>1, <2>1 DEF Baseline
  <2>3. ~net[d].there => net[d].count = 0
    BY <2>1 DEF Metered
  <2> QED
    BY <1>1, <2>1, <2>2, <2>3
<1> QED
  BY <1>k, <1>1, <1>4, <1>6, <1>7, <1>8 DEF Metered

LEMMA KernelMeters == ASSUME Metered, registry # {}, Kernel PROVE Metered'
<1>t. /\ moved \in [Device -> Nat] /\ prev \in [Device -> Nat]
      /\ net \in [Device -> [there : BOOLEAN, count : Nat]] /\ Known \subseteq Device
  BY KnownIsDevice DEF Metered
<1>1. ASSUME NEW d \in Device, Traffic(d) PROVE Metered'
  <2>1. /\ net[d].there /\ UNCHANGED <<registry, first, prev, devices, values, intact, unread, actual>>
        /\ net' = [net EXCEPT ![d].count = @ + 1] /\ moved' = [moved EXCEPT ![d] = @ + 1]
    BY <1>1 DEF Traffic, program
  <2>2. /\ net' \in [Device -> [there : BOOLEAN, count : Nat]] /\ moved' \in [Device -> Nat]
        /\ \A e \in Device : /\ net'[e].there = net[e].there
                             /\ net'[e].count = net[e].count + (IF e = d THEN 1 ELSE 0)
                             /\ moved'[e] = moved[e] + (IF e = d THEN 1 ELSE 0)
    BY <1>t, <2>1
  <2>3. Known' = Known /\ RateNotOverstated'
    BY <2>1 DEF Metered, Known, RateNotOverstated, Sampled
  <2> QED
    BY <1>t, <2>1, <2>2, <2>3 DEF Metered
<1>2. ASSUME NEW d \in Device, ComeAndGo(d) PROVE Metered'
  <2>1. /\ UNCHANGED <<registry, first, prev, devices, values, moved, actual>>
        /\ net' = [net EXCEPT ![d] = [there |-> ~net[d].there, count |-> 0]]
        /\ intact' = intact \ {d} /\ unread' = unread \ {d}
    BY <1>2 DEF ComeAndGo, program
  <2>2. /\ net' \in [Device -> [there : BOOLEAN, count : Nat]]
        /\ net'[d].count = 0 /\ \A e \in Device : e # d => net'[e] = net[e]
    BY <1>t, <2>1
  <2>3. Known' = Known /\ RateNotOverstated'
    BY <2>1 DEF Metered, Known, RateNotOverstated, Sampled
  <2> QED
    BY <1>t, <2>1, <2>2, <2>3 DEF Metered
<1>3. ASSUME UNCHANGED <<net, program, moved, intact, unread, actual>> PROVE Metered'
  BY <1>3 DEF program, Metered, Known, RateNotOverstated, Sampled
<1> QED
  BY <1>1, <1>2, <1>3 DEF Kernel, CpuTime, LevelChange, truth

LEMMA MeteredStep == ASSUME Metered, [Next]_vars PROVE Metered'
<1>1. ASSUME NEW temperatures, NEW ports, collector_new(temperatures, ports), UNCHANGED kernel
      PROVE  Metered'
  <2>1. /\ net' = net /\ registry' # {} /\ first' = TRUE /\ values' = << >>
        /\ prev' = [d \in Device |-> 0] /\ moved' = [d \in Device |-> 0]
        /\ devices' = discover_devices
    BY <1>1 DEF collector_new, kernel
  <2>2. RateNotOverstated'
    BY <2>1 DEF RateNotOverstated, Sampled
  <2> QED
    BY <2>1, <2>2 DEF Metered, discover_devices
<1>2. CASE Tick
  BY <1>2, SampleMeters DEF Tick, on_sample_tick
<1>3. CASE KernelStep
  BY <1>3, KernelMeters DEF KernelStep
<1>4. CASE ProcessStep \/ UNCHANGED vars
  BY <1>4 DEF ProcessStep, vars, collectorVars, kernel, program, truth, Metered, Known,
              RateNotOverstated, Sampled
<1> QED
  BY <1>1, <1>2, <1>3, <1>4 DEF Next, Discover

(***************************************************************************)
(* For any devices, metric ids and room in the collector, whatever the     *)
(* devices do between the samples and whichever files do not open: no rate *)
(* claims events its device did not have (sample_ifaces, rate).            *)
(***************************************************************************)
THEOREM RatesAreTrue == Spec => []RateNotOverstated
<1>1. Init => Metered
  BY DEF Init, Metered, RateNotOverstated, Sampled
<1>2. Metered => RateNotOverstated
  BY DEF Metered
<1> QED
  BY <1>1, <1>2, MeteredStep, PTL DEF Spec

-----------------------------------------------------------------------------
(***************************************************************************)
(* The slow sources.  What is held of a source is what it answered last or *)
(* comes from an answer with other places, which needs that discovery      *)
(* found sensors and ports in their own order, and that without an account *)
(* nothing was found that a poll could then not ask.                       *)
(***************************************************************************)
HeldRight(s) == slow_cache[s] = polled[s] \/ s \in shifted

Held ==
    /\ registry # {} =>
          /\ DOMAIN slow_cache = Slow \cup {"poe.total"}
          /\ slow.sensors \in {<< >>, SensorOrder} /\ slow.poe \in {<< >>, PortOrder}
          /\ ~vapix => slow.sensors = << >> /\ slow.poe = << >>
          /\ \A s \in Slow : HeldRight(s)
    /\ registry # {} \/ values = << >>
    /\ SlowAttributed

LEMMA EmptyRange == Range(<< >>) = {} /\ DOMAIN << >> = {}
  BY DEF Range

\* A sensor that a poll does not renumber takes its own level, or is held if its
\* number is not answered.
LEMMA SensorsByNumber ==
    ASSUME NEW s \in Sensors, NEW held, NEW temperatures, NEW ports,
           slow.sensors \in {<< >>, SensorOrder}, slow.poe \in {<< >>, PortOrder},
           s \notin Displaced(temperatures, ports)
    PROVE  sample_sensors(s, held, temperatures) =
               IF s \in Answered(temperatures, ports) THEN level[s] ELSE held
<1> DEFINE places == {k \in DOMAIN slow.sensors \cap DOMAIN temperatures : slow.sensors[k] = s}
<1>0. s # "none" /\ s \notin Range(slow.poe)
  BY EmptyRange, CollectorAssumption DEF Slow, Port
<1>1. s \in Answered(temperatures, ports) <=> s \in Range(slow.sensors) \cap Range(temperatures)
  BY <1>0 DEF Answered
<1>2. CASE slow.sensors = << >>
  <2>1. places = {} /\ Range(slow.sensors) = {}
    BY <1>2, EmptyRange
  <2> QED
    BY <1>1, <2>1 DEF sample_sensors, Reading
<1>3. CASE slow.sensors = SensorOrder
  <2>1. s \in Range(slow.sensors)
    BY <1>3 DEF Sensors
  <2>2. \A k \in DOMAIN temperatures, j \in DOMAIN slow.sensors :
           k = j <=> temperatures[k] = slow.sensors[j]
    BY <2>1 DEF Displaced
  <2>3. s \in Range(temperatures) <=> places # {}
    BY <2>1, <2>2 DEF Range
  <2>4. places # {} => temperatures[CHOOSE k \in places : TRUE] = s
    BY <2>2
  <2> QED
    BY <1>0, <1>1, <2>1, <2>3, <2>4 DEF sample_sensors, Reading
<1> QED
  BY <1>2, <1>3

\* A list with the ports found in order and with their values gives each place
\* its own port.
LEMMA TakesOwn ==
    ASSUME NEW ports \in Seq([port : Port \cup {"none"}, given : BOOLEAN]),
           FirstOf(ports, Len(PortOrder)) = Listing(PortOrder), slow.poe = PortOrder
    PROVE  Taken(ports) = PortOrder
<1>0. PortOrder \in Seq(Port)
  BY CollectorAssumption
<1>1. DOMAIN Taken(ports) = DOMAIN PortOrder
  BY DEF Taken, Listing
<1>2. ASSUME NEW i \in DOMAIN PortOrder
      PROVE  Taken(ports)[i] = PortOrder[i]
  <2>1. FirstOf(ports, Len(PortOrder))[i] = [port |-> PortOrder[i], given |-> TRUE]
    BY DEF Listing
  <2>2. i \in DOMAIN FirstOf(ports, Len(PortOrder))
    BY DEF Listing
  <2>3. i \in DOMAIN ports /\ ports[i] = FirstOf(ports, Len(PortOrder))[i]
    BY <1>0, <2>2 DEF FirstOf
  <2> DEFINE later == {j \in DOMAIN ports : i <= j /\ ports[j].given}
  <2>4. i \in later /\ \A j \in later : i <= j
    BY <1>0, <2>1, <2>3
  <2>5. \A j \in later : j \in Int
    OBVIOUS
  <2>6. Min(later) = i
    <3> HIDE DEF later
    <3>1. \A x \in later : (\A y \in later : x <= y) => x = i
      BY <1>0, <2>4, <2>5
    <3> QED
      BY <2>4, <3>1 DEF Min
  <2>7. xml_value(ports, i) = ports[i].port
    BY <2>4, <2>6 DEF xml_value
  <2>8. Taken(ports)[i] = xml_value(ports, i)
    BY <2>2 DEF Taken
  <2> QED
    BY <2>1, <2>3, <2>7, <2>8
<1>3. Taken(ports) = [i \in DOMAIN PortOrder |-> PortOrder[i]]
  BY <1>1, <1>2 DEF Taken
<1>4. PortOrder = [i \in DOMAIN PortOrder |-> PortOrder[i]]
  BY <1>0
<1> QED
  BY <1>3, <1>4

\* A port that a poll does not displace takes its own level, or is held if there
\* is no answer.
LEMMA PortsByPlace ==
    ASSUME NEW s \in Port, NEW held, NEW temperatures,
           NEW ports \in Seq([port : Port \cup {"none"}, given : BOOLEAN]),
           slow.sensors \in {<< >>, SensorOrder}, slow.poe \in {<< >>, PortOrder},
           s \notin Displaced(temperatures, ports)
    PROVE  sample_poe(s, held, ports) =
               IF s \in Answered(temperatures, ports) THEN level[s] ELSE held
<1>0. s \notin {"poe.total", "none"} /\ s \notin Range(slow.sensors)
  BY EmptyRange, CollectorAssumption DEF Slow, Sensors
<1>1. s \in Answered(temperatures, ports) <=>
          /\ s \in Range(slow.poe)
          /\ \E i \in DOMAIN ports : ports[i] = [port |-> s, given |-> TRUE]
  BY <1>0 DEF Answered
<1>2. CASE slow.poe = << >>
  <2>1. Range(slow.poe) = {}
    BY <1>2, EmptyRange
  <2> QED
    BY <1>1, <1>2, <2>1 DEF sample_poe
<1>3. CASE slow.poe # << >> /\ ports = NoAnswer
  <2>1. \A i \in DOMAIN ports : ports[i] # [port |-> s, given |-> TRUE]
    BY <1>0, <1>3 DEF NoAnswer
  <2> QED
    BY <1>1, <1>3, <2>1 DEF sample_poe
<1>4. CASE slow.poe # << >> /\ ports # NoAnswer
  <2>1. slow.poe = PortOrder /\ s \in Range(slow.poe)
    BY <1>4 DEF Port
  <2>2. FirstOf(ports, Len(PortOrder)) = Listing(PortOrder)
    BY <1>4, <2>1 DEF Displaced
  <2>3. Taken(ports) = PortOrder
    BY <2>1, <2>2, TakesOwn
  <2>4. PICK i \in DOMAIN PortOrder : PortOrder[i] = s
    BY <2>1 DEF Range
  <2>5. s \in Answered(temperatures, ports)
    <3>1. FirstOf(ports, Len(PortOrder))[i] = [port |-> s, given |-> TRUE]
      BY <2>2, <2>4 DEF Listing
    <3>2. i \in DOMAIN FirstOf(ports, Len(PortOrder))
      BY <2>2 DEF Listing
    <3>3. i \in DOMAIN ports /\ ports[i] = FirstOf(ports, Len(PortOrder))[i]
      BY <3>2, CollectorAssumption DEF FirstOf
    <3> QED
      BY <1>1, <2>1, <3>1, <3>3
  <2>6. sample_poe(s, held, ports) = Reading(PortOrder, s, held, PortOrder)
    BY <1>0, <1>4, <2>1, <2>3 DEF sample_poe
  <2> DEFINE places == {k \in DOMAIN PortOrder : PortOrder[k] = s}
  <2>7. places # {} /\ PortOrder[CHOOSE k \in places : TRUE] = s
    BY <2>4
  <2>8. Reading(PortOrder, s, held, PortOrder) = level[s]
    BY <1>0, <2>7 DEF Reading
  <2> QED
    BY <2>5, <2>6, <2>8
<1> QED
  BY <1>2, <1>3, <1>4

LEMMA SampleHolds ==
    ASSUME Held, registry # {}, NEW seconds \in Gaps, NEW opened, NEW temperatures,
           NEW ports \in Seq([port : Port \cup {"none"}, given : BOOLEAN]),
           collector_sample(seconds, opened, temperatures, ports)
    PROVE  Held'
<1>t. /\ DOMAIN slow_cache = Slow \cup {"poe.total"}
      /\ slow.sensors \in {<< >>, SensorOrder} /\ slow.poe \in {<< >>, PortOrder}
      /\ ~vapix => slow.sensors = << >> /\ slow.poe = << >>
      /\ \A s \in Slow : slow_cache[s] = polled[s] \/ s \in shifted
  BY DEF Held, HeldRight
<1> DEFINE due == PollDue(seconds)
           asked == vapix_get(temperatures, << >>)
           listed == vapix_get(ports, NoAnswer)
           answered == Answered(temperatures, ports)
           displaced == Displaced(temperatures, ports)
<1>1. /\ UNCHANGED <<level, vapix, registry, slow>>
      /\ slow_cache' = IF due THEN Poll(slow_cache, asked, listed) ELSE slow_cache
      /\ polled' = [s \in Slow |-> IF due /\ (s \in answered \/ s \in Flash)
                                   THEN level[s] ELSE polled[s]]
      /\ shifted' = IF due THEN (shifted \ answered) \cup displaced ELSE shifted
  BY DEF collector_sample, kernel
<1>2. DOMAIN slow_cache' = Slow \cup {"poe.total"}
  BY <1>t, <1>1 DEF Poll
<1>3. ASSUME NEW s \in Slow
      PROVE  slow_cache'[s] = polled'[s] \/ s \in shifted'
  <2>0. slow_cache[s] = polled[s] \/ s \in shifted
    BY <1>t
  <2>1. CASE ~due
    BY <1>1, <2>0, <2>1
  <2>2. CASE due /\ s \notin displaced
    <3>1. slow_cache'[s] = IF s \in Flash THEN level[s]
                           ELSE IF s \in Sensors THEN sample_sensors(s, slow_cache[s], asked)
                           ELSE sample_poe(s, slow_cache[s], listed)
      BY <1>t, <1>1, <2>2 DEF Poll
    <3>2. CASE s \in Flash
      BY <1>1, <2>2, <3>1, <3>2
    <3>3. CASE s \notin Flash
      <4>1. slow_cache'[s] = IF s \in answered THEN level[s] ELSE slow_cache[s]
        <5>1. CASE s \in Sensors
          <6>1. sample_sensors(s, slow_cache[s], asked) = sample_sensors(s, slow_cache[s], temperatures)
            <7>1. CASE vapix
              BY <7>1 DEF vapix_get
            <7>2. CASE ~vapix
              BY <1>t, <7>2, EmptyRange DEF sample_sensors, Reading
            <7> QED
              BY <7>1, <7>2
          <6> QED
            BY <1>t, <2>2, <3>1, <3>3, <5>1, <6>1, SensorsByNumber
        <5>2. CASE s \in Port
          <6>1. s \notin Sensors
            BY <5>2, CollectorAssumption
          <6>2. sample_poe(s, slow_cache[s], listed) = sample_poe(s, slow_cache[s], ports)
            <7>1. CASE vapix
              BY <7>1 DEF vapix_get
            <7>2. CASE ~vapix
              BY <1>t, <7>2 DEF sample_poe
            <7> QED
              BY <7>1, <7>2
          <6> QED
            BY <1>t, <2>2, <3>1, <3>3, <5>2, <6>1, <6>2, PortsByPlace
        <5> QED
          BY <3>3, <5>1, <5>2 DEF Slow
      <4>2. polled'[s] = IF s \in answered THEN level[s] ELSE polled[s]
        BY <1>1, <2>2, <3>3
      <4>3. s \notin answered /\ s \in shifted => s \in shifted'
        BY <1>1, <2>2
      <4> HIDE DEF answered, displaced
      <4> QED
        BY <2>0, <4>1, <4>2, <4>3
    <3> QED
      BY <3>2, <3>3
  <2>3. CASE due /\ s \in displaced
    BY <1>1, <2>3
  <2> QED
    BY <2>1, <2>2, <2>3
<1>4. /\ DOMAIN values' = registry
      /\ \A s \in Slow \cap registry : values'[s] = slow_cache'[s]
  BY CollectorAssumption DEF collector_sample
<1>5. SlowAttributed'
  BY <1>3, <1>4 DEF SlowAttributed
<1> QED
  BY <1>t, <1>1, <1>2, <1>3, <1>5 DEF Held, HeldRight

LEMMA ListingIsAnswer ==
    /\ Listing(PortOrder) \in Seq([port : Port \cup {"none"}, given : BOOLEAN])
    /\ NoAnswer \in Seq([port : Port \cup {"none"}, given : BOOLEAN])
    /\ \A q \in PortAnswers : q \in Seq([port : Port \cup {"none"}, given : BOOLEAN])
<1> DEFINE Entry == [port : Port \cup {"none"}, given : BOOLEAN]
<1>0. PortOrder \in Seq(Port)
  BY CollectorAssumption
<1>1. Listing(PortOrder) \in Seq(Entry)
  <2>1. Listing(PortOrder) = [i \in 1 .. Len(PortOrder) |-> [port |-> PortOrder[i], given |-> TRUE]]
    BY <1>0 DEF Listing
  <2>2. Len(PortOrder) \in Nat /\ \A i \in 1 .. Len(PortOrder) : [port |-> PortOrder[i], given |-> TRUE] \in Entry
    BY <1>0
  <2> HIDE DEF Entry
  <2> QED
    BY <2>1, <2>2
<1>2. NoAnswer \in Seq(Entry)
  BY DEF NoAnswer
<1>3. ASSUME NEW q \in PortAnswers PROVE q \in Seq(Entry)
  <2> DEFINE Given == [port : Port, given : BOOLEAN]
  <2>1. Given \subseteq Entry
    OBVIOUS
  <2>2. q \in Seq(Given)
    BY CollectorAssumption
  <2> HIDE DEF Entry, Given
  <2>3. Len(q) \in Nat /\ \A i \in 1 .. Len(q) : q[i] \in Entry
    BY <2>1, <2>2
  <2>4. q = [i \in 1 .. Len(q) |-> q[i]]
    BY <2>2
  <2> QED
    BY <2>3, <2>4
<1> QED
  BY <1>1, <1>2, <1>3

LEMMA HeldStep == ASSUME Held, [Next]_vars PROVE Held'
<1>1. ASSUME NEW temperatures, NEW ports, collector_new(temperatures, ports),
             temperatures \in {SensorOrder, << >>}, ports \in {Listing(PortOrder), NoAnswer},
             vapix' = vapix
      PROVE  Held'
  <2>1. /\ slow' = [sensors |-> discover_sensors(temperatures), poe |-> discover_poe(ports)]
        /\ slow_cache' = [s \in Slow \cup {"poe.total"} |-> NAN]
        /\ polled' = [s \in Slow |-> NAN] /\ values' = << >>
        /\ "cpu.usage" \in registry'
    BY <1>1 DEF collector_new
  <2>2. discover_sensors(temperatures) \in {<< >>, SensorOrder}
    BY <1>1 DEF discover_sensors, vapix_get
  <2>3. discover_poe(ports) \in {<< >>, PortOrder}
    <3>1. PortOrder \in Seq(Port)
      BY CollectorAssumption
    <3>2. [i \in DOMAIN Listing(PortOrder) |-> Listing(PortOrder)[i].port] = [i \in DOMAIN PortOrder |-> PortOrder[i]]
      BY DEF Listing
    <3>3. [i \in DOMAIN PortOrder |-> PortOrder[i]] = PortOrder
      BY <3>1
    <3>4. CASE ports = NoAnswer \/ vapix_get(ports, NoAnswer) = NoAnswer
      BY <3>4 DEF discover_poe, vapix_get
    <3>5. CASE ports = Listing(PortOrder) /\ vapix_get(ports, NoAnswer) # NoAnswer
      BY <3>2, <3>3, <3>5 DEF discover_poe
    <3> QED
      BY <1>1, <3>4, <3>5
  <2>4. ~vapix => discover_sensors(temperatures) = << >> /\ discover_poe(ports) = << >>
    BY <1>1 DEF discover_sensors, discover_poe, vapix_get
  <2>5. SlowAttributed'
    BY <2>1 DEF SlowAttributed
  <2> QED
    BY <1>1, <2>1, <2>2, <2>3, <2>4, <2>5 DEF Held, HeldRight
<1>2. CASE Tick
  <2>1. PICK seconds \in Gaps, given \in {Sound} \cup Faulty : on_sample_tick(seconds, given)
    BY <1>2 DEF Tick
  <2>2. given.ports \in {Listing(PortOrder), NoAnswer} \cup PortAnswers
    BY DEF Faulty, Sound
  <2> QED
    BY <2>1, <2>2, ListingIsAnswer, SampleHolds DEF on_sample_tick
<1>3. CASE KernelStep
  <2>1. UNCHANGED <<program, polled, shifted>>
    BY <1>3 DEF KernelStep, Kernel, Traffic, ComeAndGo, CpuTime, LevelChange, truth
  <2> QED
    BY <2>1 DEF program, Held, HeldRight, SlowAttributed
<1>4. CASE ProcessStep \/ UNCHANGED vars
  BY <1>4 DEF ProcessStep, vars, collectorVars, kernel, program, truth, Held, HeldRight, SlowAttributed
<1> QED
  BY <1>1, <1>2, <1>3, <1>4 DEF Next, Discover

(***************************************************************************)
(* For any sensors, ports and answers, with values missing or not, in any  *)
(* order of polls, failures and changing levels: a slow reading is what    *)
(* its own source answered last, except for the sources of a kind from an  *)
(* answer that does not number or list them with their values as discovery *)
(* found them until one that does (sample_sensors, sample_poe, xml_value). *)
(***************************************************************************)
THEOREM SlowReadingsAreOwn == Spec => []SlowAttributed
<1>1. Init => Held
  BY DEF Init, Held, SlowAttributed
<1>2. Held => SlowAttributed
  BY DEF Held
<1> QED
  BY <1>1, <1>2, HeldStep, PTL DEF Spec

-----------------------------------------------------------------------------
CpuTimes == [busy : Nat, idle : Nat, iowait : Nat]

\* t is what the counters made between two readings.
Ahead(now, before, t) ==
    /\ now.busy = before.busy + t.busy
    /\ now.idle = before.idle + t.idle
    /\ now.iowait = before.iowait + t.iowait

(***************************************************************************)
(* What ran since the last reading is what the counters lack of it.  Only  *)
(* iowait may have gone back, and no counter has wrapped at WORD, because  *)
(* each event of the kernel counts one.                                    *)
(***************************************************************************)
Timed ==
    /\ events \in Nat /\ cpu \in CpuTimes /\ prev_cpu \in CpuTimes
    /\ Total(cpu) <= events /\ Total(cpu) <= MaxEvents /\ Total(prev_cpu) <= MaxEvents
    /\ ran \in [busy : Nat, idle : Nat, iowait : Int]
    /\ Ahead(cpu, prev_cpu, ran)
    /\ SharesExact

\* Unsigned subtraction, below the size of a word.
LEMMA WordSince ==
    ASSUME NEW w \in Nat \ {0}, NEW x \in Int, -w < x, x < w
    PROVE  x % w = IF x >= 0 THEN x ELSE x + w
OBVIOUS

LEMMA SharesSampled ==
    ASSUME MaxEvents < WORD, Timed
    PROVE  /\ Usage # NAN => /\ Usage.part = ran.busy /\ Usage.of = Total(ran)
                             /\ Usage.part <= Usage.of
           /\ Iowait # NAN /\ ran.iowait >= 0 =>
                 Iowait = [part |-> ran.iowait, of |-> Total(ran)]
<1> DEFINE t == Total(ran)
           i == IdleOf(ran)
<1>1. /\ ran.busy \in Nat /\ ran.idle \in Nat /\ ran.iowait \in Int
      /\ t \in Int /\ i \in Int /\ t = ran.busy + i
      /\ WORD \in Nat \ {0} /\ MaxEvents \in Nat
  BY CollectorAssumption, SamplingAssumption DEF Timed, Total, IdleOf
<1>2. Total(cpu) - Total(prev_cpu) = t /\ IdleOf(cpu) - IdleOf(prev_cpu) = i
  BY DEF Timed, Ahead, CpuTimes, Total, IdleOf
<1>3. Total(cpu) > Total(prev_cpu) <=> t > 0
  BY <1>2 DEF Timed, CpuTimes, Total
<1>4. /\ -WORD < i /\ i < WORD /\ t < WORD /\ ran.busy < WORD
      /\ ran.iowait < WORD
  BY <1>1 DEF Timed, Ahead, CpuTimes, Total, IdleOf
<1>5. cpu.iowait - prev_cpu.iowait = ran.iowait
  BY DEF Timed, Ahead, CpuTimes
<1> HIDE DEF t, i
<1>6. TotalSince = t % WORD /\ IdleSince = i % WORD
  BY <1>2 DEF TotalSince, IdleSince, Since
<1>7. t >= 0 => TotalSince = t
  BY <1>1, <1>4, <1>6, WordSince
<1>8. IdleSince = IF i >= 0 THEN i ELSE i + WORD
  BY <1>1, <1>4, <1>6, WordSince
<1>9. ASSUME Usage # NAN
      PROVE  Usage.part = ran.busy /\ Usage.of = t /\ Usage.part <= Usage.of
  <2>1. /\ Total(cpu) > Total(prev_cpu) /\ TotalSince >= IdleSince
        /\ Usage.part = TotalSince - IdleSince /\ Usage.of = TotalSince
    BY <1>9 DEF Usage
  <2>2. t > 0 /\ TotalSince = t
    BY <1>1, <1>3, <1>7, <2>1
  <2>3. i >= 0
    BY <1>1, <1>4, <1>8, <2>1, <2>2
  <2> QED
    BY <1>1, <1>8, <2>1, <2>2, <2>3
<1>10. ASSUME Iowait # NAN, ran.iowait >= 0
       PROVE  Iowait = [part |-> ran.iowait, of |-> t]
  <2>1. Iowait = [part |-> Since(cpu.iowait, prev_cpu.iowait), of |-> TotalSince]
    BY <1>10 DEF Iowait
  <2>2. t >= 0
    BY <1>1, <1>10 DEF t, Total
  <2>3. Since(cpu.iowait, prev_cpu.iowait) = ran.iowait
    <3>1. ran.iowait % WORD = ran.iowait
      BY <1>1, <1>4, <1>10, WordSince
    <3> QED
      BY <1>5, <3>1 DEF Since
  <2> QED
    BY <1>7, <2>1, <2>2, <2>3
<1> QED
  BY <1>9, <1>10 DEF t

LEMMA SampleTimes ==
    ASSUME MaxEvents < WORD, Timed, NEW seconds, NEW opened, NEW temperatures, NEW ports,
           collector_sample(seconds, opened, temperatures, ports),
           events' \in Nat, events' >= events
    PROVE  Timed'
<1> DEFINE cpuRead == "stat" \in opened
<1>1. /\ cpu' = cpu /\ prev_cpu' = IF cpuRead THEN cpu ELSE prev_cpu
      /\ ran' = IF cpuRead THEN [busy |-> 0, idle |-> 0, iowait |-> 0] ELSE ran
  BY DEF collector_sample, kernel
<1>2. actual'.ran = ran
  BY DEF collector_sample
<1>3. /\ DOMAIN values' = registry
      /\ "cpu.usage" \in registry => values'["cpu.usage"] = IF cpuRead THEN Usage ELSE NAN
      /\ "cpu.iowait" \in registry => values'["cpu.iowait"] = IF cpuRead THEN Iowait ELSE NAN
  BY CollectorAssumption DEF collector_sample
<1>4. SharesExact'
  BY <1>2, <1>3, SharesSampled DEF SharesExact, Sampled, Total
<1>5. Ahead(cpu', prev_cpu', ran') /\ ran' \in [busy : Nat, idle : Nat, iowait : Int]
  BY <1>1 DEF Timed, Ahead, CpuTimes
<1>6. cpu' \in CpuTimes /\ prev_cpu' \in CpuTimes
  BY <1>1 DEF Timed
<1>7. Total(cpu)' <= events' /\ Total(cpu)' <= MaxEvents /\ Total(prev_cpu)' <= MaxEvents
  BY <1>1, SamplingAssumption DEF Timed, CpuTimes, Total
<1> QED
  BY <1>4, <1>5, <1>6, <1>7 DEF Timed

\* A counter of CPU time makes one step, which is one event.
LEMMA CpuRuns ==
    ASSUME Timed, Event, NEW f \in {"busy", "idle", "iowait"}, NEW step \in {-1, 1},
           step = 1 \/ f = "iowait", CpuTime(f, step)
    PROVE  Timed'
<1>1. /\ cpu' = [cpu EXCEPT ![f] = @ + step] /\ ran' = [ran EXCEPT ![f] = @ + step]
      /\ cpu[f] + step >= 0
      /\ UNCHANGED <<values, actual, prev_cpu>>
  BY DEF CpuTime, program
<1>2. events' = events + 1 /\ events < MaxEvents /\ events \in Nat /\ MaxEvents \in Nat
  BY SamplingAssumption DEF Timed, Event
<1>3. SharesExact'
  BY <1>1 DEF Timed, SharesExact, Sampled
<1>4. /\ cpu.busy \in Nat /\ cpu.idle \in Nat /\ cpu.iowait \in Nat
      /\ ran.busy \in Nat /\ ran.idle \in Nat /\ ran.iowait \in Int
      /\ cpu = [busy |-> cpu.busy, idle |-> cpu.idle, iowait |-> cpu.iowait]
      /\ ran = [busy |-> ran.busy, idle |-> ran.idle, iowait |-> ran.iowait]
      /\ prev_cpu.busy \in Nat /\ prev_cpu.idle \in Nat /\ prev_cpu.iowait \in Nat
  BY DEF Timed, CpuTimes
<1>5. CASE f = "busy"
  <2>1. /\ cpu' = [busy |-> cpu.busy + 1, idle |-> cpu.idle, iowait |-> cpu.iowait]
        /\ ran' = [busy |-> ran.busy + 1, idle |-> ran.idle, iowait |-> ran.iowait]
    BY <1>1, <1>4, <1>5
  <2> QED
    BY <1>1, <1>2, <1>3, <1>4, <2>1 DEF Timed, CpuTimes, Ahead, Total
<1>6. CASE f = "idle"
  <2>1. /\ cpu' = [busy |-> cpu.busy, idle |-> cpu.idle + 1, iowait |-> cpu.iowait]
        /\ ran' = [busy |-> ran.busy, idle |-> ran.idle + 1, iowait |-> ran.iowait]
    BY <1>1, <1>4, <1>6
  <2> QED
    BY <1>1, <1>2, <1>3, <1>4, <2>1 DEF Timed, CpuTimes, Ahead, Total
<1>7. CASE f = "iowait"
  <2>1. /\ cpu' = [busy |-> cpu.busy, idle |-> cpu.idle, iowait |-> cpu.iowait + step]
        /\ ran' = [busy |-> ran.busy, idle |-> ran.idle, iowait |-> ran.iowait + step]
        /\ cpu.iowait + step >= 0
    BY <1>1, <1>4, <1>7
  <2> QED
    BY <1>1, <1>2, <1>3, <1>4, <2>1 DEF Timed, CpuTimes, Ahead, Total
<1> QED
  BY <1>5, <1>6, <1>7

LEMMA TimedStep == ASSUME MaxEvents < WORD, Timed, [Next]_vars PROVE Timed'
<1>e. Event => events' \in Nat /\ events' >= events
  BY DEF Event, Timed
<1>1. ASSUME NEW temperatures, NEW ports, collector_new(temperatures, ports), UNCHANGED kernel,
             events' \in Nat, events' >= events
      PROVE  Timed'
  <2>1. /\ cpu' = cpu /\ ran' = cpu /\ values' = << >>
        /\ prev_cpu' = [busy |-> 0, idle |-> 0, iowait |-> 0]
    BY <1>1 DEF collector_new, kernel
  <2>2. SharesExact'
    BY <2>1 DEF SharesExact, Sampled
  <2>3. /\ Total(cpu)' <= events' /\ Total(cpu)' <= MaxEvents /\ Total(prev_cpu)' <= MaxEvents
    BY <1>1, <2>1, SamplingAssumption DEF Timed, CpuTimes, Total
  <2>4. /\ cpu' \in CpuTimes /\ prev_cpu' \in CpuTimes
        /\ ran' \in [busy : Nat, idle : Nat, iowait : Int]
    BY <2>1 DEF Timed, CpuTimes
  <2>5. Ahead(cpu, prev_cpu, ran)'
    BY <2>1 DEF Timed, CpuTimes, Ahead
  <2> QED
    BY <1>1, <2>2, <2>3, <2>4, <2>5 DEF Timed
<1>2. CASE Discover
  <2>1. UNCHANGED kernel /\ events' \in Nat /\ events' >= events
    BY <1>2, <1>e DEF Discover, Timed
  <2> QED
    BY <1>1, <1>2, <2>1 DEF Discover
<1>3. CASE Tick
  <2>1. events' \in Nat /\ events' >= events
    BY <1>3, <1>e DEF Tick, Timed
  <2> QED
    BY <1>3, <2>1, SampleTimes DEF Tick, on_sample_tick
<1>4. CASE KernelStep
  <2>1. Event /\ Kernel
    BY <1>4 DEF KernelStep
  <2>2. ASSUME UNCHANGED <<cpu, values, actual, ran, prev_cpu>> PROVE Timed'
    <3>1. SharesExact'
      BY <2>2 DEF Timed, SharesExact, Sampled
    <3>2. Total(cpu)' <= events'
      BY <2>1, <2>2, <1>e DEF Timed, CpuTimes, Total
    <3>3. Total(cpu)' <= MaxEvents /\ Total(prev_cpu)' <= MaxEvents
      BY <2>2 DEF Timed, Total
    <3> QED
      BY <2>1, <1>e, <2>2, <3>1, <3>2, <3>3 DEF Timed, Ahead
  <2>3. CASE \E d \in Device : Traffic(d) \/ ComeAndGo(d)
    BY <2>2, <2>3 DEF Traffic, ComeAndGo, program
  <2>4. CASE \E s \in Slow : LevelChange(s)
    BY <2>2, <2>4 DEF LevelChange, program, truth
  <2>5. CASE \E f \in {"busy", "idle", "iowait"} : CpuTime(f, 1)
    BY <2>1, <2>5, CpuRuns
  <2>6. CASE CpuTime("iowait", -1)
    BY <2>1, <2>6, CpuRuns
  <2> QED
    BY <2>1, <2>3, <2>4, <2>5, <2>6 DEF Kernel
<1>5. CASE ProcessStep \/ UNCHANGED vars
  <2>1. /\ UNCHANGED <<cpu, values, actual, ran, prev_cpu>>
        /\ events' \in Nat /\ events' >= events
    BY <1>5, <1>e DEF ProcessStep, vars, collectorVars, kernel, program, truth, Timed
  <2>2. SharesExact'
    BY <2>1 DEF Timed, SharesExact, Sampled
  <2>3. Total(cpu)' <= events'
    BY <2>1 DEF Timed, CpuTimes, Total
  <2> QED
    BY <2>1, <2>2, <2>3 DEF Timed, Ahead, Total
<1> QED
  BY <1>2, <1>3, <1>4, <1>5 DEF Next

(***************************************************************************)
(* While no CPU counter has reached the size of its word, and whatever the *)
(* kernel does to iowait: the usage shown is the busy share of the time    *)
(* since the last reading, and never more than all of it (sample_cpu).     *)
(***************************************************************************)
THEOREM SharesAreExact == ASSUME MaxEvents < WORD PROVE Spec => []SharesExact
<1>1. Init => Timed
  <2> SUFFICES ASSUME Init PROVE Timed
    OBVIOUS
  <2>1. SharesExact
    BY DEF Init, SharesExact, Sampled
  <2> QED
    BY <2>1, SamplingAssumption DEF Init, Timed, CpuTimes, Ahead, Total
<1>2. Timed /\ [Next]_vars => Timed'
  BY TimedStep
<1>3. Timed => SharesExact
  BY DEF Timed
<1> QED
  BY <1>1, <1>2, <1>3, PTL DEF Spec
=============================================================================
