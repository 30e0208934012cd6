# Metrics: verification of the device metrics application

TLA+ models of the Metrics ACAP application (`src/app`), the TLC runs that check
them on small instances, and TLAPS proofs of the results that matter most for
every instance.

## 1. Inventory

The program is one process with a GLib main loop. The sampling timer, the retry
timer, HTTP requests, parameter callbacks and signals are handlers that run to
completion, one at a time. Two other threads exist: the InfluxDB worker and the
callback thread of the Paho MQTT library.

| Component | State | Operations | Hard parts | What makes it correct |
|---|---|---|---|---|
| history store (`store.c`) | three rings, an open bucket per coarse tier, the latest row | push, restore, read, series | wrapping, bucket boundaries, wall clock moves | each tier is the most recent entries, oldest first; every sample is in exactly one bucket; means are exact |
| persistence (`persist.c`) | a circular file per tier: header, id table, records | open, load, sync, append, close | crashes between writes, lazily written header, changed metric set | a clean restart restores exactly; a crash loses little; readings keep their metric |
| orchestration (`main.c`) | open files, retry timer, registry, store | start, retry, rebuild, sample, stop | storage that comes and goes, partial failures, a handler that re-arms its own timer | tiers open together; one timer; storage is eventually used; saved history is not overwritten |
| alerts (`alerts.c`) | rule table, rules file, declared events | load and defaults, evaluate, save, delete | timing on the wall clock, restarts, edits while timing, lost messages | alarms are exact; events and messages mirror rules; defaults are not lost |
| InfluxDB writer (`influx.c`) | queue, configuration and state under a lock | apply, tick, worker, free | two threads, slow server, shutdown | one owner per payload, newest kept, shutdown ends, the status catches up |
| MQTT publisher (`mqtt.c`) | client, connected, discovery_sent, last_publish | apply, tick, callbacks, free | unlocked state shared with Paho's thread, dropped sessions, retained messages | availability is true; discovery is complete and not stale |
| collector, registry (`collect.c`, `metrics.c`) | discovered devices, sensors and ports, previous counters, held slow readings | discover, sample | counters that go back, re-created devices, files and requests that fail, mounts | no rate is overstated, shares are exact, a held reading stays with its source |
| selection (`selection.c`) | disabled ids per scope, saved in one file | set, load | a save that fails, changes while connected | the selection survives restarts; what is not selected is not sent |
| processes (`procs.c`) | table of 512 processes with baselines | scan | reused pids, failed scans, a table full of exited processes | the CPU time shown is the time used; everybody gets a place |
| settings (`main.c`, `app.js`) | parameters, the sample timer, the dashboard's form | request, callback, form | late callbacks, writes that fail, stale forms, secrets the form never sees | copies agree in the end, what runs follows them, the password is kept |
| event stream (`main.c`) | clients with a count of missed frames | add, broadcast | full send buffers, dead clients | exactly the stalled are dropped, and the dead in the end |
| API (`api.c`) | none of its own | queries | tier choice, point limit | zooming out hides nothing |
| VAPIX client (`vapix.c`) | the service account | request | no account, failing requests | held readings, see collector |
| scripts | none | packaging | | |

Interactions: the sampler pushes a row into the store, whose callbacks append to
the files; then it evaluates the alerts, which send events and MQTT messages; then
it ticks MQTT, InfluxDB and the process table. A rebuild replaces registry,
collector, store and alerts together. Settings reach MQTT and InfluxDB through
`mqtt_apply` and `influx_apply`.

`PROJECT.json` lists the hazards this gives, each at its line.

## 2. Modules

| Module | Models | Runs | Proofs |
|---|---|---|---|
| `Ring` | the circular buffer of both `store.c` and `persist.c` | (through the others) | `RingProofs` |
| `BoundedHistory` | abstract: a tier is its most recent entries | | |
| `Store` | `store.c`; implements `BoundedHistory` | `store` | `StoreProofs` |
| `DurableHistory` | abstract: what a run starts with, given the rows the file held and how the last run ended | | |
| `Recording` | one tier and its file, `persist.c`; implements `DurableHistory` | `recording`, `recording_loss` | `RecordingProofs` |
| `Lifecycle` | `main.c`: all tiers, retry, rebuild | `lifecycle_retry`, `lifecycle_again` | `LifecycleProofs` |
| `Influx` | `influx.c`, both threads | `influx` | `InfluxProofs` |
| `Registry` | the metric set the publishers look up, replaced by a start or rebuild | (through the next two) | |
| `Alerts` | `alerts.c` and `mqtt_publish_alert` | `alerts`, `alerts_edit` | `PublisherProofs` |
| `Mqtt` | `mqtt.c`, main loop, Paho's thread, brokers | `mqtt_*` | `PublisherProofs` |
| `Series` | query side and sizing of `store.c`, `api_series_json`, over `Store` | `store` | `StoreProofs` |
| `Collector` | `collect.c`: discovery, rates, CPU shares, slow sources | `sampling` | `SamplingProofs` |
| `Procs` | `procs.c` | `sampling` | `SamplingProofs` |
| `Sampling` | `on_sample_tick`: composes `Collector` and `Procs` with a kernel that goes on between ticks | `sampling` | `SamplingProofs` |
| `Settings` | parameters, callbacks, settings form, metric selection | `web` | `WebProofs` |
| `EventStream` | `sse_add`, `sse_broadcast` and the sockets | `web` | `WebProofs` |
| `Web` | composes `Settings` and `EventStream` on one main loop | `web` | `WebProofs` |

`MC*` modules only define the small instances; every `.cfg` gives constants their
values. Definitions named `M_...` are deliberate slips: each is the definition that
follows it with one plausible mistake, and documents which mistake a property
catches (`mutants` in `PROJECT.json`). They are used by nothing else.

### How state and actions correspond to the code

**Ring, Store.** A ring is `[slots, head, count]`; `Put` is `tier_append`, `Start`
the oldest slot as every reader computes it. A reading is kept as sum and number
of samples, so that a mean is a fact about samples and not about floating point;
NAN is the sum of none. `store_push` is one step: it runs under the store's lock
and its callbacks run before the next handler. The clock is `time(NULL)`.
`total`, `opened`, `first` and `last` are auxiliary and say which samples an entry
stands for. A replayed entry may have any time (`persist_load` only asks for a positive
one): a file that wrapped before a crash is replayed out of order, and after the clock was
set back it holds times of the future.

**Recording.** `load`, `sync` and `append` run to completion, so nothing of the
program interleaves with them; but the process can die between any two writes.
Every write is therefore a step and `pc` says which is next. A value is abstracted
to the metric it is a reading of. The header is a field of its own, written only by
`SyncHeader`, `Flush` and `persist_close`. A wider id table runs into old records;
what those bytes look like as a record is a nondeterministic choice (`Spill`).
Writes reach the medium in program order (there is no fsync in the code; reordering
by a power loss is not modelled). The write of a record may fail, in `persist_append`
while sampling (`SampleWriteFails`) and while `persist_sync` rewrites the file
(`SyncRowFails`): the row is left out and the next one takes its place. Header writes, the
id table and `ftruncate` are taken to succeed. `written` collects the rows that got into
the file during a rewrite, and `durable` the rows it holds once it is done; both are
auxiliary. `close_persistence` is the file of an earlier tier closed again because a later
one's did not open (`main.c:186-188`): the run keeps its rows in memory and may open it
again.

**DurableHistory** knows five phases, the rows in memory, the rows and the format of the
file, and how the last run that wrote to the file ended. `Restores` is its promise: a
file with another interval gives nothing; after a clean stop exactly the file's rows come
back, under this run's metrics and cut to its capacity; after a crash while recording
only rows of the file, and, if this run has room for the whole file, all but
`HEADER_FLUSH_EVERY` of them, in order with just the newest missing if the file was not
full; after a kill during the start-up rewrite nothing is promised of the rows. Rows a
run collected before storage was found stay and replace the file's. A rewrite (`Commit`)
gives the file the rows in memory without those whose write failed, in order
(`Subsequence`), and a file may be given up in good order while the run goes on
(`Detach`). `Recording` maps its ten places in the code to the phases; while `persist_load`
replays, nothing reads the
tier, so the abstract tier is empty until `LoadDone`, which is the abstract `Attach`.

**Lifecycle.** Samples are abstracted to the epoch (the life of one store) they
belong to; tiers and files are sets of epochs. `try_open_persistence` is one action
with the number of tiers it manages to open; `sources` counts the timers the main
loop really has, `timer` is `persist_retry_timer`. Mounts change between handlers.
`Interesting` (what `mount_is_interesting` counts) and `Storage` (what `find_storage`
accepts) are separate sets: flash and network shares count but cannot be recorded to. A
rewrite may lose any of the `Losses`, and any record write of a sample may fail. A file
stays open when its file system goes (`Dead`): `Open` is what the code tests, `Recorded`
says that writes really arrive. `found` and `exposed` are auxiliary.

**Influx.** A critical section is one step. Payloads are buffer addresses that may
be reused after `free`. `influx_state` reads without the lock, so while the worker
is in `set_state` it may return the old value, the new one or `"torn"`. Time is
counted in sampling periods.

**Alerts.** A rule table is a function from ids. A reading is low, high or nan and
the threshold lies between. `held` and `raised` are auxiliary: they say, by the
number of samples and not by the wall clock, since when the condition has held.
`save_rules` may fail: that is logged, the file stays as it was and the table goes on.
Declaring an event and sending one may fail for any of the rules (`EventsFail`).
`mqtt_publish_alert` sends if `mqtt->connected`, but the session may have broken without
the program knowing (`link = "broken"`): the message is lost. Another broker or topic
prefix (`TopicChange`) starts with whatever is retained there. `missed`, `unsent` and
`unsaved` record what was not passed on.
A start and a rebuild are the same action, `Launch`. Adding the defaults one by one until
the table is full is stated as its result: a missing default is added if the rules in the
table and the missing ones before it leave room.

**Mqtt.** `disconnect` is two steps (the retracting publish, which may wait a
second, and the destruction), `on_connected` five, because both threads use
`struct Mqtt` without a lock. Which metrics a callback wants is decided before it
is published, so a change in between affects any subset. Paho and the brokers are
external: a publish arrives if the session is up; a session that ends without
DISCONNECT leaves its will; a client destroyed while its session is up without main
knowing leaves it or not. If `MQTTAsync_connect` returns an error (`mqtt.c:327`), the
client exists but Paho never tries (`tries`), although the log line says it does;
`ComesOnline` is about the others. `raced` records whether main and a callback have
ever overlapped.

**Series.** Queries change nothing, so they are operators over the state of `Store`,
evaluated in every reachable state at the time of the last sample and one second
later. An answer is the set of the places of the ring that it is made of; they are
returned oldest first. Tier capacities are computed as in `store_new`, and an
assumption that TLC evaluates says, for every sample interval and several sizes of RAM,
what the proofs use of them (`ReachesBack`, with samples up to a day late): a coarser
tier has no fewer entries than the finest and reaches further back than the windows
that any other finer tier answers.

**Collector, Procs, Sampling.** Interfaces and disks have one event counter each
instead of four, CPU time three (busy, idle, iowait, which the kernel may decrease).
Unsigned subtraction is modulo `WORD`. A rate is kept as the device it is of, the
events and the seconds, so that "whose and how many" can be compared with what
really happened (`actual`). `devices` holds places in `DeviceOrder`, the order in
which `/proc` lists them; two devices whose names are sanitized to the same id share
a metric and the later one sets it. A sensor is found by the number it had at discovery
(`Sensor.S<n>.Celsius`) and a port by its position among the `<PortStatus>` elements, so an
answer gives the sensor of each number, and the sequence of ports with or without a value.
`xml_value` does not stop at `</PortStatus>` (`collect.c:492`): a port listed
without a value takes that of the next port that has one. `shifted` collects the sources
whose latest answer did not number or list them as discovery found them.
A tick takes one action because `on_sample_tick` runs to completion; at most one
source fails per tick. Between ticks the kernel counts, devices are re-created,
sensors change, and processes start, run and exit.

**Settings, EventStream, Web.** `value` is the program's copy of the parameters,
`stored` the device's. Every write is reported back later by a callback, in any
order among the writes of a request; `pending` are the callbacks under way.
`load_parameter` and the registration are two steps, between which a parameter may
change; `unheard` collects what the program misses that way, or because reading or
registering failed. The form is the record of what each field would send; a stale
one stays open over other changes and over restarts of the program. If the fetch fails the
dialog opens with what its fields held before (`OpenUnfilled`). A send buffer
is counted in half frames, so that a partial write exists. `sse_broadcast` writes to one
client after the other. The code makes the socket non-blocking and expects `WOULD_BLOCK`
from a full one, but GLib's output stream of a socket connection waits for room all the
same, and the main loop with it. As this is decided outside `src/`, both are modelled
(`waits`): a broadcast that waits holds up every other handler (`MainLoopFree`) until the
client reads, its connection fails or the program is killed.

## 3. Runs

Passing:

| Run | Shows |
|---|---|
| `store` | with a clock that may stand still or be set back: accounting is exact, buckets have their width, the store implements `BoundedHistory`, and the answer for a longer window starts no later than the one for a shorter |
| `recording` | three runs with changing metric sets, capacities and intervals, crashes between any two writes, and record writes that fail in the rewrite or later: a clean stop restores exactly, a crash while recording loses at most a flush interval, in an unfilled file only the newest, readings keep their metric unless a crash tore the layout, and the file implements `DurableHistory` |
| `lifecycle_retry` | with mounts that are no storage, failing opens and rewrites that lose records: tiers open together, one timer, nothing lost by a failed try, saved history is adopted and not overwritten unless a try failed or storage was replaced among as many mounts, and while no file is open storage is eventually recorded to |
| `influx` | ownership of payloads, newest payload kept, shutdown completes, the reported status catches up with the settings |
| `alerts` | with a steady clock and edits that keep the condition, through deletions, a restart, a full table, failing saves, declarations and sends, and a session that breaks or moves: alarms are exact, events and messages mirror the rules unless their sending was missed, defaults and saved user rules survive |
| `mqtt_link` | availability is true, discovery complete, the first sample after a connection published; a client that stays and whose connect was accepted comes online, after drops too |
| `sampling` | counters, CPU times, sensors, ports and processes that change between ticks, re-created interfaces, failing files and requests: rates are not overstated, shares are exact, held readings stay with their source, processes are billed correctly, and a full process table lets new ones in again |
| `web` | requests, the form, outside changes with late callbacks, restarts and stream clients in any order: parameters agree once the callbacks are dispatched, what runs follows them, password and selection are kept, exactly the stalled clients are dropped, and the dead in the end unless a write waits for ever |

Violations, each a disagreement between the code and its documentation that TLC
shows with a trace (`findings` in `PROJECT.json`):

| Run | Shows |
|---|---|
| `recording_loss` | a crash during the start-up rewrite loses the recording |
| `lifecycle_again` | storage that is removed and inserted again is not recorded to before a restart |
| `alerts_edit` | a changed condition inherits the time the old one held |
| `mqtt_prefix` | after a changed topic prefix the old one stays "online" |

### What the passing properties leave out on purpose

Some properties carry a condition because the code does not provide more. Each
condition is a behaviour of the code, visible in the model:

- `CrashLossBounded` and `DurableHistory!Survives` promise order only for a file that is
  not full: the stale header of a *wrapped* file makes `persist_load`
  begin with the newest records, so the replay is out of order.
- `AttributedUnlessTorn`: a kill between the id table and the header of
  `initialise_file` leaves old records under new ids.
- `StorageIsPickedUp` is about the time no file is open: while the tiers count as open
  nothing looks at the mount table, so storage that is removed and inserted again, and
  file systems that appear later, are not noticed. `lifecycle_again` shows that, and that
  `src/README.md:266-268` says otherwise.
- `AlarmIsExact` is checked with a steady clock: durations are differences of
  `time(NULL)`, and a clock that is set forward fires a rule early.
- `BrokerMirrorsUnlessMissed`: a change while disconnected is not sent later, one sent into
  a session that has just broken is lost; a new broker or topic prefix is told nothing
  until a rule changes; a rule that fires when the program restarts, or is deleted, leaves
  "firing" retained. A deleted rule's event also stays active (`EventMirrorsRule` is about
  the rules in the table).
- `EventMirrorsRule`: the state of a rule whose event was not declared when it changed, or
  whose event could not be sent (`alerts.c:149` ignores the result), is not sent again.
- `DefaultCover`: a default whose id is in use by a user rule (saved while the file system
  was away) is not protected from deletion, and defaults may find the table full; a disabled
  one that was pruned comes back enabled.
- `UserRulesSurvive` needs that the last save succeeded: what `save_rules` could not write
  (`alerts.c:66`) is gone at the next start or rebuild.
- `ComesOnline`: a client whose `MQTTAsync_connect` returned an error is not tried again
  until the connection settings change (`mqtt.c:327-329`).
- `DeadIsDropped` holds if the main loop is free again and again, that is if no write to a
  stream client waits for ever (`main.c:523`).
- `DiscoveryComplete` says what is published. Configs that are no longer wanted are not
  always withdrawn: not when discovery was narrowed while disconnected, and not for
  metrics that have left the registry.
- `SavedSurvives`: mounts are compared by number, so storage that comes between two tries
  while another mount that counts goes is not noticed, and its saved history is
  overwritten by the store's (`collect.c:930`, `Replaced`). The same happens after a try
  that failed on mounted storage, because by then the store has samples of its own.
- `ZoomOutHidesNothing`: an answer keeps the *first* 4000 points, so a 30 day window of
  8640 points ends before the present. A window that is longer by less than a bucket of
  the tier the shorter one came from may start *later* (`WidensEnough`): the oldest bucket
  in the shorter answer ends inside its window but began before it, and the coarser bucket
  with the same samples may have ended just before the longer one begins. On an instance
  with larger tiers TLC shows it with windows of 3 and 4 seconds over buckets of 2 and 4.
  After the clock was set back, entries from the abandoned future count as recent and push
  the others out (`NoneAhead`). And `store.c:55` divides the capacity of the fine
  tier by the sample interval: with an interval of 2 or more it still spans half an hour,
  although `store.c:53` and `src/README.md:95` speak of a longer fine window, while
  `store_tier_for_window` gives it windows of up to 2000 intervals.
- `RateNotOverstated`: after a sample whose file did not open the next rate covers two
  intervals but is divided by one.
- `SharesExact`: the iowait share has no guard against a decrease and wraps
  (`collect.c:689`).
- `SlowAttributed`: an answer that numbers the sensors or lists the ports otherwise than at
  discovery, or lists a port without its value, shifts readings to other sources, until an
  answer has them as found.
- `CpuShareTrue`: a pid used again between two scans takes over a baseline; after a scan
  that could not open `/proc` the baseline is older than the time it is divided by.
- `QuiescentAgrees`: a parameter changed between `load_parameter` and the registration of
  its callback is missed, as is one that could not be read or registered.
- `AppliedFollowsValues` says nothing of the fine tier's interval, which is that of the
  last start or rebuild (`fine_interval`).
- `PasswordKept` is about the MQTT password. The form sends the InfluxDB secrets even when
  they are empty, which erases them, and `InfluxEnabled` is not in `CHECKBOXES`
  (`app.js:547`), so the form cannot switch it. A stale form also writes back every other
  field as it was when it was filled, and an unfilled one as the page came.

### Bounds, and why they are enough

- Store: three tiers of capacity 2, 2 and 3 with intervals 1, 2 and 4, so that buckets have
  one sample or more. Each tier that is still empty can be given any number of saved entries
  with the times in `SavedTimes`, in any order, at the start or between samples. Four pushes
  (`MaxPushes`), each on time, a second late or with the clock set back, up to time 11
  (`MaxClock`), close a bucket of every tier, so that every tier wraps, the coarsest over
  entries of an earlier run. Charts have one point and answers two: of the `Windows` 1, 3 and 8 the
  first fits the finest tier, the second the middle one and the last none, so that each
  pair zooms out between tiers and the limit is reached. More saved times multiply the
  states. The theorems hold for any `SavedTimes`, `Windows` and bounds.
- Recording: capacities 2 and 3 with `HEADER_FLUSH_EVERY` 2, so that the header is stale
  before and after the file wraps; four samples in three runs with different metric sets,
  so that a crash can hit a file that an earlier crash left.
- Lifecycle: three tiers; an SD card, a disk that is not counted as a mount and a share that
  is no storage; two starts, three mount changes, one failing open or lossy rewrite, which
  can be that of any tier. `lifecycle_again` needs one card, one start and no failure.
- Influx: three buffers (one queued, one held, one free), settings that differ in each
  field, intervals of one and two sampling periods.
- Alerts: one default and two user ids with a table of two, so that it fills; four samples
  for durations of one and two; a start and a restart with or without the file system, two
  edits and three changes of the session or topic. `alerts_edit` has two metrics, two
  defaults and six samples.
- Mqtt: two brokers (or two prefixes), a change of settings, of selection or registry,
  two dropped sessions, two starts, kills at any point, a client that cannot be created or
  connected.

- Sampling: two interfaces with the same metric id, two sensors that may be left out or
  renumbered, two ports of which an answer may leave out one or its value, two processes for
  a table of one, gaps of one and two seconds around intervals of two; four events or faults
  between any ticks.
  `WORD` is 8, so that a decrease wraps visibly.
- Web: three parameters, one of each kind (the interval, the secret that is kept when
  blank, a checkbox the form cannot switch), three changes, requests of one field and
  forms of all, any one write, read or registration failing; one client with room for
  one frame and a limit of two missed ones. Opening a form is not counted, so a form can
  be opened at any moment and saved after any other change.

Deadlock checking is off where the bounds, or a stopped program, end a behaviour.

### Fairness

- Lifecycle: `FirstTry` and `Retry` (the main loop dispatches a due timer). Nothing
  is assumed of mounts, samples or restarts.
- Influx: the timer keeps firing, handlers and the worker go on (requests end after
  `INFLUX_TIMEOUT`), and strong fairness of `Pop`: the main loop empties the queue
  only to fill it again in the same handler and then waits a whole interval, so a
  worker blocked in `g_async_queue_pop` is woken before that.
- Mqtt: handlers and callbacks go on; Paho retries (`automaticReconnect`) and a
  broker that keeps being asked accepts. Drops are bounded.
- Sampling and Web: the main loop keeps dispatching the sample timer, stated as weak
  fairness of the process table's and the event stream's part of the handler. A write to
  a stream client is fair only when it can return, so a broadcast that waits may wait for
  ever; `DeadIsDropped` has that as its condition and assumes nothing of it. Faults are
  bounded (`MaxEvents`), so they end.

## 4. Proofs

All are for every value of the constants under the named assumptions of the modules.
The inductive invariants of `Recording`, the largest, were checked by TLC on its run
before they were proved.
Every invariant and action property of the passing runs is stated by a theorem.

**Rings and store.**

- `RingProofs!PutSlides`: the contents of a ring after `Put` are `Slide` of the
  contents before. The case split is whether the ring is full and whether the slot
  read is the one written; the arithmetic of `%` is isolated in lemmas.
- `StoreProofs!TypeCorrect`, then `StoreImplementsBoundedHistory`: with `PutSlides`
  every `store_push` is a `Push` and every `store_restore` a `Restore` of the
  abstract module. `AccountingHolds`: `EverySampleOnce` is not inductive alone; the
  invariant adds that entries of a tier chain (`last` of one is `first` of the next),
  that the newest ends where the open bucket begins, and that the accumulator is the
  difference of two prefix sums.
- `BucketsSpanIntervals`: the invariant `Widths` adds that the open bucket starts at the
  time of the newest closed one, unless that one was replayed, and has not been open for
  its interval yet (`OpenBucket`). The upper limit, one late sample more, follows from
  that and the step of the clock that closed the bucket.

- `ZoomingOutHidesNothing` compares two rings that were filled by the same samples but cut
  into buckets of their own, under a clock that may be set back. Its invariant is the
  theorem `TiersAreInStep`; all its parts were checked by TLC on the run `store` first.
  The ages (`Ages`): the open bucket of a coarse tier is never more than its interval
  behind any entry or open bucket of any tier (`OpenLast`), so a bucket that closes is
  stamped no earlier than anything that is there, and from that a coarse bucket that ends
  after an entry of another tier begins is not older than it, up to one bucket of that
  tier (`InStep`). The places (`AllLined`): entries that are n places apart are at least n
  samples and, in a coarse tier, n intervals apart, and a ring that is not full begins
  with the first sample. `CoarserReaches` then takes the first bucket of the coarser tier
  that ends after the oldest entry of the shorter answer begins: it is recent by `InStep`,
  and it begins no later because its predecessor ended before, because the ring has
  forgotten nothing, or, in a full ring, by `ReachesBack`, in samples if the finer tier
  is the finest and in seconds otherwise.

**Recording.** `RecordingTypeCorrect` and `FileMirrors`: `FileMirrorsHistory` compares the file
with the
rows that were written, not with the tier, because any of them may have failed; it needs that
the file is laid out for the present registry from `SyncSize` on (`Layout`), and that
files are only open with the counters of this run (`Opening`). On these rest the
results about restarts:

- `CleanRestartsAreExact` and the lemma `UnfilledCrashesLoseNewest`. A file that is not full has
been
  written from slot 0 on (`Described`), so a header that is behind still names the oldest
  rows. While the file is at rest (`Saved`) the records the header describes are the first
  rows written, and all of them after a clean stop; persist_load has then restored the
  last `reg.capacity` of the first `k` (`LoadMirrors`). `ProperRows` says that rows have a
  time and no reading of metrics outside the registry, which is why mapping columns to the
  new registry is the same as dropping the missing ones.
- `CrashLossIsBounded` covers the wrapped file too, where the order is lost. The slots in
  use and the rows written have the same times, and the header lags by at most
  `HEADER_FLUSH_EVERY` (`Lagging`); the slots persist_load visits are exactly the first
  `count` ones, wrapped or not (`SlotsCover`, `LoadTimes`). The bound on the number of
  lost rows is then a counting argument with the library's theorems on finite sets.
- `ReadingsAreAttributed`: every slot a restart may come to read holds readings of the
  metrics in the id table at their columns (`OwnFile`), and so do the rows in memory
  (`OwnRows`). It needs that the id table has no duplicates, and it is lost in just
  one place, a kill between the id table and the header.
- `RecordingImplementsDurableHistory`: `HistoryStep` takes every action of `Recording` to
  an action of `DurableHistory` or a stutter. The invariant `Restorable` adds that the file
  has all its slots unless the last run ended while it wrote it (`Sized`), so that
  persist_load never stops early; that a tier being loaded holds rows of an accepted file
  only (`FromFile`), whatever the capacities; and that the interval in the header is this
  run's (`OwnInterval`), so that the header written at a flush or a close is the one that
  is there but for head and count. `TakesOver`, the promise of `LoadDone`, then follows
  from `CleanRestartExact` and `CrashLossBounded`. That the rows written are the tier's
  without those that failed (`Subsequence`) is kept for every row of the rewrite.

**Lifecycle.** `RetryIsSound`: the two facts need each other and that no file is open
before the first try. `TiersOnlyGrow` is an action property that needs only the numbering
of epochs. `SavedIsKept` is for any mounts that count and any storage. Its invariant
(`Unrecorded`) says that a running store that is not recorded, and not `exposed`, found no
storage when its metrics were discovered: storage that then appears changes the number of
mounts, or the store is exposed; the rebuild empties the store, and an empty store adopts.

**Influx.** `PayloadsOwnedOnce`: ownership needs that the queue has no duplicates,
that `QUIT` is queued only after `influx_free`, and that main pushes only after it
has drained.

**Alerts** (`PublisherProofs`).

- `DefaultsAreCovered`, `EventsMirrorRules`, `MessagesMirrorRules` share the invariant
  `Mirrors`: the file is the table unless the last save failed, every default that had room
  and a free id is there *as a built-in rule*, which is what protects it from deletion, and
  a rule that fires undeclared is one the event system was not told of (`Untold`). That the
  defaults fit if the table had room for all is a counting argument over their order
  (`DefaultsFit`). `UserRulesAreKept` is an action property from the same invariant.
- `AlarmsAreExact` has the hypothesis `[][SteadyClock /\ SameCondition]`: the clock moves
  as time passes, and no edit gives another condition to a rule that is timing a breach.
  Both are what the run `alerts` has as constants, and what `alerts_edit` shows to be
  necessary. The invariant (`Timing`) ties `breach_since` to the number of the sample at
  which the condition was first seen to hold.

**MQTT** (`PublisherProofs`). All three use `Session`: where main stands, where the
callback stands, and what each knows of the client.

- `FirstSampleIsPublished`: a session that has not published is due, except while its
  callback is under way; it holds with races too.
- `DiscoveryIsComplete`: what a callback decided to publish is still what is wanted unless
  main has raced it (`Decided`).
- `OnlineIsConnected` has the hypothesis `[][SamePrefix]`: the run `mqtt_prefix` shows that
  a changed prefix leaves "online" behind. The invariant adds that the client's prefix is
  that of the settings and that nothing says "online" once main has said "offline".

**Settings and event stream** (`WebProofs`).

- `SettingsAreApplied` adds that no timer exists while the program is down;
  `SelectionIsKept` that the file is what was asked for unless a save failed;
  `PasswordIsKept` that a form has a password in it only if the user typed one;
  `OnlyStalledAreDropped` that the code's count equals the frames really missed in a row,
  between the writes of a broadcast too, and that a write that waits misses none.
- `ParametersAgree`: the invariant says what the callbacks under way will
  bring. For every parameter the program has not missed, either none of them is about it
  and both copies agree, or the last one that is carries the stored value. The lemmas say
  how `Final` and `Silent` behave under concatenation and `Tail`.

**Sampling** (`SamplingProofs`).

- `ProcessesAreBilled`: a living, listed process that has kept its pid has used exactly
  what its entry lacks. `RatesAreTrue`: a counter is ahead of its previous reading by at
  most what moved since, exactly so for a device that was read and not re-created; that
  the last of several devices exists follows from the well-foundedness of the natural
  numbers.
- `SlowReadingsAreOwn`: what is held of a source is what it answered last, or `shifted` says
  that the answer did not have it as found (`Held`). It needs that discovery found sensors
  and ports in their own order and that, without an account, nothing was found that a poll
  could not ask.
- `SharesAreExact` has the hypothesis `MaxEvents < WORD`, no CPU counter reaches the size of
  its word. The counters are 64 bits of clock ticks. What ran since the last reading is
  then what the counters lack of it, and only iowait can have gone back (`Timed`).

Each of `MeansAreExact`, `TiersOpenTogether` and `NoBacklog` states one part of a theorem
above by itself.

Only model-checked:

- the liveness properties `StorageIsPickedUp`, `ShutdownCompletes`, `StatusCatchesUp`,
  `ComesOnline`, `ProcessIsListed` and `DeadIsDropped`: fairness and ENABLED are beyond the
  prover;
- the violations: their counterexamples are what they show.

## 5. Not modelled

Formatting and parsing (JSON, HTTP, line protocol, Prometheus text, URLs), gauges that
are read afresh at every sample and keep no state (memory, load, sockets, file systems,
thermal zones), the charts and lists of the dashboard, the build scripts, reordering of
writes by the storage (there is no fsync), and the duration of blocking calls: reading a
request blocks the main loop without a limit (`main.c:620`), which the models cover only
in that any time may pass between two handlers. That a write to the event stream may wait is
modelled, how long the samples then stay away is not. The id table, the header and
`ftruncate` of a history file are taken to succeed. A request that fails at discovery leaves
its sensors out until the next start or rebuild; `Discover` does that, and no property
says more because nothing tries again.

## 6. Plan

Done: all modules above, and the proofs of all their invariants and action properties.
Left, in this order:

1. A composition of `Lifecycle`, `Alerts` and `Mqtt` over one registry, for rebuilds;
   `Registry` is its first step.
2. Storage that reorders writes, for `Recording`.
3. Proofs: the typing of the remaining modules.
