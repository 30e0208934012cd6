----------------------------- MODULE Recording ------------------------------
(***************************************************************************)
(* One history tier in memory and its circular file (persist.c), through   *)
(* clean shutdowns, crashes and restarts with a changed metric set.        *)
(*                                                                         *)
(* The main loop runs load, sync and append to completion, so nothing else *)
(* in the program interleaves with them; but the process can be killed     *)
(* between any two of their writes.  Each pwrite of the header, of the id  *)
(* table and of a record is therefore a step of its own.  Writes reach the *)
(* medium in program order.  The write of a record may fail, while the     *)
(* file is written anew as well as later; the id table, the header and     *)
(* ftruncate are taken to succeed.                                         *)
(*                                                                         *)
(* The value of a metric is abstracted to where it comes from: in a row    *)
(* stamped t, src[m] = m is metric m's own reading at t, another id is a   *)
(* reading of the wrong metric, NAN a gap and JUNK bytes that were never a *)
(* reading.                                                                *)
(***************************************************************************)
EXTENDS Ring, FiniteSets

CONSTANTS
    Ids,                  \* metric ids
    NAN, JUNK,            \* no reading; not a reading
    Registries,           \* metric sets a run may have: [ids, capacity, interval_s]
    HEADER_FLUSH_EVERY,   \* appends between two header writes (60)
    WriteErrors,          \* whether a record write may fail
    MaxSamples,           \* bound on samples taken
    MaxRuns               \* bound on runs of the program

ASSUME RegistriesAssumption ==
    \A r \in Registries :
        /\ r.ids \in Seq(Ids) /\ Len(r.ids) > 0
        /\ \A j, k \in 1 .. Len(r.ids) : r.ids[j] = r.ids[k] => j = k
        /\ r.capacity \in Nat \ {0}
        /\ r.interval_s \in Nat \ {0}
ASSUME FlushAssumption == HEADER_FLUSH_EVERY \in Nat \ {0}
ASSUME RecordingBounds == WriteErrors \in BOOLEAN /\ MaxSamples \in Nat /\ MaxRuns \in Nat
ASSUME NoReadingAssumption == NAN \notin Ids /\ JUNK \notin Ids /\ NAN # JUNK

Source == Ids \cup {NAN, JUNK}
IdsOf(r) == {r.ids[k] : k \in 1 .. Len(r.ids)}

\* A row of the tier, and a record of the file: a column per position.
Row == [ts : Nat, src : [Ids -> Source]]
Record == [ts : Nat, col : Seq(Source)]
Header == [n_metrics : Nat \ {0}, capacity : Nat \ {0}, interval_s : Nat,
           head : Nat, count : Nat]

ZeroRow == [ts |-> 0, src |-> [m \in Ids |-> NAN]]
ZeroRecord == [ts |-> 0, col |-> << >>]

\* The id table bytes of a wider metric set, read as a record.
SpilledRecord == [ts |-> MaxSamples + 1, col |-> << >>]

VARIABLES
    pc,        \* where the main loop is
    reg,       \* the registry of this run
    mem,       \* the tier in memory
    persist,   \* struct Persist: head, count, appends_since_header
    header,    \* the file's header, << >> if the file is new
    table,     \* the file's id table
    records,   \* the file's records, by slot
    k,         \* loop counter of persist_load and persist_sync; 0 from the next sample on
    now,       \* number of samples taken, which is the time
    runs,      \* number of times the program was started
    written,   \* auxiliary: the rows this rewrite has got into the file
    durable,   \* auxiliary: the rows the file was last known to hold in full
    last_stop, \* auxiliary: where the last run that wrote to the file stopped
    torn       \* auxiliary: whether a run was killed between id table and header

vars == <<pc, reg, mem, persist, header, table, records, k, now, runs,
          written, durable, last_stop, torn>>

ClosedPersist == [head |-> 0, count |-> 0, appends_since_header |-> 0]

Init ==
    /\ pc = "down"
    /\ reg \in Registries
    /\ mem = EmptyRing(reg.capacity, ZeroRow)
    /\ persist = ClosedPersist
    /\ header = << >> /\ table = << >> /\ records = << >>
    /\ k = 0 /\ now = 0 /\ runs = 0
    /\ written = << >> /\ durable = << >>
    /\ last_stop = "clean"
    /\ torn = FALSE

View == Contents(mem, reg.capacity)

\* main, or rebuild_for_new_storage: discovery and an empty store.
Start_up(r) ==
    /\ pc = "down" /\ runs < MaxRuns
    /\ pc' = "memory" /\ runs' = runs + 1
    /\ reg' = r
    /\ mem' = EmptyRing(r.capacity, ZeroRow)
    /\ UNCHANGED <<persist, header, table, records, k, now, written, durable, last_stop, torn>>

\* A row as the sampler produces it: every metric of the registry reads itself.
NewRow == [ts |-> now + 1, src |-> [m \in Ids |-> IF m \in IdsOf(reg) THEN m ELSE NAN]]

\* A sample while history stays in memory.
SampleInMemory ==
    /\ pc = "memory" /\ now < MaxSamples
    /\ now' = now + 1
    /\ mem' = Put(mem, reg.capacity, NewRow)
    /\ UNCHANGED <<pc, reg, persist, header, table, records, k, runs, written, durable, last_stop, torn>>

M_OpenAlwaysLoads ==
    /\ pc = "memory"
    /\ persist' = ClosedPersist
    /\ pc' = "load" /\ k' = 0
    /\ UNCHANGED <<reg, mem, header, table, records, now, runs, written, durable, last_stop, torn>>

\* try_open_persistence found storage: persist_open, then persist_load only if
\* the tier is empty, then persist_sync.
persist_open ==
    /\ pc = "memory"
    /\ persist' = ClosedPersist
    /\ pc' = IF mem.count = 0 THEN "load" ELSE "sync_table"
    /\ k' = 0
    /\ UNCHANGED <<reg, mem, header, table, records, now, runs, written, durable, last_stop, torn>>

(***************************************************************************)
(* persist_load: one record per step, oldest first by the saved header.    *)
(***************************************************************************)
\* header is valid for this run (magic, version, interval and sizes).
Loadable == header # << >> /\ header[1].interval_s = reg.interval_s

LoadCount == IF header[1].count < header[1].capacity THEN header[1].count ELSE header[1].capacity
LoadSlot == (((header[1].head + header[1].capacity - LoadCount) % header[1].capacity) + k)
                % header[1].capacity

Largest(S) == CHOOSE x \in S : \A y \in S : y <= x

M_RemapByPosition(rec) ==
    [id \in Ids |->
        LET at == {m \in 1 .. Len(reg.ids) : reg.ids[m] = id}
        IN  IF at = {} THEN NAN
            ELSE IF Largest(at) \in DOMAIN rec.col THEN rec.col[Largest(at)]
            ELSE JUNK]

\* values[mapping[m]] = saved_values[m], for every saved position m in turn.
Remap(rec) ==
    [id \in Ids |->
        LET at == {m \in 1 .. header[1].n_metrics : table[m] = id}
        IN  IF id \notin IdsOf(reg) \/ at = {} THEN NAN
            ELSE IF Largest(at) \in DOMAIN rec.col THEN rec.col[Largest(at)]
            ELSE JUNK]

persist_load ==
    /\ pc = "load" /\ Loadable /\ k < LoadCount
    /\ LoadSlot \in DOMAIN records
    /\ k' = k + 1
    /\ LET rec == records[LoadSlot]
       IN  mem' = IF rec.ts <= 0 THEN mem
                  ELSE Put(mem, reg.capacity, [ts |-> rec.ts, src |-> Remap(rec)])
    /\ UNCHANGED <<pc, reg, persist, header, table, records, now, runs, written, durable, last_stop, torn>>

\* The loop is over, the file is not loadable, or it ends before the slot.
LoadDone ==
    /\ pc = "load"
    /\ Loadable => k >= LoadCount \/ LoadSlot \notin DOMAIN records
    /\ pc' = "sync_table" /\ k' = 0
    /\ UNCHANGED <<reg, mem, persist, header, table, records, now, runs, written, durable, last_stop, torn>>

(***************************************************************************)
(* persist_sync: initialise_file, then one persist_append per row.         *)
(***************************************************************************)
HeaderOf(p) ==
    <<[n_metrics |-> Len(reg.ids), capacity |-> reg.capacity,
       interval_s |-> reg.interval_s, head |-> p.head, count |-> p.count]>>

\* struct Persist after write_header.
Flushed == [head |-> persist.head, count |-> persist.count, appends_since_header |-> 0]

\* How many records of the old layout a wider id table runs into.
Spill ==
    IF header # << >> /\ header[1].n_metrics < Len(reg.ids) /\ DOMAIN records # {}
    THEN 1 .. Cardinality(DOMAIN records) ELSE {0}

\* The id table of the new metric set overwrites the old one's prefix.
SyncTable ==
    /\ pc = "sync_table"
    /\ pc' = "sync_header"
    /\ persist' = [head |-> 0, count |-> 0, appends_since_header |-> persist.appends_since_header]
    /\ table' = [m \in 1 .. (IF Len(table) > Len(reg.ids) THEN Len(table) ELSE Len(reg.ids)) |->
                    IF m <= Len(reg.ids) THEN reg.ids[m] ELSE table[m]]
    /\ \E n \in Spill : \E spilled \in [0 .. n - 1 -> {ZeroRecord, SpilledRecord}] :
          records' = [s \in DOMAIN records |-> IF s < n THEN spilled[s] ELSE records[s]]
    /\ UNCHANGED <<reg, mem, header, k, now, runs, written, durable, last_stop, torn>>

SyncHeader ==
    /\ pc = "sync_header"
    /\ pc' = "sync_size"
    /\ header' = HeaderOf(persist)
    /\ persist' = Flushed
    /\ UNCHANGED <<reg, mem, table, records, k, now, runs, written, durable, last_stop, torn>>

\* ftruncate: old bytes stay where they were, new ones are zero.
SyncSize ==
    /\ pc = "sync_size"
    /\ pc' = "sync" /\ k' = 0 /\ written' = << >>
    /\ records' = [s \in 0 .. reg.capacity - 1 |->
                      IF s \in DOMAIN records THEN records[s] ELSE ZeroRecord]
    /\ UNCHANGED <<reg, mem, persist, header, table, now, runs, durable, last_stop, torn>>

\* The record persist_append writes for a row.
RecordOf(row) == [ts |-> row.ts, col |-> [m \in 1 .. Len(reg.ids) |-> row.src[reg.ids[m]]]]

Advanced ==
    [head |-> (persist.head + 1) % reg.capacity,
     count |-> IF persist.count < reg.capacity THEN persist.count + 1 ELSE persist.count,
     appends_since_header |-> persist.appends_since_header + 1]

M_WriteRecordNeverFlushes(row, back) ==
    /\ records' = [records EXCEPT ![persist.head] = RecordOf(row)]
    /\ persist' = Advanced
    /\ pc' = back

\* The record write of persist_append; "back" is where its caller goes on.
WriteRecord(row, back) ==
    /\ records' = [records EXCEPT ![persist.head] = RecordOf(row)]
    /\ persist' = Advanced
    /\ pc' = IF Advanced.appends_since_header < HEADER_FLUSH_EVERY THEN back
             ELSE IF back = "sync" THEN "flush_sync" ELSE "flush_open"

SyncRow ==
    /\ pc = "sync" /\ k < mem.count
    /\ k' = k + 1
    /\ WriteRecord(View[k + 1], "sync")
    /\ written' = Append(written, View[k + 1])
    /\ UNCHANGED <<reg, mem, header, table, now, runs, durable, last_stop, torn>>

M_FailedRowAdvances ==
    /\ WriteErrors
    /\ pc = "sync" /\ k < mem.count
    /\ k' = k + 1
    /\ persist' = [Advanced EXCEPT !.appends_since_header = persist.appends_since_header]
    /\ UNCHANGED <<pc, reg, mem, header, table, records, now, runs, written, durable, last_stop, torn>>

\* The record write fails: persist_sync does not see it and goes on to the next row.
SyncRowFails ==
    /\ WriteErrors
    /\ pc = "sync" /\ k < mem.count
    /\ k' = k + 1
    /\ UNCHANGED <<pc, reg, mem, persist, header, table, records, now, runs, written, durable,
                   last_stop, torn>>

\* The write_header that ends persist_append.
Flush(at, back) ==
    /\ pc = at /\ pc' = back
    /\ header' = HeaderOf(persist)
    /\ persist' = Flushed
    /\ UNCHANGED <<reg, mem, table, records, k, now, runs, written, durable, last_stop, torn>>

\* store_set_tier_callback: from here on every append reaches the file.
SyncDone ==
    /\ pc = "sync" /\ k >= mem.count
    /\ pc' = "open"
    /\ durable' = written /\ written' = << >>
    /\ UNCHANGED <<reg, mem, persist, header, table, records, k, now, runs, last_stop, torn>>

\* close_persistence, in the same call of try_open_persistence: a later tier's
\* file could not be opened.  No row has been pushed since persist_sync (k is
\* still the tier's count), and the rows stay in memory.
close_persistence ==
    /\ pc = "open" /\ k >= mem.count
    /\ header' = HeaderOf(persist)
    /\ pc' = "memory" /\ persist' = ClosedPersist /\ k' = 0
    /\ last_stop' = "clean"
    /\ UNCHANGED <<reg, mem, table, records, now, runs, written, durable, torn>>

(***************************************************************************)
(* The running recorder.                                                   *)
(***************************************************************************)
\* store_push, then on_tier_sample and persist_append.
Sample ==
    /\ pc = "open" /\ now < MaxSamples
    /\ now' = now + 1 /\ k' = 0
    /\ mem' = Put(mem, reg.capacity, NewRow)
    /\ WriteRecord(NewRow, "open")
    /\ durable' = Slide(durable, reg.capacity, NewRow)
    /\ UNCHANGED <<reg, header, table, runs, written, last_stop, torn>>

\* The record write fails: persist_append leaves head and count alone.
SampleWriteFails ==
    /\ WriteErrors
    /\ pc = "open" /\ now < MaxSamples
    /\ now' = now + 1 /\ k' = 0
    /\ mem' = Put(mem, reg.capacity, NewRow)
    /\ UNCHANGED <<pc, reg, persist, header, table, records, runs, written, durable, last_stop, torn>>

M_CloseWithoutHeader ==
    /\ pc = "open"
    /\ pc' = "down" /\ persist' = ClosedPersist /\ k' = 0
    /\ mem' = EmptyRing(reg.capacity, ZeroRow)
    /\ last_stop' = "clean"
    /\ UNCHANGED <<reg, header, table, records, now, runs, written, durable, torn>>

\* persist_close on the way out of main: owns_file holds once sync has run.
persist_close ==
    /\ pc = "open"
    /\ header' = HeaderOf(persist)
    /\ pc' = "down" /\ persist' = ClosedPersist /\ k' = 0
    /\ mem' = EmptyRing(reg.capacity, ZeroRow)
    /\ last_stop' = "clean"
    /\ UNCHANGED <<reg, table, records, now, runs, written, durable, torn>>

\* The same shutdown before any storage was found: there is nothing to close.
StopInMemory ==
    /\ pc = "memory"
    /\ pc' = "down"
    /\ mem' = EmptyRing(reg.capacity, ZeroRow)
    /\ UNCHANGED <<reg, persist, header, table, records, k, now, runs, written, durable, last_stop, torn>>

\* The process is killed, or the power goes, between any two writes.
Crash ==
    /\ pc # "down"
    /\ pc' = "down" /\ persist' = ClosedPersist
    /\ mem' = EmptyRing(reg.capacity, ZeroRow)
    /\ last_stop' = IF pc \in {"memory", "load", "sync_table"} THEN last_stop ELSE pc
    /\ torn' = (torn \/ pc = "sync_header")
    /\ k' = 0 /\ written' = << >>
    /\ UNCHANGED <<reg, header, table, records, now, runs, durable>>

Next ==
    \/ \E r \in Registries : Start_up(r)
    \/ SampleInMemory
    \/ persist_open
    \/ persist_load
    \/ LoadDone
    \/ SyncTable
    \/ SyncHeader
    \/ SyncSize
    \/ SyncRow
    \/ SyncRowFails
    \/ Flush("flush_sync", "sync")
    \/ Flush("flush_open", "open")
    \/ SyncDone
    \/ close_persistence
    \/ Sample
    \/ SampleWriteFails
    \/ persist_close
    \/ StopInMemory
    \/ Crash

Spec == Init /\ [][Next]_vars

-----------------------------------------------------------------------------
(* What a tier with a file promises: see DurableHistory.  While persist_load *)
(* is replaying the file, nothing reads the tier.                            *)
Phase ==
    CASE pc = "down" -> "down"
      [] pc \in {"memory", "load"} -> "memory"
      [] pc = "sync_table" -> "attached"
      [] pc \in {"open", "flush_open"} -> "recording"
      [] OTHER -> "rewriting"

Ended ==
    CASE last_stop = "clean" -> "clean"
      [] last_stop \in {"open", "flush_open"} -> "recording"
      [] OTHER -> "rewriting"

Live == IF pc \in {"down", "load"} THEN << >> ELSE View

Format ==
    IF header = << >> THEN << >>
    ELSE <<[capacity |-> header[1].capacity, interval_s |-> header[1].interval_s]>>

History == INSTANCE DurableHistory WITH
               phase <- Phase, live <- Live, kept <- durable, format <- Format, ended <- Ended

(***************************************************************************)
(* The tier and its file implement a durable history: with the lagging     *)
(* header, the records remapped to another metric set, the file rewritten  *)
(* in place and a kill between any two writes, a run starts with the rows  *)
(* that specification allows, and samples taken before storage was found   *)
(* are never replaced by the file's (persist_open, persist_load,           *)
(* persist_sync, persist_append, persist_close).                           *)
(***************************************************************************)
RefinesDurableHistory == History!Spec

Times(s) == History!Times(s)

\* The rows of s as this run's registry can represent them.
Adopted(s) == History!Adopted(s)

\* persist_load has accepted the file and restored all it will restore.
Loaded == pc = "load" /\ Loadable /\ k >= LoadCount

\* The previous run crashed while recording, outside persist_sync.
CrashedRecording == last_stop \in {"open", "flush_open"}

Lost == Times(Adopted(durable)) \ Times(View)

\* Every variable keeps its type; no slot or position leaves its file.
TypeOK ==
    /\ pc \in {"down", "memory", "load", "sync_table", "sync_header", "sync_size",
              "sync", "flush_sync", "open", "flush_open"}
    /\ reg \in Registries
    /\ mem \in RingType(reg.capacity, Row)
    /\ persist \in [head : 0 .. reg.capacity - 1, count : 0 .. reg.capacity,
                   appends_since_header : 0 .. HEADER_FLUSH_EVERY]
    /\ Len(header) <= 1
    /\ header \in Seq(Header)
    /\ table \in Seq(Ids)
    /\ DOMAIN records \subseteq Nat
    /\ \A s \in DOMAIN records : records[s] \in Record
    /\ k \in Nat /\ now \in 0 .. MaxSamples /\ runs \in 0 .. MaxRuns
    /\ written \in Seq(Row) /\ durable \in Seq(Row) /\ torn \in BOOLEAN

(***************************************************************************)
(* A clean shutdown loses nothing: the next run restores exactly the rows  *)
(* that were written, in order, remapped to its own metric set and cut to  *)
(* its own capacity (persist_close, persist_load).                         *)
(***************************************************************************)
CleanRestartExact == Loaded /\ last_stop = "clean" => View = Adopted(durable)

(***************************************************************************)
(* After a crash while recording, at most HEADER_FLUSH_EVERY rows are      *)
(* missing and nothing is restored that the file did not hold, whether or  *)
(* not the file had wrapped since the header was written.  If it had not,  *)
(* what is missing is the newest rows and the rest is in order: the header *)
(* is merely behind (persist_append, persist_load).                        *)
(***************************************************************************)
CrashLossBounded ==
    Loaded /\ CrashedRecording /\ reg.capacity >= header[1].capacity =>
        /\ Cardinality(Lost) <= HEADER_FLUSH_EVERY
        /\ Times(View) \subseteq Times(Adopted(durable))
        /\ Len(durable) < header[1].capacity =>
              \E n \in 0 .. Len(Adopted(durable)) : View = SubSeq(Adopted(durable), 1, n)

\* A restored reading belongs to its metric, unless a run was once killed
\* between the id table and the header of initialise_file.
Attributed(row) == row.ts <= now /\ \A m \in Ids : row.src[m] \in {m, NAN}
AttributedUnlessTorn ==
    ~torn => \A j \in 1 .. Len(View) : Attributed(View[j])

\* The file as the running program sees it, through struct Persist.
FileView == Contents([slots |-> records, head |-> persist.head, count |-> persist.count],
                     reg.capacity)

(***************************************************************************)
(* While recording, the file holds what it is meant to hold: read from     *)
(* persist->head and persist->count it is the rows whose write succeeded,  *)
(* in order, with no trace of the ones that failed while it was written    *)
(* anew or later, and the header on disk lags behind by                    *)
(* appends_since_header appends, never more than HEADER_FLUSH_EVERY        *)
(* (persist_sync, persist_append).                                         *)
(***************************************************************************)
FileMirrorsHistory ==
    pc \in {"open", "flush_open"} =>
        /\ Len(FileView) = Len(durable)
        /\ \A j \in 1 .. Len(durable) : FileView[j] = RecordOf(durable[j])
        /\ persist.appends_since_header <= HEADER_FLUSH_EVERY
        /\ persist.head = (header[1].head + persist.appends_since_header) % reg.capacity
        /\ persist.count = IF header[1].count + persist.appends_since_header < reg.capacity
                           THEN header[1].count + persist.appends_since_header
                           ELSE reg.capacity

-----------------------------------------------------------------------------
(* What the documentation says, where the code does something else.        *)

\* README.md:258 says an unclean shutdown loses the last few samples of a tier
\* rather than its whole recording.
CrashLosesLastFew ==
    Loaded /\ last_stop # "clean" => Cardinality(Lost) <= HEADER_FLUSH_EVERY
=============================================================================
