-------------------------- MODULE RecordingProofs ---------------------------
(***************************************************************************)
(* Proofs about Recording, for every capacity, flush period, choice of     *)
(* metric sets and sequence of crashes.                                    *)
(***************************************************************************)
EXTENDS Recording, RingProofs, FiniteSetTheorems

\* The states in which initialise_file has completed.
Laid == {"sync", "flush_sync", "open", "flush_open"}

\* The file's records and struct Persist as a ring.
FileRing == [slots |-> records, head |-> persist.head, count |-> persist.count]

\* A fresh struct Persist and the steps of initialise_file.
Opening ==
    /\ pc \in {"down", "memory", "load", "sync_table"} => persist = ClosedPersist
    /\ pc = "sync_header" => persist = ClosedPersist
    /\ pc = "sync_size" => persist = ClosedPersist /\ header = HeaderOf(ClosedPersist)

\* The file has been sized for this run, and its header lags behind.
Layout ==
    /\ records = [s \in DOMAIN records |-> records[s]]
    /\ pc \in Laid =>
         /\ DOMAIN records = 0 .. reg.capacity - 1
         /\ header # << >>
         /\ persist.head = (header[1].head + persist.appends_since_header) % reg.capacity
         /\ persist.count = IF header[1].count + persist.appends_since_header < reg.capacity
                            THEN header[1].count + persist.appends_since_header
                            ELSE reg.capacity
    /\ pc \in {"sync", "open"} => persist.appends_since_header < HEADER_FLUSH_EVERY

\* s is some of the first n rows, in order.
TakenFrom(s, rows, n) ==
    /\ Len(s) <= n
    /\ \E at \in [1 .. Len(s) -> 1 .. n] :
          /\ \A i, j \in 1 .. Len(s) : i < j => at[i] < at[j]
          /\ \A j \in 1 .. Len(s) : s[j] = rows[at[j]]

\* persist_sync has gone through the first k rows of the tier: the file holds the
\* ones whose write succeeded.
SyncMirrors ==
    pc \in {"sync", "flush_sync"} =>
        /\ k <= mem.count
        /\ Len(FileView) = Len(written)
        /\ \A j \in 1 .. Len(written) : FileView[j] = RecordOf(written[j])
        /\ TakenFrom(written, View, k)

Mirrored ==
    pc \in {"open", "flush_open"} =>
        /\ Len(FileView) = Len(durable)
        /\ \A j \in 1 .. Len(durable) : FileView[j] = RecordOf(durable[j])

-----------------------------------------------------------------------------
LEMMA RowTypes ==
  /\ ZeroRow \in Row
  /\ ZeroRecord \in Record
  /\ SpilledRecord \in Record
  BY RecordingBounds DEF ZeroRow, ZeroRecord, SpilledRecord, Row, Record, Source

LEMMA NewRowType == ASSUME TypeOK PROVE NewRow \in Row
  BY DEF TypeOK, NewRow, Row, Source

LEMMA RecordType == ASSUME TypeOK, NEW row \in Row PROVE RecordOf(row) \in Record
<1>1. reg.ids \in Seq(Ids) /\ Len(reg.ids) \in Nat
  BY RegistriesAssumption DEF TypeOK
<1>2. \A m \in 1 .. Len(reg.ids) : row.src[reg.ids[m]] \in Source
  BY <1>1 DEF Row
<1>3. [m \in 1 .. Len(reg.ids) |-> row.src[reg.ids[m]]] \in Seq(Source)
  BY <1>1, <1>2
<1> QED
  BY <1>3 DEF RecordOf, Record, Row

LEMMA RemapType == ASSUME TypeOK, NEW rec \in Record PROVE Remap(rec) \in [Ids -> Source]
<1>1. \A x \in DOMAIN rec.col : rec.col[x] \in Source
  BY DEF Record
<1> QED
  BY <1>1 DEF Remap, Source

LEMMA HeaderType ==
  ASSUME TypeOK
  PROVE  HeaderOf(persist) \in Seq(Header) /\ Len(HeaderOf(persist)) = 1
<1>1. Len(reg.ids) \in Nat \ {0} /\ reg.capacity \in Nat \ {0} /\ reg.interval_s \in Nat
  BY RegistriesAssumption DEF TypeOK
<1>2. persist.head \in Nat /\ persist.count \in Nat
  BY <1>1 DEF TypeOK
<1> QED
  BY <1>1, <1>2 DEF HeaderOf, Header

\* What advancing struct Persist does, as RingType and Put see it.
LEMMA AdvancedType ==
  ASSUME TypeOK
  PROVE  /\ Advanced.head \in 0 .. reg.capacity - 1
         /\ Advanced.count \in 0 .. reg.capacity
         /\ Advanced.appends_since_header = persist.appends_since_header + 1
  BY RegistriesAssumption, SMTT(60) DEF TypeOK, Advanced

(***************************************************************************)
(* The recorder keeps its types through every crash and change of metric   *)
(* set, given that the file is laid out whenever records are written.      *)
(***************************************************************************)
LEMMA TypeStep ==
  ASSUME TypeOK, Opening, Layout, [Next]_vars
  PROVE  TypeOK'
<1>r. /\ reg \in Registries /\ reg.capacity \in Nat \ {0} /\ Len(reg.ids) \in Nat \ {0}
      /\ reg.ids \in Seq(Ids)
  BY RegistriesAssumption DEF TypeOK
<1>e. \A r \in Registries : EmptyRing(r.capacity, ZeroRow) \in RingType(r.capacity, Row)
  BY RegistriesAssumption, EmptyRingIsEmpty, RowTypes
<1>c. \A r \in Registries :
        ClosedPersist \in [head : 0 .. r.capacity - 1, count : 0 .. r.capacity,
                           appends_since_header : 0 .. HEADER_FLUSH_EVERY]
  BY RegistriesAssumption, FlushAssumption DEF ClosedPersist
<1>n. NewRow \in Row /\ Put(mem, reg.capacity, NewRow) \in RingType(reg.capacity, Row)
  BY <1>r, NewRowType, PutType DEF TypeOK
<1>1. CASE \E r \in Registries : Start_up(r)
  <2>1. PICK r \in Registries : Start_up(r)
    BY <1>1
  <2>2. CASE pc = "down" /\ persist = ClosedPersist
    BY <1>c, <1>e, <2>1, <2>2, RecordingBounds DEF Start_up, TypeOK
  <2> QED
    BY <2>1, <2>2 DEF Start_up, Opening
<1>2. CASE SampleInMemory
  BY <1>2, <1>n, RecordingBounds DEF SampleInMemory, TypeOK
<1>3. CASE persist_open
  BY <1>3, <1>c DEF persist_open, TypeOK
<1>4. CASE persist_load
  <2>1. PICK rec \in Record : mem' = IF rec.ts <= 0 THEN mem
                 ELSE Put(mem, reg.capacity, [ts |-> rec.ts, src |-> Remap(rec)])
    BY <1>4 DEF persist_load, TypeOK
  <2>2. [ts |-> rec.ts, src |-> Remap(rec)] \in Row
    BY RemapType DEF Row, Record
  <2>3. mem' \in RingType(reg.capacity, Row)
    BY <1>r, <2>1, <2>2, PutType DEF TypeOK
  <2> QED
    BY <1>4, <2>3 DEF persist_load, TypeOK
<1>5. CASE LoadDone
  BY <1>5 DEF LoadDone, TypeOK
<1>6. CASE SyncTable
  <2>1. table' \in Seq(Ids)
    <3> DEFINE n == IF Len(table) > Len(reg.ids) THEN Len(table) ELSE Len(reg.ids)
    <3>1. n \in Nat /\ table \in Seq(Ids)
      BY <1>r DEF TypeOK
    <3>2. \A m \in 1 .. n : (IF m <= Len(reg.ids) THEN reg.ids[m] ELSE table[m]) \in Ids
      BY <1>r, <3>1
    <3>3. table' = [m \in 1 .. n |-> IF m <= Len(reg.ids) THEN reg.ids[m] ELSE table[m]]
      BY <1>6 DEF SyncTable
    <3> HIDE DEF n
    <3> QED
      BY <3>1, <3>2, <3>3
  <2>2. DOMAIN records' \subseteq Nat /\ \A s \in DOMAIN records' : records'[s] \in Record
    <3>1. PICK n \in Spill : \E spilled \in [0 .. n - 1 -> {ZeroRecord, SpilledRecord}] :
             records' = [s \in DOMAIN records |-> IF s < n THEN spilled[s] ELSE records[s]]
      BY <1>6 DEF SyncTable
    <3>2. PICK spilled \in [0 .. n - 1 -> {ZeroRecord, SpilledRecord}] :
             records' = [s \in DOMAIN records |-> IF s < n THEN spilled[s] ELSE records[s]]
      BY <3>1
    <3>3. n \in Int
      BY <3>1 DEF Spill
    <3>4. ASSUME NEW s \in DOMAIN records, s < n
          PROVE  spilled[s] \in Record
      <4>1. s \in 0 .. n - 1
        BY <3>3, <3>4 DEF TypeOK
      <4>2. spilled[s] \in {ZeroRecord, SpilledRecord}
        BY <4>1
      <4> QED
        BY <4>2, RowTypes
    <3> QED
      BY <3>2, <3>4 DEF TypeOK
  <2>3. persist' = ClosedPersist
    BY <1>6 DEF SyncTable, Opening, ClosedPersist
  <2> QED
    BY <1>6, <1>c, <2>1, <2>2, <2>3 DEF SyncTable, TypeOK
<1>f. Flushed \in [head : 0 .. reg.capacity - 1, count : 0 .. reg.capacity,
                   appends_since_header : 0 .. HEADER_FLUSH_EVERY]
  BY FlushAssumption DEF Flushed, TypeOK
<1>h. HeaderOf(persist) \in Seq(Header) /\ Len(HeaderOf(persist)) <= 1
  <2>1. HeaderOf(persist) \in Seq(Header) /\ Len(HeaderOf(persist)) = 1
    BY HeaderType
  <2> QED
    BY <2>1
<1>7. CASE SyncHeader
  BY <1>7, <1>f, <1>h DEF SyncHeader, TypeOK
<1>8. CASE SyncSize
  BY <1>8, RowTypes DEF SyncSize, TypeOK
<1>9. CASE SyncRow
  <2>1. View[k + 1] \in Row
    BY <1>9, <1>r, ContentsType, SMTT(60) DEF SyncRow, View, TypeOK
  <2>2. RecordOf(View[k + 1]) \in Record
    BY <2>1, RecordType
  <2>3. persist' \in [head : 0 .. reg.capacity - 1, count : 0 .. reg.capacity,
                      appends_since_header : 0 .. HEADER_FLUSH_EVERY]
    <3>1. persist' = Advanced /\ persist.appends_since_header < HEADER_FLUSH_EVERY
      BY <1>9 DEF SyncRow, WriteRecord, Layout
    <3> QED
      BY <3>1, AdvancedType, FlushAssumption, SMTT(60) DEF Advanced, TypeOK
  <2>4. written' \in Seq(Row)
    BY <1>9, <2>1 DEF SyncRow, TypeOK
  <2> QED
    BY <1>9, <2>2, <2>3, <2>4 DEF SyncRow, WriteRecord, TypeOK
<1>10. CASE Flush("flush_sync", "sync") \/ Flush("flush_open", "open")
  BY <1>10, <1>f, <1>h DEF Flush, TypeOK
<1>11. CASE SyncDone \/ SyncRowFails
  <2>1. << >> \in Seq(Row) /\ k + 1 \in Nat
    BY DEF TypeOK
  <2> QED
    BY <1>11, <2>1 DEF SyncDone, SyncRowFails, TypeOK
<1>12. CASE Sample
  <2>1. RecordOf(NewRow) \in Record
    BY <1>n, RecordType
  <2>2. persist' \in [head : 0 .. reg.capacity - 1, count : 0 .. reg.capacity,
                      appends_since_header : 0 .. HEADER_FLUSH_EVERY]
    <3>1. persist' = Advanced /\ persist.appends_since_header < HEADER_FLUSH_EVERY
      BY <1>12 DEF Sample, WriteRecord, Layout
    <3> QED
      BY <3>1, AdvancedType, FlushAssumption, SMTT(60) DEF Advanced, TypeOK
  <2>3. durable' \in Seq(Row)
    <3>1. durable \in Seq(Row) /\ (Len(durable) >= reg.capacity => Tail(durable) \in Seq(Row))
      BY <1>r DEF TypeOK
    <3> QED
      BY <1>12, <1>n, <1>r, <3>1 DEF Sample, Slide
  <2> QED
    BY <1>12, <1>n, <2>1, <2>2, <2>3, RecordingBounds DEF Sample, WriteRecord, TypeOK
<1>13. CASE SampleWriteFails
  BY <1>13, <1>n, RecordingBounds DEF SampleWriteFails, TypeOK
<1>14. CASE persist_close \/ close_persistence
  BY <1>14, <1>c, <1>e, <1>h DEF persist_close, close_persistence, TypeOK
<1>15. CASE StopInMemory \/ Crash
  <2>1. << >> \in Seq(Row)
    OBVIOUS
  <2>2. torn' \in BOOLEAN
    BY <1>15, Zenon DEF StopInMemory, Crash, TypeOK
  <2>3. /\ pc' = "down" /\ persist' \in {persist, ClosedPersist}
        /\ mem' = EmptyRing(reg.capacity, ZeroRow)
        /\ k' \in {k, 0} /\ written' \in {written, << >>}
        /\ UNCHANGED <<reg, header, table, records, now, runs, durable>>
    BY <1>15 DEF StopInMemory, Crash
  <2>4. mem' \in RingType(reg.capacity, Row) /\ k' \in Nat /\ written' \in Seq(Row)
    <3>1. mem' \in RingType(reg.capacity, Row)
      BY <1>r, <1>e, <2>3
    <3>2. k' \in Nat
      BY <2>3 DEF TypeOK
    <3>3. written' \in Seq(Row)
      BY <2>1, <2>3, Zenon DEF TypeOK
    <3> QED
      BY <3>1, <3>2, <3>3
  <2>5. persist' \in [head : 0 .. reg.capacity - 1, count : 0 .. reg.capacity,
                      appends_since_header : 0 .. HEADER_FLUSH_EVERY]
    BY <1>r, <1>c, <2>3 DEF TypeOK
  <2> QED
    BY <2>2, <2>3, <2>4, <2>5 DEF TypeOK
<1>16. CASE UNCHANGED vars
  BY <1>16 DEF vars, TypeOK
<1> QED
  BY <1>1, <1>2, <1>3, <1>4, <1>5, <1>6, <1>7, <1>8, <1>9, <1>10, <1>11, <1>12, <1>13,
     <1>14, <1>15, <1>16 DEF Next

\* Opening and laying out the file, step by step.
LEMMA OpeningStep ==
  ASSUME TypeOK, Opening, [Next]_vars
  PROVE  Opening'
<1>1. CASE persist_open
  BY <1>1 DEF persist_open, Opening
<1>2. CASE SyncTable
  BY <1>2 DEF SyncTable, Opening, ClosedPersist
<1>3. CASE SyncHeader
  BY <1>3 DEF SyncHeader, Opening, HeaderOf, ClosedPersist, Flushed
<1>4. CASE (\E r \in Registries : Start_up(r)) \/ SampleInMemory \/ persist_load \/ LoadDone
  BY <1>4 DEF Start_up, SampleInMemory, persist_load, LoadDone, Opening
<1>5. CASE SyncSize \/ SyncRowFails \/ SyncDone \/ SampleWriteFails
  BY <1>5 DEF SyncSize, SyncRowFails, SyncDone, SampleWriteFails, Opening
<1>6. CASE SyncRow \/ Sample
  BY <1>6 DEF SyncRow, Sample, WriteRecord, Opening
<1>7. CASE Flush("flush_sync", "sync") \/ Flush("flush_open", "open")
  BY <1>7 DEF Flush, Opening
<1>8. CASE persist_close \/ close_persistence \/ StopInMemory \/ Crash
  BY <1>8 DEF persist_close, close_persistence, StopInMemory, Crash, Opening
<1>9. CASE UNCHANGED vars
  BY <1>9 DEF vars, Opening, HeaderOf
<1> QED
  BY <1>1, <1>2, <1>3, <1>4, <1>5, <1>6, <1>7, <1>8, <1>9 DEF Next

\* The record write of persist_append keeps the layout.
LEMMA WriteLayout ==
  ASSUME TypeOK, Layout, pc \in {"sync", "open"}, NEW row \in Row,
         NEW back \in {"sync", "open"}, WriteRecord(row, back), UNCHANGED <<reg, header>>
  PROVE  Layout'
<1>1. /\ reg.capacity \in Nat \ {0} /\ HEADER_FLUSH_EVERY \in Nat \ {0}
      /\ persist.appends_since_header \in Nat
  BY RegistriesAssumption, FlushAssumption DEF TypeOK
<1>2. header[1].head \in Nat /\ header[1].count \in Nat /\ header # << >>
  <2>1. header \in Seq(Header) /\ header # << >>
    BY DEF TypeOK, Layout, Laid
  <2>2. header[1] \in Header
    BY <2>1
  <2> QED
    BY <2>1, <2>2 DEF Header
<1>3. /\ DOMAIN records = 0 .. reg.capacity - 1
      /\ persist.head = (header[1].head + persist.appends_since_header) % reg.capacity
      /\ persist.count = IF header[1].count + persist.appends_since_header < reg.capacity
                         THEN header[1].count + persist.appends_since_header
                         ELSE reg.capacity
  BY DEF Layout, Laid
<1>4. persist' = Advanced /\ records' = [records EXCEPT ![persist.head] = RecordOf(row)]
  BY DEF WriteRecord
<1>5. /\ persist'.head = (persist.head + 1) % reg.capacity
      /\ persist'.count = IF persist.count < reg.capacity THEN persist.count + 1 ELSE persist.count
      /\ persist'.appends_since_header = persist.appends_since_header + 1
  BY <1>4 DEF Advanced
<1>6. persist'.head = (header[1].head + persist'.appends_since_header) % reg.capacity
  <2> DEFINE a == header[1].head + persist.appends_since_header
  <2>1. a \in Nat /\ a + 1 = header[1].head + persist'.appends_since_header
    BY <1>1, <1>2, <1>5
  <2>2. ((a % reg.capacity) + 1) % reg.capacity = (a + 1) % reg.capacity
    BY <1>1, <2>1, ModStep
  <2> QED
    BY <1>3, <1>5, <2>1, <2>2
<1>7. persist'.count = IF header[1].count + persist'.appends_since_header < reg.capacity
                       THEN header[1].count + persist'.appends_since_header
                       ELSE reg.capacity
  <2> DEFINE n == header[1].count
             d == persist.appends_since_header
  <2>1. n \in Nat /\ d \in Nat /\ persist'.appends_since_header = d + 1
    BY <1>1, <1>2, <1>5
  <2>2. CASE n + d < reg.capacity
    BY <1>1, <1>3, <1>5, <2>1, <2>2
  <2>3. CASE n + d >= reg.capacity
    BY <1>1, <1>3, <1>5, <2>1, <2>3
  <2> QED
    BY <1>1, <2>1, <2>2, <2>3
<1>8. DOMAIN records' = 0 .. reg.capacity - 1 /\ records' = [s \in DOMAIN records' |-> records'[s]]
  BY <1>3, <1>4
<1>9. pc' \in {"sync", "open"} => persist'.appends_since_header < HEADER_FLUSH_EVERY
  BY <1>4 DEF WriteRecord
<1> QED
  BY <1>2, <1>6, <1>7, <1>8, <1>9 DEF Layout

LEMMA LayoutStep ==
  ASSUME TypeOK, Opening, Layout, [Next]_vars
  PROVE  Layout'
<1>r. reg.capacity \in Nat \ {0} /\ HEADER_FLUSH_EVERY \in Nat \ {0}
  BY RegistriesAssumption, FlushAssumption DEF TypeOK
<1>h. /\ HeaderOf(persist) # << >>
      /\ HeaderOf(persist)[1].head = persist.head /\ HeaderOf(persist)[1].count = persist.count
  BY DEF HeaderOf
<1>m. /\ persist.head \in 0 .. reg.capacity - 1 /\ persist.count \in 0 .. reg.capacity
      /\ persist.head = (persist.head + 0) % reg.capacity
      /\ persist.count = IF persist.count + 0 < reg.capacity THEN persist.count + 0 ELSE reg.capacity
  <2>1. persist.head \in 0 .. reg.capacity - 1 /\ persist.count \in 0 .. reg.capacity
    BY DEF TypeOK
  <2>2. persist.head + 0 = persist.head /\ persist.count + 0 = persist.count
    BY <1>r, <2>1
  <2> QED
    BY <1>r, <2>1, <2>2, ModBelow
<1>1. CASE (\E r \in Registries : Start_up(r)) \/ SampleInMemory \/ persist_open
           \/ persist_load \/ LoadDone \/ StopInMemory \/ Crash \/ persist_close
           \/ close_persistence
  BY <1>1 DEF Start_up, SampleInMemory, persist_open, persist_load, LoadDone, StopInMemory,
              Crash, persist_close, close_persistence, Layout, Laid
<1>2. CASE SyncTable
  <2>1. records' = [s \in DOMAIN records' |-> records'[s]]
    BY <1>2 DEF SyncTable
  <2> QED
    BY <1>2, <2>1 DEF SyncTable, Layout, Laid
<1>3. CASE SyncHeader
  BY <1>3 DEF SyncHeader, Layout, Laid
<1>4. CASE SyncSize
  <2>1. /\ persist' = ClosedPersist /\ header' = HeaderOf(ClosedPersist) /\ reg' = reg
        /\ pc' = "sync"
    BY <1>4 DEF SyncSize, Opening
  <2>2. header'[1].head = 0 /\ header'[1].count = 0 /\ header' # << >>
    BY <2>1 DEF HeaderOf, ClosedPersist
  <2>3. DOMAIN records' = 0 .. reg.capacity - 1 /\ records' = [s \in DOMAIN records' |-> records'[s]]
    BY <1>4 DEF SyncSize
  <2>4. (0 + 0) % reg.capacity = 0
    BY <1>r, ModBelow
  <2> QED
    BY <1>r, <2>1, <2>2, <2>3, <2>4 DEF Layout, ClosedPersist
<1>5. CASE SyncRow
  <2>1. View[k + 1] \in Row
    BY <1>5, <1>r, ContentsType, SMTT(60) DEF SyncRow, View, TypeOK
  <2> QED
    BY <1>5, <2>1, WriteLayout DEF SyncRow
<1>6. CASE Sample
  BY <1>6, NewRowType, WriteLayout DEF Sample
<1>7. CASE Flush("flush_sync", "sync") \/ Flush("flush_open", "open")
  <2>1. /\ header' = HeaderOf(persist) /\ persist' = Flushed /\ reg' = reg /\ records' = records
        /\ pc \in Laid
    BY <1>7 DEF Flush, Laid
  <2>2. /\ persist'.head = persist.head /\ persist'.count = persist.count
        /\ persist'.appends_since_header = 0
    BY <2>1 DEF Flushed
  <2>3. /\ header' # << >> /\ header'[1].head = persist'.head
        /\ header'[1].count = persist'.count
    BY <1>h, <2>1, <2>2
  <2>4. /\ persist'.head = (header'[1].head + persist'.appends_since_header) % reg'.capacity
        /\ persist'.count = IF header'[1].count + persist'.appends_since_header < reg'.capacity
                            THEN header'[1].count + persist'.appends_since_header
                            ELSE reg'.capacity
    <3>1. /\ header'[1].head = persist.head /\ header'[1].count = persist.count
          /\ reg'.capacity = reg.capacity
      BY <2>1, <2>2, <2>3
    <3> HIDE <2>1, <2>2, <2>3
    <3> QED
      BY <1>m, <2>2, <3>1
  <2>5. /\ DOMAIN records' = 0 .. reg'.capacity - 1
        /\ records' = [s \in DOMAIN records' |-> records'[s]]
    BY <2>1 DEF Layout
  <2>6. persist'.appends_since_header < HEADER_FLUSH_EVERY
    BY <1>r, <2>2
  <2> QED
    BY <2>3, <2>4, <2>5, <2>6 DEF Layout
<1>8. CASE SyncRowFails \/ SyncDone \/ SampleWriteFails
  BY <1>8 DEF SyncRowFails, SyncDone, SampleWriteFails, Layout, Laid
<1>9. CASE UNCHANGED vars
  BY <1>9 DEF vars, Layout
<1> QED
  BY <1>1, <1>2, <1>3, <1>4, <1>5, <1>6, <1>7, <1>8, <1>9 DEF Next

LEMMA InitShape == Init => TypeOK /\ Opening /\ Layout
<1> SUFFICES ASSUME Init PROVE TypeOK /\ Opening /\ Layout
  OBVIOUS
<1>1. reg \in Registries /\ reg.capacity \in Nat \ {0}
  BY RegistriesAssumption DEF Init
<1>2. mem \in RingType(reg.capacity, Row)
  BY <1>1, EmptyRingIsEmpty, RowTypes DEF Init
<1>3. Opening /\ Layout
  BY DEF Init, Opening, Layout, Laid
<1> QED
  <2>1. torn \in BOOLEAN
    BY Zenon DEF Init
  <2> QED
    BY <1>1, <1>2, <1>3, <2>1, RecordingBounds, FlushAssumption DEF Init, TypeOK, ClosedPersist

(***************************************************************************)
(* Type correctness of the recorder: in particular no ring index leaves    *)
(* its ring, and the header is never more than HEADER_FLUSH_EVERY behind.  *)
(***************************************************************************)
THEOREM RecordingTypeCorrect == Spec => [](TypeOK /\ Opening /\ Layout)
<1>1. TypeOK /\ Opening /\ Layout /\ [Next]_vars => (TypeOK /\ Opening /\ Layout)'
  BY TypeStep, OpeningStep, LayoutStep
<1> QED
  BY <1>1, InitShape, PTL DEF Spec

-----------------------------------------------------------------------------
\* While laid out, records with persist->head and persist->count form a ring.
LEMMA FileIsRing ==
  ASSUME TypeOK, Layout, pc \in Laid
  PROVE  /\ FileRing \in RingType(reg.capacity, Record)
         /\ FileView = Contents(FileRing, reg.capacity)
         /\ FileView \in Seq(Record) /\ Len(FileView) = persist.count
<1>1. reg.capacity \in Nat \ {0}
  BY RegistriesAssumption DEF TypeOK
<1>2. records \in [0 .. reg.capacity - 1 -> Record]
  BY DEF TypeOK, Layout
<1>3. FileRing \in RingType(reg.capacity, Record)
  BY <1>2 DEF FileRing, RingType, TypeOK
<1>4. FileView = Contents(FileRing, reg.capacity)
  BY DEF FileView, FileRing
<1>5. Contents(FileRing, reg.capacity) \in Seq(Record)
      /\ Len(Contents(FileRing, reg.capacity)) = FileRing.count
  BY <1>1, <1>3, ContentsType
<1> QED
  BY <1>3, <1>4, <1>5 DEF FileRing

\* The record write of persist_append is one step of a bounded history on disk.
LEMMA WriteSlides ==
  ASSUME TypeOK, Layout, pc \in {"sync", "open"}, NEW row \in Row, NEW back,
         WriteRecord(row, back), reg' = reg
  PROVE  FileView' = Slide(FileView, reg.capacity, RecordOf(row))
<1>1. reg.capacity \in Nat \ {0}
  BY RegistriesAssumption DEF TypeOK
<1>2. RecordOf(row) \in Record
  BY RecordType
<1>3. FileRing \in RingType(reg.capacity, Record) /\ FileView = Contents(FileRing, reg.capacity)
  BY FileIsRing DEF Laid
<1>4. FileRing' = Put(FileRing, reg.capacity, RecordOf(row))
  BY DEF FileRing, Put, WriteRecord, Advanced
<1>5. FileView' = Contents(FileRing', reg.capacity)
  BY DEF FileView, FileRing
<1> QED
  BY <1>1, <1>2, <1>3, <1>4, <1>5, PutSlides

\* A file and the rows it was written from: they correspond entry by entry,
\* and still do after one more entry.
LEMMA SlidesTogether ==
  ASSUME NEW cap \in Nat \ {0}, NEW s \in Seq(Record), NEW t \in Seq(Row),
         NEW a \in Record, NEW b \in Row, Len(s) = Len(t), a = RecordOf(b),
         \A j \in 1 .. Len(t) : s[j] = RecordOf(t[j])
  PROVE  /\ Len(Slide(s, cap, a)) = Len(Slide(t, cap, b))
         /\ \A j \in 1 .. Len(Slide(t, cap, b)) : Slide(s, cap, a)[j] = RecordOf(Slide(t, cap, b)[j])
<1>1. CASE Len(t) < cap
  <2>1. /\ Len(Append(s, a)) = Len(t) + 1 /\ Len(Append(t, b)) = Len(t) + 1
        /\ \A j \in 1 .. Len(t) + 1 : /\ Append(s, a)[j] = IF j <= Len(t) THEN s[j] ELSE a
                                      /\ Append(t, b)[j] = IF j <= Len(t) THEN t[j] ELSE b
    OBVIOUS
  <2> QED
    BY <1>1, <2>1 DEF Slide
<1>2. CASE Len(t) >= cap
  <2>1. /\ Len(Append(Tail(s), a)) = Len(t) /\ Len(Append(Tail(t), b)) = Len(t)
        /\ \A j \in 1 .. Len(t) : /\ Append(Tail(s), a)[j] = IF j < Len(t) THEN s[j + 1] ELSE a
                                  /\ Append(Tail(t), b)[j] = IF j < Len(t) THEN t[j + 1] ELSE b
    BY <1>2
  <2> QED
    BY <1>2, <2>1 DEF Slide
<1> QED
  BY <1>1, <1>2

\* One more row, or a row skipped, and what is taken stays in order.
LEMMA TakesOne ==
  ASSUME NEW s \in Seq(Row), NEW rows \in Seq(Row), NEW n \in Nat, n < Len(rows),
         TakenFrom(s, rows, n)
  PROVE  /\ TakenFrom(s, rows, n + 1)
         /\ TakenFrom(Append(s, rows[n + 1]), rows, n + 1)
<1>1. PICK at \in [1 .. Len(s) -> 1 .. n] :
          /\ \A i, j \in 1 .. Len(s) : i < j => at[i] < at[j]
          /\ \A j \in 1 .. Len(s) : s[j] = rows[at[j]]
  BY DEF TakenFrom
<1>2. Len(s) \in Nat /\ Len(s) <= n
  BY DEF TakenFrom
<1>3. TakenFrom(s, rows, n + 1)
  <2>1. at \in [1 .. Len(s) -> 1 .. n + 1] /\ Len(s) <= n + 1
    BY <1>1, <1>2
  <2> QED
    BY <1>1, <2>1, Zenon DEF TakenFrom
<1>4. TakenFrom(Append(s, rows[n + 1]), rows, n + 1)
  <2> DEFINE row == rows[n + 1]
             t == Append(s, row)
             to == [j \in 1 .. Len(s) + 1 |-> IF j <= Len(s) THEN at[j] ELSE n + 1]
  <2>1. row \in Row
    OBVIOUS
  <2> HIDE DEF row
  <2>2. /\ Len(t) = Len(s) + 1
        /\ \A j \in 1 .. Len(s) + 1 : t[j] = IF j <= Len(s) THEN s[j] ELSE row
    BY <2>1
  <2>3. to \in [1 .. Len(t) -> 1 .. n + 1]
    BY <1>1, <1>2, <2>2
  <2>4. ASSUME NEW i \in 1 .. Len(t), NEW j \in 1 .. Len(t), i < j
        PROVE  to[i] < to[j]
    <3>1. i <= Len(s) /\ to[i] = at[i] /\ at[i] \in 1 .. n
      BY <1>1, <1>2, <2>2, <2>4
    <3>2. CASE j <= Len(s)
      BY <1>1, <1>2, <2>2, <2>4, <3>1, <3>2
    <3>3. CASE j > Len(s)
      BY <1>2, <2>2, <3>1, <3>3
    <3> QED
      BY <1>2, <2>2, <3>2, <3>3
  <2>5. ASSUME NEW j \in 1 .. Len(t)
        PROVE  t[j] = rows[to[j]]
    <3>1. CASE j <= Len(s)
      BY <1>1, <1>2, <2>2, <3>1
    <3>2. CASE j > Len(s)
      BY <1>2, <2>2, <3>2 DEF row
    <3> QED
      BY <1>2, <2>2, <3>1, <3>2
  <2>6. Len(t) <= n + 1
    BY <1>2, <2>2
  <2> HIDE DEF t, to
  <2>7. TakenFrom(t, rows, n + 1)
    BY <2>3, <2>4, <2>5, <2>6 DEF TakenFrom
  <2> QED
    BY <2>7 DEF t, row
<1> QED
  BY <1>3, <1>4

LEMMA SyncStep ==
  ASSUME TypeOK, Opening, Layout, SyncMirrors, [Next]_vars
  PROVE  SyncMirrors'
<1>r. reg.capacity \in Nat \ {0}
  BY RegistriesAssumption DEF TypeOK
<1>v. View \in Seq(Row) /\ Len(View) = mem.count /\ mem.count \in 0 .. reg.capacity
  BY <1>r, ContentsType DEF View, TypeOK, RingType
<1>1. CASE SyncSize
  <2>1. persist'.count = 0 /\ k' = 0 /\ written' = << >> /\ mem' = mem
    BY <1>1 DEF SyncSize, Opening, ClosedPersist
  <2>2. Len(FileView') = 0
    BY <2>1 DEF FileView, Contents
  <2>3. TakenFrom(<< >>, View', 0)
    <3> DEFINE none == << >>
               at == [j \in 1 .. 0 |-> 0]
    <3>1. Len(none) = 0 /\ 0 <= 0
      OBVIOUS
    <3>2. at \in [1 .. 0 -> 1 .. 0] /\ 1 .. 0 = {}
      OBVIOUS
    <3> HIDE DEF at, none
    <3>3. /\ \A i, j \in 1 .. 0 : i < j => at[i] < at[j]
          /\ \A j \in 1 .. 0 : none[j] = View'[at[j]]
      BY <3>2
    <3>4. TakenFrom(none, View', 0)
      BY <3>1, <3>2, <3>3, Zenon DEF TakenFrom
    <3> QED
      BY <3>4 DEF none
  <2> QED
    BY <1>v, <2>1, <2>2, <2>3 DEF SyncMirrors
<1>2. CASE SyncRow
  <2>1. /\ k < mem.count /\ k' = k + 1 /\ k \in Nat /\ WriteRecord(View[k + 1], "sync")
        /\ UNCHANGED <<reg, mem>> /\ pc = "sync" /\ written' = Append(written, View[k + 1])
        /\ written \in Seq(Row)
    BY <1>2 DEF SyncRow, TypeOK
  <2>2. View[k + 1] \in Row /\ RecordOf(View[k + 1]) \in Record
    BY <1>v, <2>1, RecordType
  <2>3. FileView' = Slide(FileView, reg.capacity, RecordOf(View[k + 1]))
    BY <2>1, <2>2, WriteSlides
  <2>4. /\ FileView \in Seq(Record) /\ Len(FileView) = Len(written)
        /\ \A j \in 1 .. Len(written) : FileView[j] = RecordOf(written[j])
        /\ TakenFrom(written, View, k)
    BY <2>1, FileIsRing DEF SyncMirrors, Laid
  <2>5. Len(written) < reg.capacity /\ Len(written) \in Nat
    <3>1. Len(written) <= k
      BY <2>4, Zenon DEF TakenFrom
    <3> QED
      BY <1>r, <1>v, <2>1, <3>1
  <2>6. FileView' = Append(FileView, RecordOf(View[k + 1]))
    BY <1>r, <2>3, <2>4, <2>5 DEF Slide
  <2>7. \A row : RecordOf(row)' = RecordOf(row)
    BY <2>1 DEF RecordOf
  <2>8. View' = View
    BY <2>1 DEF View
  <2>9. written' = Slide(written, reg.capacity, View[k + 1])
    BY <1>r, <2>1, <2>5 DEF Slide
  <2>10. /\ Len(FileView') = Len(written')
         /\ \A j \in 1 .. Len(written') : FileView'[j] = RecordOf(written'[j])
    <3> DEFINE row == View[k + 1]
    <3>1. row \in Row /\ RecordOf(row) \in Record /\ written \in Seq(Row)
      BY <2>1, <2>2
    <3>2. /\ FileView' = Slide(FileView, reg.capacity, RecordOf(row))
          /\ written' = Slide(written, reg.capacity, row)
      BY <2>3, <2>9
    <3> HIDE DEF row
    <3>3. /\ Len(Slide(FileView, reg.capacity, RecordOf(row))) = Len(Slide(written, reg.capacity, row))
          /\ \A j \in 1 .. Len(Slide(written, reg.capacity, row)) :
                Slide(FileView, reg.capacity, RecordOf(row))[j] =
                    RecordOf(Slide(written, reg.capacity, row)[j])
      BY <1>r, <2>4, <3>1, SlidesTogether
    <3> QED
      BY <3>2, <3>3, Zenon
  <2>11. TakenFrom(written', View', k')
    BY <1>v, <2>1, <2>4, <2>8, TakesOne
  <2>12. mem' = mem /\ k' <= mem.count
    BY <1>v, <2>1
  <2>13. \A j \in 1 .. Len(written') : FileView'[j] = RecordOf(written[j])'
    BY <2>7, <2>10 DEF RecordOf
  <2> QED
    BY <2>10, <2>11, <2>12, <2>13 DEF SyncMirrors
<1>3. CASE SyncRowFails
  <2>1. /\ k < mem.count /\ k' = k + 1 /\ k \in Nat /\ pc = "sync" /\ written \in Seq(Row)
        /\ UNCHANGED <<reg, mem, persist, records, written>>
    BY <1>3 DEF SyncRowFails, TypeOK
  <2>2. View' = View /\ FileView' = FileView /\ \A row : RecordOf(row)' = RecordOf(row)
    BY <2>1 DEF View, FileView, RecordOf
  <2>3. TakenFrom(written, View, k) /\ Len(FileView) = Len(written)
        /\ \A j \in 1 .. Len(written) : FileView[j] = RecordOf(written[j])
    BY <2>1 DEF SyncMirrors
  <2>4. TakenFrom(written', View', k')
    BY <1>v, <2>1, <2>2, <2>3, TakesOne
  <2>5. k' <= mem'.count
    BY <1>v, <2>1
  <2>6. Len(FileView') = Len(written') /\ \A j \in 1 .. Len(written') : FileView'[j] = RecordOf(written[j])'
    BY <2>1, <2>2, <2>3 DEF RecordOf
  <2> QED
    BY <2>4, <2>5, <2>6 DEF SyncMirrors
<1>4. CASE Flush("flush_sync", "sync")
  <2>1. /\ pc = "flush_sync" /\ persist' = Flushed
        /\ UNCHANGED <<reg, mem, records, k, written>>
    BY <1>4 DEF Flush
  <2>2. View' = View /\ FileView' = FileView /\ \A row : RecordOf(row)' = RecordOf(row)
    BY <2>1 DEF View, FileView, RecordOf, Flushed
  <2> QED
    BY <2>1, <2>2 DEF SyncMirrors, RecordOf
<1>5. CASE UNCHANGED vars
  <2>1. View' = View /\ FileView' = FileView
    BY <1>5 DEF vars, View, FileView
  <2> QED
    BY <1>5, <2>1 DEF vars, SyncMirrors, RecordOf
<1>6. CASE (\E r \in Registries : Start_up(r)) \/ SampleInMemory \/ persist_open \/ persist_load
           \/ LoadDone \/ SyncTable \/ SyncHeader \/ Flush("flush_open", "open") \/ SyncDone
           \/ Sample \/ SampleWriteFails \/ persist_close \/ close_persistence \/ StopInMemory
           \/ Crash
  <2>1. pc' \notin {"sync", "flush_sync"}
    BY <1>6 DEF Start_up, SampleInMemory, persist_open, persist_load, LoadDone, SyncTable,
                SyncHeader, Flush, SyncDone, Sample, WriteRecord, SampleWriteFails,
                persist_close, close_persistence, StopInMemory, Crash
  <2> QED
    BY <2>1 DEF SyncMirrors
<1> QED
  BY <1>1, <1>2, <1>3, <1>4, <1>5, <1>6 DEF Next

LEMMA MirrorStep ==
  ASSUME TypeOK, Opening, Layout, SyncMirrors, Mirrored, [Next]_vars
  PROVE  Mirrored'
<1>r. reg.capacity \in Nat \ {0}
  BY RegistriesAssumption DEF TypeOK
<1>v. View \in Seq(Row) /\ Len(View) = mem.count
  BY <1>r, ContentsType DEF View, TypeOK
<1>1. CASE SyncDone
  <2>1. durable' = written /\ UNCHANGED <<reg, persist, records>> /\ pc = "sync"
    BY <1>1 DEF SyncDone
  <2>2. FileView' = FileView /\ \A row : RecordOf(row)' = RecordOf(row)
    BY <2>1 DEF FileView, RecordOf
  <2>3. Len(FileView) = Len(written) /\ \A j \in 1 .. Len(written) : FileView[j] = RecordOf(written[j])
    BY <2>1 DEF SyncMirrors
  <2> QED
    BY <2>1, <2>2, <2>3 DEF Mirrored, RecordOf
<1>2. CASE Sample
  <2>1. /\ WriteRecord(NewRow, "open") /\ reg' = reg /\ pc = "open"
        /\ durable' = Slide(durable, reg.capacity, NewRow) /\ durable \in Seq(Row)
    BY <1>2 DEF Sample, TypeOK
  <2>2. NewRow \in Row /\ RecordOf(NewRow) \in Record
    BY NewRowType, RecordType
  <2>3. FileView' = Slide(FileView, reg.capacity, RecordOf(NewRow))
    BY <2>1, <2>2, WriteSlides
  <2>4. FileView \in Seq(Record)
    BY <2>1, FileIsRing DEF Laid
  <2>5. Len(FileView) = Len(durable) /\ \A j \in 1 .. Len(durable) : FileView[j] = RecordOf(durable[j])
    BY <2>1 DEF Mirrored
  <2>6. /\ Len(FileView') = Len(durable')
        /\ \A j \in 1 .. Len(durable') : FileView'[j] = RecordOf(durable'[j])
    BY <1>r, <2>1, <2>2, <2>3, <2>4, <2>5, SlidesTogether
  <2> QED
    BY <2>1, <2>6 DEF Mirrored, RecordOf
<1>3. CASE SampleWriteFails \/ Flush("flush_open", "open")
  BY <1>3 DEF SampleWriteFails, Flush, Flushed, Mirrored, FileView, RecordOf
<1>4. CASE UNCHANGED vars
  BY <1>4 DEF vars, Mirrored, FileView, RecordOf
<1>5. CASE (\E r \in Registries : Start_up(r)) \/ SampleInMemory \/ persist_open \/ persist_load
           \/ LoadDone \/ SyncTable \/ SyncHeader \/ SyncSize \/ SyncRow
           \/ SyncRowFails \/ Flush("flush_sync", "sync") \/ persist_close \/ close_persistence
           \/ StopInMemory \/ Crash
  <2>1. pc' \notin {"open", "flush_open"}
    BY <1>5 DEF Start_up, SampleInMemory, persist_open, persist_load, LoadDone, SyncTable,
                SyncHeader, SyncSize, SyncRow, SyncRowFails, WriteRecord, Flush, persist_close,
                close_persistence, StopInMemory, Crash
  <2> QED
    BY <2>1 DEF Mirrored
<1> QED
  BY <1>1, <1>2, <1>3, <1>4, <1>5 DEF Next

(***************************************************************************)
(* Whatever crashes, restarts, changed metric sets and failed writes came  *)
(* before, while the program records the file holds exactly the rows       *)
(* written, in order, and the header on disk is at most HEADER_FLUSH_EVERY *)
(* appends behind persist->head and persist->count.                        *)
(***************************************************************************)
THEOREM FileMirrors == Spec => []FileMirrorsHistory
<1>1. Init => SyncMirrors /\ Mirrored
  BY DEF Init, SyncMirrors, Mirrored
<1>2. TypeOK /\ Opening /\ Layout /\ SyncMirrors /\ Mirrored /\ [Next]_vars
        => (SyncMirrors /\ Mirrored)'
  BY SyncStep, MirrorStep
<1>3. TypeOK /\ Layout /\ Mirrored => FileMirrorsHistory
  <2> SUFFICES ASSUME TypeOK, Layout, Mirrored, pc \in {"open", "flush_open"}
               PROVE  FileMirrorsHistory
    BY DEF FileMirrorsHistory
  <2>1. persist.appends_since_header <= HEADER_FLUSH_EVERY
    BY FlushAssumption DEF TypeOK
  <2> QED
    BY <2>1 DEF FileMirrorsHistory, Mirrored, Layout, Laid
<1> QED
  BY <1>1, <1>2, <1>3, RecordingTypeCorrect, PTL DEF Spec
-----------------------------------------------------------------------------
(***************************************************************************)
(* What a restart finds.  The first group says what the file looks like,   *)
(* whichever run left it and wherever it was killed.                       *)
(***************************************************************************)

\* Where the file is as the last run left it.
AtRest == {"down", "memory", "load", "sync_table"}

\* A file that is not full has been written from its first slot on.
Straight(head, count, cap) == count < cap => head = count

\* The header on disk and struct Persist describe such rings; the id table is
\* at least as long as the header says, and ever since it was written for this
\* run it begins with this run's ids.
Described ==
    /\ Straight(persist.head, persist.count, reg.capacity)
    /\ header # << >> =>
          /\ header[1].count <= header[1].capacity /\ header[1].head < header[1].capacity
          /\ Straight(header[1].head, header[1].count, header[1].capacity)
          /\ header[1].n_metrics <= Len(table)
    /\ pc \in Laid => header[1].n_metrics = Len(reg.ids) /\ header[1].capacity = reg.capacity
    /\ pc \in Laid \cup {"sync_header", "sync_size"} =>
          Len(table) >= Len(reg.ids) /\ \A m \in 1 .. Len(reg.ids) : table[m] = reg.ids[m]

\* Row has a time, and readings of the registry's metrics only.
Proper(row) == row.ts > 0 /\ \A m \in Ids : m \notin IdsOf(reg) => row.src[m] = NAN

ProperRows ==
    /\ \A j \in 1 .. Len(View) : Proper(View[j])
    /\ pc \in {"open", "flush_open"} => \A j \in 1 .. Len(durable) : Proper(durable[j])

-----------------------------------------------------------------------------
(* Restarting from a file whose header tells where its oldest rows are.    *)

\* The slot of the i-th record, counting from 0, as persist_load computes it.
HeaderRing == [head |-> header[1].head, count |-> header[1].count]
FileSlot(i) == SlotOf(HeaderRing, header[1].capacity, i)

\* The record of a row in the file's own metric set.
SavedAs(row) == [ts |-> row.ts, col |-> [m \in 1 .. header[1].n_metrics |-> row.src[table[m]]]]

Distinct == \A i, j \in 1 .. header[1].n_metrics : table[i] = table[j] => i = j

\* The last run stopped cleanly, or was killed before its file was full.
Intact == last_stop = "clean" \/ (CrashedRecording /\ Len(durable) < header[1].capacity)

\* What the header says is there are the oldest rows written, and all of them
\* after a clean stop.
Saved ==
    pc \in AtRest /\ header # << >> /\ Intact =>
        /\ header[1].count <= Len(durable)
        /\ last_stop = "clean" => header[1].count = Len(durable)
        /\ Distinct
        /\ \A j \in 1 .. header[1].count : records[FileSlot(j - 1)] = SavedAs(durable[j])
        /\ \A j \in 1 .. Len(durable) :
              /\ durable[j].ts > 0
              /\ \A m \in Ids : (\A i \in 1 .. header[1].n_metrics : table[i] # m)
                                   => durable[j].src[m] = NAN

\* A row as this run's registry can represent it.
AdoptedRow(row) ==
    [ts |-> row.ts, src |-> [m \in Ids |-> IF m \in IdsOf(reg) THEN row.src[m] ELSE NAN]]

\* s is what a tier with room for cap rows keeps of the first n rows.
IsWindow(s, rows, n, cap) ==
    /\ Len(s) = IF n < cap THEN n ELSE cap
    /\ \A j \in 1 .. Len(s) : s[j] = AdoptedRow(rows[n - Len(s) + j])

\* persist_load has restored the first k rows, as far as the tier has room.
LoadMirrors ==
    pc = "load" /\ Loadable /\ Intact =>
        k <= header[1].count /\ IsWindow(View, durable, k, reg.capacity)

-----------------------------------------------------------------------------
(* Whose readings the file holds.                                          *)

\* Every reading of a row is its metric's, and none is from after time t.
AttributedAt(row, t) == row.ts <= t /\ \A m \in Ids : row.src[m] \in {m, NAN}
AllAttributed(s, t) == \A j \in 1 .. Len(s) : AttributedAt(s[j], t)

\* The same of a record whose columns are the first n ids of a table.
OwnedBy(rec, t, n, ids) ==
    /\ rec.ts <= t /\ DOMAIN rec.col = 1 .. n
    /\ \A m \in 1 .. n : rec.col[m] \in {ids[m], NAN}

\* The slots a restart may come to read.
Reach == IF pc \in Laid THEN persist.count ELSE header[1].count

OwnRows == ~torn => AllAttributed(View, now)

OwnFile ==
    ~torn /\ pc # "sync_header" /\ header # << >> =>
        /\ Distinct
        /\ \A s \in 0 .. Reach - 1 :
              s \in DOMAIN records => OwnedBy(records[s], now, header[1].n_metrics, table)

-----------------------------------------------------------------------------
(* Restarting from a file whose header is behind.                          *)

\* The slots and the rows written have the same times, and the header says of
\* all but HEADER_FLUSH_EVERY slots that they are in use.
Lagging ==
    pc \in AtRest /\ CrashedRecording =>
        /\ header # << >> /\ header[1].count <= Len(durable)
        /\ Len(durable) <= header[1].count + HEADER_FLUSH_EVERY
        /\ Len(durable) <= header[1].capacity
        /\ \A j \in 1 .. Len(durable) :
              \E s \in 0 .. Len(durable) - 1 : records[s].ts = durable[j].ts
        /\ \A s \in 0 .. Len(durable) - 1 :
              \E j \in 1 .. Len(durable) : records[s].ts = durable[j].ts
        /\ \A j \in 1 .. Len(durable) : durable[j].ts > 0

\* persist_load has restored the first k slots in the header's order.
LoadTimes ==
    pc = "load" /\ Loadable /\ CrashedRecording /\ reg.capacity >= header[1].capacity =>
        /\ k <= header[1].count /\ Len(View) = k
        /\ \A j \in 1 .. k : View[j].ts = records[FileSlot(j - 1)].ts

-----------------------------------------------------------------------------
\* The types of this run's registry and struct Persist.
LEMMA RunTypes ==
  ASSUME TypeOK
  PROVE  /\ reg \in Registries /\ reg.capacity \in Nat \ {0} /\ Len(reg.ids) \in Nat \ {0}
         /\ reg.ids \in Seq(Ids)
         /\ \A i, j \in 1 .. Len(reg.ids) : reg.ids[i] = reg.ids[j] => i = j
         /\ persist.head \in 0 .. reg.capacity - 1 /\ persist.count \in 0 .. reg.capacity
         /\ persist.appends_since_header \in 0 .. HEADER_FLUSH_EVERY
         /\ View \in Seq(Row) /\ Len(View) = mem.count /\ mem.count \in 0 .. reg.capacity
         /\ table \in Seq(Ids) /\ Len(table) \in Nat
         /\ durable \in Seq(Row) /\ Len(durable) \in Nat /\ k \in Nat /\ now \in Nat
<1>1. reg.capacity \in Nat \ {0} /\ mem \in RingType(reg.capacity, Row)
  BY RegistriesAssumption DEF TypeOK
<1>2. View \in Seq(Row) /\ Len(View) = mem.count /\ mem.count \in 0 .. reg.capacity
  BY <1>1, ContentsType DEF View, RingType
<1>3. now \in Nat /\ table \in Seq(Ids) /\ Len(table) \in Nat /\ Len(durable) \in Nat
  BY RecordingBounds DEF TypeOK
<1> QED
  BY <1>1, <1>2, <1>3, RegistriesAssumption DEF TypeOK

LEMMA DiskTypes ==
  ASSUME TypeOK, header # << >>
  PROVE  /\ header[1].n_metrics \in Nat \ {0} /\ header[1].capacity \in Nat \ {0}
         /\ header[1].head \in Nat /\ header[1].count \in Nat
<1>1. header[1] \in Header
  BY DEF TypeOK
<1> QED
  BY <1>1 DEF Header

\* Advancing struct Persist keeps it straight.
LEMMA AdvancedStraight ==
  ASSUME TypeOK, Straight(persist.head, persist.count, reg.capacity)
  PROVE  Straight(Advanced.head, Advanced.count, reg.capacity)
<1>1. /\ reg.capacity \in Nat \ {0} /\ persist.head \in 0 .. reg.capacity - 1
      /\ persist.count \in 0 .. reg.capacity
  BY RunTypes
<1>2. CASE persist.count + 1 < reg.capacity
  <2>1. (persist.head + 1) % reg.capacity = persist.count + 1
    BY <1>1, <1>2, ModBelow DEF Straight
  <2> QED
    BY <1>1, <1>2, <2>1 DEF Straight, Advanced
<1>3. CASE persist.count + 1 >= reg.capacity
  BY <1>1, <1>3 DEF Straight, Advanced
<1> QED
  BY <1>1, <1>2, <1>3

LEMMA DescribedStep ==
  ASSUME TypeOK, Opening, Layout, Described, [Next]_vars
  PROVE  Described'
<1>r. /\ reg.capacity \in Nat \ {0} /\ Len(reg.ids) \in Nat \ {0} /\ Len(table) \in Nat
      /\ persist.head \in 0 .. reg.capacity - 1 /\ persist.count \in 0 .. reg.capacity
  BY RunTypes
<1>c. Straight(ClosedPersist.head, ClosedPersist.count, reg'.capacity)
  BY DEF Straight, ClosedPersist
<1>h. /\ HeaderOf(persist)[1].count = persist.count /\ HeaderOf(persist)[1].head = persist.head
      /\ HeaderOf(persist)[1].capacity = reg.capacity
      /\ HeaderOf(persist)[1].n_metrics = Len(reg.ids)
  BY DEF HeaderOf
<1>1. CASE (\E r \in Registries : Start_up(r)) \/ SampleInMemory \/ persist_open \/ persist_load
           \/ LoadDone \/ StopInMemory \/ Crash
  <2>1. UNCHANGED <<header, table>> /\ pc' \in AtRest /\ persist' = ClosedPersist
    BY <1>1 DEF Start_up, SampleInMemory, persist_open, persist_load, LoadDone, StopInMemory,
                Crash, Opening, AtRest
  <2> QED
    BY <1>c, <2>1 DEF Described, AtRest, Laid
<1>2. CASE SyncTable
  <2>1. persist' = ClosedPersist /\ UNCHANGED <<reg, header>> /\ pc' = "sync_header"
    BY <1>2 DEF SyncTable, Opening, ClosedPersist
  <2>2. /\ table' = [m \in 1 .. (IF Len(table) > Len(reg.ids) THEN Len(table) ELSE Len(reg.ids)) |->
                    IF m <= Len(reg.ids) THEN reg.ids[m] ELSE table[m]]
    BY <1>2 DEF SyncTable
  <2>3. /\ Len(table') \in Nat /\ Len(table') >= Len(table) /\ Len(table') >= Len(reg.ids)
        /\ \A m \in 1 .. Len(reg.ids) : table'[m] = reg.ids[m]
    BY <1>r, <2>2
  <2>4. header # << >> => header[1].n_metrics <= Len(table')
    BY <1>r, <2>3, DiskTypes DEF Described
  <2> QED
    BY <1>c, <2>1, <2>3, <2>4 DEF Described, Laid
<1>3. CASE SyncHeader
  <2>1. /\ header' = HeaderOf(persist) /\ persist = ClosedPersist
        /\ persist' = Flushed /\ UNCHANGED <<reg, table>> /\ pc = "sync_header"
        /\ pc' = "sync_size"
    BY <1>3 DEF SyncHeader, Opening
  <2>2. Straight(persist'.head, persist'.count, reg'.capacity)
    BY <2>1 DEF Flushed, Described
  <2> QED
    BY <1>r, <1>h, <2>1, <2>2 DEF Described, Laid
<1>4. CASE SyncSize
  <2>1. /\ UNCHANGED <<reg, table, header, persist>> /\ header = HeaderOf(ClosedPersist)
        /\ pc = "sync_size" /\ pc' = "sync"
    BY <1>4 DEF SyncSize, Opening
  <2>2. header[1].n_metrics = Len(reg.ids) /\ header[1].capacity = reg.capacity
    BY <2>1 DEF HeaderOf
  <2> QED
    BY <2>1, <2>2 DEF Described, Laid
<1>5. CASE SyncRow \/ Sample
  <2>1. /\ UNCHANGED <<reg, table, header>> /\ persist' = Advanced /\ pc \in Laid
    BY <1>5 DEF SyncRow, Sample, WriteRecord, Laid
  <2>2. Straight(persist'.head, persist'.count, reg.capacity)
    BY <2>1, AdvancedStraight DEF Described
  <2> QED
    BY <2>1, <2>2 DEF Described
<1>6. CASE Flush("flush_sync", "sync") \/ Flush("flush_open", "open")
  <2>1. /\ header' = HeaderOf(persist) /\ persist' = Flushed /\ UNCHANGED <<reg, table>>
        /\ pc \in Laid
    BY <1>6 DEF Flush, Laid
  <2>2. Straight(persist'.head, persist'.count, reg'.capacity)
    BY <2>1 DEF Flushed, Described
  <2> QED
    BY <1>r, <1>h, <2>1, <2>2 DEF Described
<1>7. CASE SyncRowFails \/ SyncDone \/ SampleWriteFails
  BY <1>7 DEF SyncRowFails, SyncDone, SampleWriteFails, Described, Laid
<1>8. CASE persist_close \/ close_persistence
  <2>1. /\ header' = HeaderOf(persist) /\ persist' = ClosedPersist /\ UNCHANGED <<reg, table>>
        /\ pc = "open" /\ pc' \in {"down", "memory"}
    BY <1>8 DEF persist_close, close_persistence
  <2> QED
    BY <1>r, <1>c, <1>h, <2>1 DEF Described, Laid
<1>9. CASE UNCHANGED vars
  BY <1>9 DEF vars, Described
<1> QED
  BY <1>1, <1>2, <1>3, <1>4, <1>5, <1>6, <1>7, <1>8, <1>9 DEF Next

\* Sliding in a row keeps what holds of every row.
LEMMA ProperSlides ==
  ASSUME NEW cap \in Nat \ {0}, NEW s \in Seq(Row), NEW row \in Row,
         \A j \in 1 .. Len(s) : Proper(s[j]), Proper(row)
  PROVE  \A j \in 1 .. Len(Slide(s, cap, row)) : Proper(Slide(s, cap, row)[j])
<1>1. CASE Len(s) < cap
  <2>1. Len(Append(s, row)) = Len(s) + 1 /\ \A j \in 1 .. Len(s) + 1 :
           Append(s, row)[j] = IF j <= Len(s) THEN s[j] ELSE row
    OBVIOUS
  <2> QED
    BY <1>1, <2>1 DEF Slide
<1>2. CASE Len(s) >= cap
  <2>1. Len(Append(Tail(s), row)) = Len(s) /\ \A j \in 1 .. Len(s) :
           Append(Tail(s), row)[j] = IF j < Len(s) THEN s[j + 1] ELSE row
    BY <1>2
  <2> QED
    BY <1>2, <2>1 DEF Slide
<1> QED
  BY <1>1, <1>2

\* What one write does to the tier, as a bounded history.
LEMMA MemSlides ==
  ASSUME TypeOK, NEW row \in Row, mem' = Put(mem, reg.capacity, row), reg' = reg
  PROVE  View' = Slide(View, reg.capacity, row)
BY RunTypes, PutSlides DEF View, TypeOK

\* The row persist_load restores from a record.
LEMMA LoadedRow ==
  ASSUME TypeOK, persist_load
  PROVE  /\ pc = "load" /\ Loadable /\ k < LoadCount /\ LoadSlot \in DOMAIN records
         /\ k' = k + 1 /\ records[LoadSlot] \in Record
         /\ UNCHANGED <<pc, reg, persist, header, table, records, now, durable, last_stop, torn>>
         /\ [ts |-> records[LoadSlot].ts, src |-> Remap(records[LoadSlot])] \in Row
         /\ records[LoadSlot].ts <= 0 => View' = View
         /\ records[LoadSlot].ts > 0 =>
               View' = Slide(View, reg.capacity,
                             [ts |-> records[LoadSlot].ts, src |-> Remap(records[LoadSlot])])
<1> DEFINE rec == records[LoadSlot]
           row == [ts |-> rec.ts, src |-> Remap(rec)]
<1>1. /\ pc = "load" /\ Loadable /\ k < LoadCount /\ LoadSlot \in DOMAIN records
      /\ k' = k + 1
      /\ UNCHANGED <<pc, reg, persist, header, table, records, now, durable, last_stop, torn>>
      /\ mem' = IF rec.ts <= 0 THEN mem ELSE Put(mem, reg.capacity, row)
  BY DEF persist_load
<1>2. rec \in Record
  BY <1>1 DEF TypeOK
<1>3. row \in Row
  BY <1>2, RemapType DEF Row, Record
<1>4. rec.ts \in Nat
  BY <1>2 DEF Record
<1> HIDE DEF row
<1>5. rec.ts <= 0 => View' = View
  BY <1>1 DEF View
<1>6. rec.ts > 0 => View' = Slide(View, reg.capacity, row)
  BY <1>1, <1>3, <1>4, MemSlides
<1> QED
  BY <1>1, <1>2, <1>3, <1>5, <1>6 DEF row

LEMMA ProperStep ==
  ASSUME TypeOK, SyncMirrors, ProperRows, [Next]_vars
  PROVE  ProperRows'
<1>r. reg.capacity \in Nat \ {0} /\ View \in Seq(Row) /\ durable \in Seq(Row) /\ now \in Nat
  BY RunTypes
<1>n. NewRow \in Row /\ Proper(NewRow)
  BY <1>r, NewRowType DEF NewRow, Proper
<1>p. \A row : reg' = reg => Proper(row)' = Proper(row)
  BY Zenon DEF Proper, IdsOf
<1>1. CASE (\E r \in Registries : Start_up(r)) \/ persist_close \/ StopInMemory \/ Crash
  <2>1. PICK r \in Registries : mem' = EmptyRing(r.capacity, ZeroRow) /\ reg' = r
    BY <1>1 DEF Start_up, persist_close, StopInMemory, Crash, TypeOK
  <2>2. View' = << >>
    BY <2>1, RegistriesAssumption, EmptyRingIsEmpty, RowTypes DEF View
  <2>3. pc' \notin {"open", "flush_open"}
    BY <1>1 DEF Start_up, persist_close, StopInMemory, Crash
  <2> QED
    BY <2>2, <2>3 DEF ProperRows
<1>2. CASE SampleInMemory \/ SampleWriteFails \/ Sample
  <2>1. mem' = Put(mem, reg.capacity, NewRow) /\ reg' = reg
    BY <1>2 DEF SampleInMemory, SampleWriteFails, Sample
  <2>2. View' = Slide(View, reg.capacity, NewRow)
    BY <1>n, <2>1, MemSlides
  <2>3. \A j \in 1 .. Len(View') : Proper(View'[j])
    BY <1>n, <1>r, <2>2, ProperSlides DEF ProperRows
  <2>4. pc' \in {"open", "flush_open"} => \A j \in 1 .. Len(durable') : Proper(durable'[j])
    <3>1. CASE Sample
      <4>1. durable' = Slide(durable, reg.capacity, NewRow) /\ pc = "open"
        BY <3>1 DEF Sample
      <4> QED
        BY <1>n, <1>r, <4>1, ProperSlides DEF ProperRows
    <3>2. CASE SampleInMemory \/ SampleWriteFails
      BY <3>2 DEF SampleInMemory, SampleWriteFails, ProperRows
    <3> QED
      BY <1>2, <3>1, <3>2
  <2> QED
    BY <1>p, <2>1, <2>3, <2>4 DEF ProperRows
<1>3. CASE persist_load
  <2> DEFINE rec == records[LoadSlot]
             row == [ts |-> rec.ts, src |-> Remap(rec)]
  <2>1. /\ reg' = reg /\ pc' = "load" /\ row \in Row /\ rec.ts \in Nat
        /\ rec.ts <= 0 => View' = View
        /\ rec.ts > 0 => View' = Slide(View, reg.capacity, row)
    BY <1>3, LoadedRow DEF Record
  <2>2. rec.ts > 0 => Proper(row)
    BY DEF Proper, Remap
  <2> HIDE DEF row
  <2>3. \A j \in 1 .. Len(View') : Proper(View'[j])
    BY <1>r, <2>1, <2>2, ProperSlides DEF ProperRows
  <2> QED
    BY <1>p, <2>1, <2>3 DEF ProperRows
<1>4. CASE SyncDone
  <2>1. UNCHANGED <<reg, mem>> /\ durable' = written /\ pc = "sync"
    BY <1>4 DEF SyncDone
  <2>2. View' = View
    BY <2>1 DEF View
  <2>3. \A j \in 1 .. Len(written) : Proper(written[j])
    <3>1. Len(View) = mem.count /\ mem.count \in Nat /\ k \in Nat
      BY RunTypes
    <3>2. k <= mem.count /\ TakenFrom(written, View, k)
      BY <2>1 DEF SyncMirrors
    <3>3. PICK at \in [1 .. Len(written) -> 1 .. k] :
             \A j \in 1 .. Len(written) : written[j] = View[at[j]]
      BY <3>2 DEF TakenFrom
    <3>4. \A j \in 1 .. Len(written) : at[j] \in 1 .. Len(View)
      BY <3>1, <3>2, <3>3
    <3> QED
      BY <3>3, <3>4 DEF ProperRows
  <2> QED
    BY <1>p, <2>1, <2>2, <2>3 DEF ProperRows
<1>5. CASE close_persistence \/ SyncRowFails \/ persist_open \/ LoadDone \/ SyncTable \/ SyncHeader \/ SyncSize \/ SyncRow
           \/ Flush("flush_sync", "sync") \/ Flush("flush_open", "open") \/ UNCHANGED vars
  <2>1. /\ UNCHANGED <<reg, mem, durable>>
        /\ pc' \in {"open", "flush_open"} => pc \in {"open", "flush_open"}
    BY <1>5 DEF close_persistence, SyncRowFails, persist_open, LoadDone, SyncTable, SyncHeader,
                SyncSize, SyncRow, WriteRecord, Flush, vars
  <2>2. View' = View
    BY <2>1 DEF View
  <2> QED
    BY <1>p, <2>1, <2>2 DEF ProperRows
<1> QED
  BY <1>1, <1>2, <1>3, <1>4, <1>5 DEF Next

-----------------------------------------------------------------------------
\* persist_load reads the slots of the ring that the header describes.
LEMMA LoadSlots ==
  ASSUME TypeOK, Described, header # << >>
  PROVE  LoadCount = header[1].count /\ LoadSlot = FileSlot(k)
<1>1. LoadCount = header[1].count
  BY DiskTypes DEF Described, LoadCount
<1> QED
  BY <1>1 DEF LoadSlot, FileSlot, SlotOf, Start, HeaderRing

\* The slots of a straight ring without the modulus: they start at the first.
LEMMA StraightSlots ==
  ASSUME NEW cap \in Nat \ {0}, NEW r, r.head \in 0 .. cap - 1, r.count \in 0 .. cap,
         NEW i \in 0 .. r.count - 1
  PROVE  SlotOf(r, cap, i) = IF r.count = cap
                             THEN (IF r.head + i < cap THEN r.head + i ELSE r.head + i - cap)
                             ELSE IF r.head = r.count THEN i ELSE SlotOf(r, cap, i)
<1>1. CASE r.count = cap
  <2>1. Start(r, cap) = r.head
    <3>1. r.head + cap - r.count = r.head
      BY <1>1
    <3> QED
      BY <3>1, ModBelow DEF Start
  <2> QED
    BY <1>1, <2>1, ModBelow, ModWraps DEF SlotOf
<1>2. CASE r.count # cap /\ r.head = r.count
  <2>1. Start(r, cap) = 0
    <3>1. r.head + cap - r.count = cap
      BY <1>2
    <3>2. cap % cap = 0
      BY ModWraps
    <3> QED
      BY <3>1, <3>2 DEF Start
  <2>2. 0 + i = i /\ i < cap /\ i \in Nat
    BY <1>2
  <2> QED
    BY <1>2, <2>1, <2>2, ModBelow DEF SlotOf
<1> QED
  BY <1>1, <1>2

LEMMA LargestOfOne == ASSUME NEW m \in Nat PROVE Largest({m}) = m
BY DEF Largest

\* Columns are matched by id: a saved row is restored as this run can represent it.
LEMMA RemapSaved ==
  ASSUME TypeOK, Described, header # << >>, Distinct, NEW row \in Row,
         \A m \in Ids : (\A i \in 1 .. header[1].n_metrics : table[i] # m) => row.src[m] = NAN
  PROVE  [ts |-> SavedAs(row).ts, src |-> Remap(SavedAs(row))] = AdoptedRow(row)
<1> DEFINE n == header[1].n_metrics
<1>1. n \in Nat /\ SavedAs(row).ts = row.ts
      /\ SavedAs(row).col = [m \in 1 .. n |-> row.src[table[m]]]
  BY DiskTypes DEF SavedAs
<1>2. ASSUME NEW id \in Ids
      PROVE  Remap(SavedAs(row))[id] = IF id \in IdsOf(reg) THEN row.src[id] ELSE NAN
  <2> DEFINE at == {m \in 1 .. n : table[m] = id}
             rec == SavedAs(row)
  <2>1. Remap(rec)[id] = IF id \notin IdsOf(reg) \/ at = {} THEN NAN
                         ELSE IF Largest(at) \in DOMAIN rec.col THEN rec.col[Largest(at)]
                         ELSE JUNK
    BY DEF Remap
  <2>2. CASE at = {}
    BY <2>1, <2>2
  <2>3. CASE at # {}
    <3>1. PICK m \in 1 .. n : table[m] = id
      BY <2>3
    <3>2. at = {m}
      BY <3>1 DEF Distinct
    <3>3. Largest(at) = m
      BY <1>1, <3>2, LargestOfOne
    <3>4. m \in DOMAIN rec.col /\ rec.col[m] = row.src[id]
      BY <1>1, <3>1
    <3> QED
      BY <2>1, <2>3, <3>3, <3>4
  <2> QED
    BY <2>2, <2>3
<1>3. Remap(SavedAs(row)) = [id \in Ids |-> IF id \in IdsOf(reg) THEN row.src[id] ELSE NAN]
  <2>1. Remap(SavedAs(row)) = [id \in Ids |-> Remap(SavedAs(row))[id]]
    BY DEF Remap
  <2> QED
    BY <1>2, <2>1
<1> QED
  BY <1>1, <1>3 DEF AdoptedRow

\* A tier that holds the newest of the first n rows holds, one row later, the
\* newest of the first n + 1.
LEMMA WindowSlides ==
  ASSUME NEW cap \in Nat \ {0}, NEW s \in Seq(Row), NEW rows \in Seq(Row), NEW n \in Nat,
         n < Len(rows), AdoptedRow(rows[n + 1]) \in Row, IsWindow(s, rows, n, cap)
  PROVE  IsWindow(Slide(s, cap, AdoptedRow(rows[n + 1])), rows, n + 1, cap)
<1> DEFINE row == AdoptedRow(rows[n + 1])
           t == Slide(s, cap, row)
<1>r. row \in Row
  OBVIOUS
<1>w. /\ Len(s) = IF n < cap THEN n ELSE cap
      /\ \A j \in 1 .. Len(s) : s[j] = AdoptedRow(rows[n - Len(s) + j])
  BY DEF IsWindow
<1>g. ASSUME /\ Len(t) = IF n + 1 < cap THEN n + 1 ELSE cap
             /\ \A j \in 1 .. Len(t) : t[j] = AdoptedRow(rows[n + 1 - Len(t) + j])
      PROVE  IsWindow(t, rows, n + 1, cap)
  BY <1>g DEF IsWindow
<1> HIDE DEF row, t
<1>1. CASE n < cap
  <2>1. t = Append(s, row) /\ Len(s) = n
    BY <1>1, <1>w DEF Slide, t
  <2>2. Len(t) = n + 1 /\ \A j \in 1 .. n + 1 : t[j] = IF j <= n THEN s[j] ELSE row
    BY <1>r, <2>1
  <2>3. \A j \in 1 .. n : s[j] = AdoptedRow(rows[j])
    <3>1. \A j \in 1 .. n : n - Len(s) + j = j
      BY <2>1
    <3> QED
      BY <1>w, <2>1, <3>1
  <2>4. \A j \in 1 .. n + 1 : n + 1 - Len(t) + j = j
    BY <2>2
  <2>5. \A j \in 1 .. n + 1 : t[j] = AdoptedRow(rows[j])
    BY <2>2, <2>3 DEF row
  <2> QED
    BY <1>1, <1>g, <2>2, <2>4, <2>5 DEF t, row
<1>2. CASE n >= cap
  <2>1. t = Append(Tail(s), row) /\ Len(s) = cap
    BY <1>2, <1>w DEF Slide, t
  <2>2. Len(t) = cap /\ \A j \in 1 .. cap : t[j] = IF j < cap THEN s[j + 1] ELSE row
    BY <1>r, <2>1
  <2>3. ASSUME NEW j \in 1 .. cap
        PROVE  t[j] = AdoptedRow(rows[n + 1 - cap + j])
    <3>1. CASE j < cap
      <4>1. j + 1 \in 1 .. Len(s) /\ n - Len(s) + (j + 1) = n + 1 - cap + j
        BY <2>1, <3>1
      <4>2. s[j + 1] = AdoptedRow(rows[n - Len(s) + (j + 1)])
        BY <1>w, <4>1
      <4> QED
        BY <2>2, <3>1, <4>1, <4>2
    <3>2. CASE j = cap
      <4>1. n + 1 - cap + j = n + 1
        BY <3>2
      <4> QED
        BY <2>2, <3>2, <4>1 DEF row
    <3> QED
      BY <3>1, <3>2
  <2> QED
    BY <1>2, <1>g, <2>2, <2>3 DEF t, row
<1> QED
  BY <1>1, <1>2

\* A run that stops while it records leaves the rows written where its own
\* struct Persist says they are.
LEMMA WrittenRows ==
  ASSUME TypeOK, Layout, Described, ProperRows, Mirrored, pc \in {"open", "flush_open"}
  PROVE  /\ Len(durable) = persist.count
         /\ \A i, j \in 1 .. Len(reg.ids) : table[i] = table[j] => i = j
         /\ \A j \in 1 .. Len(durable) :
               /\ records[SlotOf(FileRing, reg.capacity, j - 1)] =
                     [ts |-> durable[j].ts,
                      col |-> [m \in 1 .. Len(reg.ids) |-> durable[j].src[table[m]]]]
               /\ durable[j].ts > 0
               /\ \A m \in Ids : (\A i \in 1 .. Len(reg.ids) : table[i] # m)
                                    => durable[j].src[m] = NAN
<1>1. /\ Len(FileView) = persist.count /\ FileView = Contents(FileRing, reg.capacity)
  BY FileIsRing DEF Laid
<1>2. Len(FileView) = Len(durable) /\ \A j \in 1 .. Len(durable) : FileView[j] = RecordOf(durable[j])
  BY DEF Mirrored
<1>3. \A m \in 1 .. Len(reg.ids) : table[m] = reg.ids[m]
  BY DEF Described, Laid
<1>4. \A i, j \in 1 .. Len(reg.ids) : table[i] = table[j] => i = j
  BY <1>3, RunTypes
<1>5. ASSUME NEW j \in 1 .. Len(durable)
      PROVE  records[SlotOf(FileRing, reg.capacity, j - 1)] =
                [ts |-> durable[j].ts,
                 col |-> [m \in 1 .. Len(reg.ids) |-> durable[j].src[table[m]]]]
  <2>1. FileView[j] = records[SlotOf(FileRing, reg.capacity, j - 1)]
    <3>1. j \in 1 .. FileRing.count /\ FileRing.slots = records
      BY <1>1, <1>2 DEF FileRing
    <3> QED
      BY <1>1, <3>1 DEF Contents
  <2>2. RecordOf(durable[j]) = [ts |-> durable[j].ts,
                 col |-> [m \in 1 .. Len(reg.ids) |-> durable[j].src[table[m]]]]
    BY <1>3 DEF RecordOf
  <2> QED
    BY <1>2, <2>1, <2>2
<1>6. ASSUME NEW j \in 1 .. Len(durable)
      PROVE  /\ durable[j].ts > 0
             /\ \A m \in Ids : (\A i \in 1 .. Len(reg.ids) : table[i] # m)
                                  => durable[j].src[m] = NAN
  <2>1. Proper(durable[j])
    BY DEF ProperRows
  <2>2. \A m \in Ids : (\A i \in 1 .. Len(reg.ids) : table[i] # m) => m \notin IdsOf(reg)
    BY <1>3 DEF IdsOf
  <2> QED
    BY <2>1, <2>2 DEF Proper
<1> QED
  BY <1>1, <1>2, <1>4, <1>5, <1>6

\* The steps that leave the file and what is known of it alone, and the ones
\* after which a restart is not yet possible.
Idles ==
    /\ pc \in AtRest /\ pc' \in AtRest
    /\ UNCHANGED <<header, table, records, durable, last_stop>>

LEMMA RestCases ==
  ASSUME TypeOK, [Next]_vars
  PROVE  \/ Idles
         \/ pc' \notin AtRest
         \/ persist_close \/ close_persistence
         \/ Crash /\ pc \notin AtRest /\ last_stop' = pc
<1>1. CASE (\E r \in Registries : Start_up(r)) \/ SampleInMemory \/ persist_load \/ LoadDone
           \/ StopInMemory \/ persist_open
  BY <1>1 DEF Start_up, SampleInMemory, persist_open, persist_load, LoadDone, StopInMemory,
              Idles, AtRest
<1>2. CASE Crash
  <2>1. /\ pc # "down" /\ pc' = "down" /\ UNCHANGED <<header, table, records, durable>>
        /\ last_stop' = IF pc \in {"memory", "load", "sync_table"} THEN last_stop ELSE pc
    BY <1>2 DEF Crash
  <2> QED
    BY <1>2, <2>1 DEF Idles, AtRest
<1>3. CASE SyncTable \/ SyncHeader \/ SyncSize \/ SyncRow \/ Flush("flush_sync", "sync")
           \/ Flush("flush_open", "open") \/ SyncRowFails \/ SyncDone \/ Sample \/ SampleWriteFails
  BY <1>3 DEF SyncTable, SyncHeader, SyncSize, SyncRow, WriteRecord, Flush, SyncRowFails, SyncDone,
              Sample, SampleWriteFails, AtRest
<1>4. CASE UNCHANGED vars
  BY <1>4 DEF vars, Idles
<1> QED
  BY <1>1, <1>2, <1>3, <1>4 DEF Next

LEMMA SavedStep ==
  ASSUME TypeOK, Layout, Described, ProperRows, Mirrored, Saved, [Next]_vars
  PROVE  Saved'
<1>r. /\ reg.capacity \in Nat \ {0} /\ persist.head \in 0 .. reg.capacity - 1
      /\ persist.count \in 0 .. reg.capacity /\ persist.appends_since_header \in Nat
  BY RunTypes, FlushAssumption
<1>1. CASE Idles
  BY <1>1 DEF Idles, Saved, Intact, CrashedRecording, Distinct, FileSlot, HeaderRing, SavedAs
<1>2. CASE pc' \notin AtRest
  BY <1>2 DEF Saved
<1>3. CASE persist_close \/ close_persistence
  <2>1. /\ header' = HeaderOf(persist) /\ UNCHANGED <<table, records, durable>>
        /\ pc = "open" /\ last_stop' = "clean"
    BY <1>3 DEF persist_close, close_persistence
  <2>2. /\ header'[1].head = persist.head /\ header'[1].count = persist.count
        /\ header'[1].capacity = reg.capacity /\ header'[1].n_metrics = Len(reg.ids)
    BY <2>1 DEF HeaderOf
  <2>3. \A i : FileSlot(i)' = SlotOf(FileRing, reg.capacity, i)
    BY <2>2 DEF FileSlot, HeaderRing, SlotOf, Start, FileRing
  <2>4. \A row : SavedAs(row)' =
           [ts |-> row.ts, col |-> [m \in 1 .. Len(reg.ids) |-> row.src[table[m]]]]
    BY <2>1, <2>2 DEF SavedAs
  <2>5. \A j \in 1 .. Len(durable) : records[FileSlot(j - 1)'] = SavedAs(durable[j])'
    BY <2>1, <2>3, <2>4, WrittenRows
  <2>6. Len(durable) = persist.count /\ Distinct'
    BY <2>1, <2>2, WrittenRows DEF Distinct
  <2>7. \A j \in 1 .. Len(durable) :
              /\ durable[j].ts > 0
              /\ \A m \in Ids : (\A i \in 1 .. header'[1].n_metrics : table[i] # m)
                                   => durable[j].src[m] = NAN
    BY <2>1, <2>2, WrittenRows, ZenonT(60)
  <2> QED
    BY <1>r, <2>1, <2>2, <2>5, <2>6, <2>7 DEF Saved
<1>4. CASE Crash /\ pc \notin AtRest /\ last_stop' = pc
  <2> SUFFICES ASSUME Intact' PROVE Saved'
    BY DEF Saved
  <2>1. UNCHANGED <<header, table, records, durable>>
    BY <1>4 DEF Crash
  <2>2. pc \in {"open", "flush_open"} /\ Len(durable) < header[1].capacity
    <3>1. pc # "clean"
      BY DEF TypeOK
    <3> QED
      BY <1>4, <2>1, <3>1 DEF Intact, CrashedRecording
  <2>3. /\ header # << >> /\ header[1].n_metrics = Len(reg.ids) /\ header[1].capacity = reg.capacity
    BY <2>2 DEF Described, Layout, Laid
  <2>4. /\ header[1].count \in Nat /\ header[1].head \in Nat
    BY <2>3, DiskTypes
  <2>5. Len(durable) = persist.count /\ persist.count < reg.capacity
    BY <2>2, <2>3, WrittenRows
  <2>6. persist.count = header[1].count + persist.appends_since_header
    BY <1>r, <2>2, <2>4, <2>5 DEF Layout, Laid
  <2>7. header[1].count <= Len(durable) /\ header[1].head = header[1].count
    BY <1>r, <2>3, <2>4, <2>5, <2>6 DEF Described, Straight
  <2>8. \A j \in 1 .. header[1].count : FileSlot(j - 1) = j - 1
    <3>1. HeaderRing.head = header[1].head /\ HeaderRing.count = header[1].count
      BY DEF HeaderRing
    <3>2. \A i \in 0 .. HeaderRing.count - 1 : SlotOf(HeaderRing, reg.capacity, i) = i
      BY <1>r, <2>4, <2>5, <2>7, <3>1, StraightSlots
    <3> QED
      BY <2>3, <2>4, <3>1, <3>2 DEF FileSlot
  <2>9. \A j \in 1 .. persist.count : SlotOf(FileRing, reg.capacity, j - 1) = j - 1
    <3>1. FileRing.head = persist.head /\ FileRing.count = persist.count
      BY DEF FileRing
    <3>2. persist.head = persist.count
      BY <2>5 DEF Described, Straight
    <3>3. \A i \in 0 .. FileRing.count - 1 : SlotOf(FileRing, reg.capacity, i) = i
      BY <1>r, <2>5, <3>1, <3>2, StraightSlots
    <3> QED
      BY <1>r, <3>1, <3>3
  <2>10. \A j \in 1 .. header[1].count : records[FileSlot(j - 1)] = SavedAs(durable[j])
    <3> TAKE j \in 1 .. header[1].count
    <3>1. j \in 1 .. Len(durable) /\ j \in 1 .. persist.count
      BY <1>r, <2>4, <2>5, <2>7
    <3>2. FileSlot(j - 1) = SlotOf(FileRing, reg.capacity, j - 1)
      BY <2>8, <2>9, <3>1
    <3> QED
      BY <2>2, <2>3, <3>1, <3>2, WrittenRows DEF SavedAs
  <2>11. Distinct /\ \A j \in 1 .. Len(durable) :
              /\ durable[j].ts > 0
              /\ \A m \in Ids : (\A i \in 1 .. header[1].n_metrics : table[i] # m)
                                   => durable[j].src[m] = NAN
    BY <2>2, <2>3, WrittenRows, ZenonT(60) DEF Distinct
  <2>12. last_stop' # "clean"
    BY <1>4, <2>2
  <2> QED
    BY <2>1, <2>7, <2>10, <2>11, <2>12 DEF Saved, Distinct, FileSlot, HeaderRing, SavedAs
<1> QED
  BY <1>1, <1>2, <1>3, <1>4, RestCases

LEMMA LoadStep ==
  ASSUME TypeOK, Described, Saved, LoadMirrors, [Next]_vars
  PROVE  LoadMirrors'
<1>r. /\ reg.capacity \in Nat \ {0} /\ k \in Nat /\ View \in Seq(Row) /\ Len(View) = mem.count
      /\ durable \in Seq(Row) /\ Len(durable) \in Nat
  BY RunTypes
<1>1. CASE persist_open
  <2>1. /\ UNCHANGED <<reg, mem, header, last_stop, durable>> /\ k' = 0
        /\ pc' = "load" => mem.count = 0
    BY <1>1 DEF persist_open
  <2>2. View' = View
    BY <2>1 DEF View
  <2>3. Loadable' => header # << >>
    BY <2>1 DEF Loadable
  <2>4. header # << >> => header[1].count \in Nat
    BY DiskTypes
  <2> QED
    BY <1>r, <2>1, <2>2, <2>3, <2>4 DEF LoadMirrors, IsWindow
<1>2. CASE persist_load
  <2> SUFFICES ASSUME Intact' PROVE LoadMirrors'
    BY DEF LoadMirrors
  <2>1. /\ pc = "load" /\ Loadable /\ k < LoadCount /\ k' = k + 1
        /\ UNCHANGED <<pc, reg, header, table, records, durable, last_stop>>
        /\ records[LoadSlot].ts > 0 =>
               View' = Slide(View, reg.capacity,
                             [ts |-> records[LoadSlot].ts, src |-> Remap(records[LoadSlot])])
    BY <1>2, LoadedRow
  <2>2. Intact /\ header # << >>
    BY <2>1 DEF Intact, CrashedRecording, Loadable
  <2>3. k < header[1].count /\ LoadSlot = FileSlot(k) /\ header[1].count \in Nat
    BY <2>1, <2>2, LoadSlots, DiskTypes
  <2>4. /\ header[1].count <= Len(durable) /\ Distinct
        /\ \A j \in 1 .. header[1].count : records[FileSlot(j - 1)] = SavedAs(durable[j])
        /\ \A j \in 1 .. Len(durable) :
              /\ durable[j].ts > 0
              /\ \A m \in Ids : (\A i \in 1 .. header[1].n_metrics : table[i] # m)
                                   => durable[j].src[m] = NAN
    BY <2>1, <2>2 DEF Saved, AtRest
  <2> DEFINE row == durable[k + 1]
  <2>5. k + 1 \in 1 .. header[1].count /\ k + 1 \in 1 .. Len(durable) /\ row \in Row
    BY <1>r, <2>3, <2>4
  <2>6. records[LoadSlot] = SavedAs(row)
    <3>1. (k + 1) - 1 = k
      BY <1>r
    <3> QED
      BY <2>3, <2>4, <2>5, <3>1
  <2>7. /\ row.ts > 0
        /\ \A m \in Ids : (\A i \in 1 .. header[1].n_metrics : table[i] # m) => row.src[m] = NAN
    BY <2>4, <2>5
  <2> HIDE DEF row
  <2>8. [ts |-> SavedAs(row).ts, src |-> Remap(SavedAs(row))] = AdoptedRow(row)
    BY <2>2, <2>4, <2>5, <2>7, RemapSaved
  <2>9. SavedAs(row).ts = row.ts
    BY DEF SavedAs
  <2>10. View' = Slide(View, reg.capacity, AdoptedRow(row))
    BY <2>1, <2>6, <2>7, <2>8, <2>9
  <2>11. AdoptedRow(row) \in Row
    BY <2>5 DEF AdoptedRow, Row, Source
  <2>12. IsWindow(View, durable, k, reg.capacity)
    BY <2>1, <2>2 DEF LoadMirrors
  <2>13. k < Len(durable)
    BY <1>r, <2>5
  <2>14. IsWindow(View', durable, k + 1, reg.capacity)
    BY <1>r, <2>10, <2>11, <2>12, <2>13, WindowSlides DEF row
  <2>15. IsWindow(View, durable, k, reg.capacity)'
    <3>1. k' = k + 1 /\ durable' = durable /\ reg' = reg
      BY <2>1
    <3> QED
      BY <2>14, <3>1 DEF IsWindow, AdoptedRow
  <2> QED
    BY <1>r, <2>1, <2>3, <2>15 DEF LoadMirrors
<1>3. CASE UNCHANGED vars
  BY <1>3 DEF vars, LoadMirrors, Loadable, Intact, CrashedRecording, View, IsWindow, AdoptedRow
<1>4. CASE (\E r \in Registries : Start_up(r)) \/ SampleInMemory \/ LoadDone \/ SyncTable
           \/ SyncHeader \/ SyncSize \/ SyncRow \/ Flush("flush_sync", "sync")
           \/ Flush("flush_open", "open") \/ SyncRowFails \/ SyncDone \/ Sample
           \/ SampleWriteFails \/ persist_close \/ close_persistence \/ StopInMemory \/ Crash
  <2>1. pc' # "load"
    BY <1>4 DEF Start_up, SampleInMemory, LoadDone, SyncTable, SyncHeader, SyncSize, SyncRow,
                SyncRowFails, WriteRecord, Flush, SyncDone, Sample, SampleWriteFails, persist_close,
                close_persistence, StopInMemory, Crash
  <2> QED
    BY <2>1 DEF LoadMirrors
<1> QED
  BY <1>1, <1>2, <1>3, <1>4 DEF Next

\* Adopted, on which the properties are stated, is such a window of all rows.
LEMMA AdoptedIsWindow ==
  ASSUME TypeOK, NEW s \in Seq(Row)
  PROVE  /\ IsWindow(Adopted(s), s, Len(s), reg.capacity)
         /\ Adopted(s) = [j \in 1 .. Len(Adopted(s)) |-> Adopted(s)[j]]
         /\ Len(Adopted(s)) \in Nat
<1> DEFINE new == History!Newest(s, reg.capacity)
<1>r. reg.capacity \in Nat \ {0} /\ Len(s) \in Nat
  BY RunTypes
<1>1. /\ Len(new) = IF Len(s) < reg.capacity THEN Len(s) ELSE reg.capacity
      /\ \A j \in 1 .. Len(new) : new[j] = s[Len(s) - Len(new) + j]
  <2>1. CASE Len(s) <= reg.capacity
    <3>1. new = s
      BY <2>1 DEF History!Newest
    <3>2. \A j \in 1 .. Len(s) : Len(s) - Len(s) + j = j
      BY <1>r
    <3> QED
      BY <1>r, <2>1, <3>1, <3>2
  <2>2. CASE Len(s) > reg.capacity
    <3>1. new = SubSeq(s, Len(s) - reg.capacity + 1, Len(s))
      BY <1>r, <2>2, SMTT(60) DEF History!Newest
    <3>2. Len(new) = reg.capacity
      BY <1>r, <2>2, <3>1
    <3>3. \A j \in 1 .. reg.capacity : new[j] = s[Len(s) - reg.capacity + j]
      BY <1>r, <2>2, <3>1
    <3> QED
      BY <1>r, <2>2, <3>2, <3>3
  <2> QED
    BY <1>r, <2>1, <2>2
<1>2. Adopted(s) = [j \in 1 .. Len(new) |-> AdoptedRow(new[j])]
  BY DEF Adopted, History!Adopted, AdoptedRow, IdsOf
<1>3. Len(new) \in Nat
  BY <1>r, <1>1
<1> HIDE DEF new
<1>4. Len(Adopted(s)) = Len(new) /\ \A j \in 1 .. Len(new) : Adopted(s)[j] = AdoptedRow(new[j])
  BY <1>2, <1>3
<1>5. \A j \in 1 .. Len(Adopted(s)) : Adopted(s)[j] = AdoptedRow(s[Len(s) - Len(Adopted(s)) + j])
  BY <1>1, <1>4
<1> QED
  BY <1>1, <1>2, <1>3, <1>4, <1>5 DEF IsWindow

\* The invariants of a restart, together.
Restart == Described /\ ProperRows /\ Saved /\ LoadMirrors

LEMMA RestartHolds == Spec => [](TypeOK /\ Layout /\ SyncMirrors /\ Mirrored /\ Restart)
<1>1. Init => SyncMirrors /\ Mirrored /\ Restart
  <2> SUFFICES ASSUME Init PROVE SyncMirrors /\ Mirrored /\ Restart
    OBVIOUS
  <2>1. View = << >>
    BY RegistriesAssumption, EmptyRingIsEmpty, RowTypes DEF Init, View
  <2>2. Described /\ ProperRows /\ Saved /\ LoadMirrors
    BY <2>1 DEF Init, Described, ProperRows, Saved, LoadMirrors, Straight, ClosedPersist, Laid,
                AtRest
  <2> QED
    BY <2>2 DEF Init, SyncMirrors, Mirrored, Restart
<1>2. TypeOK /\ Opening /\ Layout /\ SyncMirrors /\ Mirrored /\ Restart /\ [Next]_vars
        => (SyncMirrors /\ Mirrored /\ Restart)'
  BY SyncStep, MirrorStep, DescribedStep, ProperStep, SavedStep, LoadStep DEF Restart
<1> QED
  BY <1>1, <1>2, RecordingTypeCorrect, PTL DEF Spec

(***************************************************************************)
(* A clean shutdown loses nothing, for any capacities, metric sets, flush  *)
(* period and earlier crashes: the next run restores exactly the rows that *)
(* were written, in order, under its own metric ids and cut to its own     *)
(* capacity (persist_close, persist_load).                                 *)
(***************************************************************************)
THEOREM CleanRestartsAreExact == Spec => []CleanRestartExact
<1>1. TypeOK /\ Restart => CleanRestartExact
  <2> SUFFICES ASSUME TypeOK, Restart, Loaded, last_stop = "clean"
               PROVE  View = Adopted(durable)
    BY DEF CleanRestartExact
  <2>1. pc = "load" /\ Loadable /\ Intact /\ header # << >> /\ k >= LoadCount
    BY DEF Loaded, Loadable, Intact
  <2>2. k = Len(durable)
    <3>1. LoadCount = header[1].count /\ header[1].count \in Nat /\ k \in Nat
      BY <2>1, LoadSlots, DiskTypes, RunTypes DEF Restart
    <3>2. k <= header[1].count /\ header[1].count = Len(durable)
      BY <2>1 DEF Restart, LoadMirrors, Saved, AtRest
    <3> QED
      BY <2>1, <3>1, <3>2
  <2>3. IsWindow(View, durable, Len(durable), reg.capacity)
    BY <2>1, <2>2 DEF Restart, LoadMirrors
  <2>4. /\ IsWindow(Adopted(durable), durable, Len(durable), reg.capacity)
        /\ Adopted(durable) = [j \in 1 .. Len(Adopted(durable)) |-> Adopted(durable)[j]]
    BY RunTypes, AdoptedIsWindow
  <2>5. View = [j \in 1 .. Len(View) |-> View[j]]
    BY RunTypes
  <2>6. /\ Len(View) = Len(Adopted(durable))
        /\ \A j \in 1 .. Len(View) : View[j] = Adopted(durable)[j]
    BY <2>3, <2>4 DEF IsWindow
  <2> QED
    BY <2>4, <2>5, <2>6
<1> QED
  BY <1>1, RestartHolds, PTL

\* A crash while recording into a file that is not full loses the newest rows
\* only: what the next run restores is the rows written, in order, up to some
\* row (persist_append, persist_load).
LEMMA UnfilledCrashesLoseNewest ==
  ASSUME TypeOK, Restart, Loaded, CrashedRecording, Len(durable) < header[1].capacity,
         reg.capacity >= header[1].capacity
  PROVE  \E n \in 0 .. Len(Adopted(durable)) : View = SubSeq(Adopted(durable), 1, n)
<1>1. pc = "load" /\ Loadable /\ Intact /\ header # << >>
  BY DEF Loaded, Loadable, Intact
<1>2. /\ reg.capacity \in Nat \ {0} /\ header[1].capacity \in Nat /\ header[1].count \in Nat
      /\ k \in Nat /\ durable \in Seq(Row) /\ Len(durable) \in Nat
  BY <1>1, RunTypes, DiskTypes
<1>3. k <= Len(durable) /\ k < reg.capacity /\ Len(durable) < reg.capacity
  <2>1. k <= header[1].count /\ header[1].count <= Len(durable)
    BY <1>1 DEF Restart, LoadMirrors, Saved, AtRest
  <2> QED
    BY <1>2, <2>1
<1>4. Len(View) = k /\ \A j \in 1 .. k : View[j] = AdoptedRow(durable[j])
  <2>1. IsWindow(View, durable, k, reg.capacity)
    BY <1>1 DEF Restart, LoadMirrors
  <2>2. Len(View) = k /\ \A j \in 1 .. k : View[j] = AdoptedRow(durable[k - k + j])
    BY <1>3, <2>1 DEF IsWindow
  <2>3. \A j \in 1 .. k : k - k + j = j
    BY <1>2
  <2> QED
    BY <2>2, <2>3
<1> DEFINE all == Adopted(durable)
<1>5. /\ Len(all) = Len(durable) /\ all = [j \in 1 .. Len(all) |-> all[j]]
      /\ \A j \in 1 .. Len(durable) : all[j] = AdoptedRow(durable[j])
  <2>1. /\ IsWindow(all, durable, Len(durable), reg.capacity)
        /\ all = [j \in 1 .. Len(all) |-> all[j]]
    BY <1>2, AdoptedIsWindow
  <2>2. /\ Len(all) = Len(durable)
        /\ \A j \in 1 .. Len(durable) : all[j] = AdoptedRow(durable[Len(durable) - Len(durable) + j])
    BY <1>3, <2>1 DEF IsWindow
  <2>3. \A j \in 1 .. Len(durable) : Len(durable) - Len(durable) + j = j
    BY <1>2
  <2> QED
    BY <2>1, <2>2, <2>3
<1> HIDE DEF all
<1>6. View = [j \in 1 .. k |-> View[j]]
  BY <1>4, RunTypes
<1>7. SubSeq(all, 1, k) = [j \in 1 .. k |-> all[j]]
  BY <1>2, <1>3, <1>5
<1>8. View = SubSeq(all, 1, k)
  BY <1>2, <1>3, <1>4, <1>5, <1>6, <1>7
<1>9. k \in 0 .. Len(all)
  BY <1>2, <1>3, <1>5
<1> QED
  BY <1>8, <1>9 DEF all

-----------------------------------------------------------------------------
LEMMA AttributedSlides ==
  ASSUME NEW cap \in Nat \ {0}, NEW s \in Seq(Row), NEW row \in Row, NEW t \in Nat, NEW u \in Nat,
         t <= u, AllAttributed(s, t), AttributedAt(row, u)
  PROVE  AllAttributed(Slide(s, cap, row), u)
<1>0. \A j \in 1 .. Len(s) : AttributedAt(s[j], u)
  <2> TAKE j \in 1 .. Len(s)
  <2>1. s[j] \in Row /\ AttributedAt(s[j], t)
    BY DEF AllAttributed
  <2>2. s[j].ts \in Nat
    BY <2>1 DEF Row
  <2> QED
    BY <2>1, <2>2 DEF AttributedAt
<1>1. CASE Len(s) < cap
  <2>1. Len(Append(s, row)) = Len(s) + 1 /\ \A j \in 1 .. Len(s) + 1 :
           Append(s, row)[j] = IF j <= Len(s) THEN s[j] ELSE row
    OBVIOUS
  <2> QED
    BY <1>0, <1>1, <2>1 DEF Slide, AllAttributed
<1>2. CASE Len(s) >= cap
  <2>1. Len(Append(Tail(s), row)) = Len(s) /\ \A j \in 1 .. Len(s) :
           Append(Tail(s), row)[j] = IF j < Len(s) THEN s[j + 1] ELSE row
    BY <1>2
  <2> QED
    BY <1>0, <1>2, <2>1 DEF Slide, AllAttributed
<1> QED
  BY <1>1, <1>2

\* persist_load matches the columns of such a record with the right metrics.
LEMMA RemapOwned ==
  ASSUME TypeOK, header # << >>, Distinct, NEW rec \in Record,
         OwnedBy(rec, now, header[1].n_metrics, table)
  PROVE  AttributedAt([ts |-> rec.ts, src |-> Remap(rec)], now)
<1> DEFINE n == header[1].n_metrics
<1>1. n \in Nat
  BY DiskTypes
<1>2. ASSUME NEW id \in Ids
      PROVE  Remap(rec)[id] \in {id, NAN}
  <2> DEFINE at == {m \in 1 .. n : table[m] = id}
  <2>1. Remap(rec)[id] = IF id \notin IdsOf(reg) \/ at = {} THEN NAN
                         ELSE IF Largest(at) \in DOMAIN rec.col THEN rec.col[Largest(at)]
                         ELSE JUNK
    BY DEF Remap
  <2>2. CASE at = {}
    BY <2>1, <2>2
  <2>3. CASE at # {}
    <3>1. PICK m \in 1 .. n : table[m] = id
      BY <2>3
    <3>2. at = {m}
      BY <3>1 DEF Distinct
    <3>3. Largest(at) = m
      BY <1>1, <3>2, LargestOfOne
    <3>4. m \in DOMAIN rec.col /\ rec.col[m] \in {id, NAN}
      BY <3>1 DEF OwnedBy
    <3> QED
      BY <2>1, <2>3, <3>3, <3>4
  <2> QED
    BY <2>2, <2>3
<1>3. rec.ts <= now
  BY DEF OwnedBy
<1> QED
  BY <1>2, <1>3 DEF AttributedAt

\* persist_load reads slots that the header says are in use.
LEMMA LoadsInReach ==
  ASSUME TypeOK, Described, header # << >>, k < LoadCount
  PROVE  LoadSlot \in 0 .. header[1].count - 1
<1>1. /\ k \in 0 .. HeaderRing.count - 1 /\ LoadSlot = FileSlot(k)
      /\ HeaderRing.head = header[1].head /\ HeaderRing.count = header[1].count
  BY LoadSlots, RunTypes, DiskTypes, SMTT(60) DEF HeaderRing
<1>2. /\ header[1].capacity \in Nat \ {0} /\ header[1].head \in 0 .. header[1].capacity - 1
      /\ header[1].count \in 0 .. header[1].capacity
      /\ header[1].count # header[1].capacity => header[1].head = header[1].count
  BY DiskTypes DEF Described, Straight
<1>3. LoadSlot = IF header[1].count = header[1].capacity
                 THEN (IF header[1].head + k < header[1].capacity
                       THEN header[1].head + k ELSE header[1].head + k - header[1].capacity)
                 ELSE k
  BY <1>1, <1>2, StraightSlots DEF FileSlot
<1> QED
  BY <1>1, <1>2, <1>3, SMTT(60)

LEMMA OwnRowsStep ==
  ASSUME TypeOK, Described, OwnRows, OwnFile, [Next]_vars
  PROVE  OwnRows'
<1>r. reg.capacity \in Nat \ {0} /\ View \in Seq(Row) /\ now \in Nat
  BY RunTypes
<1>1. CASE (\E r \in Registries : Start_up(r)) \/ persist_close \/ StopInMemory \/ Crash
  <2>1. PICK r \in Registries : mem' = EmptyRing(r.capacity, ZeroRow) /\ reg' = r
    BY <1>1 DEF Start_up, persist_close, StopInMemory, Crash, TypeOK
  <2>2. View' = << >>
    BY <2>1, RegistriesAssumption, EmptyRingIsEmpty, RowTypes DEF View
  <2> QED
    BY <2>2 DEF OwnRows, AllAttributed
<1>2. CASE SampleInMemory \/ SampleWriteFails \/ Sample
  <2>1. mem' = Put(mem, reg.capacity, NewRow) /\ reg' = reg /\ now' = now + 1
        /\ torn' = torn
    BY <1>2 DEF SampleInMemory, SampleWriteFails, Sample
  <2>2. View' = Slide(View, reg.capacity, NewRow) /\ NewRow \in Row
    BY <2>1, MemSlides, NewRowType
  <2>3. AttributedAt(NewRow, now + 1)
    BY <1>r DEF AttributedAt, NewRow
  <2>4. ~torn => AllAttributed(View', now + 1)
    BY <1>r, <2>2, <2>3, AttributedSlides DEF OwnRows
  <2> QED
    BY <2>1, <2>4 DEF OwnRows
<1>3. CASE persist_load
  <2> DEFINE rec == records[LoadSlot]
             row == [ts |-> rec.ts, src |-> Remap(rec)]
  <2>1. /\ pc = "load" /\ Loadable /\ k < LoadCount /\ LoadSlot \in DOMAIN records
        /\ UNCHANGED <<now, torn>> /\ row \in Row /\ rec \in Record /\ rec.ts \in Nat
        /\ rec.ts <= 0 => View' = View
        /\ rec.ts > 0 => View' = Slide(View, reg.capacity, row)
    BY <1>3, LoadedRow DEF Record
  <2> SUFFICES ASSUME ~torn PROVE AllAttributed(View', now)
    BY <2>1 DEF OwnRows
  <2>2. LoadSlot \in 0 .. header[1].count - 1 /\ header # << >>
    BY <2>1, LoadsInReach DEF Loadable
  <2>3. Reach = header[1].count
    BY <2>1 DEF Reach, Laid
  <2>4. Distinct /\ OwnedBy(rec, now, header[1].n_metrics, table)
    BY <2>1, <2>2, <2>3 DEF OwnFile
  <2>5. AttributedAt(row, now)
    BY <2>1, <2>2, <2>4, RemapOwned
  <2> HIDE DEF row
  <2> QED
    BY <1>r, <2>1, <2>5, AttributedSlides DEF OwnRows
<1>4. CASE persist_open \/ LoadDone \/ SyncTable \/ SyncHeader \/ SyncSize \/ SyncRow \/ SyncDone
           \/ SyncRowFails \/ close_persistence \/ Flush("flush_sync", "sync") \/ Flush("flush_open", "open") \/ UNCHANGED vars
  <2>1. UNCHANGED <<reg, mem, now, torn>>
    BY <1>4 DEF persist_open, LoadDone, SyncTable, SyncHeader, SyncSize, SyncRow, SyncDone,
                SyncRowFails, close_persistence, Flush, vars
  <2>2. View' = View
    BY <2>1 DEF View
  <2> QED
    BY <2>1, <2>2 DEF OwnRows
<1> QED
  BY <1>1, <1>2, <1>3, <1>4 DEF Next

\* The record write of persist_append.
LEMMA WriteOwns ==
  ASSUME TypeOK, Layout, Described, OwnFile, pc \in {"sync", "open"}, NEW row \in Row,
         NEW back \in {"sync", "open"}, WriteRecord(row, back),
         UNCHANGED <<reg, header, table, torn>>, now' \in Nat, now <= now',
         ~torn => AttributedAt(row, now')
  PROVE  OwnFile'
<1> SUFFICES ASSUME ~torn
             PROVE  /\ Distinct'
                    /\ \A s \in 0 .. Reach' - 1 : s \in DOMAIN records' =>
                          OwnedBy(records'[s], now', header[1].n_metrics, table)
  BY DEF OwnFile
<1>r. /\ reg.capacity \in Nat \ {0} /\ persist.count \in 0 .. reg.capacity /\ now \in Nat
      /\ persist.head \in 0 .. reg.capacity - 1 /\ reg.ids \in Seq(Ids) /\ Len(reg.ids) \in Nat
  BY RunTypes
<1>1. /\ header # << >> /\ header[1].n_metrics = Len(reg.ids)
      /\ DOMAIN records = 0 .. reg.capacity - 1
      /\ \A m \in 1 .. Len(reg.ids) : table[m] = reg.ids[m]
      /\ persist.count < reg.capacity => persist.head = persist.count
  BY DEF Layout, Described, Laid, Straight
<1>2. /\ records' = [records EXCEPT ![persist.head] = RecordOf(row)]
      /\ persist'.count = IF persist.count < reg.capacity THEN persist.count + 1 ELSE persist.count
      /\ pc \in Laid /\ pc' \in Laid
  BY DEF WriteRecord, Advanced, Laid
<1>3. Reach = persist.count /\ Reach' = persist'.count
  BY <1>2 DEF Reach
<1>4. Distinct /\ \A s \in 0 .. persist.count - 1 : s \in DOMAIN records =>
          OwnedBy(records[s], now, header[1].n_metrics, table)
  BY <1>1, <1>3 DEF OwnFile
<1>5. OwnedBy(RecordOf(row), now', header[1].n_metrics, table)
  <2>1. RecordOf(row).ts = row.ts
        /\ RecordOf(row).col = [m \in 1 .. Len(reg.ids) |-> row.src[reg.ids[m]]]
    BY DEF RecordOf
  <2>2. \A m \in 1 .. Len(reg.ids) : reg.ids[m] \in Ids
    BY <1>r
  <2>3. row.ts <= now' /\ \A m \in 1 .. Len(reg.ids) : row.src[reg.ids[m]] \in {table[m], NAN}
    BY <1>1, <2>2 DEF AttributedAt
  <2> QED
    BY <1>1, <2>1, <2>3 DEF OwnedBy
<1>6. ASSUME NEW s \in 0 .. Reach' - 1, s \in DOMAIN records'
      PROVE  OwnedBy(records'[s], now', header[1].n_metrics, table)
  <2>1. CASE s = persist.head
    BY <1>1, <1>2, <1>5, <1>r, <2>1
  <2>2. CASE s # persist.head
    <3>1. records'[s] = records[s] /\ s \in DOMAIN records
      BY <1>2, <1>6, <2>2
    <3>2. s \in 0 .. persist.count - 1
      BY <1>r, <1>1, <1>2, <1>3, <1>6, <2>2, <3>1
    <3>3. OwnedBy(records[s], now, header[1].n_metrics, table) /\ records[s].ts \in Nat
      BY <1>4, <3>1, <3>2 DEF TypeOK, Record
    <3> QED
      BY <1>r, <3>1, <3>3 DEF OwnedBy
  <2> QED
    BY <2>1, <2>2
<1> QED
  BY <1>4, <1>6 DEF Distinct

LEMMA OwnFileStep ==
  ASSUME TypeOK, Opening, Layout, Described, OwnRows, OwnFile, [Next]_vars
  PROVE  OwnFile'
<1>r. /\ now \in Nat /\ View \in Seq(Row) /\ Len(View) = mem.count /\ mem.count \in Nat
      /\ k \in Nat /\ persist.appends_since_header \in Nat
  BY RunTypes, FlushAssumption
<1>s. ASSUME UNCHANGED <<header, table, records, torn>>, now' \in Nat, now <= now',
             pc # "sync_header", Reach' = Reach
      PROVE  OwnFile'
  <2> SUFFICES ASSUME ~torn, header # << >>, NEW s \in 0 .. Reach - 1, s \in DOMAIN records
               PROVE  Distinct' /\ OwnedBy(records[s], now', header[1].n_metrics, table)
    BY <1>s DEF OwnFile, Distinct
  <2>1. Distinct /\ OwnedBy(records[s], now, header[1].n_metrics, table)
    BY <1>s DEF OwnFile
  <2>2. records[s].ts \in Nat
    BY DEF TypeOK, Record
  <2> QED
    BY <1>r, <1>s, <2>1, <2>2 DEF OwnedBy, Distinct
<1>1. CASE (\E r \in Registries : Start_up(r)) \/ persist_load \/ LoadDone
           \/ StopInMemory \/ persist_open \/ SampleInMemory
  <2>1. /\ UNCHANGED <<header, table, records, torn>> /\ now' \in Nat /\ now <= now'
        /\ pc \in AtRest /\ pc' \in AtRest
    BY <1>r, <1>1 DEF Start_up, persist_open, persist_load, LoadDone, StopInMemory,
                SampleInMemory, AtRest
  <2>2. Reach' = Reach /\ pc # "sync_header"
    BY <2>1 DEF Reach, AtRest, Laid
  <2> QED
    BY <1>s, <2>1, <2>2
<1>2. CASE SyncRowFails \/ SyncDone \/ SampleWriteFails
  <2>1. /\ UNCHANGED <<header, table, records, torn, persist>> /\ now' \in Nat /\ now <= now'
        /\ pc \in Laid /\ pc' \in Laid
    BY <1>r, <1>2 DEF SyncRowFails, SyncDone, SampleWriteFails, Laid
  <2>2. Reach' = Reach /\ pc # "sync_header"
    BY <2>1 DEF Reach, Laid
  <2> QED
    BY <1>s, <2>1, <2>2
<1>3. CASE SyncTable
  BY <1>3 DEF SyncTable, OwnFile
<1>4. CASE SyncHeader
  <2>1. /\ header' = HeaderOf(ClosedPersist) /\ UNCHANGED <<table, reg>>
        /\ pc = "sync_header" /\ pc' = "sync_size"
    BY <1>4 DEF SyncHeader, Opening
  <2>2. header'[1].count = 0 /\ header'[1].n_metrics = Len(reg.ids)
    BY <2>1 DEF HeaderOf, ClosedPersist
  <2>3. Reach' = 0
    BY <2>1, <2>2 DEF Reach, Laid
  <2>4. Distinct'
    <3>1. \A m \in 1 .. Len(reg.ids) : table[m] = reg.ids[m]
      BY <2>1 DEF Described
    <3> QED
      BY <2>1, <2>2, <3>1, RunTypes DEF Distinct
  <2> QED
    BY <2>3, <2>4 DEF OwnFile
<1>5. CASE SyncSize
  <2>1. /\ persist' = ClosedPersist /\ UNCHANGED <<header, table, torn>>
        /\ pc = "sync_size" /\ pc' = "sync"
    BY <1>5 DEF SyncSize, Opening
  <2>2. Reach' = 0
    BY <2>1 DEF Reach, Laid, ClosedPersist
  <2> QED
    BY <2>1, <2>2 DEF OwnFile, Distinct
<1>6. CASE SyncRow
  <2>1. /\ WriteRecord(View[k + 1], "sync") /\ pc = "sync" /\ k < mem.count
        /\ UNCHANGED <<reg, header, table, torn, now>>
    BY <1>6 DEF SyncRow
  <2>2. View[k + 1] \in Row /\ k + 1 \in 1 .. Len(View)
    BY <1>r, <2>1
  <2>3. ~torn => AttributedAt(View[k + 1], now)
    BY <2>2 DEF OwnRows, AllAttributed
  <2> QED
    BY <1>r, <2>1, <2>2, <2>3, WriteOwns
<1>7. CASE Sample
  <2>1. /\ WriteRecord(NewRow, "open") /\ pc = "open" /\ now' = now + 1
        /\ UNCHANGED <<reg, header, table, torn>>
    BY <1>7 DEF Sample
  <2>2. AttributedAt(NewRow, now') /\ NewRow \in Row
    BY <1>r, <2>1, NewRowType DEF AttributedAt, NewRow
  <2> QED
    BY <1>r, <2>1, <2>2, WriteOwns
<1>8. CASE \/ Flush("flush_sync", "sync") \/ Flush("flush_open", "open")
           \/ persist_close \/ close_persistence
  <2>1. /\ header' = HeaderOf(persist) /\ UNCHANGED <<table, records, torn, now>>
        /\ pc \in Laid
        /\ pc' \in {"down", "memory"} \/ (pc' \in Laid /\ persist' = Flushed)
    BY <1>8 DEF Flush, persist_close, close_persistence, Laid
  <2>2. header'[1].count = persist.count /\ header'[1].n_metrics = Len(reg.ids)
    BY <2>1 DEF HeaderOf
  <2>3. header # << >> /\ header[1].n_metrics = Len(reg.ids) /\ pc # "sync_header"
    BY <2>1 DEF Layout, Described, Laid
  <2>4. Reach = persist.count /\ Reach' = persist.count
    BY <2>1, <2>2 DEF Reach, Laid, Flushed
  <2> QED
    BY <2>1, <2>2, <2>3, <2>4 DEF OwnFile, Distinct
<1>9. CASE Crash
  <2>1. /\ UNCHANGED <<header, table, records, now>> /\ pc' = "down"
        /\ torn' = (torn \/ pc = "sync_header")
    BY <1>9 DEF Crash
  <2> SUFFICES ASSUME ~torn', header # << >> PROVE OwnFile'
    BY <2>1 DEF OwnFile
  <2>2. ~torn /\ pc # "sync_header"
    BY <2>1
  <2>3. Reach' = header[1].count /\ Reach' <= Reach /\ Reach \in Int /\ Reach' \in Int
    <3>1. header[1].count \in Nat /\ header[1].capacity \in Nat
      BY DiskTypes
    <3>2. CASE pc \in Laid
      <4>1. /\ header[1].count <= reg.capacity /\ reg.capacity \in Nat /\ persist.count \in Nat
            /\ persist.count = IF header[1].count + persist.appends_since_header < reg.capacity
                            THEN header[1].count + persist.appends_since_header
                            ELSE reg.capacity
        BY <3>2, RunTypes DEF Layout, Described
      <4>2. header[1].count <= persist.count
        BY <1>r, <3>1, <4>1
      <4> QED
        BY <2>1, <3>1, <3>2, <4>1, <4>2 DEF Reach, Laid
    <3>3. CASE pc \notin Laid
      BY <2>1, <3>1, <3>3 DEF Reach, Laid
    <3> QED
      BY <3>2, <3>3
  <2>4. \A s \in 0 .. Reach' - 1 : s \in 0 .. Reach - 1
    BY <2>3
  <2> QED
    BY <2>1, <2>2, <2>4 DEF OwnFile, Distinct
<1>10. CASE UNCHANGED vars
  BY <1>10 DEF vars, OwnFile, Distinct, Reach
<1> QED
  BY <1>1, <1>2, <1>3, <1>4, <1>5, <1>6, <1>7, <1>8, <1>9, <1>10 DEF Next

(***************************************************************************)
(* A restored reading belongs to its metric, whatever metric sets, orders  *)
(* and capacities the runs had and wherever they were killed, as long as   *)
(* none was killed between the id table and the header (initialise_file,   *)
(* persist_append, persist_load).                                          *)
(***************************************************************************)
THEOREM ReadingsAreAttributed == Spec => []AttributedUnlessTorn
<1>1. Init => OwnRows /\ OwnFile
  <2> SUFFICES ASSUME Init PROVE OwnRows /\ OwnFile
    OBVIOUS
  <2>1. View = << >>
    BY RegistriesAssumption, EmptyRingIsEmpty, RowTypes DEF Init, View
  <2> QED
    BY <2>1 DEF Init, OwnRows, OwnFile, AllAttributed
<1>2. Spec => [](TypeOK /\ Opening /\ Layout)
  BY RecordingTypeCorrect
<1>3. TypeOK /\ Opening /\ Layout /\ Described /\ OwnRows /\ OwnFile /\ [Next]_vars
        => (OwnRows /\ OwnFile)'
  BY OwnRowsStep, OwnFileStep
<1>4. OwnRows => AttributedUnlessTorn
  BY DEF OwnRows, AttributedUnlessTorn, AllAttributed, AttributedAt, Attributed
<1>5. Restart => Described
  BY DEF Restart
<1> QED
  BY <1>1, <1>2, <1>3, <1>4, <1>5, RestartHolds, PTL DEF Spec

-----------------------------------------------------------------------------
\* The slots in use of a straight ring are its first ones, wrapped or not.
LEMMA SlotsCover ==
  ASSUME NEW cap \in Nat \ {0}, NEW r, r.head \in 0 .. cap - 1, r.count \in 0 .. cap,
         Straight(r.head, r.count, cap)
  PROVE  /\ \A i \in 0 .. r.count - 1 : SlotOf(r, cap, i) \in 0 .. r.count - 1
         /\ \A s \in 0 .. r.count - 1 : \E i \in 0 .. r.count - 1 : SlotOf(r, cap, i) = s
<1>1. CASE r.count = cap
  <2>1. \A i \in 0 .. cap - 1 :
           SlotOf(r, cap, i) = IF r.head + i < cap THEN r.head + i ELSE r.head + i - cap
    BY <1>1, StraightSlots
  <2>2. \A i \in 0 .. cap - 1 : SlotOf(r, cap, i) \in 0 .. cap - 1
    BY <2>1
  <2>3. ASSUME NEW s \in 0 .. cap - 1 PROVE \E i \in 0 .. cap - 1 : SlotOf(r, cap, i) = s
    <3>1. CASE s >= r.head
      <4>1. s - r.head \in 0 .. cap - 1 /\ r.head + (s - r.head) = s
        BY <3>1
      <4>2. SlotOf(r, cap, s - r.head) = s
        BY <2>1, <4>1
      <4> QED
        BY <4>1, <4>2
    <3>2. CASE s < r.head
      <4>1. s - r.head + cap \in 0 .. cap - 1 /\ r.head + (s - r.head + cap) = s + cap
        BY <3>2
      <4>2. SlotOf(r, cap, s - r.head + cap) = s
        BY <2>1, <4>1
      <4> QED
        BY <4>1, <4>2
    <3> QED
      BY <3>1, <3>2
  <2> QED
    BY <1>1, <2>2, <2>3
<1>2. CASE r.count < cap
  <2>1. \A i \in 0 .. r.count - 1 : SlotOf(r, cap, i) = i
    BY <1>2, StraightSlots DEF Straight
  <2> QED
    BY <2>1
<1> QED
  BY <1>1, <1>2

LEMMA LaggingStep ==
  ASSUME TypeOK, Layout, Described, ProperRows, Mirrored, Lagging, [Next]_vars
  PROVE  Lagging'
<1>1. CASE Idles
  BY <1>1 DEF Idles, Lagging, CrashedRecording
<1>2. CASE pc' \notin AtRest
  BY <1>2 DEF Lagging
<1>3. CASE persist_close \/ close_persistence
  BY <1>3 DEF persist_close, close_persistence, Lagging, CrashedRecording
<1>4. CASE Crash /\ pc \notin AtRest /\ last_stop' = pc
  <2> SUFFICES ASSUME pc \in {"open", "flush_open"} PROVE Lagging'
    BY <1>4 DEF Lagging, CrashedRecording
  <2>1. UNCHANGED <<header, table, records, durable>>
    BY <1>4 DEF Crash
  <2>2. /\ reg.capacity \in Nat \ {0} /\ persist.head \in 0 .. reg.capacity - 1
        /\ persist.count \in 0 .. reg.capacity
        /\ persist.appends_since_header \in 0 .. HEADER_FLUSH_EVERY /\ HEADER_FLUSH_EVERY \in Nat
    BY RunTypes, FlushAssumption
  <2>3. /\ header # << >> /\ header[1].capacity = reg.capacity /\ header[1].count <= reg.capacity
        /\ persist.count = IF header[1].count + persist.appends_since_header < reg.capacity
                           THEN header[1].count + persist.appends_since_header
                           ELSE reg.capacity
    BY DEF Layout, Described, Laid
  <2>4. header[1].count \in Nat
    BY <2>3, DiskTypes
  <2>5. /\ Len(durable) = persist.count
        /\ \A j \in 1 .. Len(durable) :
              /\ records[SlotOf(FileRing, reg.capacity, j - 1)].ts = durable[j].ts
              /\ durable[j].ts > 0
    <3>1. Len(durable) = persist.count /\ \A j \in 1 .. Len(durable) : durable[j].ts > 0
      BY WrittenRows
    <3>2. ASSUME NEW j \in 1 .. Len(durable)
          PROVE  records[SlotOf(FileRing, reg.capacity, j - 1)].ts = durable[j].ts
      <4> DEFINE cells == [m \in 1 .. Len(reg.ids) |-> durable[j].src[table[m]]]
      <4>1. records[SlotOf(FileRing, reg.capacity, j - 1)] = [ts |-> durable[j].ts, col |-> cells]
        BY WrittenRows
      <4> HIDE DEF cells
      <4> QED
        BY <4>1
    <3> QED
      BY <3>1, <3>2
  <2>6. /\ header[1].count <= Len(durable) /\ Len(durable) <= header[1].count + HEADER_FLUSH_EVERY
        /\ Len(durable) <= header[1].capacity
    BY <2>2, <2>3, <2>4, <2>5
  <2> DEFINE n == Len(durable)
             slot(i) == SlotOf(FileRing, reg.capacity, i)
  <2>7. /\ n \in Nat
        /\ \A i \in 0 .. n - 1 : slot(i) \in 0 .. n - 1
        /\ \A s \in 0 .. n - 1 : \E i \in 0 .. n - 1 : slot(i) = s
    <3>1. FileRing.head = persist.head /\ FileRing.count = persist.count
      BY DEF FileRing
    <3>2. Straight(persist.head, persist.count, reg.capacity)
      BY DEF Described
    <3>3. /\ \A i \in 0 .. FileRing.count - 1 : slot(i) \in 0 .. FileRing.count - 1
          /\ \A s \in 0 .. FileRing.count - 1 : \E i \in 0 .. FileRing.count - 1 : slot(i) = s
      BY <2>2, <3>1, <3>2, SlotsCover
    <3> QED
      BY <2>2, <2>5, <3>1, <3>3
  <2>8. \A j \in 1 .. n : records[slot(j - 1)].ts = durable[j].ts
    BY <2>5
  <2> HIDE DEF n, slot
  <2>9. ASSUME NEW j \in 1 .. n PROVE \E s \in 0 .. n - 1 : records[s].ts = durable[j].ts
    <3>1. j - 1 \in 0 .. n - 1
      BY <2>7
    <3>2. slot(j - 1) \in 0 .. n - 1
      BY <2>7, <3>1
    <3> QED
      BY <2>8, <3>2
  <2>10. ASSUME NEW s \in 0 .. n - 1 PROVE \E j \in 1 .. n : records[s].ts = durable[j].ts
    <3>1. PICK i \in 0 .. n - 1 : slot(i) = s
      BY <2>7
    <3>2. i + 1 \in 1 .. n /\ (i + 1) - 1 = i
      BY <2>7
    <3>3. records[slot((i + 1) - 1)].ts = durable[i + 1].ts
      BY <2>8, <3>2
    <3> QED
      BY <3>1, <3>2, <3>3
  <2> QED
    BY <2>1, <2>3, <2>5, <2>6, <2>9, <2>10 DEF Lagging, n
<1> QED
  BY <1>1, <1>2, <1>3, <1>4, RestCases

LEMMA LoadTimesStep ==
  ASSUME TypeOK, Described, Lagging, LoadTimes, [Next]_vars
  PROVE  LoadTimes'
<1>r. /\ reg.capacity \in Nat \ {0} /\ k \in Nat /\ View \in Seq(Row) /\ Len(View) = mem.count
  BY RunTypes
<1>1. CASE persist_open
  <2>1. /\ UNCHANGED <<reg, mem, header, last_stop, records>> /\ k' = 0
        /\ pc' = "load" => mem.count = 0
    BY <1>1 DEF persist_open
  <2>2. View' = View
    BY <2>1 DEF View
  <2>3. Loadable' => header # << >>
    BY <2>1 DEF Loadable
  <2>4. header # << >> => header[1].count \in Nat
    BY DiskTypes
  <2> QED
    BY <1>r, <2>1, <2>2, <2>3, <2>4 DEF LoadTimes
<1>2. CASE persist_load
  <2> DEFINE rec == records[LoadSlot]
             row == [ts |-> rec.ts, src |-> Remap(rec)]
  <2>1. /\ pc = "load" /\ Loadable /\ k < LoadCount /\ k' = k + 1
        /\ UNCHANGED <<pc, reg, header, table, records, durable, last_stop>>
        /\ row \in Row
        /\ rec.ts > 0 => View' = Slide(View, reg.capacity, row)
    BY <1>2, LoadedRow
  <2> SUFFICES ASSUME CrashedRecording, reg.capacity >= header[1].capacity PROVE LoadTimes'
    BY <2>1 DEF LoadTimes, CrashedRecording
  <2>2. header # << >>
    BY <2>1 DEF Loadable
  <2>3. /\ header[1].count \in Nat /\ k < header[1].count /\ LoadSlot = FileSlot(k)
        /\ LoadSlot \in 0 .. header[1].count - 1 /\ header[1].capacity \in Nat
        /\ header[1].count <= header[1].capacity
    BY <2>1, <2>2, LoadSlots, DiskTypes, LoadsInReach DEF Described
  <2>4. rec.ts > 0
    <3>1. /\ header[1].count <= Len(durable) /\ Len(durable) \in Nat
          /\ \A s \in 0 .. Len(durable) - 1 :
                \E j \in 1 .. Len(durable) : records[s].ts = durable[j].ts
          /\ \A j \in 1 .. Len(durable) : durable[j].ts > 0
      BY <2>1, RunTypes DEF Lagging, AtRest
    <3>2. LoadSlot \in 0 .. Len(durable) - 1
      BY <2>3, <3>1
    <3> QED
      BY <3>1, <3>2
  <2>5. Len(View) = k /\ \A j \in 1 .. k : View[j].ts = records[FileSlot(j - 1)].ts
    BY <2>1 DEF LoadTimes
  <2>6. row.ts = rec.ts
    OBVIOUS
  <2> HIDE DEF row
  <2>7. View' = Append(View, row)
    BY <1>r, <2>1, <2>3, <2>4, <2>5 DEF Slide
  <2>8. Len(View') = k + 1 /\ \A j \in 1 .. k + 1 : View'[j] = IF j <= k THEN View[j] ELSE row
    BY <1>r, <2>1, <2>5, <2>7
  <2>9. \A j \in 1 .. k + 1 : View'[j].ts = records[FileSlot(j - 1)].ts
    <3> TAKE j \in 1 .. k + 1
    <3>1. CASE j <= k
      BY <1>r, <2>5, <2>8, <3>1
    <3>2. CASE j = k + 1
      <4>1. j - 1 = k
        BY <1>r, <3>2
      <4>2. View'[j] = row
        BY <1>r, <2>8, <3>2
      <4> QED
        BY <2>3, <2>6, <4>1, <4>2
    <3> QED
      BY <1>r, <3>1, <3>2
  <2>10. \A i : FileSlot(i)' = FileSlot(i)
    BY <2>1 DEF FileSlot, HeaderRing
  <2>11. k + 1 <= header[1].count
    BY <1>r, <2>3
  <2> QED
    BY <2>1, <2>8, <2>9, <2>10, <2>11 DEF LoadTimes, FileSlot, HeaderRing
<1>3. CASE UNCHANGED vars
  BY <1>3 DEF vars, LoadTimes, Loadable, CrashedRecording, View, FileSlot, HeaderRing
<1>4. CASE (\E r \in Registries : Start_up(r)) \/ SampleInMemory \/ LoadDone \/ SyncTable
           \/ SyncHeader \/ SyncSize \/ SyncRow \/ Flush("flush_sync", "sync")
           \/ Flush("flush_open", "open") \/ SyncRowFails \/ SyncDone \/ Sample
           \/ SampleWriteFails \/ persist_close \/ close_persistence \/ StopInMemory \/ Crash
  <2>1. pc' # "load"
    BY <1>4 DEF Start_up, SampleInMemory, LoadDone, SyncTable, SyncHeader, SyncSize, SyncRow,
                SyncRowFails, WriteRecord, Flush, SyncDone, Sample, SampleWriteFails, persist_close,
                close_persistence, StopInMemory, Crash
  <2> QED
    BY <2>1 DEF LoadTimes
<1> QED
  BY <1>1, <1>2, <1>3, <1>4 DEF Next

LEMMA LaggingHolds == Spec => [](Lagging /\ LoadTimes)
<1>1. Init => Lagging /\ LoadTimes
  BY DEF Init, Lagging, LoadTimes, CrashedRecording
<1>2. TypeOK /\ Layout /\ Mirrored /\ Restart /\ Lagging /\ LoadTimes /\ [Next]_vars
        => (Lagging /\ LoadTimes)'
  BY LaggingStep, LoadTimesStep DEF Restart
<1> QED
  BY <1>1, <1>2, RestartHolds, PTL DEF Spec

\* The records from slot lo up to hi have at most hi - lo times.
LEMMA FewTimes ==
  ASSUME NEW lo \in Nat, NEW hi \in Nat, lo <= hi, NEW T,
         T \subseteq {records[s].ts : s \in lo .. hi - 1}
  PROVE  Cardinality(T) <= hi - lo
<1> DEFINE S == lo .. hi - 1
           image == {records[s].ts : s \in S}
           f == [s \in S |-> records[s].ts]
<1>1. IsFiniteSet(S) /\ Cardinality(S) = hi - lo
  <2>1. /\ IsFiniteSet(lo .. (hi - 1))
        /\ Cardinality(lo .. (hi - 1)) = IF lo > hi - 1 THEN 0 ELSE (hi - 1) - lo + 1
    BY FS_Interval
  <2> QED
    BY <2>1
<1>2. f \in Surjection(S, image)
  BY DEF Surjection
<1> HIDE DEF S, image, f
<1>3. IsFiniteSet(image) /\ Cardinality(image) <= Cardinality(S)
  BY <1>1, <1>2, FS_Surjection
<1>4. T \in SUBSET image
  BY DEF image, S
<1>5. IsFiniteSet(T) /\ Cardinality(T) <= Cardinality(image)
  BY <1>3, <1>4, FS_Subset
<1>6. Cardinality(T) \in Nat /\ Cardinality(image) \in Nat
  BY <1>3, <1>5, FS_CardinalityType
<1> QED
  BY <1>1, <1>3, <1>5, <1>6

(***************************************************************************)
(* A crash while recording loses at most HEADER_FLUSH_EVERY rows, and the  *)
(* next run restores nothing the file did not hold, whether or not the     *)
(* file had wrapped since the header was written, for any capacities,      *)
(* metric sets and flush period (persist_append, persist_load).            *)
(***************************************************************************)
THEOREM CrashLossIsBounded == Spec => []CrashLossBounded
<1>1. TypeOK /\ Restart /\ Lagging /\ LoadTimes => CrashLossBounded
  <2> SUFFICES ASSUME TypeOK, Restart, Lagging, LoadTimes, Loaded, CrashedRecording,
                      reg.capacity >= header[1].capacity
               PROVE  /\ Cardinality(Lost) <= HEADER_FLUSH_EVERY
                      /\ Times(View) \subseteq Times(Adopted(durable))
    BY UnfilledCrashesLoseNewest DEF CrashLossBounded
  <2>d. Described
    BY DEF Restart
  <2>1. pc = "load" /\ Loadable /\ header # << >> /\ k >= LoadCount
    BY DEF Loaded, Loadable
  <2> DEFINE c == header[1].count
             n == Len(durable)
  <2>2. /\ c \in Nat /\ n \in Nat /\ k \in Nat /\ header[1].capacity \in Nat \ {0}
        /\ reg.capacity \in Nat /\ durable \in Seq(Row) /\ HEADER_FLUSH_EVERY \in Nat
    BY <2>1, RunTypes, DiskTypes, FlushAssumption
  <2>3. /\ c <= n /\ n <= c + HEADER_FLUSH_EVERY /\ n <= header[1].capacity
        /\ \A j \in 1 .. n : \E s \in 0 .. n - 1 : records[s].ts = durable[j].ts
        /\ \A s \in 0 .. n - 1 : \E j \in 1 .. n : records[s].ts = durable[j].ts
    BY <2>1 DEF Lagging, AtRest
  <2>4. k = c /\ Len(View) = c /\ \A j \in 1 .. c : View[j].ts = records[FileSlot(j - 1)].ts
    <3>1. k <= c /\ Len(View) = k /\ \A j \in 1 .. k : View[j].ts = records[FileSlot(j - 1)].ts
      BY <2>1 DEF LoadTimes
    <3>2. LoadCount = c
      BY <2>1, <2>d, LoadSlots
    <3>3. k = c
      BY <2>1, <2>2, <3>1, <3>2
    <3> QED
      BY <3>1, <3>3
  <2>5. /\ \A i \in 0 .. c - 1 : FileSlot(i) \in 0 .. c - 1
        /\ \A s \in 0 .. c - 1 : \E i \in 0 .. c - 1 : FileSlot(i) = s
    <3>1. HeaderRing.head = header[1].head /\ HeaderRing.count = c
      BY DEF HeaderRing
    <3>2. /\ header[1].head \in 0 .. header[1].capacity - 1 /\ c \in 0 .. header[1].capacity
          /\ Straight(header[1].head, c, header[1].capacity)
      BY <2>1, <2>2, <2>d, DiskTypes DEF Described
    <3>3. /\ \A i \in 0 .. HeaderRing.count - 1 :
                 SlotOf(HeaderRing, header[1].capacity, i) \in 0 .. HeaderRing.count - 1
          /\ \A s \in 0 .. HeaderRing.count - 1 :
                 \E i \in 0 .. HeaderRing.count - 1 : SlotOf(HeaderRing, header[1].capacity, i) = s
      <4>1. /\ header[1].capacity \in Nat \ {0}
            /\ HeaderRing.head \in 0 .. header[1].capacity - 1
            /\ HeaderRing.count \in 0 .. header[1].capacity
            /\ Straight(HeaderRing.head, HeaderRing.count, header[1].capacity)
        BY <2>2, <3>1, <3>2
      <4> QED
        BY <4>1, SlotsCover
    <3> QED
      BY <3>1, <3>3 DEF FileSlot
  <2>6. Times(Adopted(durable)) = {durable[j].ts : j \in 1 .. n}
    <3>1. IsWindow(Adopted(durable), durable, n, reg.capacity)
      BY <2>2, AdoptedIsWindow
    <3>2. Len(Adopted(durable)) = n
      BY <2>2, <2>3, <3>1 DEF IsWindow
    <3>3. \A j \in 1 .. n : n - n + j = j
      BY <2>2
    <3>4. \A j \in 1 .. n : Adopted(durable)[j] = AdoptedRow(durable[j])
      BY <3>1, <3>2, <3>3 DEF IsWindow
    <3>5. \A row : AdoptedRow(row).ts = row.ts
      BY DEF AdoptedRow
    <3>6. \A j \in 1 .. n : Adopted(durable)[j].ts = durable[j].ts
      BY <3>4, <3>5
    <3> QED
      BY <3>2, <3>6 DEF Times, History!Times
  <2> HIDE DEF c, n
  <2>7. Times(View) = {records[s].ts : s \in 0 .. c - 1}
    <3>1. Times(View) = {View[j].ts : j \in 1 .. c}
      BY <2>4 DEF Times, History!Times
    <3>2. ASSUME NEW j \in 1 .. c PROVE View[j].ts \in {records[s].ts : s \in 0 .. c - 1}
      <4>1. j - 1 \in 0 .. c - 1
        BY <2>2
      <4>2. FileSlot(j - 1) \in 0 .. c - 1
        BY <2>5, <4>1
      <4> QED
        BY <2>4, <4>2
    <3>3. ASSUME NEW s \in 0 .. c - 1 PROVE records[s].ts \in {View[j].ts : j \in 1 .. c}
      <4>1. PICK i \in 0 .. c - 1 : FileSlot(i) = s
        BY <2>5
      <4>2. i + 1 \in 1 .. c /\ (i + 1) - 1 = i
        BY <2>2
      <4>3. View[i + 1].ts = records[FileSlot((i + 1) - 1)].ts
        BY <2>4, <4>2
      <4> QED
        BY <4>1, <4>2, <4>3
    <3> QED
      BY <3>1, <3>2, <3>3
  <2>8. Times(View) \subseteq Times(Adopted(durable))
    <3> SUFFICES ASSUME NEW s \in 0 .. c - 1 PROVE records[s].ts \in {durable[j].ts : j \in 1 .. n}
      BY <2>6, <2>7
    <3>1. s \in 0 .. n - 1
      BY <2>2, <2>3
    <3> QED
      BY <2>3, <3>1
  <2>9. Lost \subseteq {records[s].ts : s \in c .. n - 1}
    <3> SUFFICES ASSUME NEW t \in Lost PROVE t \in {records[s].ts : s \in c .. n - 1}
      OBVIOUS
    <3>1. PICK j \in 1 .. n : t = durable[j].ts
      BY <2>6 DEF Lost
    <3>2. PICK s \in 0 .. n - 1 : records[s].ts = t
      BY <2>3, <3>1
    <3>3. t \notin {records[x].ts : x \in 0 .. c - 1}
      BY <2>7 DEF Lost
    <3>4. s \in c .. n - 1
      BY <2>2, <3>2, <3>3
    <3> QED
      BY <3>2, <3>4
  <2>10. Cardinality(Lost) <= n - c
    BY <2>2, <2>3, <2>9, FewTimes
  <2>11. Cardinality(Lost) \in Nat
    <3>1. IsFiniteSet(Lost)
      <4>1. IsFiniteSet(Times(Adopted(durable)))
        <5> DEFINE f == [j \in 1 .. n |-> durable[j].ts]
        <5>1. f \in Surjection(1 .. n, Times(Adopted(durable)))
          BY <2>6 DEF Surjection
        <5>2. IsFiniteSet(1 .. n)
          BY <2>2, FS_Interval
        <5> HIDE DEF f
        <5> QED
          BY <5>1, <5>2, FS_Surjection
      <4> QED
        BY <4>1, FS_Subset DEF Lost
    <3> QED
      BY <3>1, FS_CardinalityType
  <2> QED
    BY <2>2, <2>3, <2>8, <2>10, <2>11
<1> QED
  BY <1>1, LaggingHolds, RestartHolds, PTL

-----------------------------------------------------------------------------
(* The refinement of DurableHistory.                                       *)

\* Unless the last run ended while it wrote the file, every slot is there.
Sized ==
    pc \in AtRest /\ header # << >> /\ (last_stop = "clean" \/ CrashedRecording) =>
        DOMAIN records = 0 .. header[1].capacity - 1

\* What persist_load has restored comes from the file, and only from a file that
\* it accepts.
FromFile ==
    pc = "load" =>
        /\ ~Loadable => View = << >>
        /\ Loadable /\ CrashedRecording => \A j \in 1 .. Len(View) : View[j].ts \in Times(durable)

\* A file that was written for this run has its interval.
OwnInterval == pc \in Laid => header[1].interval_s = reg.interval_s

Restorable == Sized /\ FromFile /\ OwnInterval

LEMMA SizedStep ==
  ASSUME TypeOK, Layout, Described, Sized, [Next]_vars
  PROVE  Sized'
<1>1. CASE Idles
  BY <1>1 DEF Idles, Sized, CrashedRecording
<1>2. CASE pc' \notin AtRest
  BY <1>2 DEF Sized
<1>3. CASE persist_close \/ close_persistence
  <2>1. header'[1].capacity = reg.capacity /\ UNCHANGED records /\ pc = "open"
    BY <1>3 DEF persist_close, close_persistence, HeaderOf
  <2> QED
    BY <2>1 DEF Layout, Laid, Sized
<1>4. CASE Crash /\ pc \notin AtRest /\ last_stop' = pc
  <2>1. UNCHANGED <<header, records>>
    BY <1>4 DEF Crash
  <2>2. pc \in {"open", "flush_open"} =>
           DOMAIN records = 0 .. reg.capacity - 1 /\ header[1].capacity = reg.capacity
    BY DEF Layout, Described, Laid
  <2>3. pc # "clean"
    BY DEF TypeOK
  <2> QED
    BY <1>4, <2>1, <2>2, <2>3 DEF Sized, CrashedRecording
<1> QED
  BY <1>1, <1>2, <1>3, <1>4, RestCases

EndsIn(s, row) == Len(s) > 0 /\ s[Len(s)] = row

\* A window that has moved on ends with the new row, and its other rows are old.
LEMMA SlideEntries ==
  ASSUME NEW cap \in Nat \ {0}, NEW s \in Seq(Row), NEW new \in Row
  PROVE  /\ EndsIn(Slide(s, cap, new), new)
         /\ \A T : new.ts \in T /\ (\A j \in 1 .. Len(s) : s[j].ts \in T) =>
               \A j \in 1 .. Len(Slide(s, cap, new)) : Slide(s, cap, new)[j].ts \in T
<1>1. CASE Len(s) < cap
  <2>1. Len(Append(s, new)) = Len(s) + 1 /\ \A j \in 1 .. Len(s) + 1 :
           Append(s, new)[j] = IF j <= Len(s) THEN s[j] ELSE new
    OBVIOUS
  <2> QED
    BY <1>1, <2>1 DEF Slide, EndsIn
<1>2. CASE Len(s) >= cap
  <2>1. Len(Append(Tail(s), new)) = Len(s) /\ \A j \in 1 .. Len(s) :
           Append(Tail(s), new)[j] = IF j < Len(s) THEN s[j + 1] ELSE new
    BY <1>2
  <2>2. \A j \in 1 .. Len(s) : j < Len(s) => j + 1 \in 1 .. Len(s)
    OBVIOUS
  <2>3. Slide(s, cap, new) = Append(Tail(s), new)
    BY <1>2 DEF Slide, EndsIn
  <2>4. EndsIn(Append(Tail(s), new), new)
    BY <1>2, <2>1 DEF EndsIn
  <2>5. ASSUME NEW T, new.ts \in T, \A j \in 1 .. Len(s) : s[j].ts \in T
        PROVE  \A j \in 1 .. Len(Append(Tail(s), new)) : Append(Tail(s), new)[j].ts \in T
    BY <2>1, <2>2, <2>5
  <2> QED
    BY <2>3, <2>4, <2>5
<1> QED
  BY <1>1, <1>2

LEMMA FromFileStep ==
  ASSUME TypeOK, Described, Lagging, FromFile, [Next]_vars
  PROVE  FromFile'
<1>r. reg.capacity \in Nat \ {0} /\ View \in Seq(Row) /\ Len(View) = mem.count
  BY RunTypes
<1>1. CASE persist_open
  <2>1. UNCHANGED <<reg, mem>> /\ (pc' = "load" => mem.count = 0)
    BY <1>1 DEF persist_open
  <2>2. View' = View
    BY <2>1 DEF View
  <2>3. pc' = "load" => View' = << >> /\ Len(View') = 0
    BY <1>r, <2>1, <2>2
  <2> QED
    BY <2>3 DEF FromFile
<1>2. CASE persist_load
  <2> DEFINE rec == records[LoadSlot]
             row == [ts |-> rec.ts, src |-> Remap(rec)]
  <2>1. /\ pc = "load" /\ Loadable /\ k < LoadCount
        /\ UNCHANGED <<pc, reg, header, durable, last_stop>>
        /\ rec \in Record /\ row \in Row
        /\ rec.ts <= 0 => View' = View
        /\ rec.ts > 0 => View' = Slide(View, reg.capacity, row)
    BY <1>2, LoadedRow
  <2>2. Loadable'
    BY <2>1 DEF Loadable
  <2>3. header # << >>
    BY <2>1 DEF Loadable
  <2> SUFFICES ASSUME CrashedRecording
               PROVE  \A j \in 1 .. Len(View') : View'[j].ts \in Times(durable)
    BY <2>1, <2>2 DEF FromFile, CrashedRecording, Times, History!Times
  <2>4. \A j \in 1 .. Len(View) : View[j].ts \in Times(durable)
    BY <2>1 DEF FromFile
  <2>5. row.ts \in Times(durable)
    <3>1. /\ header[1].count \in Nat /\ k < header[1].count /\ LoadSlot = FileSlot(k)
          /\ LoadSlot \in 0 .. header[1].count - 1
      BY <2>1, <2>3, LoadSlots, DiskTypes, LoadsInReach
    <3>2. /\ header[1].count <= Len(durable) /\ Len(durable) \in Nat
          /\ \A s \in 0 .. Len(durable) - 1 :
                \E j \in 1 .. Len(durable) : records[s].ts = durable[j].ts
      BY <2>1, RunTypes DEF Lagging, AtRest
    <3>3. LoadSlot \in 0 .. Len(durable) - 1
      BY <3>1, <3>2
    <3> QED
      BY <3>2, <3>3 DEF Times, History!Times
  <2>6. rec.ts \in Nat
    BY <2>1 DEF Record
  <2> HIDE DEF row
  <2>7. CASE rec.ts > 0
    <3>1. View' = Slide(View, reg.capacity, row)
      BY <2>1, <2>7
    <3>2. reg.capacity \in Nat \ {0} /\ View \in Seq(Row) /\ row \in Row
      BY <1>r, <2>1
    <3>3. \A j \in 1 .. Len(Slide(View, reg.capacity, row)) :
             Slide(View, reg.capacity, row)[j].ts \in Times(durable)
      BY <2>4, <2>5, <3>2, SlideEntries
    <3> QED
      BY <3>1, <3>3
  <2> QED
    BY <2>1, <2>4, <2>6, <2>7
<1>3. CASE UNCHANGED vars
  BY <1>3 DEF vars, FromFile, Loadable, CrashedRecording, View, Times, History!Times
<1>4. CASE (\E r \in Registries : Start_up(r)) \/ SampleInMemory \/ LoadDone \/ SyncTable
           \/ SyncHeader \/ SyncSize \/ SyncRow \/ Flush("flush_sync", "sync")
           \/ Flush("flush_open", "open") \/ SyncRowFails \/ SyncDone \/ Sample
           \/ SampleWriteFails \/ persist_close \/ close_persistence \/ StopInMemory \/ Crash
  <2>1. pc' # "load"
    BY <1>4 DEF Start_up, SampleInMemory, LoadDone, SyncTable, SyncHeader, SyncSize, SyncRow,
                SyncRowFails, WriteRecord, Flush, SyncDone, Sample, SampleWriteFails, persist_close,
                close_persistence, StopInMemory, Crash
  <2> QED
    BY <2>1 DEF FromFile
<1> QED
  BY <1>1, <1>2, <1>3, <1>4 DEF Next

LEMMA OwnIntervalStep ==
  ASSUME TypeOK, Opening, OwnInterval, [Next]_vars
  PROVE  OwnInterval'
<1>1. CASE SyncSize
  <2>1. header' = HeaderOf(ClosedPersist) /\ reg' = reg
    BY <1>1 DEF SyncSize, Opening
  <2>2. header'[1].interval_s = reg.interval_s
    BY <2>1 DEF HeaderOf
  <2> QED
    BY <2>1, <2>2 DEF OwnInterval
<1>2. CASE Flush("flush_sync", "sync") \/ Flush("flush_open", "open")
  <2>1. header' = HeaderOf(persist) /\ reg' = reg
    BY <1>2 DEF Flush
  <2>2. header'[1].interval_s = reg.interval_s
    BY <2>1 DEF HeaderOf
  <2> QED
    BY <2>1, <2>2 DEF OwnInterval
<1>3. CASE SyncRow \/ SyncRowFails \/ SyncDone \/ Sample \/ SampleWriteFails
  BY <1>3 DEF SyncRow, SyncRowFails, SyncDone, Sample, SampleWriteFails, WriteRecord, OwnInterval, Laid
<1>4. CASE (\E r \in Registries : Start_up(r)) \/ SampleInMemory \/ persist_open \/ persist_load
           \/ LoadDone \/ SyncTable \/ SyncHeader \/ persist_close \/ close_persistence
           \/ StopInMemory \/ Crash
  <2>1. pc' \notin Laid
    BY <1>4 DEF Start_up, SampleInMemory, persist_open, persist_load, LoadDone, SyncTable,
                SyncHeader, persist_close, close_persistence, StopInMemory, Crash, Laid
  <2> QED
    BY <2>1 DEF OwnInterval
<1>5. CASE UNCHANGED vars
  BY <1>5 DEF vars, OwnInterval, Laid
<1> QED
  BY <1>1, <1>2, <1>3, <1>4, <1>5 DEF Next

\* What persist_load has restored when it is done, if the tier was empty.
LEMMA TakesOver ==
  ASSUME TypeOK, Described, Restorable, CleanRestartExact, CrashLossBounded, LoadDone
  PROVE  History!Restores(View)
<1>1. pc = "load" /\ (Loadable => k >= LoadCount \/ LoadSlot \notin DOMAIN records)
  BY DEF LoadDone
<1>2. Len(View) <= reg.capacity
  BY RunTypes
<1>3. History!Readable <=> Loadable
  BY DEF History!Readable, Loadable, Format
<1>4. ~Loadable => View = << >>
  BY <1>1 DEF Restorable, FromFile
<1>5. Loadable /\ (last_stop = "clean" \/ CrashedRecording) => Loaded
  <2> SUFFICES ASSUME Loadable, last_stop = "clean" \/ CrashedRecording, k < LoadCount
               PROVE  LoadSlot \in DOMAIN records
    <3>1. k \in Nat /\ (header # << >> => LoadCount \in Nat)
      BY RunTypes, DiskTypes DEF LoadCount
    <3> QED
      BY <1>1, <3>1 DEF Loaded, Loadable
  <2>1. header # << >> /\ header[1].capacity \in Nat \ {0} /\ header[1].count \in Nat
    BY DiskTypes DEF Loadable
  <2>2. LoadSlot \in 0 .. header[1].count - 1 /\ header[1].count <= header[1].capacity
    BY <2>1, LoadsInReach DEF Described
  <2>3. DOMAIN records = 0 .. header[1].capacity - 1
    BY <1>1, <2>1 DEF Restorable, Sized, AtRest
  <2> QED
    BY <2>1, <2>2, <2>3
<1>6. Ended = "clean" => last_stop = "clean"
  BY DEF Ended
<1>7. Ended = "recording" => CrashedRecording
  BY DEF Ended, CrashedRecording
<1>8. Loadable /\ last_stop = "clean" => View = History!Adopted(durable)
  BY <1>5 DEF CleanRestartExact, Adopted
<1>9. Loadable /\ CrashedRecording => History!Times(View) \subseteq History!Times(durable)
  BY <1>1 DEF Restorable, FromFile, Times, History!Times
<1>10. Loadable => Format[1].capacity = header[1].capacity
  BY DEF Loadable, Format
<1>11. Loadable /\ CrashedRecording /\ header[1].capacity <= reg.capacity => History!Survives(View)
  <2> SUFFICES ASSUME Loadable, CrashedRecording, header[1].capacity <= reg.capacity
               PROVE  History!Survives(View)
    OBVIOUS
  <2>1. reg.capacity >= header[1].capacity
    BY RunTypes, DiskTypes DEF Loadable
  <2>2. /\ Cardinality(History!Times(History!Adopted(durable)) \ History!Times(View))
              <= HEADER_FLUSH_EVERY
        /\ Len(durable) < header[1].capacity =>
              \E n \in 0 .. Len(History!Adopted(durable)) :
                  View = SubSeq(History!Adopted(durable), 1, n)
    BY <1>5, <2>1 DEF CrashLossBounded, Lost, Times, Adopted
  <2> QED
    BY <1>10, <2>2 DEF History!Survives, History!Cardinality, Cardinality
<1> QED
  BY <1>2, <1>3, <1>4, <1>6, <1>7, <1>8, <1>9, <1>10, <1>11 DEF History!Restores

\* What a step that writes one row to the tier does to a bounded history.
LEMMA PutGrows ==
  ASSUME TypeOK, NEW row \in Row, mem' = Put(mem, reg.capacity, row), reg' = reg
  PROVE  /\ History!Grows(View, View')
         /\ View'[Len(View')] = row
<1>1. reg.capacity \in Nat \ {0} /\ View \in Seq(Row)
  BY RunTypes
<1>2. View' = Slide(View, reg.capacity, row)
  BY MemSlides
<1>3. EndsIn(Slide(View, reg.capacity, row), row)
  BY <1>1, SlideEntries
<1>4. Len(View') > 0 /\ View'[Len(View')] = row
  BY <1>2, <1>3 DEF EndsIn
<1> QED
  BY <1>2, <1>4 DEF History!Grows, History!Slide, Slide

\* The steps that change what the program promises, one by one.
LEMMA HistoryStep ==
  ASSUME TypeOK, Layout, SyncMirrors, Described, Restorable, CleanRestartExact, CrashLossBounded,
         [Next]_vars
  PROVE  History!Next \/ UNCHANGED <<Phase, reg, Live, durable, Format, Ended>>
<1>r. reg.capacity \in Nat \ {0} /\ View \in Seq(Row) /\ Len(View) = mem.count
  BY RunTypes
<1>1. ASSUME NEW r \in Registries, Start_up(r) PROVE History!Begin
  <2>1. /\ pc = "down" /\ pc' = "memory" /\ reg' = r /\ mem' = EmptyRing(r.capacity, ZeroRow)
        /\ UNCHANGED <<header, durable, last_stop>>
    BY <1>1 DEF Start_up
  <2>2. r.capacity \in Nat \ {0} /\ ZeroRow \in Row
    BY RegistriesAssumption, RowTypes
  <2>3. View' = << >>
    BY <2>1, <2>2, EmptyRingIsEmpty DEF View
  <2> QED
    BY <2>1, <2>3 DEF History!Begin, Phase, Live, Format, Ended
<1>2. CASE SampleInMemory
  <2>1. /\ pc = "memory" /\ mem' = Put(mem, reg.capacity, NewRow)
        /\ UNCHANGED <<pc, reg, header, durable, last_stop>>
    BY <1>2 DEF SampleInMemory
  <2>2. History!Grows(View, View')
    BY <2>1, NewRowType, PutGrows
  <2>3. Live = View /\ Live' = View' /\ Phase = "memory" /\ Phase' = "memory"
    BY <2>1 DEF Live, Phase
  <2>4. Format' = Format /\ Ended' = Ended
    BY <2>1 DEF Format, Ended
  <2>5. History!Collect
    BY <2>1, <2>2, <2>3, <2>4 DEF History!Collect
  <2> QED
    BY <2>5 DEF History!Next
<1>3. CASE persist_open
  <2>1. /\ pc = "memory" /\ pc' = IF mem.count = 0 THEN "load" ELSE "sync_table"
        /\ UNCHANGED <<reg, mem, header, durable, last_stop>>
    BY <1>3 DEF persist_open
  <2>2. View' = View
    BY <2>1 DEF View
  <2>3. Format' = Format /\ Ended' = Ended
    BY <2>1 DEF Format, Ended
  <2>4. CASE mem.count = 0
    <3>1. View = << >>
      BY <1>r, <2>4
    <3>2. Live = << >> /\ Live' = << >> /\ Phase = "memory" /\ Phase' = "memory"
      BY <2>1, <2>4, <3>1 DEF Live, Phase
    <3> QED
      BY <2>1, <2>3, <3>2
  <2>5. CASE mem.count # 0
    <3>1. View # << >>
      BY <1>r, <2>5
    <3>2. Live = View /\ Live' = View /\ Phase = "memory" /\ Phase' = "attached"
      BY <2>1, <2>2, <2>5 DEF Live, Phase
    <3>3. History!Attach
      BY <2>1, <2>3, <3>1, <3>2 DEF History!Attach
    <3> QED
      BY <3>3 DEF History!Next
  <2> QED
    BY <2>4, <2>5
<1>4. CASE persist_load
  <2>1. pc = "load" /\ UNCHANGED <<pc, reg, header, durable, last_stop>>
    BY <1>4 DEF persist_load
  <2> QED
    BY <2>1 DEF Phase, Live, Format, Ended
<1>5. CASE LoadDone
  <2>1. /\ pc = "load" /\ pc' = "sync_table"
        /\ UNCHANGED <<reg, mem, header, durable, last_stop>>
    BY <1>5 DEF LoadDone
  <2>2. View' = View
    BY <2>1 DEF View
  <2>3. Live = << >> /\ Live' = View /\ Phase = "memory" /\ Phase' = "attached"
    BY <2>1, <2>2 DEF Live, Phase
  <2>4. Format' = Format /\ Ended' = Ended
    BY <2>1 DEF Format, Ended
  <2>5. History!Restores(Live')
    BY <1>5, <2>3, TakesOver
  <2>6. History!Attach
    BY <2>1, <2>3, <2>4, <2>5 DEF History!Attach
  <2> QED
    BY <2>6 DEF History!Next
<1>6. CASE SyncTable
  <2>1. /\ pc = "sync_table" /\ pc' = "sync_header"
        /\ UNCHANGED <<reg, mem, header, durable, last_stop>>
    BY <1>6 DEF SyncTable
  <2>2. View' = View
    BY <2>1 DEF View
  <2>3. History!Rewrite
    BY <2>1, <2>2 DEF History!Rewrite, Phase, Live, Format, Ended
  <2> QED
    BY <2>3 DEF History!Next
<1>7. CASE SyncHeader
  <2>1. /\ pc = "sync_header" /\ pc' = "sync_size" /\ header' = HeaderOf(persist)
        /\ UNCHANGED <<reg, mem, durable, last_stop>>
    BY <1>7 DEF SyncHeader
  <2>2. View' = View
    BY <2>1 DEF View
  <2>3. Format' = History!OwnFormat
    BY <2>1 DEF Format, HeaderOf, History!OwnFormat
  <2>4. History!Reformat
    BY <2>1, <2>2, <2>3 DEF History!Reformat, Phase, Live, Ended
  <2> QED
    BY <2>4 DEF History!Next
<1>8. CASE SyncSize \/ SyncRow \/ SyncRowFails
  <2>1. /\ pc \in {"sync_size", "sync"} /\ pc' \in {"sync", "flush_sync"}
        /\ UNCHANGED <<reg, mem, header, durable, last_stop>>
    BY <1>8 DEF SyncSize, SyncRow, SyncRowFails, WriteRecord
  <2>2. View' = View
    BY <2>1 DEF View
  <2> QED
    BY <2>1, <2>2 DEF Phase, Live, Format, Ended
<1>9. pc \in Laid => Format = History!OwnFormat
  BY DEF Layout, Described, Restorable, OwnInterval, Format, History!OwnFormat
<1>10. CASE Flush("flush_sync", "sync") \/ Flush("flush_open", "open")
  <2>1. /\ pc \in Laid
        /\ (pc = "flush_sync" /\ pc' = "sync") \/ (pc = "flush_open" /\ pc' = "open")
        /\ header' = HeaderOf(persist) /\ UNCHANGED <<reg, mem, durable, last_stop>>
    BY <1>10 DEF Flush, Laid
  <2>2. View' = View
    BY <2>1 DEF View
  <2>3. Format' = History!OwnFormat
    BY <2>1 DEF Format, HeaderOf, History!OwnFormat
  <2> QED
    BY <1>9, <2>1, <2>2, <2>3 DEF Phase, Live, Ended
<1>11. CASE SyncDone
  <2>1. /\ pc = "sync" /\ pc' = "open" /\ durable' = written
        /\ UNCHANGED <<reg, mem, header, last_stop>> /\ k >= mem.count
    BY <1>11 DEF SyncDone
  <2>2. View' = View
    BY <2>1 DEF View
  <2>3. Format' = Format /\ Format = History!OwnFormat
    BY <1>9, <2>1 DEF Format, Laid
  <2>4. History!Subsequence(written, View)
    <3>1. k = Len(View)
      BY <1>r, <2>1, RunTypes DEF SyncMirrors
    <3>2. TakenFrom(written, View, Len(View))
      BY <2>1, <3>1 DEF SyncMirrors
    <3> QED
      BY <3>2 DEF TakenFrom, History!Subsequence
  <2>5. Live = View /\ Live' = View /\ Phase = "rewriting" /\ Phase' = "recording"
    BY <2>1, <2>2 DEF Live, Phase
  <2>6. Ended' = Ended /\ written \in Seq(Row)
    BY <2>1 DEF Ended, TypeOK
  <2>7. History!Commit
    BY <2>1, <2>3, <2>4, <2>5, <2>6 DEF History!Commit
  <2> QED
    BY <2>7 DEF History!Next
<1>12. CASE Sample \/ SampleWriteFails
  <2>1. /\ pc = "open" /\ pc' \in {"open", "flush_open"}
        /\ mem' = Put(mem, reg.capacity, NewRow)
        /\ durable' \in {durable, Slide(durable, reg.capacity, NewRow)}
        /\ UNCHANGED <<reg, header, last_stop>>
    BY <1>12 DEF Sample, SampleWriteFails, WriteRecord
  <2>2. History!Grows(View, View') /\ View'[Len(View')] = NewRow
    BY <2>1, NewRowType, PutGrows
  <2>3. Live = View /\ Live' = View' /\ Phase = "recording" /\ Phase' = "recording"
    BY <2>1 DEF Live, Phase
  <2>4. Format' = Format /\ Ended' = Ended
    BY <2>1 DEF Format, Ended
  <2>5. durable' \in {durable, History!Slide(durable, reg.capacity, Live'[Len(Live')])}
    BY <2>1, <2>2, <2>3 DEF Slide, History!Slide
  <2>6. History!Record
    BY <2>1, <2>2, <2>3, <2>4, <2>5 DEF History!Record
  <2> QED
    BY <2>6 DEF History!Next
<1>13. CASE persist_close
  <2>1. /\ pc = "open" /\ pc' = "down" /\ header' = HeaderOf(persist) /\ last_stop' = "clean"
        /\ UNCHANGED <<reg, durable>>
    BY <1>13 DEF persist_close
  <2>2. Format' = History!OwnFormat
    BY <2>1 DEF Format, HeaderOf, History!OwnFormat
  <2>3. Format' = Format
    BY <1>9, <2>1, <2>2 DEF Laid
  <2>4. History!Stop
    BY <2>1, <2>3 DEF History!Stop, Phase, Live, Ended
  <2> QED
    BY <2>4 DEF History!Next
<1>14. CASE StopInMemory
  <2>1. pc = "memory" /\ pc' = "down" /\ UNCHANGED <<reg, header, durable, last_stop>>
    BY <1>14 DEF StopInMemory
  <2>2. History!Stop
    BY <2>1 DEF History!Stop, Phase, Live, Format, Ended
  <2> QED
    BY <2>2 DEF History!Next
<1>15. CASE Crash
  <2>1. /\ pc # "down" /\ pc' = "down"
        /\ last_stop' = IF pc \in {"memory", "load", "sync_table"} THEN last_stop ELSE pc
        /\ UNCHANGED <<reg, header, durable>>
    BY <1>15 DEF Crash
  <2>2. pc \in {"memory", "load", "sync_table", "sync_header", "sync_size", "sync", "flush_sync",
                "open", "flush_open"}
    BY <2>1 DEF TypeOK
  <2>3. Phase # "down" /\ Phase' = "down" /\ Live' = << >> /\ Format' = Format
    BY <2>1, <2>2 DEF Phase, Live, Format
  <2>4. Ended' = IF Phase \in {"rewriting", "recording"} THEN Phase ELSE Ended
    BY <2>1, <2>2 DEF Phase, Ended
  <2>5. History!Crash
    BY <2>1, <2>3, <2>4 DEF History!Crash
  <2> QED
    BY <2>5 DEF History!Next
<1>16. CASE UNCHANGED vars
  <2>1. View' = View
    BY <1>16 DEF vars, View
  <2> QED
    BY <1>16, <2>1 DEF vars, Phase, Live, Format, Ended
<1>17. ASSUME NEW r \in Registries, Start_up(r) PROVE History!Next
  BY <1>1, <1>17 DEF History!Next
<1>18. CASE close_persistence
  <2>1. /\ pc = "open" /\ pc' = "memory" /\ header' = HeaderOf(persist) /\ last_stop' = "clean"
        /\ UNCHANGED <<reg, mem, durable>>
    BY <1>18 DEF close_persistence
  <2>2. Format' = History!OwnFormat
    BY <2>1 DEF Format, HeaderOf, History!OwnFormat
  <2>3. Format' = Format
    BY <1>9, <2>1, <2>2 DEF Laid
  <2>4. View' = View
    BY <2>1 DEF View
  <2>5. Live' = Live /\ Phase = "recording" /\ Phase' = "memory" /\ Ended' = "clean"
    BY <2>1, <2>4 DEF Live, Phase, Ended
  <2>6. History!Detach
    BY <2>1, <2>3, <2>5 DEF History!Detach
  <2> QED
    BY <2>6 DEF History!Next
<1> QED
  BY <1>2, <1>3, <1>4, <1>5, <1>6, <1>7, <1>8, <1>10, <1>11, <1>12, <1>13, <1>14, <1>15, <1>16,
     <1>17, <1>18 DEF Next

(***************************************************************************)
(* A tier and its file implement a durable history, for every set of       *)
(* registries, flush period, number of runs and place to be killed at:     *)
(* what a run starts with is what DurableHistory allows, given the rows    *)
(* the file held, its format and how the last run that wrote to it ended   *)
(* (persist_open, persist_load, persist_sync, persist_append,              *)
(* persist_close).                                                         *)
(***************************************************************************)
THEOREM RecordingImplementsDurableHistory == Spec => RefinesDurableHistory
<1>1. Init => History!Init
  BY DEF Init, History!Init, Phase, Live, Format, Ended
<1>2. Init => Restorable
  BY DEF Init, Restorable, Sized, FromFile, OwnInterval, Laid
<1>3. TypeOK /\ Opening /\ Layout /\ Restart /\ Lagging /\ Restorable /\ [Next]_vars => Restorable'
  BY SizedStep, FromFileStep, OwnIntervalStep DEF Restart, Restorable
<1>4. /\ TypeOK /\ Layout /\ SyncMirrors /\ Restart /\ Restorable /\ CleanRestartExact /\ CrashLossBounded
      /\ [Next]_vars
      => [History!Next]_<<Phase, reg, Live, durable, Format, Ended>>
  BY HistoryStep DEF Restart
<1> QED
  BY <1>1, <1>2, <1>3, <1>4, RecordingTypeCorrect, RestartHolds, LaggingHolds,
     CleanRestartsAreExact, CrashLossIsBounded, PTL DEF Spec, RefinesDurableHistory, History!Spec, History!hvars
=============================================================================
