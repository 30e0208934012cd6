---------------------------- MODULE StoreProofs -----------------------------
(***************************************************************************)
(* Proofs about Store, for any number of tiers, any capacities, intervals, *)
(* metrics and values, and any behaviour of the wall clock, and about the  *)
(* queries of Series, for any windows.                                     *)
(***************************************************************************)
EXTENDS Series, RingProofs, FiniteSetTheorems, WellFoundedInduction

\* Rows are closed under the arithmetic of the accumulators.
LEMMA RowTypes ==
  /\ NoRow \in Row
  /\ [Metrics -> RawReading] \subseteq Row
  /\ \A a, b \in Row : Plus(a, b) \in Row
<1>1. RawReading \subseteq Reading
  BY ValuesAssumption DEF RawReading, Raw, NAN, Reading
<1>2. [Metrics -> RawReading] \subseteq Row
  BY <1>1 DEF Row
<1>3. ASSUME NEW a \in Row, NEW b \in Row
      PROVE  Plus(a, b) \in Row
  BY DEF Row, Reading, Plus
<1> QED
  BY <1>2, <1>3 DEF NoRow, NAN, Row, Reading

\* The entry a coarse tier appends is well typed.
LEMMA MeanType ==
  ASSUME TypeOK, NEW i \in Coarse, NEW row \in Row, NEW ts \in Nat
  PROVE  Mean(i, row, ts) \in Entry
<1>1. Plus(acc[i], row) \in Row
  BY RowTypes DEF TypeOK
<1> QED
  BY <1>1 DEF Mean, Entry, TypeOK, Pushes

\* What one call of store_push does to each tier, as a bounded history.
LEMMA PushPuts ==
  ASSUME TypeOK, NEW row \in Row, NEW ts \in Nat, store_push(row, ts)
  PROVE  \A i \in Tier :
            \/ \E e \in Entry :
                  /\ tiers'[i] = Put(tiers[i], Capacity[i], e)
                  /\ i = 0 \/ Closes(i, ts)
                  /\ e = IF i = 0
                         THEN [ts |-> ts, row |-> row, first |-> Pushes, last |-> Pushes + 1]
                         ELSE Mean(i, row, ts)
            \/ i # 0 /\ ~Closes(i, ts) /\ tiers'[i] = tiers[i]
<1> SUFFICES ASSUME NEW i \in Tier
             PROVE  \/ \E e \in Entry :
                          /\ tiers'[i] = Put(tiers[i], Capacity[i], e)
                          /\ i = 0 \/ Closes(i, ts)
                          /\ e = IF i = 0
                                 THEN [ts |-> ts, row |-> row, first |-> Pushes, last |-> Pushes + 1]
                                 ELSE Mean(i, row, ts)
                    \/ i # 0 /\ ~Closes(i, ts) /\ tiers'[i] = tiers[i]
  OBVIOUS
<1>1. CASE i = 0
  <2>1. [ts |-> ts, row |-> row, first |-> Pushes, last |-> Pushes + 1] \in Entry
    BY DEF Entry, TypeOK, Pushes
  <2>2. tiers'[i] = Put(tiers[i], Capacity[i],
                        [ts |-> ts, row |-> row, first |-> Pushes, last |-> Pushes + 1])
    BY <1>1 DEF store_push
  <2> QED
    BY <1>1, <2>1, <2>2
<1>2. CASE i # 0 /\ Closes(i, ts)
  <2>1. i \in Coarse
    BY <1>2, TiersAssumption DEF Tier, Coarse
  <2>2. Mean(i, row, ts) \in Entry
    BY <2>1, MeanType
  <2>3. tiers'[i] = Put(tiers[i], Capacity[i], Mean(i, row, ts))
    BY <1>2 DEF store_push
  <2> QED
    BY <1>2, <2>2, <2>3
<1>3. CASE i # 0 /\ ~Closes(i, ts)
  BY <1>3 DEF store_push
<1> QED
  BY <1>1, <1>2, <1>3

\* Replayed entries are well typed.
LEMMA SavedType == SavedEntry \subseteq Entry
  BY RowTypes, SavedAssumption DEF SavedEntry, Entry, TypeOK

(***************************************************************************)
(* The store keeps its types: in particular head and count of every ring   *)
(* stay within its capacity through pushes and replays (store.c:126-132).  *)
(***************************************************************************)
THEOREM TypeCorrect == Spec => []TypeOK
<1>1. Init => TypeOK
  <2> SUFFICES ASSUME Init PROVE TypeOK
    OBVIOUS
  <2>1. ZeroEntry \in Entry
    BY RowTypes DEF ZeroEntry, Entry
  <2>2. \A i \in Tier : tiers[i] \in RingType(Capacity[i], Entry)
    BY <2>1, CapacityAssumption, EmptyRingIsEmpty DEF Init
  <2>3. acc \in [Coarse -> Row] /\ total \in Seq(Row) /\ Len(total) = 1
    BY RowTypes DEF Init
  <2> QED
    BY <2>2, <2>3, TiersAssumption DEF Init, TypeOK
<1>2. TypeOK /\ [Next]_vars => TypeOK'
  <2> SUFFICES ASSUME TypeOK, [Next]_vars PROVE TypeOK'
    OBVIOUS
  <2>1. CASE Sample
    <3>1. PICK d \in ClockSteps, row \in [Metrics -> RawReading] :
             /\ clock + d \in 1 .. MaxClock
             /\ clock' = clock + d
             /\ store_push(row, clock + d)
      BY <2>1 DEF Sample
    <3> DEFINE ts == clock + d
    <3>2. ts \in Nat \ {0} /\ row \in Row
      BY <3>1, RowTypes, ClockAssumption
    <3> HIDE DEF ts
    <3>p. store_push(row, ts) /\ clock' = ts
      BY <3>1 DEF ts
    <3>3. \A i \in Tier : tiers'[i] \in RingType(Capacity[i], Entry)
      BY <3>p, <3>2, PushPuts, PutType, CapacityAssumption DEF TypeOK
    <3>4. tiers' = [i \in Tier |-> tiers'[i]]
      BY <3>p DEF store_push
    <3>5. acc' \in [Coarse -> Row]
      BY <3>p, <3>2, RowTypes DEF store_push, TypeOK
    <3>6. acc_start' \in [Coarse -> Nat]
      BY <3>p, <3>2 DEF store_push, TypeOK, BucketStart
    <3>7. latest' \in Seq([ts : Nat, row : Row]) /\ Len(latest') <= 1
      BY <3>p, <3>2 DEF store_push
    <3>8. total' \in Seq(Row) /\ Len(total') >= 1
      <4>1. Plus(total[Len(total)], row) \in Row
        BY <3>2, RowTypes DEF TypeOK
      <4> QED
        BY <4>1, <3>p DEF store_push, TypeOK
    <3>9. opened' \in [Coarse -> Nat]
      BY <3>p DEF store_push, TypeOK, Pushes
    <3> QED
      BY <2>1, <3>p, <3>2, <3>3, <3>4, <3>5, <3>6, <3>7, <3>8, <3>9 DEF Sample, TypeOK
  <2>2. CASE \E i \in Tier : BeginReplay(i)
    BY <2>2, TiersAssumption DEF BeginReplay, TypeOK, Tier
  <2>3. CASE \E i \in Tier : Replay(i)
    <3>0. PICK i \in Tier : Replay(i)
      BY <2>3
    <3>1. PICK e \in SavedEntry : store_restore(i, e)
      BY <3>0 DEF Replay
    <3>2. Put(tiers[i], Capacity[i], e) \in RingType(Capacity[i], Entry)
      BY <3>1, SavedType, PutType, CapacityAssumption DEF TypeOK
    <3> QED
      BY <3>1, <3>2 DEF store_restore, TypeOK
  <2>4. CASE EndReplay
    BY <2>4, TiersAssumption DEF EndReplay, TypeOK
  <2>5. CASE UNCHANGED vars
    BY <2>5 DEF vars, TypeOK
  <2> QED
    BY <2>1, <2>2, <2>3, <2>4, <2>5 DEF Next
<1> QED
  BY <1>1, <1>2, PTL DEF Spec

(***************************************************************************)
(* The rings implement BoundedHistory: in every behaviour of the store,    *)
(* what store_tier_sample and store_series read of a tier is the sequence  *)
(* of its most recent entries, oldest first.                               *)
(***************************************************************************)
THEOREM StoreImplementsBoundedHistory == Spec => RefinesBoundedHistory
<1> DEFINE window == [i \in Tier |-> Contents(tiers[i], Capacity[i])]
<1>1. Init => History!Init
  <2> SUFFICES ASSUME Init PROVE window = [i \in Tier |-> << >>]
    BY DEF History!Init
  <2>1. \A i \in Tier : Contents(tiers[i], Capacity[i]) = << >>
    BY CapacityAssumption, EmptyRingIsEmpty DEF Init
  <2> QED
    BY <2>1
<1>2. TypeOK /\ [Next]_vars => [History!Next]_window
  <2> SUFFICES ASSUME TypeOK, [Next]_vars PROVE History!Next \/ UNCHANGED window
    OBVIOUS
  <2>g. ASSUME NEW i \in Tier, NEW e \in Entry,
               tiers'[i] = Put(tiers[i], Capacity[i], e)
        PROVE  History!Grows(window[i], window'[i], Capacity[i])
    <3>1. window'[i] = Slide(window[i], Capacity[i], e)
      BY <2>g, PutSlides, CapacityAssumption DEF TypeOK
    <3>2. window[i] \in Seq(Entry)
      BY ContentsType, CapacityAssumption DEF TypeOK
    <3> HIDE DEF window
    <3>3. Len(window'[i]) > 0 /\ window'[i][Len(window'[i])] = e
      BY <3>1, <3>2, CapacityAssumption DEF Slide
    <3> QED
      BY <3>1, <3>3 DEF History!Grows, History!Slide, Slide
  <2>1. CASE Sample
    <3>1. PICK d \in ClockSteps, row \in [Metrics -> RawReading] :
             /\ clock + d \in 1 .. MaxClock
             /\ store_push(row, clock + d)
      BY <2>1 DEF Sample
    <3> DEFINE ts == clock + d
               closing == {i \in Tier : i = 0 \/ Closes(i, ts)}
    <3>2. ts \in Nat /\ row \in Row
      BY <3>1, RowTypes, ClockAssumption
    <3>3. \A i \in closing : History!Grows(window[i], window'[i], Capacity[i])
      <4> SUFFICES ASSUME NEW i \in closing
                   PROVE  History!Grows(window[i], window'[i], Capacity[i])
        OBVIOUS
      <4>1. PICK e \in Entry : tiers'[i] = Put(tiers[i], Capacity[i], e)
        BY <3>1, <3>2, PushPuts
      <4> HIDE DEF window
      <4> QED
        BY <2>g, <4>1
    <3>4. \A i \in Tier \ closing : window'[i] = window[i]
      <4>1. \A i \in Tier \ closing : tiers'[i] = tiers[i]
        BY <3>1, <3>2, PushPuts
      <4> QED
        BY <4>1
    <3>5. 0 \in closing /\ closing \in SUBSET Tier
      BY TiersAssumption DEF Tier
    <3> HIDE DEF window, closing
    <3>6. History!Push
      BY <3>3, <3>4, <3>5 DEF History!Push, window
    <3> QED
      BY <3>6 DEF History!Next
  <2>2. CASE \E i \in Tier : BeginReplay(i)
    BY <2>2 DEF BeginReplay
  <2>3. CASE \E i \in Tier : Replay(i)
    <3>0. PICK i \in Tier : Replay(i)
      BY <2>3
    <3>1. PICK e \in SavedEntry : store_restore(i, e)
      BY <3>0 DEF Replay
    <3>2. tiers'[i] = Put(tiers[i], Capacity[i], e) /\ \A j \in Tier \ {i} : tiers'[j] = tiers[j]
      BY <3>1 DEF store_restore, TypeOK
    <3>3. History!Grows(window[i], window'[i], Capacity[i])
      BY <2>g, <3>2, SavedType
    <3>4. \A j \in Tier \ {i} : window'[j] = window[j]
      BY <3>2
    <3> HIDE DEF window
    <3>5. History!Restore
      BY <3>3, <3>4 DEF History!Restore, window
    <3> QED
      BY <3>5 DEF History!Next
  <2>4. CASE EndReplay
    BY <2>4 DEF EndReplay
  <2>5. CASE UNCHANGED vars
    BY <2>5 DEF vars
  <2> QED
    BY <2>1, <2>2, <2>3, <2>4, <2>5 DEF Next
<1> QED
  BY <1>1, <1>2, TypeCorrect, PTL DEF Spec, RefinesBoundedHistory, History!Spec

-----------------------------------------------------------------------------
\* Sliding one entry in keeps a sequence of entries chained.
LEMMA FollowsSlides ==
  ASSUME NEW cap \in Nat \ {0}, NEW s \in Seq(Entry), NEW n \in Nat, NEW e \in Entry,
         Follows(s, n), e.first = n
  PROVE  Follows(Slide(s, cap, e), e.last)
<1>1. CASE Len(s) < cap
  <2> DEFINE t == Append(s, e)
  <2>1. Slide(s, cap, e) = t
    BY <1>1 DEF Slide
  <2>2. Len(t) = Len(s) + 1 /\ t[Len(s) + 1] = e /\ \A k \in 1 .. Len(s) : t[k] = s[k]
    OBVIOUS
  <2> HIDE DEF t
  <2>3. \A k \in 1 .. Len(t) - 1 : t[k + 1].first = t[k].last
    BY <2>2 DEF Follows
  <2> QED
    BY <2>1, <2>2, <2>3 DEF Follows
<1>2. CASE Len(s) >= cap
  <2> DEFINE t == Append(Tail(s), e)
  <2>1. Slide(s, cap, e) = t
    BY <1>2 DEF Slide
  <2>2. Len(t) = Len(s) /\ t[Len(s)] = e /\ \A k \in 1 .. Len(s) - 1 : t[k] = s[k + 1]
    BY <1>2
  <2> HIDE DEF t
  <2>3. \A k \in 1 .. Len(t) - 1 : t[k + 1].first = t[k].last
    BY <1>2, <2>2 DEF Follows
  <2> QED
    BY <1>2, <2>1, <2>2, <2>3 DEF Follows
<1> QED
  BY <1>1, <1>2

\* Sliding one exact entry in keeps every entry exact.
LEMMA ExactSlides ==
  ASSUME NEW cap \in Nat \ {0}, NEW s \in Seq(Entry), NEW e \in Entry, NEW sums,
         \A k \in 1 .. Len(s) : ExactEntry(s[k], sums), ExactEntry(e, sums)
  PROVE  \A k \in 1 .. Len(Slide(s, cap, e)) : ExactEntry(Slide(s, cap, e)[k], sums)
<1>1. CASE Len(s) < cap
  <2>1. Len(Append(s, e)) = Len(s) + 1 /\ \A k \in 1 .. Len(s) + 1 :
           Append(s, e)[k] = IF k <= Len(s) THEN s[k] ELSE e
    OBVIOUS
  <2> QED
    BY <1>1, <2>1 DEF Slide
<1>2. CASE Len(s) >= cap
  <2>1. Len(Append(Tail(s), e)) = Len(s) /\ \A k \in 1 .. Len(s) :
           Append(Tail(s), e)[k] = IF k < Len(s) THEN s[k + 1] ELSE e
    BY <1>2
  <2> QED
    BY <1>2, <2>1 DEF Slide
<1> QED
  BY <1>1, <1>2

\* An entry stays exact when more samples are summed.
LEMMA ExactGrows ==
  ASSUME NEW e \in Entry, NEW sums \in Seq(Row), NEW row \in Row, ExactEntry(e, sums)
  PROVE  ExactEntry(e, Append(sums, row))
  BY DEF ExactEntry, Entry

\* Running sums telescope: adding a row to both sides of a difference.
LEMMA SumsTelescope ==
  ASSUME NEW a \in Row, NEW b \in Row, NEW row \in Row
  PROVE  /\ Minus(Plus(a, row), b) = Plus(Minus(a, b), row)
         /\ Minus(Plus(a, row), a) = row
         /\ Minus(a, a) = NoRow
  BY DEF Row, Reading, Plus, Minus, NoRow, NAN

\* What makes the accounting of samples inductive: entries are only replayed
\* into a tier that has covered no sample yet.
Accounting == MeansExact /\ EverySampleOnce /\ ReplayBeforeSamples

\* A push keeps the accounting, tier by tier.
LEMMA PushAccounting ==
  ASSUME TypeOK, Accounting, NEW row \in Row, NEW ts \in Nat, store_push(row, ts),
         replaying = STORE_TIERS, replaying' = replaying
  PROVE  Accounting'
<1>1. /\ total' = Append(total, Plus(total[Len(total)], row))
      /\ total \in Seq(Row) /\ Len(total) >= 1 /\ total[Len(total)] \in Row
      /\ Plus(total[Len(total)], row) \in Row
  BY RowTypes DEF store_push, TypeOK
<1>2. /\ Len(total') = Len(total) + 1 /\ Pushes' = Pushes + 1 /\ Pushes \in Nat
      /\ total'[Len(total) + 1] = Plus(total[Len(total)], row)
      /\ \A k \in 1 .. Len(total) : total'[k] = total[k]
  BY <1>1 DEF Pushes
<1>3. ASSUME NEW i \in Coarse
      PROVE  /\ acc[i] \in Row /\ opened[i] \in 0 .. Pushes
             /\ total[opened[i] + 1] \in Row
             /\ Plus(acc[i], row) = Minus(total'[Len(total')], total'[opened[i] + 1])
  <2>1. /\ acc[i] \in Row /\ opened[i] \in 0 .. Pushes
        /\ acc[i] = Minus(total[Len(total)], total[opened[i] + 1])
    BY DEF TypeOK, Accounting, MeansExact
  <2>2. opened[i] + 1 \in 1 .. Len(total)
    BY <1>1, <2>1 DEF Pushes
  <2>3. total[opened[i] + 1] \in Row /\ total'[opened[i] + 1] = total[opened[i] + 1]
    BY <1>1, <1>2, <2>2
  <2> QED
    BY <1>1, <1>2, <2>1, <2>3, SumsTelescope
<1>4. ASSUME NEW i \in Coarse
      PROVE  /\ opened'[i] <= Pushes'
             /\ acc'[i] = Minus(total'[Len(total')], total'[opened'[i] + 1])
  <2>1. CASE Closes(i, ts)
    <3>1. opened'[i] = Pushes + 1 /\ acc'[i] = NoRow
      BY <2>1 DEF store_push
    <3>2. opened'[i] + 1 = Len(total')
      BY <1>1, <1>2, <3>1 DEF Pushes
    <3> QED
      BY <1>1, <1>2, <3>1, <3>2, SumsTelescope
  <2>2. CASE ~Closes(i, ts)
    <3>1. opened'[i] = opened[i] /\ acc'[i] = Plus(acc[i], row)
      BY <2>2 DEF store_push
    <3> QED
      BY <1>2, <1>3, <3>1
  <2> QED
    BY <2>1, <2>2
<1>5. ASSUME NEW i \in Tier
      PROVE  /\ \A k \in 1 .. Len(View(i)') : ExactEntry(View(i)'[k], total')
             /\ Follows(View(i)', Covered(i)')
  <2>1. View(i) \in Seq(Entry) /\ Covered(i) \in Nat
    BY <1>2, ContentsType, CapacityAssumption, TiersAssumption
       DEF TypeOK, View, Covered, Tier, Coarse
  <2>2. \A k \in 1 .. Len(View(i)) : ExactEntry(View(i)[k], total')
    BY <1>1, <2>1, ExactGrows DEF Accounting, MeansExact
  <2>3. Follows(View(i), Covered(i))
    BY DEF Accounting, EverySampleOnce
  <2>4. CASE i = 0 \/ Closes(i, ts)
    <3>1. PICK e \in Entry :
             /\ tiers'[i] = Put(tiers[i], Capacity[i], e)
             /\ e = IF i = 0
                    THEN [ts |-> ts, row |-> row, first |-> Pushes, last |-> Pushes + 1]
                    ELSE Mean(i, row, ts)
      BY <2>4, PushPuts
    <3>2. View(i)' = Slide(View(i), Capacity[i], e)
      BY <3>1, PutSlides, CapacityAssumption DEF TypeOK, View
    <3>3. e.first = Covered(i) /\ e.last = Covered(i)' /\ e.last = Pushes + 1
      <4>1. CASE i = 0
        BY <1>2, <3>1, <4>1 DEF Covered
      <4>2. CASE i # 0
        <5>1. i \in Coarse /\ Closes(i, ts)
          BY <2>4, <4>2 DEF Tier, Coarse
        <5>2. opened'[i] = Pushes + 1
          BY <5>1 DEF store_push
        <5> QED
          BY <3>1, <4>2, <5>2 DEF Covered, Mean
      <4> QED
        BY <4>1, <4>2
    <3>4. ExactEntry(e, total')
      <4>1. CASE i = 0
        <5>1. Pushes + 1 = Len(total)
          BY <1>1 DEF Pushes
        <5>2. e.row = row /\ e.first = Pushes
          BY <3>1, <4>1
        <5>3. row = Minus(total'[Len(total) + 1], total'[Len(total)])
          BY <1>1, <1>2, SumsTelescope
        <5> QED
          BY <1>2, <3>3, <5>1, <5>2, <5>3 DEF ExactEntry
      <4>2. CASE i # 0
        <5>1. i \in Coarse
          BY <4>2 DEF Tier, Coarse
        <5>2. e.row = Plus(acc[i], row) /\ e.first = opened[i]
          BY <3>1, <4>2 DEF Mean
        <5>3. Pushes + 1 = Len(total)
          BY <1>1 DEF Pushes
        <5> QED
          BY <1>2, <1>3, <3>3, <5>1, <5>2, <5>3 DEF ExactEntry
      <4> QED
        BY <4>1, <4>2
    <3> QED
      BY <2>1, <2>2, <2>3, <3>2, <3>3, <3>4, CapacityAssumption, FollowsSlides, ExactSlides
  <2>5. CASE i # 0 /\ ~Closes(i, ts)
    <3>1. i \in Coarse
      BY <2>5 DEF Tier, Coarse
    <3>2. tiers'[i] = tiers[i] /\ opened'[i] = opened[i]
      BY <2>5, <3>1 DEF store_push
    <3>3. View(i)' = View(i) /\ Covered(i)' = Covered(i)
      BY <2>5, <3>2 DEF View, Covered
    <3> QED
      BY <2>2, <2>3, <3>3
  <2> QED
    BY <2>4, <2>5
<1>6. ReplayBeforeSamples'
  BY TiersAssumption DEF ReplayBeforeSamples, Tier
<1> QED
  BY <1>4, <1>5, <1>6 DEF Accounting, MeansExact, EverySampleOnce

\* Replaying one saved entry keeps the accounting.
LEMMA RestoreAccounting ==
  ASSUME TypeOK, Accounting, NEW i \in Tier, Replay(i)
  PROVE  Accounting'
<1>1. PICK e \in SavedEntry : store_restore(i, e)
  BY DEF Replay
<1>2. e \in Entry /\ e.first = 0 /\ e.last = 0
  BY SavedType DEF SavedEntry
<1>3. /\ replaying = i /\ tiers'[i] = Put(tiers[i], Capacity[i], e)
      /\ \A j \in Tier \ {i} : tiers'[j] = tiers[j]
      /\ UNCHANGED <<acc, total, opened, replaying>>
  BY <1>1 DEF store_restore, TypeOK
<1>4. /\ \A j \in Tier : Covered(j)' = Covered(j)
      /\ Covered(i) = 0
  BY <1>3 DEF Covered, Pushes, Accounting, ReplayBeforeSamples
<1>5. View(i)' = Slide(View(i), Capacity[i], e) /\ View(i) \in Seq(Entry)
  BY <1>2, <1>3, PutSlides, ContentsType, CapacityAssumption DEF View, TypeOK
<1>6. \A j \in Tier \ {i} : View(j)' = View(j)
  BY <1>3 DEF View
<1>7. ExactEntry(e, total)
  BY <1>2 DEF ExactEntry
<1>8. /\ \A k \in 1 .. Len(View(i)') : ExactEntry(View(i)'[k], total)
      /\ Follows(View(i)', 0)
  <2>1. Follows(View(i), 0) /\ \A k \in 1 .. Len(View(i)) : ExactEntry(View(i)[k], total)
    BY <1>4 DEF Accounting, EverySampleOnce, MeansExact
  <2>2. Follows(Slide(View(i), Capacity[i], e), e.last)
    BY <1>2, <1>5, <2>1, CapacityAssumption, FollowsSlides
  <2> QED
    BY <1>2, <1>5, <1>7, <2>1, <2>2, CapacityAssumption, ExactSlides
<1>9. MeansExact'
  BY <1>3, <1>6, <1>8 DEF Accounting, MeansExact, Pushes
<1>10. EverySampleOnce'
  BY <1>4, <1>6, <1>8 DEF Accounting, EverySampleOnce
<1>11. ReplayBeforeSamples'
  BY <1>3, <1>4 DEF ReplayBeforeSamples
<1> QED
  BY <1>9, <1>10, <1>11 DEF Accounting

(***************************************************************************)
(* Downsampling is exact, for every interval, capacity and clock: each     *)
(* mean store_push appends covers exactly the samples since the previous   *)
(* one, no sample is skipped between buckets or counted in two, and saved  *)
(* history never lands on top of new samples.                              *)
(***************************************************************************)
THEOREM AccountingHolds == Spec => [](MeansExact /\ EverySampleOnce /\ ReplayBeforeSamples)
<1>1. Init => Accounting
  <2> SUFFICES ASSUME Init PROVE Accounting
    OBVIOUS
  <2>1. \A i \in Tier : View(i) = << >>
    BY CapacityAssumption, EmptyRingIsEmpty DEF Init, View
  <2>2. Pushes = 0 /\ Len(total) = 1 /\ total[1] = NoRow
    BY DEF Init, Pushes
  <2>3. MeansExact
    <3>1. \A i \in Coarse : opened[i] = 0 /\ acc[i] = NoRow
      BY DEF Init
    <3>2. Minus(NoRow, NoRow) = NoRow
      BY RowTypes, SumsTelescope
    <3> QED
      BY <2>1, <2>2, <3>1, <3>2 DEF MeansExact
  <2>4. EverySampleOnce
    BY <2>1, <2>2 DEF EverySampleOnce, Follows, Covered, Init, Tier, Coarse
  <2>5. ReplayBeforeSamples
    BY TiersAssumption DEF ReplayBeforeSamples, Init, Tier
  <2> QED
    BY <2>3, <2>4, <2>5 DEF Accounting
<1>2. TypeOK /\ Accounting /\ [Next]_vars => Accounting'
  <2> SUFFICES ASSUME TypeOK, Accounting, [Next]_vars PROVE Accounting'
    OBVIOUS
  <2>1. CASE Sample
    <3>1. PICK d \in ClockSteps, row \in [Metrics -> RawReading] :
             clock + d \in 1 .. MaxClock /\ store_push(row, clock + d)
      BY <2>1 DEF Sample
    <3>2. clock + d \in Nat /\ row \in Row
      BY <3>1, RowTypes, ClockAssumption
    <3> QED
      BY <2>1, <3>1, <3>2, PushAccounting DEF Sample
  <2>2. CASE \E i \in Tier : BeginReplay(i)
    <3>1. PICK i \in Tier : BeginReplay(i)
      BY <2>2
    <3>2. Covered(i) = 0
      <4>1. Len(View(i)) = 0
        BY <3>1, ContentsType, CapacityAssumption DEF BeginReplay, View, TypeOK
      <4> QED
        BY <4>1 DEF Accounting, EverySampleOnce, Follows
    <3> QED
      BY <3>1, <3>2 DEF BeginReplay, Accounting, MeansExact, EverySampleOnce,
                        ReplayBeforeSamples, View, Covered, Pushes
  <2>3. CASE \E i \in Tier : Replay(i)
    BY <2>3, RestoreAccounting
  <2>4. CASE EndReplay
    BY <2>4, TiersAssumption DEF EndReplay, Accounting, MeansExact, EverySampleOnce,
                                ReplayBeforeSamples, View, Covered, Pushes, Tier
  <2>5. CASE UNCHANGED vars
    BY <2>5 DEF vars, Accounting, MeansExact, EverySampleOnce, ReplayBeforeSamples,
                View, Covered, Pushes
  <2> QED
    BY <2>1, <2>2, <2>3, <2>4, <2>5 DEF Next
<1> QED
  BY <1>1, <1>2, TypeCorrect, PTL DEF Spec, Accounting

\* For every interval, capacity and clock: each mean that store_push appends is of
\* exactly the samples of its bucket, and the open bucket adds up all the others.
THEOREM MeansAreExact == Spec => []MeansExact
BY AccountingHolds, PTL

-----------------------------------------------------------------------------
\* The bucket of tier i that ends with b, when the one before it ended with a,
\* spans the interval and at most one late sample more.
Spans(i, a, b) ==
    /\ b.ts - a.ts >= Interval[i]
    /\ \E d \in ClockSteps : b.ts - a.ts < Interval[i] + d

\* Every bucket of s that follows one of this run spans its interval.
AllSpan(i, s) == \A k \in 1 .. Len(s) - 1 : s[k].last > 0 => Spans(i, s[k], s[k + 1])

\* The newest entry of s is a bucket of this run, which replayed history is not.
EndsInBucket(s) == Len(s) > 0 /\ s[Len(s)].last > 0

(***************************************************************************)
(* What makes the width of buckets inductive: the open bucket starts where *)
(* the newest closed one ended, and has not been open for its interval.    *)
(***************************************************************************)
OpenBucket ==
    \A i \in Coarse :
        /\ acc_start[i] # 0 => clock - acc_start[i] < Interval[i]
        /\ EndsInBucket(View(i)) => /\ acc_start[i] # 0
                                    /\ View(i)[Len(View(i))].ts = acc_start[i]

Widths == OpenBucket /\ \A i \in Coarse : AllSpan(i, View(i))

\* Sliding in a bucket that spans its interval keeps the others as they are.
LEMMA SpanSlides ==
  ASSUME NEW i \in Coarse, NEW cap \in Nat \ {0}, NEW s \in Seq(Entry), NEW e \in Entry,
         AllSpan(i, s), EndsInBucket(s) => Spans(i, s[Len(s)], e)
  PROVE  /\ AllSpan(i, Slide(s, cap, e))
         /\ Len(Slide(s, cap, e)) > 0
         /\ Slide(s, cap, e)[Len(Slide(s, cap, e))] = e
<1>1. CASE Len(s) < cap
  <2> DEFINE t == Append(s, e)
  <2>1. Slide(s, cap, e) = t
    BY <1>1 DEF Slide
  <2>2. Len(t) = Len(s) + 1 /\ t[Len(s) + 1] = e /\ \A k \in 1 .. Len(s) : t[k] = s[k]
    OBVIOUS
  <2> HIDE DEF t
  <2>3. ASSUME NEW k \in 1 .. Len(t) - 1, t[k].last > 0
        PROVE  Spans(i, t[k], t[k + 1])
    <3>1. CASE k < Len(s)
      BY <2>2, <2>3, <3>1 DEF AllSpan
    <3>2. CASE k = Len(s)
      BY <2>2, <2>3, <3>2 DEF EndsInBucket
    <3> QED
      BY <2>2, <3>1, <3>2
  <2> QED
    BY <2>1, <2>2, <2>3 DEF AllSpan
<1>2. CASE Len(s) >= cap
  <2> DEFINE t == Append(Tail(s), e)
  <2>1. Slide(s, cap, e) = t
    BY <1>2 DEF Slide
  <2>2. Len(t) = Len(s) /\ t[Len(s)] = e /\ \A k \in 1 .. Len(s) - 1 : t[k] = s[k + 1]
    BY <1>2
  <2> HIDE DEF t
  <2>3. ASSUME NEW k \in 1 .. Len(t) - 1, t[k].last > 0
        PROVE  Spans(i, t[k], t[k + 1])
    <3>1. CASE k + 1 < Len(s)
      BY <2>2, <2>3, <3>1 DEF AllSpan
    <3>2. CASE k + 1 = Len(s)
      BY <2>2, <2>3, <3>2 DEF EndsInBucket
    <3> QED
      BY <2>2, <3>1, <3>2
  <2> QED
    BY <1>2, <2>1, <2>2, <2>3 DEF AllSpan
<1> QED
  BY <1>1, <1>2

\* A sample keeps the widths of one coarse tier, whether it closes the bucket or not.
LEMMA PushWidths ==
  ASSUME TypeOK, Widths, NEW d \in ClockSteps, NEW row \in Row, NEW ts \in Nat \ {0},
         ts = clock + d, clock' = ts, store_push(row, ts), NEW i \in Coarse
  PROVE  /\ acc_start'[i] # 0 => clock' - acc_start'[i] < Interval[i]
         /\ EndsInBucket(View(i)') => /\ acc_start'[i] # 0
                                      /\ View(i)'[Len(View(i)')].ts = acc_start'[i]
         /\ AllSpan(i, View(i)')
<1>1. /\ i \in Tier /\ i # 0 /\ Interval[i] \in Nat \ {0} /\ Capacity[i] \in Nat \ {0}
      /\ acc_start[i] \in Nat /\ d \in Int /\ clock \in Nat
  BY IntervalAssumption, CapacityAssumption, ClockAssumption DEF Tier, Coarse, TypeOK
<1>2. View(i) \in Seq(Entry)
  BY <1>1, ContentsType DEF TypeOK, View
<1>3. /\ acc_start[i] # 0 => clock - acc_start[i] < Interval[i]
      /\ EndsInBucket(View(i)) => acc_start[i] # 0 /\ View(i)[Len(View(i))].ts = acc_start[i]
      /\ AllSpan(i, View(i))
  BY DEF Widths, OpenBucket
<1>4. CASE Closes(i, ts)
  <2>1. acc_start'[i] = ts
    BY <1>4 DEF store_push
  <2>2. PICK e \in Entry : tiers'[i] = Put(tiers[i], Capacity[i], e) /\ e = Mean(i, row, ts)
    BY <1>1, <1>4, PushPuts
  <2>3. e.ts = ts
    BY <2>2 DEF Mean
  <2>4. View(i)' = Slide(View(i), Capacity[i], e)
    BY <1>1, <2>2, PutSlides DEF TypeOK, View
  <2>5. EndsInBucket(View(i)) => Spans(i, View(i)[Len(View(i))], e)
    <3> SUFFICES ASSUME EndsInBucket(View(i))
                 PROVE  Spans(i, View(i)[Len(View(i))], e)
      OBVIOUS
    <3>1. ts - acc_start[i] >= Interval[i] /\ ts - acc_start[i] < Interval[i] + d
      BY <1>1, <1>3, <1>4 DEF Closes, BucketStart
    <3> QED
      BY <1>3, <2>3, <3>1 DEF Spans
  <2>6. AllSpan(i, View(i)') /\ View(i)'[Len(View(i)')] = e
    <3>1. /\ AllSpan(i, Slide(View(i), Capacity[i], e))
          /\ Slide(View(i), Capacity[i], e)[Len(Slide(View(i), Capacity[i], e))] = e
      BY <1>1, <1>2, <1>3, <2>5, SpanSlides, Zenon
    <3> QED
      BY <2>4, <3>1, Zenon
  <2> QED
    BY <1>1, <2>1, <2>3, <2>6
<1>5. CASE ~Closes(i, ts)
  <2>1. acc_start'[i] = BucketStart(i, ts) /\ tiers'[i] = tiers[i]
    BY <1>1, <1>5 DEF store_push
  <2>2. View(i)' = View(i)
    BY <2>1 DEF View
  <2>3. ts - acc_start'[i] < Interval[i]
    BY <1>1, <1>5, <2>1 DEF Closes, BucketStart
  <2>4. acc_start[i] # 0 => acc_start'[i] = acc_start[i]
    BY <2>1 DEF BucketStart
  <2> QED
    BY <1>3, <2>2, <2>3, <2>4
<1> QED
  BY <1>4, <1>5

\* Replaying one saved entry keeps the widths: no bucket of this run comes before it.
LEMMA RestoreWidths ==
  ASSUME TypeOK, Accounting, Widths, NEW i \in Tier, Replay(i)
  PROVE  Widths'
<1>1. PICK e \in SavedEntry : store_restore(i, e)
  BY DEF Replay
<1>2. e \in Entry /\ e.last = 0
  BY SavedType DEF SavedEntry
<1>3. /\ replaying = i /\ tiers'[i] = Put(tiers[i], Capacity[i], e)
      /\ \A j \in Tier \ {i} : tiers'[j] = tiers[j]
      /\ UNCHANGED <<acc_start, clock>>
  BY <1>1 DEF store_restore, TypeOK
<1>4. View(i)' = Slide(View(i), Capacity[i], e) /\ View(i) \in Seq(Entry)
  BY <1>2, <1>3, PutSlides, ContentsType, CapacityAssumption DEF View, TypeOK
<1>5. \A j \in Tier \ {i} : View(j)' = View(j)
  BY <1>3 DEF View
<1>6. ~EndsInBucket(View(i))
  BY <1>3, <1>4 DEF EndsInBucket, Accounting, EverySampleOnce, ReplayBeforeSamples, Follows
<1>7. ASSUME i \in Coarse
      PROVE  AllSpan(i, View(i)') /\ ~EndsInBucket(View(i)')
  <2>1. AllSpan(i, View(i)') /\ View(i)'[Len(View(i)')] = e
    BY <1>2, <1>4, <1>6, <1>7, SpanSlides, CapacityAssumption DEF Widths
  <2> QED
    BY <1>2, <2>1 DEF EndsInBucket
<1>8. ASSUME NEW j \in Coarse
      PROVE  /\ acc_start'[j] # 0 => clock' - acc_start'[j] < Interval[j]
             /\ EndsInBucket(View(j)') => /\ acc_start'[j] # 0
                                          /\ View(j)'[Len(View(j)')].ts = acc_start'[j]
             /\ AllSpan(j, View(j)')
  <2>1. CASE j = i
    BY <1>3, <1>7, <2>1 DEF Widths, OpenBucket
  <2>2. CASE j # i
    <3>1. View(j)' = View(j)
      BY <1>5, <2>2 DEF Tier, Coarse
    <3> QED
      BY <1>3, <3>1 DEF Widths, OpenBucket
  <2> QED
    BY <2>1, <2>2
<1> QED
  BY <1>8 DEF Widths, OpenBucket

\* The widths of buckets and the age of the open one are kept in step.
LEMMA WidthsHold == Spec => []Widths
<1>1. Init => Widths
  <2> SUFFICES ASSUME Init PROVE Widths
    OBVIOUS
  <2>1. \A i \in Tier : View(i) = << >>
    BY CapacityAssumption, EmptyRingIsEmpty DEF Init, View
  <2>2. \A i \in Coarse : View(i) = << >> /\ acc_start[i] = 0
    BY <2>1 DEF Init, Tier, Coarse
  <2> QED
    BY <2>2 DEF Widths, OpenBucket, AllSpan, EndsInBucket
<1>2. TypeOK /\ Accounting /\ Widths /\ [Next]_vars => Widths'
  <2> SUFFICES ASSUME TypeOK, Accounting, Widths, [Next]_vars PROVE Widths'
    OBVIOUS
  <2>1. CASE Sample
    <3>1. PICK d \in ClockSteps, row \in [Metrics -> RawReading] :
             clock + d \in 1 .. MaxClock /\ clock' = clock + d /\ store_push(row, clock + d)
      BY <2>1 DEF Sample
    <3>2. clock + d \in Nat \ {0} /\ row \in Row
      BY <3>1, RowTypes, ClockAssumption
    <3>3. \A i \in Coarse :
             /\ acc_start'[i] # 0 => clock' - acc_start'[i] < Interval[i]
             /\ EndsInBucket(View(i)') => /\ acc_start'[i] # 0
                                          /\ View(i)'[Len(View(i)')].ts = acc_start'[i]
             /\ AllSpan(i, View(i)')
      BY <3>1, <3>2, PushWidths
    <3> QED
      BY <3>3 DEF Widths, OpenBucket
  <2>2. CASE \E i \in Tier : BeginReplay(i)
    BY <2>2 DEF BeginReplay, Widths, OpenBucket, View
  <2>3. CASE \E i \in Tier : Replay(i)
    BY <2>3, RestoreWidths
  <2>4. CASE EndReplay
    BY <2>4 DEF EndReplay, Widths, OpenBucket, View
  <2>5. CASE UNCHANGED vars
    BY <2>5 DEF vars, Widths, OpenBucket, View
  <2> QED
    BY <2>1, <2>2, <2>3, <2>4, <2>5 DEF Next
<1>3. Spec => []Accounting
  BY AccountingHolds DEF Accounting
<1> QED
  BY <1>1, <1>2, <1>3, TypeCorrect, PTL DEF Spec

(***************************************************************************)
(* For every interval, capacity and clock, one that is set back included:  *)
(* a coarse bucket spans at least its interval and at most one late sample *)
(* more, so store_push closes no bucket early, lets none run on, and coarse*)
(* tiers are read oldest first.                                            *)
(***************************************************************************)
THEOREM BucketsSpanIntervals == Spec => []BucketWidth
<1>1. Widths => BucketWidth
  BY DEF Widths, AllSpan, Spans, BucketWidth
<1> QED
  BY <1>1, WidthsHold, PTL


-----------------------------------------------------------------------------
\* The entries of a tier that stand for samples of this run.
Own(i) == {View(i)[k] : k \in {j \in 1 .. Len(View(i)) : View(i)[j].last > 0}}

\* A bucket is open in every coarse tier as soon as there is a sample.
Begun == \A i \in Coarse : acc_start[i] = 0 <=> Pushes = 0

\* Closing the open bucket of a tier leaves no entry and no open bucket of any
\* tier ahead of it, although the clock may have been set back.
OpenLast ==
    \A i \in Coarse : acc_start[i] # 0 =>
        /\ \A a \in Tier : \A e \in Own(a) : e.ts < acc_start[i] + Interval[i]
        /\ \A a \in Coarse : acc_start[a] < acc_start[i] + Interval[i]

\* A bucket closed with a sample that is in an open bucket is not older than that.
ClosedLater ==
    \A a, i \in Coarse : \A b \in Own(i) : b.last > opened[a] => b.ts >= acc_start[a]

\* An entry e of tier a is stamped no later than b, or, when tier a is coarse, by
\* less than a bucket.
NotLater(a, e, b) ==
    IF a = 0 THEN e.ts <= b.ts ELSE \E d \in ClockSteps : e.ts - b.ts < Interval[a] + d

\* A coarse bucket that ends after an entry of another tier starts is not older
\* than it, up to a bucket of that tier.
InStep ==
    \A a \in Tier, i \in Coarse : \A e \in Own(a), b \in Own(i) :
        e.first < b.last => NotLater(a, e, b)

\* The newest entry of the finest tier is the latest sample.
NewestNow ==
    Len(View(0)) > 0 /\ View(0)[Len(View(0))].last > 0 => View(0)[Len(View(0))].ts = clock

Ages == Begun /\ OpenLast /\ ClosedLater /\ InStep /\ NewestNow

\* What slides into a sequence is all that it gains.
LEMMA SlideGains ==
  ASSUME NEW cap \in Nat \ {0}, NEW s \in Seq(Entry), NEW e \in Entry
  PROVE  /\ Len(Slide(s, cap, e)) > 0 /\ Slide(s, cap, e)[Len(Slide(s, cap, e))] = e
         /\ \A k \in 1 .. Len(Slide(s, cap, e)) :
               \/ Slide(s, cap, e)[k] = e
               \/ \E j \in 1 .. Len(s) : Slide(s, cap, e)[k] = s[j]
<1>1. CASE Len(s) < cap
  <2>1. Len(Append(s, e)) = Len(s) + 1 /\ \A k \in 1 .. Len(s) + 1 :
           Append(s, e)[k] = IF k <= Len(s) THEN s[k] ELSE e
    OBVIOUS
  <2> QED
    BY <1>1, <2>1 DEF Slide
<1>2. CASE Len(s) >= cap
  <2>1. Len(Append(Tail(s), e)) = Len(s) /\ \A k \in 1 .. Len(s) :
           Append(Tail(s), e)[k] = IF k < Len(s) THEN s[k + 1] ELSE e
    BY <1>2
  <2> QED
    BY <1>2, <2>1 DEF Slide
<1> QED
  BY <1>1, <1>2

\* Entries of this run are entries, and stand for samples that were pushed.
LEMMA OwnType ==
  ASSUME TypeOK, Accounting, NEW i \in Tier
  PROVE  /\ View(i) \in Seq(Entry)
         /\ \A e \in Own(i) : /\ e \in Entry /\ e.ts \in Int /\ e.first \in Nat /\ e.last \in Nat
                              /\ e.first < e.last /\ e.last <= Pushes
<1>1. View(i) \in Seq(Entry)
  BY ContentsType, CapacityAssumption DEF TypeOK, View
<1>2. ASSUME NEW k \in 1 .. Len(View(i)), View(i)[k].last > 0
      PROVE  /\ View(i)[k] \in Entry /\ View(i)[k].ts \in Int
             /\ View(i)[k].first \in Nat /\ View(i)[k].last \in Nat
             /\ View(i)[k].first < View(i)[k].last /\ View(i)[k].last <= Pushes
  <2>1. View(i)[k] \in Entry
    BY <1>1
  <2>2. View(i)[k].first < View(i)[k].last /\ View(i)[k].last < Len(total)
    BY <1>2 DEF Accounting, MeansExact, ExactEntry
  <2> QED
    BY <2>1, <2>2 DEF Entry, Pushes, TypeOK
<1> QED
  BY <1>1, <1>2 DEF Own

\* The entry a push puts into a tier.
LEMMA PushView ==
  ASSUME TypeOK, Accounting, NEW row \in Row, NEW ts \in Nat, store_push(row, ts), NEW i \in Tier
  PROVE  \/ /\ i # 0 /\ ~Closes(i, ts) /\ View(i)' = View(i)
         \/ /\ i = 0 \/ Closes(i, ts)
            /\ \E e \in Entry : /\ View(i)' = Slide(View(i), Capacity[i], e)
                                /\ e.ts = ts /\ e.first = Covered(i) /\ e.last = Pushes + 1
<1>1. CASE i # 0 /\ ~Closes(i, ts)
  BY <1>1 DEF store_push, View
<1>2. CASE i = 0 \/ Closes(i, ts)
  <2>1. PICK e \in Entry :
           /\ tiers'[i] = Put(tiers[i], Capacity[i], e)
           /\ e = IF i = 0
                  THEN [ts |-> ts, row |-> row, first |-> Pushes, last |-> Pushes + 1]
                  ELSE Mean(i, row, ts)
    BY <1>2, PushPuts
  <2>2. View(i)' = Slide(View(i), Capacity[i], e)
    BY <2>1, PutSlides, CapacityAssumption DEF TypeOK, View
  <2>3. e.ts = ts /\ e.first = Covered(i) /\ e.last = Pushes + 1
    BY <2>1 DEF Mean, Covered
  <2> QED
    BY <1>2, <2>2, <2>3
<1> QED
  BY <1>1, <1>2

\* What a push adds to the entries of this run.
LEMMA PushOwns ==
  ASSUME TypeOK, Accounting, NEW row \in Row, NEW ts \in Nat, store_push(row, ts), NEW i \in Tier,
         NEW e \in Own(i)'
  PROVE  \/ e \in Own(i)
         \/ /\ i = 0 \/ Closes(i, ts)
            /\ e.ts = ts /\ e.first = Covered(i) /\ e.last = Pushes + 1
<1>1. PICK k \in 1 .. Len(View(i)') : View(i)'[k].last > 0 /\ e = View(i)'[k]
  BY DEF Own
<1>2. CASE i # 0 /\ ~Closes(i, ts) /\ View(i)' = View(i)
  BY <1>1, <1>2 DEF Own
<1>3. CASE \/ i = 0
           \/ Closes(i, ts)
  <2>1. PICK f \in Entry : /\ View(i)' = Slide(View(i), Capacity[i], f)
                           /\ f.ts = ts /\ f.first = Covered(i) /\ f.last = Pushes + 1
    BY <1>3, PushView
  <2>2. e = f \/ \E j \in 1 .. Len(View(i)) : e = View(i)[j]
    <3>1. View(i) \in Seq(Entry) /\ Capacity[i] \in Nat \ {0}
      BY OwnType, CapacityAssumption
    <3>2. \A j \in 1 .. Len(Slide(View(i), Capacity[i], f)) :
             \/ Slide(View(i), Capacity[i], f)[j] = f
             \/ \E l \in 1 .. Len(View(i)) : Slide(View(i), Capacity[i], f)[j] = View(i)[l]
      BY <3>1, SlideGains
    <3> QED
      BY <1>1, <2>1, <3>2
  <2> QED
    BY <1>1, <1>3, <2>1, <2>2 DEF Own
<1> QED
  BY <1>2, <1>3, PushView

\* A push keeps the ages of entries and open buckets in step.
LEMMA PushAges ==
  ASSUME TypeOK, Accounting, OpenBucket, Ages, NEW d \in ClockSteps, NEW row \in Row,
         NEW ts \in Nat \ {0}, ts = clock + d, clock' = ts, store_push(row, ts)
  PROVE  Ages'
<1>1. /\ Pushes \in Nat /\ Pushes' = Pushes + 1 /\ d \in Int /\ clock \in Nat
      /\ 0 \in Tier /\ \A i \in Coarse : i \in Tier /\ i # 0
  BY TiersAssumption, ClockAssumption DEF TypeOK, store_push, Pushes, Tier, Coarse
<1>2. ASSUME NEW i \in Coarse
      PROVE  /\ acc_start[i] \in Nat /\ Interval[i] \in Nat \ {0} /\ opened[i] \in Nat
             /\ opened[i] <= Pushes
             /\ acc_start[i] = 0 => Pushes = 0
             /\ acc_start[i] # 0 => clock < acc_start[i] + Interval[i]
  BY <1>1, IntervalAssumption DEF TypeOK, Accounting, MeansExact, OpenBucket, Ages, Begun
<1>3. ASSUME NEW i \in Coarse, Closes(i, ts)
      PROVE  /\ acc_start[i] # 0 /\ ts >= acc_start[i] + Interval[i] /\ d >= 1
             /\ acc_start'[i] = ts /\ opened'[i] = Pushes + 1
  BY <1>1, <1>2, <1>3 DEF Closes, BucketStart, store_push
<1>4. ASSUME NEW i \in Coarse, ~Closes(i, ts)
      PROVE  /\ acc_start'[i] = (IF acc_start[i] = 0 THEN ts ELSE acc_start[i])
             /\ ts < acc_start'[i] + Interval[i] /\ opened'[i] = opened[i]
  BY <1>1, <1>2, <1>4 DEF Closes, BucketStart, store_push
<1>5. \A i \in Coarse : acc_start'[i] # 0 /\ acc_start'[i] \in Nat
  BY <1>2, <1>3, <1>4
<1>6. \A i \in Coarse : acc_start'[i] = ts \/ (acc_start'[i] = acc_start[i] /\ acc_start[i] # 0)
  BY <1>3, <1>4
<1>7. ASSUME NEW a \in Tier, NEW e \in Own(a)'
      PROVE  \/ e \in Own(a) /\ Pushes > 0
             \/ /\ a = 0 \/ Closes(a, ts)
                /\ e.ts = ts /\ e.first = Covered(a) /\ e.last = Pushes + 1
  BY <1>1, PushOwns, OwnType
<1>8. \A a \in Tier : \A e \in Own(a) : /\ e.ts \in Int /\ e.first \in Nat /\ e.last \in Nat
                                        /\ e.last <= Pushes /\ Pushes > 0
  BY <1>1, OwnType
<1>9. Begun'
  BY <1>1, <1>5 DEF Begun
<1>10. OpenLast'
  <2>1. ASSUME NEW i \in Coarse, NEW a \in Tier, NEW e \in Own(a)'
        PROVE  e.ts < acc_start'[i] + Interval[i]
    <3>1. CASE e \in Own(a)
      <4>1. e.ts < acc_start[i] + Interval[i] /\ acc_start[i] # 0
        BY <1>2, <1>8, <3>1 DEF Ages, OpenLast
      <4> QED
        BY <1>2, <1>3, <1>4, <1>8, <3>1, <4>1
    <3>2. CASE e.ts = ts
      BY <1>2, <1>3, <1>4, <3>2
    <3> QED
      BY <1>7, <3>1, <3>2
  <2>2. ASSUME NEW i \in Coarse, NEW a \in Coarse
        PROVE  acc_start'[a] < acc_start'[i] + Interval[i]
    <3>1. CASE acc_start'[a] = acc_start[a] /\ acc_start[a] # 0
      <4>1. acc_start[a] < acc_start[i] + Interval[i] /\ acc_start[i] # 0
        BY <1>1, <1>2, <3>1 DEF Ages, Begun, OpenLast
      <4> QED
        BY <1>2, <1>3, <1>4, <3>1, <4>1
    <3>2. CASE acc_start'[a] = ts
      BY <1>2, <1>3, <1>4, <3>2
    <3> QED
      BY <1>6, <3>1, <3>2
  <2> QED
    BY <2>1, <2>2 DEF OpenLast
<1>11. ClosedLater'
  <2> SUFFICES ASSUME NEW a \in Coarse, NEW i \in Coarse, NEW b \in Own(i)', b.last > opened'[a]
               PROVE  b.ts >= acc_start'[a]
    BY DEF ClosedLater
  <2>1. CASE Closes(a, ts)
    BY <1>1, <1>3, <1>7, <1>8, <2>1
  <2>2. CASE ~Closes(a, ts) /\ b \in Own(i)
    <3>1. acc_start[a] # 0 /\ b.ts >= acc_start[a]
      BY <1>1, <1>2, <1>4, <1>8, <2>2 DEF Ages, ClosedLater
    <3> QED
      BY <1>4, <2>2, <3>1
  <2>3. CASE ~Closes(a, ts) /\ b.ts = ts /\ Closes(i, ts)
    <3>1. acc_start[a] < acc_start[i] + Interval[i]
      BY <1>3, <2>3 DEF Ages, OpenLast
    <3> QED
      BY <1>2, <1>3, <1>4, <2>3, <3>1
  <2> QED
    BY <1>1, <1>7, <2>1, <2>2, <2>3
<1>12. InStep'
  <2> SUFFICES ASSUME NEW a \in Tier, NEW i \in Coarse, NEW e \in Own(a)', NEW b \in Own(i)',
                      e.first < b.last
               PROVE  NotLater(a, e, b)
    BY DEF InStep, NotLater
  <2>1. CASE e \in Own(a) /\ b \in Own(i)
    BY <2>1 DEF Ages, InStep
  <2>2. CASE b.ts = ts /\ Closes(i, ts)
    <3>1. e.ts <= ts /\ e.ts \in Int
      <4>1. CASE e \in Own(a)
        <5>1. e.ts < acc_start[i] + Interval[i]
          BY <1>3, <2>2, <4>1 DEF Ages, OpenLast
        <5> QED
          BY <1>2, <1>3, <1>8, <2>2, <4>1, <5>1
      <4>2. CASE e.ts = ts
        BY <4>2
      <4> QED
        BY <1>7, <4>1, <4>2
    <3>2. CASE a = 0
      BY <2>2, <3>1, <3>2 DEF NotLater
    <3>3. CASE a # 0
      <4>1. a \in Coarse
        BY <3>3, TiersAssumption DEF Tier, Coarse
      <4>2. e.ts - b.ts < Interval[a] + d
        BY <1>1, <1>2, <1>3, <2>2, <3>1, <4>1
      <4> QED
        BY <3>3, <4>2 DEF NotLater
    <3> QED
      BY <3>2, <3>3
  <2>3. CASE /\ a = 0 \/ Closes(a, ts)
             /\ e.ts = ts /\ e.first = Covered(a)
             /\ b \in Own(i)
    <3>1. a # 0
      BY <1>1, <1>8, <2>3 DEF Covered
    <3>2. a \in Coarse /\ Closes(a, ts)
      BY <2>3, <3>1, TiersAssumption DEF Tier, Coarse
    <3>3. b.last > opened[a] /\ b.ts \in Int
      BY <1>1, <1>2, <1>8, <2>3, <3>1, <3>2 DEF Covered
    <3>4. b.ts >= acc_start[a]
      BY <2>3, <3>2, <3>3 DEF Ages, ClosedLater
    <3>5. e.ts - b.ts < Interval[a] + d
      BY <1>1, <1>2, <1>3, <2>3, <3>2, <3>3, <3>4
    <3> QED
      BY <3>1, <3>5 DEF NotLater
  <2> QED
    BY <1>1, <1>7, <2>1, <2>2, <2>3
<1>13. NewestNow'
  <2>1. PICK e \in Entry : View(0)' = Slide(View(0), Capacity[0], e) /\ e.ts = ts
    BY <1>1, PushView
  <2>2. View(0) \in Seq(Entry) /\ Capacity[0] \in Nat \ {0}
    BY <1>1, OwnType, CapacityAssumption
  <2>3. Slide(View(0), Capacity[0], e)[Len(Slide(View(0), Capacity[0], e))] = e
    BY <2>2, SlideGains, ZenonT(60)
  <2> QED
    BY <2>1, <2>3 DEF NewestNow
<1> QED
  BY <1>9, <1>10, <1>11, <1>12, <1>13 DEF Ages

\* Replaying saved history leaves the entries of this run as they are.
LEMMA RestoreAges ==
  ASSUME TypeOK, Accounting, Ages, NEW i \in Tier, Replay(i)
  PROVE  Ages'
<1>1. PICK e \in SavedEntry : store_restore(i, e)
  BY DEF Replay
<1>2. e \in Entry /\ e.last = 0
  BY SavedType DEF SavedEntry
<1>3. /\ tiers'[i] = Put(tiers[i], Capacity[i], e)
      /\ \A j \in Tier \ {i} : tiers'[j] = tiers[j]
      /\ UNCHANGED <<acc_start, clock, total, opened>>
  BY <1>1 DEF store_restore, TypeOK
<1>4. View(i)' = Slide(View(i), Capacity[i], e) /\ View(i) \in Seq(Entry) /\ Capacity[i] \in Nat \ {0}
  BY <1>2, <1>3, PutSlides, ContentsType, CapacityAssumption DEF View, TypeOK
<1>5. \A j \in Tier \ {i} : View(j)' = View(j)
  BY <1>3 DEF View
<1>6. \A k \in 1 .. Len(View(i)') :
         View(i)'[k] = e \/ \E j \in 1 .. Len(View(i)) : View(i)'[k] = View(i)[j]
  <2>1. \A k \in 1 .. Len(Slide(View(i), Capacity[i], e)) :
           \/ Slide(View(i), Capacity[i], e)[k] = e
           \/ \E j \in 1 .. Len(View(i)) : Slide(View(i), Capacity[i], e)[k] = View(i)[j]
    <3>1. e \in Entry /\ View(i) \in Seq(Entry) /\ Capacity[i] \in Nat \ {0}
      BY <1>2, <1>4
    <3> QED
      BY <3>1, SlideGains
  <2> QED
    BY <1>4, <2>1
<1>7. \A j \in Tier : Own(j)' \subseteq Own(j)
  <2>1. Own(i)' \subseteq Own(i)
    BY <1>2, <1>6 DEF Own
  <2>2. \A j \in Tier \ {i} : Own(j)' = Own(j)
    BY <1>5 DEF Own
  <2> QED
    BY <2>1, <2>2
<1>8. \A j \in Coarse : j \in Tier
  BY DEF Tier, Coarse
<1>9. Begun' /\ OpenLast' /\ ClosedLater' /\ InStep'
  BY <1>3, <1>7, <1>8 DEF Ages, Begun, OpenLast, ClosedLater, InStep, NotLater, Pushes
<1>10. NewestNow'
  <2>1. CASE i = 0
    <3>1. Slide(View(0), Capacity[0], e)[Len(Slide(View(0), Capacity[0], e))] = e
      <4>1. View(0) \in Seq(Entry) /\ Capacity[0] \in Nat \ {0} /\ e \in Entry
        BY <1>2, <1>4, <2>1
      <4> QED
        BY <4>1, SlideGains
    <3>2. View(0)' = Slide(View(0), Capacity[0], e)
      BY <1>4, <2>1 DEF View
    <3>3. View(0)'[Len(View(0)')] = e
      BY <3>1, <3>2, Zenon
    <3> QED
      BY <1>2, <3>3 DEF NewestNow
  <2>2. CASE i # 0
    <3>1. View(0)' = View(0)
      BY <1>5, <2>2, TiersAssumption DEF Tier
    <3> QED
      BY <1>3, <3>1 DEF Ages, NewestNow
  <2> QED
    BY <2>1, <2>2
<1> QED
  BY <1>9, <1>10 DEF Ages

-----------------------------------------------------------------------------
\* What lies between an entry x of tier i and an entry y, n places later.
Between(i, x, y, n) ==
    /\ x.first <= x.last /\ x.first <= y.first /\ x.last <= y.last
    /\ x.last > 0 => /\ y.last - x.last >= n
                     /\ i = 0 => y.last - x.first <= n + 1
                     /\ i # 0 => y.ts - x.ts >= n * Interval[i]

\* The entries of s are in order: samples from one to the next, seconds in between.
Lined(i, s) == \A m \in 1 .. Len(s) : \A k \in 1 .. m : Between(i, s[k], s[m], m - k)

\* A tier that is not full has forgotten nothing.
Whole(i, s) == Len(s) \in 1 .. Capacity[i] - 1 => s[1].first = 0

AllLined == \A i \in Tier : Lined(i, View(i)) /\ Whole(i, View(i))

\* Entry z may follow y in tier i.
NextTo(i, y, z) ==
    /\ z.first = y.last
    /\ i # 0 /\ y.last > 0 => z.ts - y.ts >= Interval[i]

\* One interval more.
LEMMA OneMore == \A n, c \in Nat : (n + 1) * c = n * c + c /\ n * c \in Nat
  BY SMT

\* One place further.
LEMMA BetweenAdds ==
  ASSUME NEW i \in Tier, NEW x \in Entry, NEW y \in Entry, NEW z \in Entry, NEW n \in Nat,
         Between(i, x, y, n), Between(i, z, z, 0), z.last > 0 => z.first < z.last,
         NextTo(i, y, z)
  PROVE  Between(i, x, z, n + 1)
<1>1. /\ x.ts \in Int /\ x.first \in Nat /\ x.last \in Nat
      /\ y.ts \in Int /\ y.first \in Nat /\ y.last \in Nat
      /\ z.ts \in Int /\ z.first \in Nat /\ z.last \in Nat /\ Interval[i] \in Nat
  BY IntervalAssumption DEF Entry
<1>2. z.first = y.last /\ z.first <= z.last /\ (z.last > 0 => z.first < z.last)
  BY DEF NextTo, Between
<1>3. x.first <= x.last /\ x.first <= y.first /\ x.last <= y.last
  BY DEF Between
<1>4. ASSUME x.last > 0
      PROVE  /\ z.last - x.last >= n + 1
             /\ i = 0 => z.last - x.first <= (n + 1) + 1
             /\ i # 0 => z.ts - x.ts >= (n + 1) * Interval[i]
  <2>1. y.last - x.last >= n /\ y.last > 0 /\ z.last > 0
    BY <1>1, <1>2, <1>3, <1>4 DEF Between
  <2>2. ASSUME i = 0
        PROVE  z.last - x.first <= (n + 1) + 1
    <3>1. y.last - x.first <= n + 1
      BY <1>4, <2>2 DEF Between
    <3>2. z.last - z.first <= 0 + 1
      BY <2>1, <2>2 DEF Between
    <3> QED
      BY <1>1, <1>2, <3>1, <3>2
  <2>3. ASSUME i # 0
        PROVE  z.ts - x.ts >= (n + 1) * Interval[i]
    <3>1. y.ts - x.ts >= n * Interval[i]
      BY <1>4, <2>3 DEF Between
    <3>2. z.ts - y.ts >= Interval[i]
      BY <2>1, <2>3 DEF NextTo
    <3>3. (n + 1) * Interval[i] = n * Interval[i] + Interval[i] /\ n * Interval[i] \in Nat
      BY <1>1, OneMore
    <3> QED
      BY <1>1, <3>1, <3>2, <3>3
  <2> QED
    BY <1>1, <1>2, <2>1, <2>2, <2>3
<1>5. x.first <= z.first /\ x.last <= z.last
  BY <1>1, <1>2, <1>3
<1> QED
  BY <1>3, <1>4, <1>5 DEF Between

\* Two places of an ordered sequence.
LEMMA LinedAt ==
  ASSUME NEW i, NEW s, Lined(i, s), NEW m \in 1 .. Len(s), NEW k \in 1 .. m, NEW n, n = m - k
  PROVE  Between(i, s[k], s[m], n)
  BY DEF Lined

\* Sliding in an entry that may follow the newest one keeps the others in order.
LEMMA LinedSlides ==
  ASSUME NEW i \in Tier, NEW cap \in Nat \ {0}, NEW s \in Seq(Entry), NEW e \in Entry,
         Lined(i, s), Between(i, e, e, 0), e.last > 0 => e.first < e.last,
         Len(s) > 0 => NextTo(i, s[Len(s)], e)
  PROVE  Lined(i, Slide(s, cap, e))
<1>1. ASSUME NEW k \in 1 .. Len(s)
      PROVE  Between(i, s[k], e, Len(s) + 1 - k)
  <2>1. Len(s) \in 1 .. Len(s) /\ s[k] \in Entry /\ s[Len(s)] \in Entry
    OBVIOUS
  <2>a. Between(i, s[k], s[Len(s)], Len(s) - k)
    BY <2>1, LinedAt
  <2>2. NextTo(i, s[Len(s)], e) /\ Len(s) - k \in Nat
    OBVIOUS
  <2>3. Between(i, s[k], e, (Len(s) - k) + 1)
    BY <2>1, <2>a, <2>2, BetweenAdds
  <2>4. (Len(s) - k) + 1 = Len(s) + 1 - k
    OBVIOUS
  <2> QED
    BY <2>3, <2>4
<1>2. CASE Len(s) < cap
  <2> DEFINE t == Append(s, e)
  <2>1. Slide(s, cap, e) = t
    BY <1>2 DEF Slide
  <2>2. Len(t) = Len(s) + 1 /\ t[Len(s) + 1] = e /\ \A k \in 1 .. Len(s) : t[k] = s[k]
    OBVIOUS
  <2> HIDE DEF t
  <2>3. ASSUME NEW m \in 1 .. Len(t), NEW k \in 1 .. m
        PROVE  Between(i, t[k], t[m], m - k)
    <3>1. CASE m <= Len(s)
      <4>1. m \in 1 .. Len(s) /\ t[k] = s[k] /\ t[m] = s[m]
        BY <2>2, <3>1
      <4> QED
        BY <4>1, LinedAt
    <3>2. CASE m = Len(s) + 1 /\ k <= Len(s)
      BY <1>1, <2>2, <3>2
    <3>3. CASE m = Len(s) + 1 /\ k = m
      <4>1. m - k = 0
        BY <3>3
      <4> QED
        BY <2>2, <3>3, <4>1
    <3> QED
      BY <2>2, <3>1, <3>2, <3>3
  <2> QED
    BY <2>1, <2>3 DEF Lined
<1>3. CASE Len(s) >= cap
  <2> DEFINE t == Append(Tail(s), e)
  <2>1. Slide(s, cap, e) = t
    BY <1>3 DEF Slide
  <2>2. /\ Len(t) = Len(s) /\ Len(s) > 0 /\ t[Len(s)] = e
        /\ \A k \in 1 .. Len(s) - 1 : t[k] = s[k + 1]
    BY <1>3
  <2> HIDE DEF t
  <2>3. ASSUME NEW m \in 1 .. Len(t), NEW k \in 1 .. m
        PROVE  Between(i, t[k], t[m], m - k)
    <3>1. CASE m < Len(s)
      <4>1. /\ t[k] = s[k + 1] /\ t[m] = s[m + 1] /\ m - k = (m + 1) - (k + 1)
            /\ m + 1 \in 1 .. Len(s) /\ k + 1 \in 1 .. m + 1
        BY <2>2, <3>1
      <4>2. Between(i, s[k + 1], s[m + 1], m - k)
        BY <4>1, LinedAt
      <4> QED
        BY <4>1, <4>2
    <3>2. CASE m = Len(s) /\ k < Len(s)
      <4>1. /\ t[k] = s[k + 1] /\ t[m] = e /\ Len(s) + 1 - (k + 1) = m - k
            /\ k + 1 \in 1 .. Len(s)
        BY <2>2, <3>2
      <4>2. Between(i, s[k + 1], e, Len(s) + 1 - (k + 1))
        BY <1>1, <4>1
      <4> QED
        BY <4>1, <4>2
    <3>3. CASE m = Len(s) /\ k = m
      <4>1. m - k = 0
        BY <3>3
      <4> QED
        BY <2>2, <3>3, <4>1
    <3> QED
      BY <2>2, <3>1, <3>2, <3>3
  <2> QED
    BY <2>1, <2>3 DEF Lined
<1> QED
  BY <1>2, <1>3

\* A tier that has forgotten nothing has a first entry that starts with the run.
LEMMA WholeSlides ==
  ASSUME NEW i \in Tier, NEW s \in Seq(Entry), NEW e \in Entry, Whole(i, s), Len(s) = 0 => e.first = 0
  PROVE  Whole(i, Slide(s, Capacity[i], e))
<1>1. Capacity[i] \in Nat \ {0}
  BY CapacityAssumption
<1>2. CASE Len(s) < Capacity[i]
  <2>1. /\ Len(Append(s, e)) = Len(s) + 1
        /\ Append(s, e)[1] = IF Len(s) = 0 THEN e ELSE s[1]
    OBVIOUS
  <2> QED
    BY <1>1, <1>2, <2>1 DEF Slide, Whole
<1>3. CASE Len(s) >= Capacity[i]
  <2>1. Len(Append(Tail(s), e)) = Len(s)
    BY <1>1, <1>3
  <2> QED
    BY <1>1, <1>3, <2>1 DEF Slide, Whole
<1> QED
  BY <1>1, <1>2, <1>3

\* A push keeps the entries of a tier in order.
LEMMA PushLined ==
  ASSUME TypeOK, Accounting, OpenBucket, AllLined, NEW row \in Row, NEW ts \in Nat \ {0},
         store_push(row, ts)
  PROVE  AllLined'
<1> SUFFICES ASSUME NEW i \in Tier
             PROVE  Lined(i, View(i)') /\ Whole(i, View(i)')
  BY DEF AllLined, Lined, Whole, Between
<1>1. /\ View(i) \in Seq(Entry) /\ Capacity[i] \in Nat \ {0} /\ Interval[i] \in Nat \ {0}
      /\ Lined(i, View(i)) /\ Whole(i, View(i)) /\ Follows(View(i), Covered(i))
  BY OwnType, CapacityAssumption, IntervalAssumption
     DEF AllLined, Accounting, EverySampleOnce
<1>2. Pushes \in Nat /\ Covered(i) \in Nat /\ Covered(i) <= Pushes
      /\ (i = 0 => Covered(i) = Pushes) /\ (i # 0 => i \in Coarse)
  BY TiersAssumption DEF Covered, TypeOK, Accounting, MeansExact, Pushes, Tier, Coarse
<1>3. CASE View(i)' = View(i)
  BY <1>1, <1>3
<1>4. CASE i = 0 \/ Closes(i, ts)
  <2>1. PICK e \in Entry : /\ View(i)' = Slide(View(i), Capacity[i], e)
                           /\ e.ts = ts /\ e.first = Covered(i) /\ e.last = Pushes + 1
    BY <1>4, PushView
  <2>2. Between(i, e, e, 0)
    <3>1. e.last - e.last = 0 /\ e.ts - e.ts = 0 /\ 0 * Interval[i] = 0
      BY <1>1, <1>2, <2>1
    <3> QED
      BY <1>2, <2>1, <3>1 DEF Between
  <2>3. ASSUME Len(View(i)) > 0
        PROVE  NextTo(i, View(i)[Len(View(i))], e)
    <3>1. e.first = View(i)[Len(View(i))].last
      BY <1>1, <2>1, <2>3 DEF Follows
    <3>2. ASSUME i # 0, View(i)[Len(View(i))].last > 0
          PROVE  e.ts - View(i)[Len(View(i))].ts >= Interval[i]
      <4>1. acc_start[i] # 0 /\ View(i)[Len(View(i))].ts = acc_start[i]
        BY <1>2, <2>3, <3>2 DEF OpenBucket, EndsInBucket
      <4>2. ts - acc_start[i] >= Interval[i]
        BY <1>4, <3>2, <4>1 DEF Closes, BucketStart
      <4> QED
        BY <2>1, <4>1, <4>2
    <3> QED
      BY <3>1, <3>2 DEF NextTo
  <2>4. e.first < e.last
    BY <1>2, <2>1
  <2>5. Lined(i, Slide(View(i), Capacity[i], e))
    BY <1>1, <2>2, <2>3, <2>4, LinedSlides
  <2>6. Len(View(i)) = 0 => e.first = 0
    BY <1>1, <2>1 DEF Follows
  <2>7. Whole(i, Slide(View(i), Capacity[i], e))
    BY <1>1, <2>6, WholeSlides
  <2> QED
    BY <2>1, <2>5, <2>7
<1> QED
  BY <1>3, <1>4, PushView

\* Replaying one saved entry keeps the entries of a tier in order.
LEMMA RestoreLined ==
  ASSUME TypeOK, Accounting, AllLined, NEW i \in Tier, Replay(i)
  PROVE  AllLined'
<1>1. PICK e \in SavedEntry : store_restore(i, e)
  BY DEF Replay
<1>2. e \in Entry /\ e.first = 0 /\ e.last = 0 /\ e.ts \in Int
  BY SavedType DEF SavedEntry, Entry
<1>3. /\ replaying = i /\ tiers'[i] = Put(tiers[i], Capacity[i], e)
      /\ \A j \in Tier \ {i} : tiers'[j] = tiers[j]
  BY <1>1 DEF store_restore, TypeOK
<1>4. View(i)' = Slide(View(i), Capacity[i], e) /\ View(i) \in Seq(Entry) /\ Capacity[i] \in Nat \ {0}
  BY <1>2, <1>3, PutSlides, ContentsType, CapacityAssumption DEF View, TypeOK
<1>5. \A j \in Tier \ {i} : View(j)' = View(j)
  BY <1>3 DEF View
<1>6. Lined(i, View(i)) /\ Whole(i, View(i)) /\ Follows(View(i), 0)
  BY <1>3 DEF AllLined, Accounting, EverySampleOnce, ReplayBeforeSamples
<1>7. Between(i, e, e, 0)
  <2>1. e.ts - e.ts = 0 /\ 0 * Interval[i] = 0
    BY <1>2, IntervalAssumption
  <2> QED
    BY <1>2, <2>1 DEF Between
<1>8. Len(View(i)) > 0 => NextTo(i, View(i)[Len(View(i))], e)
  BY <1>2, <1>4, <1>6 DEF NextTo, Follows
<1>9. Lined(i, Slide(View(i), Capacity[i], e)) /\ Whole(i, Slide(View(i), Capacity[i], e))
  BY <1>2, <1>4, <1>6, <1>7, <1>8, LinedSlides, WholeSlides
<1>10. \A j \in Tier : Lined(j, View(j)') /\ Whole(j, View(j)')
  BY <1>4, <1>5, <1>9 DEF AllLined
<1> QED
  BY <1>10 DEF AllLined, Lined, Whole, Between

\* What the invariants say together.
InOrder == TypeOK /\ Accounting /\ Ages /\ AllLined

(***************************************************************************)
(* In every behaviour of the store, set back as its clock may be, the      *)
(* tiers are in step: a bucket that store_push closes is stamped no earlier*)
(* than any sample it or a finer tier already holds, the places of a ring  *)
(* are as many samples and intervals apart as there are places, and a tier *)
(* that has not wrapped still begins with the first sample.                *)
(***************************************************************************)
THEOREM TiersAreInStep == Spec => []InOrder
<1>1. Init => Ages /\ AllLined
  <2> SUFFICES ASSUME Init PROVE Ages /\ AllLined
    OBVIOUS
  <2>1. \A i \in Tier : View(i) = << >> /\ Own(i) = {}
    <3>1. \A i \in Tier : View(i) = << >>
      BY CapacityAssumption, EmptyRingIsEmpty DEF Init, View
    <3> QED
      BY <3>1 DEF Own
  <2>2. Ages
    <3>1. 0 \in Tier /\ Coarse \subseteq Tier
      BY TiersAssumption DEF Tier, Coarse
    <3>2. Pushes = 0 /\ \A i \in Coarse : acc_start[i] = 0
      BY DEF Init, Pushes
    <3>3. Begun /\ OpenLast /\ ClosedLater /\ InStep
      BY <2>1, <3>1, <3>2 DEF Begun, OpenLast, ClosedLater, InStep
    <3>4. NewestNow
      BY <2>1, <3>1 DEF NewestNow
    <3> QED
      BY <3>3, <3>4 DEF Ages
  <2>3. AllLined
    BY <2>1 DEF AllLined, Lined, Whole
  <2> QED
    BY <2>2, <2>3
<1>2. /\ TypeOK /\ Accounting /\ Widths /\ Ages /\ AllLined /\ [Next]_vars
      => Ages' /\ AllLined'
  <2> SUFFICES ASSUME TypeOK, Accounting, Widths, Ages, AllLined, [Next]_vars
               PROVE  Ages' /\ AllLined'
    OBVIOUS
  <2>0. OpenBucket
    BY DEF Widths
  <2>u. ASSUME UNCHANGED <<tiers, acc_start, clock, total, opened>>
        PROVE  Ages' /\ AllLined'
    BY <2>u DEF Ages, Begun, OpenLast, ClosedLater, InStep, NewestNow, NotLater,
                Own, AllLined, Lined, Whole, Between, View, Pushes
  <2>1. CASE Sample
    <3>1. PICK d \in ClockSteps, row \in [Metrics -> RawReading] :
             clock + d \in 1 .. MaxClock /\ clock' = clock + d /\ store_push(row, clock + d)
      BY <2>1 DEF Sample
    <3>2. clock + d \in Nat \ {0} /\ row \in Row
      BY <3>1, RowTypes, ClockAssumption
    <3> QED
      BY <2>0, <3>1, <3>2, PushAges, PushLined
  <2>2. CASE \E i \in Tier : BeginReplay(i)
    BY <2>u, <2>2 DEF BeginReplay
  <2>3. CASE \E i \in Tier : Replay(i)
    BY <2>3, RestoreAges, RestoreLined
  <2>4. CASE EndReplay
    BY <2>u, <2>4 DEF EndReplay
  <2>5. CASE UNCHANGED vars
    BY <2>u, <2>5 DEF vars
  <2> QED
    BY <2>1, <2>2, <2>3, <2>4, <2>5 DEF Next
<1>3. Spec => []Accounting
  BY AccountingHolds DEF Accounting
<1> QED
  BY <1>1, <1>2, <1>3, TypeCorrect, WidthsHold, PTL DEF Spec, InOrder

-----------------------------------------------------------------------------
Before == {pair \in Nat \X Nat : pair[1] < pair[2]}

LEMMA BeforeIsWellFounded == IsWellFoundedOn(Before, Nat)
<1>1. Before = OpToRel(<, Nat)
  BY Zenon DEF Before, OpToRel
<1> QED
  BY <1>1, NatLessThanWellFounded, Zenon

\* The least of some numbers.
LEMMA MinIsLeast ==
  ASSUME NEW S \in SUBSET Nat, S # {}
  PROVE  Min(S) \in S /\ \A n \in S : Min(S) <= n
<1>1. PICK x \in S : \A y \in S : ~(<<y, x>> \in Before)
  BY BeforeIsWellFounded, WFMin, Zenon
<1>2. ASSUME NEW y \in S PROVE x <= y
  <2>1. <<y, x>> \notin Before /\ x \in Nat /\ y \in Nat
    BY <1>1
  <2> QED
    BY <2>1 DEF Before
<1>3. Min(S) = CHOOSE z \in S : \A y \in S : z <= y
  BY DEF Min
<1>4. Min(S) \in S /\ \A y \in S : Min(S) <= y
  BY <1>2, <1>3, Zenon
<1> QED
  BY <1>4

\* When a window holds no more than "points" intervals.
LEMMA DivBelow ==
  ASSUME NEW w \in Nat, NEW c \in Nat \ {0}, NEW points \in Nat
  PROVE  w \div c <= points <=> w < (points + 1) * c
<1> DEFINE q == w \div c
           r == w % c
<1>1. w = c * q + r
  BY DivMod
<1>2. r \in 0 .. c - 1 /\ q \in Int
  BY SMT
<1> HIDE DEF q, r
<1>3. (points + 1) * c = c * points + c /\ c * points \in Int /\ c * q \in Int
  BY <1>2, SMT
<1>4. CASE q <= points
  <2>1. c * q <= c * points
    BY <1>2, <1>4, SMT
  <2> QED
    BY <1>1, <1>2, <1>3, <1>4, <2>1 DEF q
<1>5. CASE q >= points + 1
  <2>1. c * q >= c * points + c
    BY <1>2, <1>5, SMT
  <2> QED
    BY <1>1, <1>2, <1>3, <1>5, <2>1 DEF q
<1> QED
  BY <1>2, <1>4, <1>5

\* The tier that answers for a window: one that has few enough points unless it is
\* the coarsest, and none that is finer than the one for a shorter window.
LEMMA TierForWindow ==
  ASSUME NEW w \in Windows
  PROVE  /\ store_tier_for_window(w) \in Tier
         /\ store_tier_for_window(w) < STORE_TIERS - 1
               => w < (CHART_POINTS + 1) * Interval[store_tier_for_window(w)]
         /\ \A v \in Windows : w < v => store_tier_for_window(w) <= store_tier_for_window(v)
<1> DEFINE fits(u) == {i \in Tier : u \div Interval[i] <= CHART_POINTS}
<1>1. /\ Tier \subseteq Nat /\ STORE_TIERS - 1 \in Tier /\ \A i \in Tier : i <= STORE_TIERS - 1
      /\ w \in Nat /\ Windows \subseteq Nat /\ CHART_POINTS \in Nat
      /\ \A i \in Tier : Interval[i] \in Nat \ {0}
  BY TiersAssumption, IntervalAssumption, SeriesAssumption DEF Tier
<1>2. \A u \in Windows : /\ fits(u) \in SUBSET Nat
                         /\ fits(u) = {i \in Tier : u < (CHART_POINTS + 1) * Interval[i]}
  BY <1>1, DivBelow
<1>3. \A u \in Windows :
         store_tier_for_window(u) = IF fits(u) = {} THEN STORE_TIERS - 1 ELSE Min(fits(u))
  BY DEF store_tier_for_window
<1>4. \A u \in Windows : fits(u) # {} => /\ Min(fits(u)) \in fits(u)
                                         /\ \A n \in fits(u) : Min(fits(u)) <= n
  BY <1>2, MinIsLeast
<1>5. fits(w) \subseteq Tier /\ \A v \in Windows : w < v => fits(v) \subseteq fits(w)
  <2> SUFFICES ASSUME NEW v \in Windows, w < v, NEW i \in fits(v)
               PROVE  i \in fits(w)
    OBVIOUS
  <2>1. i \in Tier /\ v < (CHART_POINTS + 1) * Interval[i]
    BY <1>2
  <2>2. (CHART_POINTS + 1) * Interval[i] \in Int /\ v \in Nat
    BY <1>1, <2>1
  <2>3. w < (CHART_POINTS + 1) * Interval[i]
    BY <1>1, <2>1, <2>2
  <2> QED
    BY <1>2, <2>1, <2>3
<1> HIDE DEF fits
<1>6. store_tier_for_window(w) \in Tier
  BY <1>1, <1>3, <1>4, <1>5
<1>7. ASSUME store_tier_for_window(w) < STORE_TIERS - 1
      PROVE  w < (CHART_POINTS + 1) * Interval[store_tier_for_window(w)]
  <2>1. store_tier_for_window(w) \in fits(w)
    BY <1>1, <1>3, <1>4, <1>7, TiersAssumption
  <2> QED
    BY <1>2, <2>1
<1>8. ASSUME NEW v \in Windows, w < v
      PROVE  store_tier_for_window(w) <= store_tier_for_window(v)
  <2>1. CASE fits(v) = {}
    BY <1>1, <1>3, <1>6, <2>1
  <2>2. CASE fits(v) # {}
    <3>1. Min(fits(v)) \in fits(w)
      BY <1>4, <1>5, <1>8, <2>2
    <3>2. store_tier_for_window(w) = Min(fits(w)) /\ store_tier_for_window(v) = Min(fits(v))
      BY <1>3, <2>2, <3>1
    <3> QED
      BY <1>4, <3>1, <3>2
  <2> QED
    BY <2>1, <2>2
<1> QED
  BY <1>6, <1>7, <1>8

\* When there is room for all that is recent, all of it is returned.
LEMMA SeriesReturnsAll ==
  ASSUME TypeOK, NEW i \in Tier, NEW since \in Int
  PROVE  /\ store_series(i, since) \subseteq Recent(i, since)
         /\ Recent(i, since) \subseteq 1 .. Len(View(i))
         /\ Cardinality(Recent(i, since)) <= MAX_SERIES_POINTS
               => store_series(i, since) = Recent(i, since)
<1>1. View(i) \in Seq(Entry) /\ Len(View(i)) \in Nat
  BY ContentsType, CapacityAssumption DEF TypeOK, View
<1>2. Recent(i, since) \subseteq 1 .. Len(View(i))
  BY DEF Recent
<1>3. IsFiniteSet(Recent(i, since))
  <2>1. IsFiniteSet(1 .. Len(View(i)))
    BY <1>1, FS_Interval
  <2> QED
    BY <1>2, <2>1, FS_Subset
<1>4. ASSUME Cardinality(Recent(i, since)) <= MAX_SERIES_POINTS, NEW k \in Recent(i, since)
      PROVE  Cardinality({j \in Recent(i, since) : j <= k}) <= MAX_SERIES_POINTS
  <2> DEFINE earlier == {j \in Recent(i, since) : j <= k}
  <2>1. earlier \in SUBSET Recent(i, since)
    OBVIOUS
  <2> HIDE DEF earlier
  <2>2. IsFiniteSet(earlier) /\ Cardinality(earlier) <= Cardinality(Recent(i, since))
    BY <1>3, <2>1, FS_Subset
  <2>3. Cardinality(earlier) \in Nat /\ Cardinality(Recent(i, since)) \in Nat
    BY <1>3, <2>2, FS_CardinalityType
  <2>4. Cardinality(earlier) <= MAX_SERIES_POINTS
    BY <1>4, <2>2, <2>3, SeriesAssumption
  <2> QED
    BY <2>4 DEF earlier
<1> QED
  BY <1>2, <1>4 DEF store_series

\* An answer shows nothing newer first.
LEMMA OldestShown ==
  ASSUME InOrder, NEW w \in Windows, NEW now \in Int, NEW a \in Tier,
         a = store_tier_for_window(w),
         NEW shown, shown = {k \in Answer(w, now) : View(a)[k].last > 0}
  PROVE  /\ shown \subseteq Recent(a, now - w)
         /\ shown = {} => Oldest(w, now) = Pushes
         /\ shown # {} => \E p \in shown : Oldest(w, now) = View(a)[p].first
         /\ \A k \in shown : Oldest(w, now) <= View(a)[k].first
<1>1. w \in Nat /\ View(a) \in Seq(Entry)
  BY SeriesAssumption, OwnType DEF InOrder
<1>2. /\ shown \subseteq Recent(a, now - w)
      /\ Recent(a, now - w) \subseteq 1 .. Len(View(a))
  BY <1>1, SeriesReturnsAll DEF InOrder, Answer
<1>3. Oldest(w, now) = IF shown = {} THEN Pushes ELSE View(a)[Min(shown)].first
  BY DEF Oldest
<1>4. ASSUME shown # {}
      PROVE  /\ Min(shown) \in shown
             /\ \A k \in shown : View(a)[Min(shown)].first <= View(a)[k].first
  <2>1. shown \in SUBSET Nat
    BY <1>2
  <2>2. Min(shown) \in shown /\ \A k \in shown : Min(shown) <= k
    BY <1>4, <2>1, MinIsLeast
  <2>3. ASSUME NEW k \in shown
        PROVE  View(a)[Min(shown)].first <= View(a)[k].first
    <3>1. k \in 1 .. Len(View(a)) /\ Min(shown) \in 1 .. k
      BY <1>2, <2>2
    <3>2. Lined(a, View(a))
      BY DEF InOrder, AllLined
    <3>3. Between(a, View(a)[Min(shown)], View(a)[k], k - Min(shown))
      BY <3>1, <3>2, LinedAt
    <3> QED
      BY <3>3 DEF Between
  <2> QED
    BY <2>2, <2>3
<1> QED
  BY <1>2, <1>3, <1>4

\* What is known of windows w and v when the longer one leaves tier a, the tier of
\* the shorter one.
Leaves(a, w, v) ==
    a # 0 => /\ w < (CHART_POINTS + 1) * Interval[a]
             /\ \A d \in ClockSteps : v - w >= Interval[a] + d

\* An entry that is not much older than one of the shorter window is in the longer.
LEMMA InLonger ==
  ASSUME NEW now \in Int, NEW w \in Int, NEW v \in Int, NEW early \in Int, NEW ts \in Int,
         NEW n \in Int, early - ts < n, v - w >= n, early >= now - w
  PROVE  ts >= now - v
  OBVIOUS

\* A ring that is no smaller than another starts no later.
LEMMA StartsNoLater ==
  ASSUME NEW pushes \in Int, NEW start \in Int, NEW last \in Int, NEW first \in Int,
         NEW cap \in Int, NEW finer \in Int,
         pushes - last >= cap - 1, finer <= cap, pushes - start <= finer, first < last
  PROVE  first <= start
  OBVIOUS

\* Seconds that cannot be: an entry of a window is behind a whole coarser tier.
LEMMA OutOfReach ==
  ASSUME NEW now \in Int, NEW w \in Int, NEW early \in Int, NEW oldest \in Int, NEW newest \in Int,
         NEW points1 \in Int, NEW points2 \in Int, NEW reach \in Int, NEW d \in Int, NEW n \in Int,
         newest - oldest >= reach, newest <= now, points2 + d <= reach, points2 = points1 + n,
         w < points1, early >= now - w, early - oldest < n + d
  PROVE  FALSE
  OBVIOUS

\* A coarser tier that has closed a bucket since an entry of a finer one, which a
\* window shows, has one that starts no later and that a longer window shows.
LEMMA CoarserReaches ==
  ASSUME InOrder, NEW a \in Tier, NEW i \in Coarse, a < i, NEW p \in 1 .. Len(View(a)),
         NEW e, e = View(a)[p], e.last > 0, e.first < Covered(i),
         NEW now \in Int, NEW w \in Nat, NEW v \in Nat, w < v, e.ts >= now - w,
         Leaves(a, w, v), NoneAhead(i, now)
  PROVE  \E k \in 1 .. Len(View(i)) : /\ View(i)[k].last > 0
                                      /\ View(i)[k].ts >= now - v
                                      /\ View(i)[k].first <= e.first
<1>1. /\ i \in Tier /\ i # 0 /\ ClockSteps \subseteq Int /\ a \in Nat
      /\ Interval[a] \in Nat /\ Interval[i] \in Nat
      /\ Capacity[a] \in Nat \ {0} /\ Capacity[i] \in Nat \ {0}
  BY ClockAssumption, IntervalAssumption, CapacityAssumption DEF Tier, Coarse
<1>2. /\ View(i) \in Seq(Entry) /\ View(a) \in Seq(Entry)
      /\ \A f \in Own(a) : f.ts \in Int /\ f.first \in Nat /\ f.last \in Nat /\ f.first < f.last
      /\ \A f \in Own(i) : f.ts \in Int /\ f.first \in Nat /\ f.last \in Nat /\ f.first < f.last
  BY <1>1, OwnType DEF InOrder
<1>3. e \in Own(a)
  BY DEF Own
<1>4. Covered(i) \in Nat /\ Pushes \in Nat /\ Covered(i) <= Pushes /\ Covered(0) = Pushes
  BY <1>1 DEF InOrder, TypeOK, Accounting, MeansExact, Covered, Pushes
<1>5. /\ \A k \in 1 .. Len(View(i)) - 1 : View(i)[k + 1].first = View(i)[k].last
      /\ Len(View(i)) > 0 /\ View(i)[Len(View(i))].last = Covered(i)
      /\ View(0)[Len(View(0))].last = Pushes \/ Len(View(0)) = 0
  <2>1. Follows(View(i), Covered(i)) /\ Follows(View(0), Pushes)
    BY <1>1, <1>4, TiersAssumption DEF InOrder, Accounting, EverySampleOnce, Tier
  <2> QED
    BY <1>2, <1>3, <1>4, <2>1 DEF Follows
<1>6. Len(View(i)) <= Capacity[i] /\ Len(View(a)) <= Capacity[a]
  <2>1. \A j \in Tier : tiers[j] \in RingType(Capacity[j], Entry) /\ Capacity[j] \in Nat \ {0}
    BY CapacityAssumption DEF InOrder, TypeOK
  <2>2. \A j \in Tier : Len(View(j)) = tiers[j].count
    BY <2>1, ContentsType DEF View
  <2>3. \A j \in Tier : tiers[j].count <= Capacity[j]
    BY <2>1 DEF RingType
  <2> QED
    BY <1>1, <2>2, <2>3
<1>e. e.ts \in Int /\ e.first \in Nat /\ e.last \in Nat /\ e.first < e.last
  BY <1>2, <1>3
<1> DEFINE later == {n \in 1 .. Len(View(i)) : View(i)[n].last > e.first}
<1>7. PICK k \in later : \A n \in later : k <= n
  <2>1. later \in SUBSET Nat /\ Len(View(i)) \in later
    BY <1>2, <1>5
  <2> HIDE DEF later
  <2> QED
    BY <2>1, MinIsLeast
<1>9. k \in 1 .. Len(View(i)) /\ View(i)[k].last > e.first
  BY <1>7
<1> HIDE DEF later
<1>8. PICK b \in Own(i) : b = View(i)[k]
  <2>1. View(i)[k] \in Entry
    BY <1>2, <1>9
  <2>2. View(i)[k].last > 0
    BY <1>e, <1>9, <2>1 DEF Entry
  <2> QED
    BY <1>9, <2>2 DEF Own
<1>b. /\ b.ts \in Int /\ b.first \in Nat /\ b.last \in Nat /\ b.first < b.last
      /\ b.last > e.first /\ b.last > 0
  BY <1>2, <1>8, <1>9, <1>e
<1>n. \A j \in 1 .. Len(View(i)) : /\ View(i)[j].ts \in Int /\ View(i)[j].last \in Nat
                                    /\ View(i)[j].first \in Nat
  <2>1. \A j \in 1 .. Len(View(i)) : View(i)[j] \in Entry
    BY <1>2
  <2> QED
    BY <2>1 DEF Entry
<1>l. Len(View(i)) \in Nat /\ Len(View(a)) \in Nat
  BY <1>2
<1>10. NotLater(a, e, b)
  BY <1>3, <1>b DEF InOrder, Ages, InStep
<1>11. b.ts >= now - v
  <2>1. CASE a = 0
    BY <1>b, <1>e, <1>10, <2>1 DEF NotLater
  <2>2. CASE a # 0
    <3>1. PICK d \in ClockSteps : e.ts - b.ts < Interval[a] + d
      BY <1>10, <2>2 DEF NotLater
    <3> QED
      <4>1. v - w >= Interval[a] + d /\ d \in Int
        BY <1>1, <2>2 DEF Leaves
      <4>2. Interval[a] + d \in Int
        BY <1>1, <4>1
      <4> QED
        BY <1>b, <1>e, <3>1, <4>1, <4>2, InLonger, SMTT(60)
  <2> QED
    BY <2>1, <2>2
<1>12. Between(i, b, View(i)[Len(View(i))], Len(View(i)) - k)
  <2>1. Len(View(i)) \in 1 .. Len(View(i)) /\ k \in 1 .. Len(View(i))
    BY <1>l, <1>9
  <2>2. Lined(i, View(i))
    BY <1>1 DEF InOrder, AllLined
  <2> QED
    BY <1>8, <2>1, <2>2, LinedAt
<1>13. ASSUME k = 1, Len(View(i)) = Capacity[i], a = 0
       PROVE  b.first <= e.first
  <2>1. Between(0, e, View(0)[Len(View(0))], Len(View(0)) - p)
    <3>1. Len(View(0)) \in 1 .. Len(View(0)) /\ p \in 1 .. Len(View(0)) /\ Lined(0, View(0))
      BY <1>2, <1>13 DEF InOrder, AllLined
    <3> QED
      BY <1>13, <3>1, LinedAt
  <2>2. Pushes - e.first <= Len(View(0)) - p + 1
    BY <1>5, <1>13, <2>1 DEF Between
  <2>3. Pushes - b.last >= Capacity[i] - 1
    <3>1. View(i)[Len(View(i))].last - b.last >= Len(View(i)) - k
      BY <1>12, <1>b DEF Between
    <3> QED
      BY <1>1, <1>4, <1>5, <1>13, <1>b, <3>1, SMTT(60)
  <2>4. Capacity[0] <= Capacity[i]
    BY <1>1, <1>13, SeriesAssumption, CapacityAssumption DEF ReachesBack
  <2> QED
    <3>1. /\ Len(View(0)) \in Nat /\ Len(View(0)) <= Capacity[0] /\ p \in Nat /\ p >= 1
          /\ Capacity[0] \in Nat /\ Capacity[0] \in Int
      BY <1>1, <1>l, <1>6, <1>13
    <3>2. Pushes - e.first <= Capacity[0]
      BY <1>4, <1>e, <2>2, <3>1
    <3>3. Pushes \in Int /\ e.first \in Int /\ b.last \in Int /\ b.first \in Int /\ Capacity[i] \in Int
      BY <1>1, <1>4, <1>b, <1>e, SMTT(60)
    <3> QED
      BY <1>b, <2>3, <2>4, <3>1, <3>2, <3>3, StartsNoLater, Zenon
<1>14. ASSUME k = 1, Len(View(i)) = Capacity[i], a # 0
       PROVE  FALSE
  <2>1. PICK d \in ClockSteps : e.ts - b.ts < Interval[a] + d
    BY <1>10, <1>14 DEF NotLater
  <2>2. View(i)[Len(View(i))].ts - b.ts >= (Capacity[i] - 1) * Interval[i]
    <3>1. View(i)[Len(View(i))].ts - b.ts >= (Len(View(i)) - k) * Interval[i]
      BY <1>1, <1>b, <1>12 DEF Between
    <3>2. Len(View(i)) - k = Capacity[i] - 1
      BY <1>14
    <3> QED
      BY <3>1, <3>2
  <2>3. View(i)[Len(View(i))].ts <= now /\ View(i)[Len(View(i))].ts \in Int
    <3>1. Len(View(i)) \in 1 .. Len(View(i))
      BY <1>2, <1>5
    <3> QED
      BY <1>n, <3>1 DEF NoneAhead
  <2>4. (CHART_POINTS + 2) * Interval[a] + d <= (Capacity[i] - 1) * Interval[i]
    BY <1>1, <1>14, SeriesAssumption, CapacityAssumption DEF ReachesBack
  <2>5. (CHART_POINTS + 2) * Interval[a] = (CHART_POINTS + 1) * Interval[a] + Interval[a]
    <3>1. CHART_POINTS + 1 \in Nat /\ CHART_POINTS + 2 = (CHART_POINTS + 1) + 1
      BY SeriesAssumption
    <3> QED
      BY <1>1, <3>1, OneMore
  <2>6. /\ (CHART_POINTS + 1) * Interval[a] \in Int /\ (CHART_POINTS + 2) * Interval[a] \in Int
        /\ (Capacity[i] - 1) * Interval[i] \in Int
    <3>1. CHART_POINTS + 1 \in Nat /\ CHART_POINTS + 2 \in Nat /\ Capacity[i] - 1 \in Nat
      BY <1>1, SeriesAssumption, SMTT(60)
    <3>2. \A n, c \in Nat : n * c \in Int
      BY OneMore
    <3> QED
      BY <1>1, <3>1, <3>2
  <2> DEFINE points1 == (CHART_POINTS + 1) * Interval[a]
             points2 == (CHART_POINTS + 2) * Interval[a]
             reach == (Capacity[i] - 1) * Interval[i]
             newest == View(i)[Len(View(i))].ts
  <2>7. /\ newest - b.ts >= reach /\ newest <= now /\ newest \in Int
        /\ points2 + d <= reach /\ points2 = points1 + Interval[a] /\ w < points1
        /\ points1 \in Int /\ points2 \in Int /\ reach \in Int /\ d \in Int /\ b.ts \in Int /\ e.ts \in Int
    BY <1>1, <1>b, <1>e, <1>14, <2>2, <2>3, <2>4, <2>5, <2>6 DEF Leaves
  <2> HIDE DEF points1, points2, reach, newest
  <2>8. Interval[a] \in Int /\ w \in Int /\ now \in Int
    BY <1>1
  <2> QED
    BY <2>1, <2>7, <2>8, OutOfReach, Zenon
<1>15. b.first <= e.first
  <2>1. CASE k > 1
    <3>1. k - 1 \in 1 .. Len(View(i)) - 1 /\ k - 1 \in 1 .. Len(View(i)) /\ (k - 1) + 1 = k
      BY <1>9, <2>1
    <3>2. k - 1 \notin later
      <4>1. later \subseteq Nat
        BY DEF later
      <4> QED
        BY <1>7, <1>9, <2>1, <4>1
    <3>3. View(i)[k].first = View(i)[k - 1].last /\ View(i)[k - 1] \in Entry
      BY <1>2, <1>5, <3>1, SMTT(60)
    <3> QED
      <4>1. View(i)[k - 1].last <= e.first
        BY <1>e, <1>n, <3>1, <3>2, SMTT(60) DEF later
      <4> QED
        BY <1>8, <3>3, <4>1
  <2>2. CASE k = 1 /\ Len(View(i)) < Capacity[i]
    <3>1. Whole(i, View(i))
      BY <1>1 DEF InOrder, AllLined
    <3>2. Len(View(i)) \in 1 .. Capacity[i] - 1
      BY <1>1, <1>l, <1>5, <2>2
    <3> QED
      BY <1>8, <1>e, <2>2, <3>1, <3>2 DEF Whole
  <2> QED
    <3>1. k = 1 \/ k > 1
      BY <1>9
    <3>2. Len(View(i)) < Capacity[i] \/ Len(View(i)) = Capacity[i]
      BY <1>1, <1>2, <1>6
    <3> QED
      BY <1>13, <1>14, <2>1, <2>2, <3>1, <3>2
<1> QED
  BY <1>8, <1>9, <1>b, <1>11, <1>15

\* If a window shows an entry of this run, it shows the newest one of the tier.
LEMMA EndsWithNewest ==
  ASSUME InOrder, NEW i \in Tier, NEW now \in {clock, clock + 1}, NEW v \in Nat \ {0},
         NEW k \in Recent(i, now - v), View(i)[k].last > 0
  PROVE  /\ Len(View(i)) \in Recent(i, now - v)
         /\ View(i)[Len(View(i))].last = Covered(i)
<1>1. /\ View(i) \in Seq(Entry) /\ Len(View(i)) \in Nat /\ clock \in Nat /\ now \in Int
      /\ Interval[i] \in Nat
  BY OwnType, IntervalAssumption DEF InOrder, TypeOK
<1>2. k \in 1 .. Len(View(i)) /\ Len(View(i)) \in 1 .. Len(View(i)) /\ View(i)[k].ts >= now - v
  BY <1>1 DEF Recent
<1>3. /\ View(i)[k].ts \in Int /\ View(i)[k].last \in Nat
      /\ View(i)[Len(View(i))].ts \in Int /\ View(i)[Len(View(i))].last \in Nat
  <2>1. View(i)[k] \in Entry /\ View(i)[Len(View(i))] \in Entry
    BY <1>1, <1>2
  <2> QED
    BY <2>1 DEF Entry
<1>4. View(i)[Len(View(i))].last = Covered(i)
  <2>1. Follows(View(i), Covered(i))
    BY DEF InOrder, Accounting, EverySampleOnce
  <2> QED
    BY <1>2, <2>1 DEF Follows
<1>5. Between(i, View(i)[k], View(i)[Len(View(i))], Len(View(i)) - k)
  <2>1. Lined(i, View(i))
    BY DEF InOrder, AllLined
  <2> QED
    BY <1>2, <2>1, LinedAt
<1>6. View(i)[Len(View(i))].ts >= now - v
  <2>1. CASE i = 0
    <3>1. View(0)[Len(View(0))].last > 0
      BY <1>3, <1>5, <2>1 DEF Between
    <3>2. View(0)[Len(View(0))].ts = clock
      BY <1>2, <2>1, <3>1 DEF InOrder, Ages, NewestNow
    <3> QED
      BY <1>1, <2>1, <3>2
  <2>2. CASE i # 0
    <3>1. View(i)[Len(View(i))].ts - View(i)[k].ts >= (Len(View(i)) - k) * Interval[i]
      BY <1>5, <2>2 DEF Between
    <3>2. (Len(View(i)) - k) * Interval[i] \in Nat
      <4>1. Len(View(i)) - k \in Nat
        BY <1>2
      <4> QED
        BY <1>1, <4>1, OneMore
    <3> DEFINE apart == (Len(View(i)) - k) * Interval[i]
    <3>3. View(i)[Len(View(i))].ts - View(i)[k].ts >= apart /\ apart \in Nat
      BY <3>1, <3>2
    <3> HIDE DEF apart
    <3> QED
      BY <1>1, <1>2, <1>3, <3>3
  <2> QED
    BY <2>1, <2>2
<1> QED
  BY <1>2, <1>4, <1>6 DEF Recent

\* What the invariants imply of two windows.
LEMMA ZoomingOut ==
  ASSUME InOrder, NEW now \in {clock, clock + 1}, NEW w \in Windows, NEW v \in Windows,
         NEW a, a = store_tier_for_window(w), NEW i, i = store_tier_for_window(v),
         w < v, WidensEnough(w, v), NoneAhead(i, now),
         Cardinality(Recent(i, now - v)) <= MAX_SERIES_POINTS
  PROVE  Oldest(v, now) <= Oldest(w, now) \/ Oldest(w, now) >= Covered(i)
<1>1. /\ w \in Nat /\ v \in Nat /\ now \in Int /\ a \in Tier /\ i \in Tier /\ a <= i
      /\ Pushes \in Nat /\ Covered(i) \in Nat /\ Covered(i) <= Pushes
  <2>1. w \in Nat /\ v \in Nat /\ now \in Int /\ a \in Tier /\ i \in Tier /\ a <= i
    BY SeriesAssumption, TierForWindow DEF InOrder, TypeOK
  <2>2. i # 0 => i \in Coarse
    BY <2>1, TiersAssumption DEF Tier, Coarse
  <2> QED
    BY <2>1, <2>2 DEF InOrder, TypeOK, Accounting, MeansExact, Covered, Pushes
<1> DEFINE shown(u, n) == {k \in Answer(u, now) : View(n)[k].last > 0}
<1>2. /\ shown(w, a) \subseteq Recent(a, now - w)
      /\ shown(w, a) = {} => Oldest(w, now) = Pushes
      /\ shown(w, a) # {} => \E p \in shown(w, a) : Oldest(w, now) = View(a)[p].first
  <2> DEFINE S == shown(w, a)
  <2>1. S = {k \in Answer(w, now) : View(a)[k].last > 0}
    OBVIOUS
  <2> HIDE DEF S
  <2>2. /\ S \subseteq Recent(a, now - w)
        /\ S = {} => Oldest(w, now) = Pushes
        /\ S # {} => \E p \in S : Oldest(w, now) = View(a)[p].first
    BY <1>1, <2>1, OldestShown, ZenonT(60)
  <2> QED
    BY <2>2 DEF S
<1>3. \A k \in shown(v, i) : Oldest(v, now) <= View(i)[k].first
  <2> DEFINE S == shown(v, i)
  <2>1. S = {k \in Answer(v, now) : View(i)[k].last > 0}
    OBVIOUS
  <2> HIDE DEF S
  <2>2. \A k \in S : Oldest(v, now) <= View(i)[k].first
    BY <1>1, <2>1, OldestShown, ZenonT(60)
  <2> QED
    BY <2>2 DEF S
<1>4. Answer(v, now) = Recent(i, now - v)
  BY <1>1, SeriesReturnsAll DEF InOrder, Answer
<1>5. CASE shown(w, a) = {}
  BY <1>1, <1>2, <1>5
<1>6. ASSUME NEW p \in shown(w, a), Oldest(w, now) = View(a)[p].first,
             ~(Oldest(w, now) >= Covered(i))
      PROVE  Oldest(v, now) <= Oldest(w, now)
  <2>1. /\ p \in 1 .. Len(View(a)) /\ View(a)[p].ts >= now - w /\ View(a)[p].last > 0
        /\ View(a) \in Seq(Entry)
    BY <1>1, <1>2, OwnType DEF Recent, InOrder
  <2>2. View(a)[p].ts \in Int /\ View(a)[p].first \in Nat
    <3>1. View(a)[p] \in Entry
      BY <2>1
    <3> QED
      BY <3>1 DEF Entry
  <2>3. CASE a = i
    <3>1. p \in shown(v, i)
      BY <1>1, <1>4, <2>1, <2>2, <2>3 DEF Recent
    <3> QED
      BY <1>3, <1>6, <2>3, <3>1
  <2>4. CASE a < i
    <3>1. i \in Coarse
      BY <1>1, <2>4, TiersAssumption DEF Tier, Coarse
    <3>2. Leaves(a, w, v)
      <4>1. a < STORE_TIERS - 1
        BY <1>1, <2>4, TiersAssumption DEF Tier
      <4>2. w < (CHART_POINTS + 1) * Interval[a]
        BY <4>1, TierForWindow
      <4>3. a # 0 => \A d \in ClockSteps : v - w >= Interval[a] + d
        BY <1>1, <2>4 DEF WidensEnough, Tier
      <4> QED
        BY <4>2, <4>3 DEF Leaves
    <3>3. View(a)[p].first < Covered(i)
      BY <1>1, <1>6, <2>2
    <3>4. PICK k \in 1 .. Len(View(i)) : /\ View(i)[k].last > 0
                                         /\ View(i)[k].ts >= now - v
                                         /\ View(i)[k].first <= View(a)[p].first
      BY <1>1, <2>1, <2>4, <3>1, <3>2, <3>3, CoarserReaches
    <3>5. k \in shown(v, i)
      BY <1>4, <3>4 DEF Recent
    <3>6. Oldest(v, now) <= View(i)[k].first
      BY <1>3, <3>5
    <3>7. View(i)[k].first \in Nat
      <4>1. View(i)[k] \in Entry
        BY <1>1, OwnType DEF InOrder
      <4> QED
        BY <4>1 DEF Entry
    <3>8. Oldest(v, now) \in Nat
      <4>1. shown(v, i) # {} => \E q \in shown(v, i) : Oldest(v, now) = View(i)[q].first
        BY <1>1, OldestShown
      <4>2. PICK q \in shown(v, i) : Oldest(v, now) = View(i)[q].first
        BY <3>5, <4>1
      <4>3. View(i)[q] \in Entry
        BY <1>1, <1>4, <4>2, OwnType DEF InOrder, Recent
      <4> QED
        BY <4>2, <4>3 DEF Entry
    <3> QED
      BY <1>6, <2>2, <3>4, <3>6, <3>7, <3>8
  <2> QED
    BY <1>1, <2>3, <2>4 DEF Tier
<1> QED
  BY <1>2, <1>5, <1>6

\* What the invariants imply of all windows.
LEMMA InOrderZoomsOut == InOrder => ZoomOutHidesNothing
<1> SUFFICES ASSUME InOrder, NEW now \in {clock, clock + 1}, NEW v \in Windows,
                    NEW i, i = store_tier_for_window(v), NoneAhead(i, now),
                    Cardinality(Recent(i, now - v)) <= MAX_SERIES_POINTS
             PROVE  /\ \A w \in Windows : w < v /\ WidensEnough(w, v)
                          => Oldest(v, now) <= Oldest(w, now) \/ Oldest(w, now) >= Covered(i)
                    /\ (\E k \in Recent(i, now - v) : View(i)[k].last > 0)
                          => /\ Len(View(i)) \in Answer(v, now)
                             /\ View(i)[Len(View(i))].last = Covered(i)
  BY DEF ZoomOutHidesNothing
<1>1. ASSUME NEW w \in Windows, w < v, WidensEnough(w, v)
      PROVE  Oldest(v, now) <= Oldest(w, now) \/ Oldest(w, now) >= Covered(i)
  BY <1>1, ZoomingOut
<1>2. ASSUME NEW k \in Recent(i, now - v), View(i)[k].last > 0
      PROVE  /\ Len(View(i)) \in Answer(v, now)
             /\ View(i)[Len(View(i))].last = Covered(i)
  <2>1. i \in Tier /\ v \in Nat \ {0} /\ now - v \in Int
    BY SeriesAssumption, TierForWindow DEF InOrder, TypeOK
  <2>2. Answer(v, now) = Recent(i, now - v)
    BY <2>1, SeriesReturnsAll DEF InOrder, Answer
  <2> QED
    BY <1>2, <2>1, <2>2, EndsWithNewest
<1> QED
  BY <1>1, <1>2

(***************************************************************************)
(* For any windows, capacities, intervals and clock that SeriesAssumption  *)
(* allows, zooming out hides nothing: the answer of api_series_json for a  *)
(* longer window, from another ring with its own buckets, starts no later  *)
(* than the answer for the shorter one and ends with its newest entry.     *)
(***************************************************************************)
THEOREM ZoomingOutHidesNothing == Spec => []ZoomOutHidesNothing
BY TiersAreInStep, InOrderZoomsOut, PTL
=============================================================================
