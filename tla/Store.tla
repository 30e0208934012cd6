------------------------------- MODULE Store --------------------------------
(***************************************************************************)
(* The in-memory history of store.c: STORE_TIERS rings.  Every sample goes *)
(* to tier 0; a coarser tier accumulates the readable values of the        *)
(* samples and appends their mean when its bucket has been open for its    *)
(* interval.  Saved history is replayed into an empty tier.                *)
(*                                                                         *)
(* All calls are made by the main loop, and each holds the store's lock    *)
(* from its first access to its last, so one call is one step.             *)
(*                                                                         *)
(* A reading is a pair [sum, n]: n values that add up to sum.  It stands   *)
(* for the float sum / n, and for NAN when n = 0.  A raw value has n <= 1, *)
(* so division is the only thing abstracted away, and a mean still says    *)
(* exactly which values went into it.                                      *)
(***************************************************************************)
EXTENDS Ring

CONSTANTS
    STORE_TIERS,   \* number of tiers (3)
    Capacity,      \* entries per tier, after scaling to the RAM budget
    Interval,      \* seconds per bucket of each tier
    Metrics,       \* the registry
    Values,        \* readable values of a metric
    ClockSteps,    \* by how much time(NULL) may move between two samples
    SavedTimes,    \* bound on the times that saved entries may have
    MaxClock,      \* bound on the clock
    MaxPushes      \* bound on the number of samples

Tier   == 0 .. STORE_TIERS - 1
Coarse == 1 .. STORE_TIERS - 1

ASSUME TiersAssumption == STORE_TIERS \in Nat \ {0}
ASSUME CapacityAssumption == Capacity \in [Tier -> Nat \ {0}]
ASSUME IntervalAssumption == Interval \in [Tier -> Nat \ {0}]
ASSUME ValuesAssumption == Values \subseteq Int
ASSUME SavedAssumption == SavedTimes \subseteq Nat \ {0}
ASSUME ClockAssumption == ClockSteps \subseteq Int /\ MaxClock \in Nat /\ MaxPushes \in Nat

Reading == [sum : Int, n : Nat]
NAN == [sum |-> 0, n |-> 0]
Raw(v) == [sum |-> v, n |-> 1]
RawReading == {NAN} \cup {Raw(v) : v \in Values}
Row == [Metrics -> Reading]
NoRow == [m \in Metrics |-> NAN]

Plus(a, b) == [m \in Metrics |-> [sum |-> a[m].sum + b[m].sum, n |-> a[m].n + b[m].n]]
Minus(a, b) == [m \in Metrics |-> [sum |-> a[m].sum - b[m].sum, n |-> a[m].n - b[m].n]]

(***************************************************************************)
(* An entry of a tier is a row with its timestamp.  "first" and "last" are *)
(* auxiliary: the entry stands for the samples first+1 .. last of the      *)
(* pushes so far; a replayed entry stands for none of them.                *)
(***************************************************************************)
Entry == [ts : Int, row : Row, first : Nat, last : Nat]
ZeroEntry == [ts |-> 0, row |-> NoRow, first |-> 0, last |-> 0]

VARIABLES
    tiers,       \* store->tiers[i]: timestamps, data, head and count
    acc,         \* acc and acc_n of the coarse tiers
    acc_start,   \* when the open bucket started, 0 if none is open
    latest,      \* latest, latest_ts and has_latest, as a sequence of at most one
    replaying,   \* the tier persist_load is filling, or STORE_TIERS
    clock,       \* time(NULL)
    total,       \* auxiliary: total[k+1] is the sum of the first k rows pushed
    opened       \* auxiliary: pushes made before the open bucket of each tier

vars == <<tiers, acc, acc_start, latest, replaying, clock, total, opened>>

Pushes == Len(total) - 1

\* store_new: everything zeroed.
Init ==
    /\ tiers = [i \in Tier |-> EmptyRing(Capacity[i], ZeroEntry)]
    /\ acc = [i \in Coarse |-> NoRow]
    /\ acc_start = [i \in Coarse |-> 0]
    /\ latest = << >>
    /\ replaying = STORE_TIERS
    /\ clock = 1
    /\ total = <<NoRow>>
    /\ opened = [i \in Coarse |-> 0]

\* acc_start once a sample stamped ts has been added to the bucket.
BucketStart(i, ts) == IF acc_start[i] = 0 THEN ts ELSE acc_start[i]

M_ClosesByFinerInterval(i, ts) == ts - BucketStart(i, ts) >= Interval[i - 1]

\* The sample stamped ts closes the bucket of tier i, which includes it.
Closes(i, ts) == ts - BucketStart(i, ts) >= Interval[i]

M_MeanBeforeAdding(i, row, ts) ==
    [ts |-> ts, row |-> acc[i], first |-> opened[i], last |-> Pushes + 1]

\* The mean a tier appends, covering every sample since the bucket opened.
Mean(i, row, ts) ==
    [ts |-> ts, row |-> Plus(acc[i], row), first |-> opened[i], last |-> Pushes + 1]

store_push(row, ts) ==
    /\ latest' = <<[ts |-> ts, row |-> row]>>
    /\ tiers' = [i \in Tier |->
          IF i = 0
          THEN Put(tiers[0], Capacity[0],
                   [ts |-> ts, row |-> row, first |-> Pushes, last |-> Pushes + 1])
          ELSE IF Closes(i, ts) THEN Put(tiers[i], Capacity[i], Mean(i, row, ts))
          ELSE tiers[i]]
    /\ acc' = [i \in Coarse |-> IF Closes(i, ts) THEN NoRow ELSE Plus(acc[i], row)]
    /\ acc_start' = [i \in Coarse |-> IF Closes(i, ts) THEN ts ELSE BucketStart(i, ts)]
    /\ total' = Append(total, Plus(total[Len(total)], row))
    /\ opened' = [i \in Coarse |-> IF Closes(i, ts) THEN Pushes + 1 ELSE opened[i]]

\* on_sample_tick: the sampler reads the clock and pushes what was collected.
Sample ==
    /\ replaying = STORE_TIERS
    /\ Pushes < MaxPushes
    /\ \E d \in ClockSteps, row \in [Metrics -> RawReading] :
          /\ clock + d \in 1 .. MaxClock
          /\ clock' = clock + d
          /\ store_push(row, clock + d)
    /\ UNCHANGED replaying

\* try_open_persistence adopts saved history into an empty tier only.
BeginReplay(i) ==
    /\ replaying = STORE_TIERS
    /\ tiers[i].count = 0
    /\ replaying' = i
    /\ UNCHANGED <<tiers, acc, acc_start, latest, clock, total, opened>>

store_restore(i, e) ==
    /\ replaying = i
    /\ tiers' = [tiers EXCEPT ![i] = Put(tiers[i], Capacity[i], e)]
    /\ UNCHANGED <<acc, acc_start, latest, replaying, clock, total, opened>>

\* Saved entries may have any time after 0: a file that has wrapped under a header
\* that was stale in a crash is replayed out of order, and the clock may have been
\* set back since.
SavedEntry == {[ts |-> t, row |-> NoRow, first |-> 0, last |-> 0] : t \in SavedTimes}

Replay(i) == \E e \in SavedEntry : store_restore(i, e)

EndReplay ==
    /\ replaying \in Tier
    /\ replaying' = STORE_TIERS
    /\ UNCHANGED <<tiers, acc, acc_start, latest, clock, total, opened>>

Next ==
    \/ Sample
    \/ \E i \in Tier : BeginReplay(i) \/ Replay(i)
    \/ EndReplay

Spec == Init /\ [][Next]_vars

-----------------------------------------------------------------------------
\* Every variable keeps its type; in particular no ring index leaves its ring.
TypeOK ==
    /\ tiers = [i \in Tier |-> tiers[i]]
    /\ \A i \in Tier : tiers[i] \in RingType(Capacity[i], Entry)
    /\ acc \in [Coarse -> Row]
    /\ acc_start \in [Coarse -> Nat]
    /\ latest \in Seq([ts : Nat, row : Row]) /\ Len(latest) <= 1
    /\ replaying \in 0 .. STORE_TIERS
    /\ clock \in Nat \ {0}
    /\ total \in Seq(Row) /\ Len(total) >= 1
    /\ opened \in [Coarse -> Nat]

\* What store_tier_sample and store_series read from a tier.
View(i) == Contents(tiers[i], Capacity[i])

\* The samples a tier has taken into account by closing buckets.
Covered(i) == IF i = 0 THEN Pushes ELSE opened[i]

\* The row of e is the sum of the samples e stands for, given the running sums.
ExactEntry(e, sums) ==
    e.last > 0 => /\ e.first < e.last
                  /\ e.last < Len(sums)
                  /\ e.row = Minus(sums[e.last + 1], sums[e.first + 1])

(***************************************************************************)
(* Every stored mean is the mean of exactly the samples pushed between the *)
(* previous bucket and its own closing, and the accumulators hold exactly  *)
(* the samples since: store_push adds the closing sample to the bucket it  *)
(* closes and resets acc and acc_n with it.                                *)
(***************************************************************************)
MeansExact ==
    /\ \A i \in Tier : \A k \in 1 .. Len(View(i)) : ExactEntry(View(i)[k], total)
    /\ \A i \in Coarse : /\ opened[i] <= Pushes
                         /\ acc[i] = Minus(total[Len(total)], total[opened[i] + 1])

\* The entries of s follow on from each other, up to the first n samples.
Follows(s, n) ==
    /\ \A k \in 1 .. Len(s) - 1 : s[k + 1].first = s[k].last
    /\ IF Len(s) = 0 THEN n = 0 ELSE s[Len(s)].last = n

(***************************************************************************)
(* No sample falls between two buckets and none is counted in two: the     *)
(* entries of a tier follow on from each other up to the open bucket, and  *)
(* replayed history (store_restore) only ever precedes them.               *)
(***************************************************************************)
EverySampleOnce == \A i \in Tier : Follows(View(i), Covered(i))

\* While saved history is replayed into a tier, the tier has seen no sample:
\* try_open_persistence never puts older entries on top of newer ones.
ReplayBeforeSamples == replaying \in Tier => Covered(replaying) = 0

\* Even when the clock is set back, a coarse bucket spans at least its interval,
\* so that coarse tiers are read oldest first, and at most one late sample more:
\* store_push closes no bucket early and lets none run on.
BucketWidth ==
    \A i \in Coarse : \A k \in 1 .. Len(View(i)) - 1 :
        View(i)[k].last > 0 =>
            LET width == View(i)[k + 1].ts - View(i)[k].ts
            IN  /\ width >= Interval[i]
                /\ \E d \in ClockSteps : width < Interval[i] + d

\* The rings implement the bounded history: what a reader sees is always the
\* most recent entries, in order (tier_append against store_tier_sample).
History == INSTANCE BoundedHistory WITH
    window <- [i \in Tier |-> Contents(tiers[i], Capacity[i])]
RefinesBoundedHistory == History!Spec
=============================================================================
