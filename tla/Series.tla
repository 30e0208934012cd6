------------------------------- MODULE Series -------------------------------
(***************************************************************************)
(* The query side of the store: how large store_new makes the tiers, which *)
(* tier answers a request for a time window (store_tier_for_window) and    *)
(* what it answers with (store_series, called by api_series_json).         *)
(* Queries change nothing; they are made between two handlers, at any time *)
(* after the latest sample.                                                *)
(***************************************************************************)
EXTENDS Store, Functions, FiniteSetsExt

CONSTANTS
    Windows,             \* the windows that are asked for
    CHART_POINTS,        \* points a chart has room for (2000)
    MAX_SERIES_POINTS    \* points an answer has room for (4000)

(***************************************************************************)
(* store_new: TIER_INTERVAL, TIER_CAPACITY and TIER_MIN_CAPACITY as they   *)
(* are in the source.  "budget" is the number of samples the history may   *)
(* hold in its share of RAM, 0 if the size of the RAM is not known.        *)
(***************************************************************************)
TierInterval(fine) == <<fine, 15, 300>>
TierCapacity(fine) == <<Max({300, 1800 \div fine}), 2880, 8640>>
TIER_MIN_CAPACITY == <<300, 720, 576>>

Sum(s) == FoldFunction(+, 0, s)

Sized(fine, budget) ==
    LET wanted == Sum(TierCapacity(fine))
    IN  [i \in 1 .. 3 |->
            IF budget = 0 \/ wanted <= budget THEN TierCapacity(fine)[i]
            ELSE Max({TIER_MIN_CAPACITY[i], (TierCapacity(fine)[i] * budget) \div wanted})]

\* A tier coarser than the finest keeps no fewer entries, and it reaches further
\* back than the windows any other finer tier answers, when samples come "steps"
\* apart at most.
ReachesBack(finest, capacity, interval, points, steps) ==
    \A a, i \in DOMAIN capacity : a < i =>
        IF a = finest THEN capacity[a] <= capacity[i]
        ELSE \A d \in steps : (points + 2) * interval[a] + d <= (capacity[i] - 1) * interval[i]

\* Whatever the sample interval and the RAM, a coarser tier reaches further back,
\* with samples up to a day late, and the history exceeds its budget by no more
\* than the minimum capacities.
ASSUME SizingAssumption ==
    \A fine \in 1 .. 10, budget \in {0, 1, 500, 1600, 3000, 9000, 13000, 14000} :
        LET span == [i \in 1 .. 3 |-> Sized(fine, budget)[i] * TierInterval(fine)[i]]
        IN  /\ span[1] < span[2] /\ span[2] < span[3]
            /\ ReachesBack(1, Sized(fine, budget), TierInterval(fine), 2000, {fine, 86400})
            /\ budget > 0 => Sum(Sized(fine, budget)) <= budget + Sum(TIER_MIN_CAPACITY)

ASSUME SeriesAssumption ==
    /\ MAX_SERIES_POINTS \in Nat \ {0} /\ Windows \subseteq Nat \ {0} /\ CHART_POINTS \in Nat
    /\ ReachesBack(0, Capacity, Interval, CHART_POINTS, ClockSteps)

(***************************************************************************)
(* Queries.                                                                *)
(***************************************************************************)
M_FinestWhenNoneFits(window) ==
    LET fits == {i \in Tier : window \div Interval[i] <= CHART_POINTS}
    IN  IF fits = {} THEN 0 ELSE Min(fits)

\* The finest tier that does not have too many points for a chart.
store_tier_for_window(window) ==
    LET fits == {i \in Tier : window \div Interval[i] <= CHART_POINTS}
    IN  IF fits = {} THEN STORE_TIERS - 1 ELSE Min(fits)

\* The places of a tier's entries that are recent enough, and of those that
\* store_series returns, oldest first: as many as there is room for.
Recent(i, since) == LET view == View(i) IN {k \in DOMAIN view : view[k].ts >= since}
store_series(i, since) ==
    LET recent == Recent(i, since)
    IN  {k \in recent : Cardinality({j \in recent : j <= k}) <= MAX_SERIES_POINTS}

\* api_series_json at the time "now".
Answer(window, now) == store_series(store_tier_for_window(window), now - window)

-----------------------------------------------------------------------------
\* The samples of this run that an answer starts after.
Oldest(window, now) ==
    LET i == store_tier_for_window(window)
        view == View(i)
        shown == {k \in Answer(window, now) : view[k].last > 0}
    IN  IF shown = {} THEN Pushes ELSE view[Min(shown)].first

\* Zooming out from w to v stays in a tier, or leaves the finest one, or adds
\* more than a bucket of the tier it leaves, which may straddle the start of w.
WidensEnough(w, v) ==
    LET a == store_tier_for_window(w)
    IN  \/ a \in {0, store_tier_for_window(v)}
        \/ \A d \in ClockSteps : v - w >= Interval[a] + d

\* No entry of the tier is from a future the clock was set back from.
NoneAhead(i, now) == LET view == View(i) IN \A k \in DOMAIN view : view[k].ts <= now

(***************************************************************************)
(* Zooming out hides nothing: the answer for a longer window, which may    *)
(* come from a coarser tier with its own ring and its own buckets, starts  *)
(* no later than the answer for a shorter one, except that the bucket that *)
(* is still open is not shown, and if it shows samples of this run it ends *)
(* with the newest entry of its tier (store_tier_for_window, store_series).*)
(* Excepted is a window with more than MAX_SERIES_POINTS entries, whose    *)
(* newest ones are cut off.                                                *)
(***************************************************************************)
ZoomOutHidesNothing ==
    \A now \in {clock, clock + 1}, v \in Windows :
        LET i == store_tier_for_window(v)
            recent == Recent(i, now - v)
            oldest == Oldest(v, now)
        IN  NoneAhead(i, now) /\ Cardinality(recent) <= MAX_SERIES_POINTS
            => /\ \A w \in Windows : w < v /\ WidensEnough(w, v)
                     => oldest <= Oldest(w, now) \/ Oldest(w, now) >= Covered(i)
               /\ (\E k \in recent : View(i)[k].last > 0)
                     => /\ Len(View(i)) \in Answer(v, now)
                        /\ View(i)[Len(View(i))].last = Covered(i)
=============================================================================
