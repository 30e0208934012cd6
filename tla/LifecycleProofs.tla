-------------------------- MODULE LifecycleProofs ---------------------------
(***************************************************************************)
(* The tiers open together and the retry timer is unique, for every number *)
(* of tiers and every set of file systems.                                 *)
(*                                                                         *)
(* The timer property needs to know that nothing is open unless the        *)
(* program runs (Closed), and that an open file is on a file system, so    *)
(* that persists[i] # NULL really says it is open (Somewhere).  That no    *)
(* saved history is overwritten rests on the mount count: a program that   *)
(* runs without a file found no storage at discovery, so storage that is   *)
(* there now has changed the count, and is adopted into an empty store, or *)
(* has gone unnoticed (Unrecorded).                                        *)
(***************************************************************************)
EXTENDS Lifecycle, TLAPS

Closed == state # "running" => persists = NotOpen
Somewhere == persists \in [Tier -> Storage \cup {None, Dead}]
Running == state \in {"down", "starting", "running"} /\ mounts \subseteq Mounts

Inv == Closed /\ Somewhere /\ Running /\ AllTiersOrNone /\ OneRetryTimer

LEMMA TierFacts == STORE_TIERS - 1 \in Tier /\ STORE_TIERS \in Nat \ {0} /\ 0 \in Tier
  BY LifecycleAssumption DEF Tier

LEMMA NoneFacts == /\ None \notin Storage /\ None # Dead /\ Storage \subseteq Mounts
                   /\ None \notin Mounts /\ Dead \notin Mounts
  BY LifecycleAssumption

\* find_storage returns a mounted storage when there is one.
LEMMA BestIsMounted == mounts \cap Storage # {} => Best \in mounts \cap Storage
<1> SUFFICES ASSUME mounts \cap Storage # {} PROVE Best \in mounts \cap Storage
  OBVIOUS
<1>1. \E d \in mounts \cap Storage : \A e \in mounts \cap Storage : Size[e] <= Size[d]
  BY LargestAssumption
<1> QED
  BY <1>1 DEF Best

\* With no file open, and with every file open on d, what Open says.
LEMMA OpenOf ==
    /\ persists = NotOpen => ~Open
    /\ persists' = NotOpen => ~Open' /\ Somewhere' /\ AllTiersOrNone'
    /\ \A d \in Storage : persists' = [i \in Tier |-> d] => Open' /\ Somewhere' /\ AllTiersOrNone'
  BY TierFacts, NoneFacts DEF NotOpen, Open, Somewhere, AllTiersOrNone

\* After the opening part of a try either all tiers are open or none is.
LEMMA OpenTiersStep ==
    ASSUME NEW m, NEW n \in 0 .. STORE_TIERS, NEW lost, Opened(n, lost), OpenTiers(m, n, lost)
    PROVE  /\ Somewhere' /\ AllTiersOrNone'
           /\ Open' <=> n = STORE_TIERS
<1>1. CASE n = STORE_TIERS
  <2>1. mounts \cap Storage # {}
    BY <1>1, TierFacts DEF Opened
  <2>2. Best \in Storage
    BY <2>1, BestIsMounted
  <2>3. persists' = [i \in Tier |-> Best]
    BY <1>1 DEF OpenTiers
  <2> QED
    BY <1>1, <2>2, <2>3, OpenOf
<1>2. CASE n # STORE_TIERS
  BY <1>2, OpenOf DEF OpenTiers
<1> QED
  BY <1>1, <1>2

LEMMA InitInv == Init => Inv
<1> SUFFICES ASSUME Init PROVE Inv
  OBVIOUS
<1>1. persists = NotOpen /\ state = "down" /\ sources = 0 /\ timer = FALSE /\ mounts \subseteq Mounts
  BY DEF Init
<1> QED
  <2>1. Closed /\ Running /\ Somewhere /\ AllTiersOrNone
    BY <1>1 DEF Closed, Running, Somewhere, AllTiersOrNone, NotOpen
  <2>2. sources # 1
    BY <1>1
  <2>3. timer = (sources = 1)
    BY <1>1, <2>2, Zenon
  <2> QED
    BY <1>1, <2>1, <2>3 DEF Inv, OneRetryTimer

\* A removed file system turns every file on it into a dead one.
LEMMA MountChangeStep == ASSUME Inv, MountChange PROVE Inv'
<1> USE NoneFacts, TierFacts DEF Inv
<1>1. PICK d \in Mounts :
        /\ mounts' = (mounts \ {d}) \cup ({d} \ mounts)
        /\ persists' = [i \in Tier |-> IF persists[i] = d /\ d \in mounts THEN Dead ELSE persists[i]]
  BY DEF MountChange
<1>2. state' = state /\ sources' = sources /\ timer' = timer
  BY DEF MountChange
<1>3. \A i \in Tier : persists'[i] = None <=> persists[i] = None
  BY <1>1
<1>4. Open' <=> Open
  BY <1>3 DEF Open
<1>5. Closed'
  <2>1. persists = NotOpen => persists' = NotOpen
    BY <1>1 DEF NotOpen
  <2> QED
    BY <1>2, <2>1 DEF Closed
<1>6. Somewhere' /\ AllTiersOrNone'
  BY <1>1 DEF Somewhere, AllTiersOrNone
<1>7. Running' /\ OneRetryTimer'
  BY <1>1, <1>2, <1>4 DEF Running, OneRetryTimer
<1> QED
  BY <1>5, <1>6, <1>7

\* A try, by main or by the timer, which is then the only one.
LEMMA TryStep ==
    ASSUME Inv, NEW mine \in {0, 1}, try_open_persistence(mine),
           sources = mine, state' = "running"
    PROVE  Inv'
<1> USE DEF Inv
<1>1. PICK n \in 0 .. STORE_TIERS, lost \in Losses \cup {NoTiers} :
        /\ Opened(n, lost)
        /\ IF MountsChanged THEN rebuild_for_new_storage(mine, n, lost) ELSE TryOpen(mine, n, lost)
  BY DEF try_open_persistence
<1>2. mounts' = mounts
  BY DEF try_open_persistence
<1>3. \E m : OpenTiers(m, n, lost)
  BY <1>1 DEF rebuild_for_new_storage, TryOpen
<1>4. Somewhere' /\ AllTiersOrNone' /\ (Open' <=> n = STORE_TIERS)
  BY <1>1, <1>3, OpenTiersStep
<1>5. timer' = (n < STORE_TIERS) /\ sources' = IF n < STORE_TIERS THEN 1 ELSE 0
  <2>1. CASE MountsChanged
    BY <1>1, <2>1, TierFacts DEF rebuild_for_new_storage
  <2>2. CASE ~MountsChanged
    BY <1>1, <2>2, TierFacts DEF TryOpen
  <2> QED
    BY <2>1, <2>2
<1>6. n < STORE_TIERS <=> n # STORE_TIERS
  BY TierFacts
<1>7. OneRetryTimer'
  BY <1>4, <1>5, <1>6 DEF OneRetryTimer
<1> QED
  BY <1>2, <1>4, <1>7 DEF Closed, Running

LEMMA NextInv == ASSUME Inv, [Next]_vars PROVE Inv'
<1>1. CASE UNCHANGED vars
  BY <1>1 DEF vars, Inv, Closed, Somewhere, Running, AllTiersOrNone, OneRetryTimer, Open
<1>2. CASE MountChange
  BY <1>2, MountChangeStep
<1>3. CASE Start
  BY <1>3 DEF Start, Inv, Closed, Somewhere, Running, AllTiersOrNone, OneRetryTimer, Open
<1>4. CASE FirstTry
  <2>1. try_open_persistence(0) /\ state' = "running" /\ sources = 0
    BY <1>4 DEF FirstTry, Inv, OneRetryTimer
  <2> QED
    BY <2>1, TryStep
<1>5. CASE Retry
  <2>1. try_open_persistence(1) /\ state' = "running" /\ sources = 1
    BY <1>5 DEF Retry, Inv, OneRetryTimer
  <2> QED
    BY <2>1, TryStep
<1>6. CASE Sample
  BY <1>6 DEF Sample, Inv, Closed, Somewhere, Running, AllTiersOrNone, OneRetryTimer, Open
<1>7. CASE Terminate
  <2>1. persists' = NotOpen /\ state' = "down" /\ sources' = 0 /\ timer' = FALSE /\ mounts' = mounts
    BY <1>7 DEF Terminate
  <2>2. sources' # 1
    BY <2>1
  <2>3. timer' = (sources' = 1)
    BY <2>1, <2>2, Zenon
  <2>4. OneRetryTimer'
    BY <2>1, <2>3 DEF OneRetryTimer
  <2> QED
    BY <2>1, <2>4, OpenOf DEF Inv, Closed, Running
<1> QED
  BY <1>1, <1>2, <1>3, <1>4, <1>5, <1>6, <1>7 DEF Next

(***************************************************************************)
(* Through mounts, partial failures, rebuilds and restarts: the tiers are  *)
(* recorded together or not at all, and exactly one retry timer exists     *)
(* while the program runs without recording.                               *)
(***************************************************************************)
THEOREM RetryIsSound == Spec => [](AllTiersOrNone /\ OneRetryTimer)
<1>1. Inv => AllTiersOrNone /\ OneRetryTimer
  BY DEF Inv
<1> QED
  BY <1>1, InitInv, NextInv, PTL DEF Spec

\* For any number of tiers, try_open_persistence leaves all of them open or none,
\* whichever file of a try fails.
THEOREM TiersOpenTogether == Spec => []AllTiersOrNone
BY RetryIsSound, PTL

-----------------------------------------------------------------------------
(* The store and the files.                                                *)

Counted == epoch \in Nat /\ failures \in Nat

LEMMA CountedStep == ASSUME Counted, [Next]_vars PROVE Counted'
  BY DEF Counted, Next, MountChange, Start, FirstTry, Retry, try_open_persistence, Opened, TryOpen,
         rebuild_for_new_storage, Sample, Terminate, vars

LEMMA CountedHolds == Spec => []Counted
<1>1. Init => Counted
  BY DEF Init, Counted
<1> QED
  BY <1>1, CountedStep, PTL DEF Spec

(***************************************************************************)
(* For any number of tiers and failing opens: while the program runs and   *)
(* does not rebuild, no tier loses a sample (OpenTiers, Sample).           *)
(***************************************************************************)
THEOREM TiersOnlyGrow == Spec => StoreOnlyGrows
<1> DEFINE Grows == state = "running" /\ state' = "running" /\ epoch' = epoch =>
                       \A i \in Tier : tiers[i] \subseteq tiers'[i]
<1>1. ASSUME Counted, [Next]_vars PROVE Grows
  <2> SUFFICES ASSUME state = "running", state' = "running", epoch' = epoch, NEW i \in Tier
               PROVE  tiers[i] \subseteq tiers'[i]
    OBVIOUS
  <2>1. CASE Retry
    <3>1. PICK n \in 0 .. STORE_TIERS, lost \in Losses \cup {NoTiers} :
             IF MountsChanged THEN rebuild_for_new_storage(1, n, lost) ELSE TryOpen(1, n, lost)
      BY <2>1 DEF Retry, try_open_persistence
    <3>2. tiers' = Adopted(tiers, n)
      BY <1>1, <3>1 DEF rebuild_for_new_storage, TryOpen, OpenTiers, Counted
    <3> QED
      BY <3>2 DEF Adopted
  <2>2. CASE Sample
    BY <2>2 DEF Sample
  <2>3. CASE UNCHANGED tiers
    BY <2>3
  <2> QED
    BY <1>1, <2>1, <2>2, <2>3 DEF Next, MountChange, Start, FirstTry, Terminate, vars
<1> QED
  BY <1>1, CountedHolds, PTL DEF Spec, StoreOnlyGrows

\* A store that is not recorded, and not exposed, is empty or found no storage.
Unrecorded ==
    /\ DOMAIN saved = Storage /\ known \subseteq Mounts
    /\ exposed \in BOOLEAN
    /\ ~exposed /\ state = "starting" => tiers = NoTiers
    /\ ~exposed /\ state = "running" /\ ~Open => found = {}

\* A try: files are adopted by an empty store only, unless it is exposed.
LEMMA TrySaves ==
    ASSUME Inv, Counted, Unrecorded, NEW mine \in {0, 1},
           try_open_persistence(mine), state \in {"starting", "running"}, state' = "running"
    PROVE  /\ Unrecorded'
           /\ ~exposed' => \A d \in Storage, i \in Tier : saved[d][i] \subseteq saved'[d][i]
<1>1. PICK n \in 0 .. STORE_TIERS, lost \in Losses \cup {NoTiers} :
        /\ Opened(n, lost)
        /\ IF MountsChanged THEN rebuild_for_new_storage(mine, n, lost) ELSE TryOpen(mine, n, lost)
  BY DEF try_open_persistence
<1>2. PICK m : OpenTiers(m, n, lost) /\ m = IF MountsChanged THEN NoTiers ELSE tiers
  BY <1>1 DEF rebuild_for_new_storage, TryOpen
<1>3. known' = IF MountsChanged THEN mounts \cap Interesting ELSE known
  BY <1>1 DEF rebuild_for_new_storage, TryOpen
<1>4. mounts \subseteq Mounts /\ known \subseteq Mounts /\ mounts' = mounts /\ ~Open
  BY DEF Inv, Running, Unrecorded, try_open_persistence
<1>5. saved' = Synced(m, n, lost)
  BY <1>2 DEF OpenTiers
<1>6. DOMAIN saved' = Storage /\ known' \subseteq Mounts
  BY <1>3, <1>4, <1>5 DEF Synced, Unrecorded
<1>7. exposed' \in BOOLEAN
  <2>1. CASE MountsChanged
    BY <1>1, <2>1, Zenon DEF rebuild_for_new_storage
  <2>2. CASE ~MountsChanged
    BY <1>1, <2>2, Zenon DEF TryOpen
  <2> QED
    BY <2>1, <2>2
<1>8. ~exposed' => /\ failures' = failures
                   /\ found' = mounts \cap Storage
                   /\ ~MountsChanged => ~exposed /\ mounts \cap Storage = found
  <2>1. CASE MountsChanged
    BY <1>1, <2>1 DEF rebuild_for_new_storage
  <2>2. CASE ~MountsChanged
    BY <1>1, <2>2 DEF TryOpen, Replaced, MountsChanged
  <2> QED
    BY <2>1, <2>2
<1>9. ASSUME ~exposed'
      PROVE  /\ ~Open' => found' = {}
             /\ \A d \in Storage, i \in Tier : saved[d][i] \subseteq saved'[d][i]
  <2>1. CASE mounts \cap Storage = {}
    <3>1. saved' = saved
      BY <1>1, <1>5, <2>1 DEF Opened, Synced
    <3> QED
      BY <1>8, <1>9, <2>1, <3>1
  <2>2. CASE mounts \cap Storage # {}
    <3>1. n = STORE_TIERS /\ lost = NoTiers
      BY <1>1, <1>8, <1>9, <2>2 DEF Opened, Counted
    <3>2. Open'
      BY <1>1, <1>2, <3>1, OpenTiersStep
    <3>3. m = NoTiers
      <4>1. CASE MountsChanged
        BY <1>2, <4>1
      <4>2. CASE ~MountsChanged
        <5>1. ~exposed /\ found # {}
          BY <1>8, <1>9, <2>2, <4>2
        <5>2. state = "starting"
          BY <1>4, <5>1 DEF Unrecorded
        <5> QED
          BY <1>2, <4>2, <5>1, <5>2 DEF Unrecorded
      <4> QED
        BY <4>1, <4>2
    <3>4. \A i \in Tier : Adopted(m, n)[i] = saved[Best][i] /\ i < n /\ lost[i] = {}
      BY <3>1, <3>3, TierFacts DEF Adopted, NoTiers, Tier
    <3>5. Best \in Storage /\ n # 0
      BY <2>2, <3>1, BestIsMounted, TierFacts
    <3>6. \A d \in Storage, i \in Tier : saved'[d][i] = saved[d][i]
      <4> SUFFICES ASSUME NEW d \in Storage, NEW i \in Tier PROVE saved'[d][i] = saved[d][i]
        OBVIOUS
      <4>1. CASE d = Best
        <5>1. saved'[d][i] = Adopted(m, n)[i] \ lost[i]
          BY <1>5, <3>4, <3>5, <4>1 DEF Synced, Unrecorded
        <5> QED
          BY <3>4, <4>1, <5>1
      <4>2. CASE d # Best
        BY <1>5, <3>5, <4>2 DEF Synced, Unrecorded
      <4> QED
        BY <4>1, <4>2
    <3> QED
      BY <3>2, <3>6
  <2> QED
    BY <2>1, <2>2
<1> QED
  BY <1>6, <1>7, <1>9 DEF Unrecorded

LEMMA UnrecordedStep ==
    ASSUME Inv, Counted, Unrecorded, [Next]_vars
    PROVE  /\ Unrecorded'
           /\ ~exposed' => \A d \in Storage, i \in Tier : saved[d][i] \subseteq saved'[d][i]
<1>1. CASE FirstTry
  BY <1>1, TrySaves DEF FirstTry
<1>2. CASE Retry
  BY <1>2, TrySaves DEF Retry
<1>3. CASE MountChange
  <2>1. Open' <=> Open
    BY <1>3, NoneFacts, TierFacts DEF MountChange, Open
  <2> QED
    BY <1>3, <2>1 DEF MountChange, Unrecorded
<1>4. CASE Start
  BY <1>4, LifecycleAssumption DEF Start, Unrecorded
<1>5. CASE Sample
  BY <1>5 DEF Sample, Unrecorded, Open
<1>6. CASE Terminate
  BY <1>6 DEF Terminate, Unrecorded
<1>7. CASE UNCHANGED vars
  BY <1>7 DEF vars, Unrecorded, Open
<1> QED
  BY <1>1, <1>2, <1>3, <1>4, <1>5, <1>6, <1>7 DEF Next

LEMMA InvHolds == Spec => []Inv
  BY InitInv, NextInv, PTL DEF Spec

(***************************************************************************)
(* For any number of tiers, file systems, ways to count them and failing   *)
(* writes: no try and no rebuild overwrites saved history, unless a try of *)
(* the same store failed on mounted storage or met other storage than at   *)
(* discovery among as many mounts (try_open_persistence,                   *)
(* rebuild_for_new_storage, collector_mounts_changed).                     *)
(***************************************************************************)
THEOREM SavedIsKept == Spec => SavedSurvives
<1>1. Init => Unrecorded
  BY DEF Init, Unrecorded
<1>2. ASSUME Inv, Counted, Unrecorded, [Next]_vars PROVE Unrecorded'
  BY <1>2, UnrecordedStep
<1>3. ASSUME Inv, Counted, Unrecorded, [Next]_vars
      PROVE  ~exposed' => \A d \in Storage, i \in Tier : saved[d][i] \subseteq saved'[d][i]
  BY <1>3, UnrecordedStep
<1> QED
  BY <1>1, <1>2, <1>3, InvHolds, CountedHolds, PTL DEF Spec, SavedSurvives
=============================================================================
