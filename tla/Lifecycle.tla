------------------------------ MODULE Lifecycle -----------------------------
(***************************************************************************)
(* How main.c keeps all tiers recorded while storage comes and goes:       *)
(* start-up, the retry timer, try_open_persistence with its partial        *)
(* failures, and the rebuild when the mount table has changed.             *)
(*                                                                         *)
(* Samples are abstracted to the epoch they were taken in, where every     *)
(* store_new starts an epoch; a tier and a file are the sets of epochs     *)
(* they hold samples of.  Any record write may fail and is then left out.  *)
(* Rings, wrapping and crashes are the subject of Store and Recording.     *)
(* Handlers run to completion on the main loop; only mounts change between *)
(* them.                                                                   *)
(***************************************************************************)
EXTENDS Integers, FiniteSets

CONSTANTS
    STORE_TIERS,    \* number of tiers (3)
    Mounts,         \* file systems that may be mounted
    Storage,        \* the ones find_storage accepts
    Interesting,    \* the ones mount_is_interesting accepts
    Size,           \* their sizes
    Losses,         \* what rewrites may lose: the epochs, for each tier
    None, Dead,     \* no open file; an open file whose file system is gone
    MaxStarts,      \* bound on starts of the program
    MaxMounts,      \* bound on changes of the mount table
    MaxFailures     \* bound on failing opens and rewrites

Tier == 0 .. STORE_TIERS - 1

ASSUME LifecycleAssumption ==
    /\ STORE_TIERS \in Nat \ {0}
    /\ IsFiniteSet(Mounts) /\ Storage \subseteq Mounts /\ Interesting \subseteq Mounts
    /\ Size \in [Mounts -> Nat]
    /\ Losses \subseteq [Tier -> SUBSET Nat]
    /\ \A d, e \in Mounts : Size[d] = Size[e] => d = e
    /\ None \notin Mounts /\ Dead \notin Mounts /\ None # Dead
    /\ MaxStarts \in Nat /\ MaxMounts \in Nat /\ MaxFailures \in Nat
\* Among file systems there is a largest one, as among any finitely many.
ASSUME LargestAssumption ==
    \A S \in SUBSET Storage : S # {} => \E d \in S : \A e \in S : Size[e] <= Size[d]

VARIABLES
    state,       \* "down", "starting" (before the first try) or "running"
    mounts,      \* /proc/mounts
    known,       \* the collector's mounts: what the registry was built from
    epoch,       \* the current store
    tiers,       \* epochs each tier holds samples of
    persists,    \* persists[i]: the storage the tier's file is on, None or Dead
    saved,       \* epochs each file holds samples of
    timer,       \* persist_retry_timer # 0
    sources,     \* number of retry timers the main loop has
    changes,     \* mount table changes so far
    starts,      \* starts so far
    failures,    \* failed opens and rewrites so far
    found,       \* auxiliary: the storage that was mounted at the last discovery
    exposed      \* auxiliary: since then a try failed on mounted storage, or other
                 \* storage than found was there among as many mounts

vars == <<state, mounts, known, epoch, tiers, persists, saved, timer, sources,
          changes, starts, failures, found, exposed>>

NoTiers == [i \in Tier |-> {}]
NotOpen == [i \in Tier |-> None]

Init ==
    /\ state = "down" /\ epoch = 0
    /\ mounts \in SUBSET Mounts
    /\ known = {}
    /\ tiers = NoTiers /\ persists = NotOpen
    /\ saved = [d \in Storage |-> NoTiers]
    /\ timer = FALSE /\ sources = 0
    /\ changes = 0 /\ starts = 0 /\ failures = 0
    /\ found = {} /\ exposed = FALSE

\* persists[STORE_TIERS - 1] != NULL, which it stays when the storage has gone.
Open == persists[STORE_TIERS - 1] # None
\* Every tier's file is open on storage that is mounted.
Recorded == \E d \in mounts \cap Storage : persists = [i \in Tier |-> d]

\* File systems are mounted and removed by the device.  A file stays open when
\* its file system goes, but every write to it fails from then on.
MountChange ==
    /\ changes < MaxMounts
    /\ \E d \in Mounts :
          /\ mounts' = (mounts \ {d}) \cup ({d} \ mounts)
          /\ persists' = [i \in Tier |-> IF persists[i] = d /\ d \in mounts THEN Dead ELSE persists[i]]
    /\ changes' = changes + 1
    /\ UNCHANGED <<state, known, epoch, tiers, saved, timer, sources, starts, failures, found, exposed>>

\* main, up to the first try: discovery and an empty store.
Start ==
    /\ state = "down" /\ starts < MaxStarts
    /\ state' = "starting" /\ starts' = starts + 1
    /\ known' = mounts \cap Interesting
    /\ epoch' = epoch + 1
    /\ tiers' = NoTiers
    /\ found' = mounts \cap Storage /\ exposed' = FALSE
    /\ UNCHANGED <<mounts, persists, saved, timer, sources, changes, failures>>

M_MountsNeverChange == FALSE

\* collector_mounts_changed compares only how many mounts there are.
MountsChanged == Cardinality(mounts \cap Interesting) # Cardinality(known)

\* Other storage than at discovery, and just as many mounts (auxiliary).
Replaced == /\ mounts \cap Storage # found
            /\ Cardinality(mounts \cap Interesting) = Cardinality(known)

\* find_storage: the largest.
Best == CHOOSE d \in mounts \cap Storage : \A e \in mounts \cap Storage : Size[e] <= Size[d]

M_AdoptIntoAnyTier(m, n) == [i \in Tier |-> IF i < n THEN saved[Best][i] ELSE m[i]]

\* The loop of try_open_persistence over a store holding m, with n files opened
\* before persist_open fails (or all of them): load into an empty tier, then
\* sync, which skips the records in lost, whose writes fail.
Adopted(m, n) == [i \in Tier |-> IF i < n /\ m[i] = {} THEN saved[Best][i] ELSE m[i]]
Synced(m, n, lost) ==
    IF n = 0 THEN saved
    ELSE [saved EXCEPT ![Best] = [i \in Tier |-> IF i < n THEN Adopted(m, n)[i] \ lost[i] ELSE @[i]]]

\* How many tiers a try opens: none without storage, all of them, or fewer
\* because an open or mkdir failed; and the epochs whose records a tier's
\* rewrite could not write.
Opened(n, lost) ==
    IF mounts \cap Storage = {} THEN n = 0 /\ lost = NoTiers /\ UNCHANGED failures
    ELSE \/ n = STORE_TIERS /\ lost = NoTiers /\ UNCHANGED failures
         \/ /\ n < STORE_TIERS \/ lost # NoTiers
            /\ failures < MaxFailures /\ failures' = failures + 1

M_OpenTiersKeepsSome(m, n, lost) ==
    /\ tiers' = Adopted(m, n)
    /\ saved' = Synced(m, n, lost)
    /\ persists' = [i \in Tier |-> IF i < n THEN Best ELSE None]

\* The opening part of try_open_persistence.  A failure closes every tier again.
OpenTiers(m, n, lost) ==
    /\ tiers' = Adopted(m, n)
    /\ saved' = Synced(m, n, lost)
    /\ persists' = IF n = STORE_TIERS THEN [i \in Tier |-> Best] ELSE NotOpen

M_TryOpenGivesUp(mine, n, lost) ==
    /\ OpenTiers(tiers, n, lost)
    /\ timer' = (n < STORE_TIERS)
    /\ sources' = IF n < STORE_TIERS /\ mine = 0 THEN sources + 1 ELSE sources - mine
    /\ exposed' = (exposed \/ failures' # failures \/ Replaced)
    /\ UNCHANGED <<epoch, known, found>>

\* try_open_persistence with an unchanged mount count.  On failure it returns
\* G_SOURCE_CONTINUE: a timer that fired stays, and main arms one (mine = 0).
TryOpen(mine, n, lost) ==
    /\ OpenTiers(tiers, n, lost)
    /\ timer' = (n < STORE_TIERS)
    /\ sources' = IF n = STORE_TIERS THEN sources - mine
                  ELSE IF mine = 0 THEN sources + 1 ELSE sources
    /\ exposed' = (exposed \/ failures' # failures \/ Replaced)
    /\ UNCHANGED <<epoch, known, found>>

M_RebuildKeepsTimer(mine, n, lost) ==
    /\ known' = mounts \cap Interesting
    /\ epoch' = epoch + 1
    /\ OpenTiers(NoTiers, n, lost)
    /\ timer' = (n < STORE_TIERS)
    /\ sources' = IF n < STORE_TIERS THEN sources + 1 ELSE sources
    /\ found' = mounts \cap Storage /\ exposed' = (failures' # failures)

\* rebuild_for_new_storage, called with persist_retry_timer = 0: a new registry
\* and an empty store, another try, and a timer if that fails.  The outer call
\* returns G_SOURCE_REMOVE, so the timer that fired goes.
rebuild_for_new_storage(mine, n, lost) ==
    /\ known' = mounts \cap Interesting
    /\ epoch' = epoch + 1
    /\ OpenTiers(NoTiers, n, lost)
    /\ timer' = (n < STORE_TIERS)
    /\ sources' = (IF n < STORE_TIERS THEN sources + 1 ELSE sources) - mine
    /\ found' = mounts \cap Storage /\ exposed' = (failures' # failures)

\* try_open_persistence, called by main (mine = 0) or by a retry timer (1).
try_open_persistence(mine) ==
    /\ ~Open
    /\ \E n \in 0 .. STORE_TIERS, lost \in Losses \cup {NoTiers} :
          /\ Opened(n, lost)
          /\ IF MountsChanged THEN rebuild_for_new_storage(mine, n, lost) ELSE TryOpen(mine, n, lost)
    /\ UNCHANGED <<mounts, changes, starts>>

\* The first try, made by main itself.
FirstTry ==
    /\ state = "starting"
    /\ state' = "running"
    /\ try_open_persistence(0)

\* A retry timer fires.
Retry ==
    /\ state = "running" /\ sources > 0
    /\ try_open_persistence(1)
    /\ UNCHANGED state

\* on_sample_tick: tier 0 and the tiers whose bucket closes; on_tier_sample
\* writes the record, which fails for some (all, if the file system is gone).
Sample ==
    /\ state = "running"
    /\ \E closing \in SUBSET Tier : \E written \in SUBSET closing :
          /\ 0 \in closing
          /\ tiers' = [i \in Tier |-> IF i \in closing THEN tiers[i] \cup {epoch} ELSE tiers[i]]
          /\ saved' = [d \in Storage |-> [i \in Tier |->
                          IF i \in written /\ persists[i] = d
                          THEN saved[d][i] \cup {epoch} ELSE saved[d][i]]]
    /\ UNCHANGED <<state, mounts, known, epoch, persists, timer, sources, changes, starts,
                   failures, found, exposed>>

\* SIGTERM: main removes the retry timer it knows of and closes the files.
Terminate ==
    /\ state = "running"
    /\ state' = "down"
    /\ persists' = NotOpen
    /\ tiers' = NoTiers /\ known' = {}
    /\ timer' = FALSE /\ sources' = 0
    /\ UNCHANGED <<mounts, epoch, saved, changes, starts, failures, found, exposed>>

Next ==
    \/ MountChange
    \/ Start
    \/ FirstTry
    \/ Retry
    \/ Sample
    \/ Terminate

(***************************************************************************)
(* The main loop dispatches a due timer and main goes on to its first try; *)
(* nothing is assumed of the device, of samples or of restarts.            *)
(***************************************************************************)
Fairness == WF_vars(FirstTry) /\ WF_vars(Retry)

Spec == Init /\ [][Next]_vars /\ Fairness

-----------------------------------------------------------------------------
\* A failure half way through the tiers leaves none of them open: the tiers are
\* recorded together, on one storage, or not at all (close_persistence).
AllTiersOrNone == \A i, j \in Tier : persists[i] = persists[j]

\* While history is not recorded there is exactly one retry timer, and
\* persist_retry_timer names it; otherwise there is none.  So no try is lost,
\* tries do not multiply, and main removes a timer that exists.
OneRetryTimer ==
    /\ sources = IF state = "running" /\ ~Open THEN 1 ELSE 0
    /\ timer = (sources = 1)

\* A try that fails half way loses nothing of the store: a tier only ever
\* gains samples until the program ends or rebuilds (OpenTiers, Sample).
StoreOnlyGrows ==
    [][state = "running" /\ state' = "running" /\ epoch' = epoch =>
          \A i \in Tier : tiers[i] \subseteq tiers'[i]]_vars

\* No try and no rebuild overwrites saved history, because try_open_persistence
\* adopts it before the file is rewritten.  Excepted is a store for which a try
\* failed on mounted storage, or found other storage than at discovery while
\* the number of mounts is the same (Replaced): it has samples of its own when it is
\* recorded at last, and those replace what is on the storage.
SavedSurvives ==
    [][~exposed' => \A d \in Storage, i \in Tier : saved[d][i] \subseteq saved'[d][i]]_vars

\* While no file is open, storage that stays mounted is eventually recorded to,
\* however late it appears, if opening it does not fail for ever (MaxFailures).
\* This says nothing of a file that is open already (see KeepsLooking).
StorageIsPickedUp ==
    (state = "running" /\ ~Open /\ mounts \cap Storage # {})
        ~> (Recorded \/ state # "running" \/ mounts \cap Storage = {})

\* src/README.md:266-268: "the app keeps looking for it every 30 seconds.  If a
\* filesystem appears after startup, the metric set is rediscovered as well": what
\* appears after startup is recorded to, also in place of storage that was removed.
KeepsLooking ==
    (state = "running" /\ mounts \cap Storage # {})
        ~> (Recorded \/ state # "running" \/ mounts \cap Storage = {})
=============================================================================
