------------------------------- MODULE Procs --------------------------------
(***************************************************************************)
(* The process table (procs.c): every PROCS_INTERVAL_S seconds /proc is    *)
(* scanned and each process gets the CPU time it used since the previous   *)
(* scan.  The table holds PROCS_MAX processes, and those that have exited  *)
(* leave it only at the end of a scan.                                     *)
(*                                                                         *)
(* Processes run, start and exit between the program's handlers; /proc is  *)
(* external.  A pid may be used again.  Time is counted from the last      *)
(* scan.  Names, memory and the order of the listing are left out.         *)
(***************************************************************************)
EXTENDS Integers, FiniteSets

CONSTANTS
    Pids,               \* process ids
    PROCS_MAX,          \* size of the table (512)
    PROCS_INTERVAL_S    \* seconds between two scans (10)

ASSUME ProcsAssumption == PROCS_MAX \in Nat \ {0} /\ PROCS_INTERVAL_S \in Nat \ {0}

VARIABLES
    jiffies,    \* kernel: the CPU time of each process there is
    table,      \* procs->entries: pid -> [jiffies, cpu] and auxiliary facts
    age,        \* seconds since last_scan, -1 before the first
    spent,      \* auxiliary: CPU time of each process since the last scan
    exited,     \* auxiliary: pids whose process has exited since /proc was last read
    blind       \* auxiliary: /proc could not be opened at the last scan

procsVars == <<jiffies, table, age, spent, exited, blind>>

Living == DOMAIN jiffies
Listed == DOMAIN table

\* procs_new.
ProcsInit ==
    /\ jiffies = << >> /\ table = << >> /\ age = -1
    /\ spent = [p \in Pids |-> 0] /\ exited = {} /\ blind = FALSE

\* The CPU figure of a process that used some jiffies in "elapsed" seconds.
Cpu(used, elapsed) == [used |-> used, elapsed |-> elapsed]

\* An entry given the baseline.  "spent" and "odd" are auxiliary: the time the
\* process really used since the last scan, if that knew it, and whether the
\* baseline is another process's or older than the last scan.
EntryOf(p, base, elapsed) ==
    [jiffies |-> jiffies[p],
     cpu |-> IF elapsed > 0 /\ jiffies[p] >= base THEN Cpu(jiffies[p] - base, elapsed)
             ELSE IF p \in Listed THEN table[p].cpu ELSE Cpu(0, 0),
     spent |-> IF p \in Listed THEN spent[p] ELSE 0,
     odd |-> p \in Listed /\ (p \in exited \/ blind)]

M_SpikeWhenNew(p, elapsed) ==
    EntryOf(p, IF p \in Listed THEN table[p].jiffies ELSE 0, elapsed)

\* One process of a scan.  A new one is its own baseline, so it shows no CPU time.
Scanned(p, elapsed) ==
    EntryOf(p, IF p \in Listed THEN table[p].jiffies ELSE jiffies[p], elapsed)

\* New processes get the room that is left beside all entries of the last scan,
\* in the order /proc lists them; the others are skipped.
Admitted(read) ==
    LET new == read \ Listed
        room == PROCS_MAX - Cardinality(Listed)
    IN  {S \in SUBSET new : Cardinality(S) = IF Cardinality(new) <= room
                                             THEN Cardinality(new) ELSE room}

M_KeepExited(read, elapsed) ==
    \E new \in Admitted(read) :
        table' = [p \in Listed \cup new |-> IF p \in read THEN Scanned(p, elapsed) ELSE table[p]]

\* scan, when /proc could be opened; "read" are the processes whose stat was read.
\* An entry that was not seen is dropped.
scan(read, elapsed) ==
    \E new \in Admitted(read) :
        table' = [p \in (read \cap Listed) \cup new |-> Scanned(p, elapsed)]

\* A scan is due: there was none yet, or PROCS_INTERVAL_S have passed.
ScanDue(seconds) == age = -1 \/ age + seconds >= PROCS_INTERVAL_S

\* procs_tick, "seconds" after the previous one.
procs_tick(seconds, opened, read) ==
    /\ UNCHANGED jiffies
    /\ IF ~ScanDue(seconds)
       THEN age' = age + seconds /\ UNCHANGED <<table, spent, exited, blind>>
       ELSE /\ age' = 0
            /\ IF opened
               THEN scan(read, IF age = -1 THEN 0 ELSE age + seconds) /\ exited' = {}
               ELSE UNCHANGED <<table, exited>>
            /\ spent' = [p \in Pids |-> 0]
            /\ blind' = ~opened

(***************************************************************************)
(* The processes.                                                          *)
(***************************************************************************)
Spawn(p) ==
    /\ p \notin Living
    /\ jiffies' = [q \in Living \cup {p} |-> IF q = p THEN 0 ELSE jiffies[q]]
    /\ spent' = [spent EXCEPT ![p] = 0]
    /\ UNCHANGED <<table, age, exited, blind>>

Exit(p) ==
    /\ p \in Living
    /\ jiffies' = [q \in Living \ {p} |-> jiffies[q]]
    /\ exited' = exited \cup {p}
    /\ UNCHANGED <<table, age, spent, blind>>

Run(p) ==
    /\ p \in Living
    /\ jiffies' = [jiffies EXCEPT ![p] = @ + 1]
    /\ spent' = [spent EXCEPT ![p] = @ + 1]
    /\ UNCHANGED <<table, age, exited, blind>>

Processes == \E p \in Pids : Spawn(p) \/ Exit(p) \/ Run(p)

-----------------------------------------------------------------------------
(***************************************************************************)
(* A process is shown with exactly the CPU time it used between the last   *)
(* two scans, and with nothing if the earlier scan did not know it; a      *)
(* process that takes the pid of one that was gone at the earlier scan has *)
(* no part of its baseline.  Two cases are excepted: a pid used again      *)
(* between two scans takes over its predecessor's baseline, and after a    *)
(* scan that could not open /proc the baseline is older than the time it   *)
(* is divided by (scan, procs_tick).                                       *)
(***************************************************************************)
CpuShareTrue == \A p \in Listed : table[p].odd \/ table[p].cpu.used = table[p].spent
=============================================================================
