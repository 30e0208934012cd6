--------------------------- MODULE DurableHistory ---------------------------
(***************************************************************************)
(* What a tier that is recorded to a file promises across runs, without    *)
(* rings, slots, columns or a header that lags behind: which rows a run    *)
(* starts with, given the rows the file held and how the last run that     *)
(* wrote to it ended.                                                      *)
(*                                                                         *)
(* A run collects in memory until storage is found.  Rows it already has   *)
(* replace the file's; if it has none it takes over what the file holds.   *)
(* Either way it writes its history to the file anew, less the rows whose  *)
(* write fails, and from then on every row reaches both, unless a write    *)
(* fails.  It may let go of the file at once and collect in memory again.  *)
(***************************************************************************)
EXTENDS Ring, FiniteSets

CONSTANTS
    Ids, NAN,            \* metric ids, and no reading
    Registries,          \* metric sets a run may have: [ids, capacity, interval_s]
    Row,                 \* what may be recorded: [ts, src]
    HEADER_FLUSH_EVERY   \* how many rows a crash may lose

VARIABLES
    phase,   \* "down", "memory", "attached", "rewriting" or "recording"
    reg,     \* the metric set of this run
    live,    \* the rows in memory, oldest first
    kept,    \* the rows the file was last known to hold
    format,  \* [capacity, interval_s] of the file, << >> if there is none
    ended    \* how the last run that wrote to the file ended

hvars == <<phase, reg, live, kept, format, ended>>

Init ==
    /\ phase = "down" /\ reg \in Registries
    /\ live = << >> /\ kept = << >> /\ format = << >>
    /\ ended = "clean"

\* t is s after one more row has arrived.
Grows(s, t) ==
    /\ Len(t) > 0
    /\ t[Len(t)] \in Row
    /\ t = Slide(s, reg.capacity, t[Len(t)])

Begin ==
    /\ phase = "down" /\ phase' = "memory"
    /\ reg' \in Registries
    /\ UNCHANGED <<live, kept, format, ended>>

Collect ==
    /\ phase = "memory"
    /\ Grows(live, live')
    /\ UNCHANGED <<phase, reg, kept, format, ended>>

Times(s) == {s[j].ts : j \in 1 .. Len(s)}

\* The last n elements of a sequence.
Newest(s, n) == IF Len(s) <= n THEN s ELSE SubSeq(s, Len(s) - n + 1, Len(s))

\* The rows of s as this run can represent them: its own metrics, as many rows
\* as it has room for.
Adopted(s) ==
    [j \in 1 .. Len(Newest(s, reg.capacity)) |->
        LET row == Newest(s, reg.capacity)[j]
        IN  [ts |-> row.ts,
             src |-> [m \in Ids |->
                        IF \E i \in 1 .. Len(reg.ids) : reg.ids[i] = m THEN row.src[m] ELSE NAN]]]

Readable == format # << >> /\ format[1].interval_s = reg.interval_s

\* What a crash while recording loses: at most HEADER_FLUSH_EVERY rows, and the
\* newest ones if the file was not full.
Survives(s) ==
    /\ Cardinality(Times(Adopted(kept)) \ Times(s)) <= HEADER_FLUSH_EVERY
    /\ Len(kept) < format[1].capacity =>
          \E n \in 0 .. Len(Adopted(kept)) : s = SubSeq(Adopted(kept), 1, n)

\* What may be taken over from the file.  Nothing is promised of its rows when
\* a run ended while it wrote the file anew.
Restores(s) ==
    /\ Len(s) <= reg.capacity
    /\ ~Readable => s = << >>
    /\ Readable /\ ended = "clean" => s = Adopted(kept)
    /\ Readable /\ ended = "recording" =>
          /\ Times(s) \subseteq Times(kept)
          /\ format[1].capacity <= reg.capacity => Survives(s)

\* Storage was found.
Attach ==
    /\ phase = "memory" /\ phase' = "attached"
    /\ IF live = << >> THEN Restores(live') ELSE live' = live
    /\ UNCHANGED <<reg, kept, format, ended>>

\* The file is written anew: it is given this run's format, then its rows.
Rewrite ==
    /\ phase = "attached" /\ phase' = "rewriting"
    /\ UNCHANGED <<reg, live, kept, format, ended>>

OwnFormat == <<[capacity |-> reg.capacity, interval_s |-> reg.interval_s]>>

Reformat ==
    /\ phase = "rewriting"
    /\ format' = OwnFormat
    /\ UNCHANGED <<phase, reg, live, kept, ended>>

\* s is t without some of its entries.
Subsequence(s, t) ==
    \E at \in [1 .. Len(s) -> 1 .. Len(t)] :
        /\ \A i, j \in 1 .. Len(s) : i < j => at[i] < at[j]
        /\ \A j \in 1 .. Len(s) : s[j] = t[at[j]]

\* The file holds the rows in memory, except those whose write failed.
Commit ==
    /\ phase = "rewriting" /\ phase' = "recording"
    /\ format = OwnFormat
    /\ kept' \in Seq(Row) /\ Subsequence(kept', live)
    /\ UNCHANGED <<reg, live, format, ended>>

\* The file is given up in good order and the rows stay in memory.
Detach ==
    /\ phase = "recording" /\ phase' = "memory"
    /\ ended' = "clean"
    /\ UNCHANGED <<reg, live, kept, format>>

\* A row reaches memory and file, or memory only because the write failed.
Record ==
    /\ phase = "recording"
    /\ Grows(live, live')
    /\ kept' \in {kept, Slide(kept, reg.capacity, live'[Len(live')])}
    /\ UNCHANGED <<phase, reg, format, ended>>

\* A shutdown, which is clean for a file that is being recorded to.
Stop ==
    /\ phase \in {"memory", "recording"} /\ phase' = "down"
    /\ live' = << >>
    /\ ended' = IF phase = "recording" THEN "clean" ELSE ended
    /\ UNCHANGED <<reg, kept, format>>

\* The process is killed, at any time.
Crash ==
    /\ phase # "down" /\ phase' = "down"
    /\ live' = << >>
    /\ ended' = IF phase \in {"rewriting", "recording"} THEN phase ELSE ended
    /\ UNCHANGED <<reg, kept, format>>

Next ==
    \/ Begin \/ Collect \/ Attach \/ Rewrite \/ Reformat \/ Commit \/ Detach \/ Record
    \/ Stop \/ Crash

Spec == Init /\ [][Next]_hvars
=============================================================================
