---------------------------- MODULE EventStream -----------------------------
(***************************************************************************)
(* The event stream (main.c): every sample is written as one frame to each *)
(* client in turn.  A client that has no room for SSE_MAX_STALLED frames   *)
(* in a row is dropped.                                                    *)
(*                                                                         *)
(* sse_add makes the socket non-blocking and sse_broadcast expects         *)
(* WOULD_BLOCK from a full one.  GLib's stream of a socket connection      *)
(* sends as on a blocking socket all the same: g_output_stream_write waits *)
(* until the client reads or its connection fails, and with it the main    *)
(* loop.  Both kinds of stream are modelled (waits).                       *)
(*                                                                         *)
(* A socket's send buffer is counted in half frames: a frame takes two, a  *)
(* write takes what there is room for, and a partial write is not resumed. *)
(* Sockets, streams and clients are external.                              *)
(***************************************************************************)
EXTENDS Integers

CONSTANTS
    Clients,            \* connections
    SSE_MAX_STALLED,    \* frames a client may miss in a row (30)
    SendBuffer          \* size of a send buffer, in half frames

ASSUME EventStreamAssumption == SSE_MAX_STALLED \in Nat \ {0} /\ SendBuffer \in Nat

FRAME == 2

VARIABLES
    sse_clients,    \* client -> [stalled]
    room,           \* free space of each send buffer
    peer,           \* what became of each client: "reading", "gone" or "reset"; a
                    \* connection that does not stream is as good as new
    unwritten,      \* clients that the broadcast under way has yet to write to
    waits,          \* whether a write to a full buffer waits for room
    missed,         \* auxiliary: frames in a row that a client had no room for
    dropped         \* auxiliary: clients the latest broadcast dropped

streamVars == <<sse_clients, room, peer, unwritten, waits, missed, dropped>>

Streaming == DOMAIN sse_clients

StreamInit ==
    /\ sse_clients = << >> /\ dropped = {} /\ peer = [c \in Clients |-> "reading"]
    /\ unwritten = {} /\ waits \in BOOLEAN
    /\ room = [c \in Clients |-> SendBuffer] /\ missed = [c \in Clients |-> 0]

\* No broadcast is under way: the main loop can dispatch other handlers.
MainLoopFree == unwritten = {}

\* sse_add: the headers were written and the client listed.
sse_add(c) ==
    /\ c \notin Streaming
    /\ sse_clients' = [d \in Streaming \cup {c} |-> IF d = c THEN [stalled |-> 0] ELSE sse_clients[d]]
    /\ missed' = [missed EXCEPT ![c] = 0] /\ dropped' = dropped \ {c}
    /\ UNCHANGED <<room, peer, unwritten, waits>>

M_StallForgotten(c) == IF room[c] > 0 THEN 0 ELSE 1
M_StalledKept(c) == sse_clients[c].stalled + (IF room[c] = 0 THEN 1 ELSE 0)

\* What a write makes of a client's count: any byte written resets it.
Stalled(c) == IF room[c] > 0 THEN 0 ELSE sse_clients[c].stalled + 1

\* Writing to a connection that was reset is an error other than WOULD_BLOCK.
Failing(c) == peer[c] = "reset"

\* A client is dropped at once on an error, and when stalled for too long.
Dropped(c) == Failing(c) \/ Stalled(c) >= SSE_MAX_STALLED

\* The count of missed frames, as far as it matters.
CountOn(n) == IF n > SSE_MAX_STALLED THEN n ELSE n + 1

\* sse_broadcast goes through its clients...
sse_broadcast ==
    /\ MainLoopFree
    /\ unwritten' = Streaming /\ dropped' = {}
    /\ missed' = [c \in Clients |-> IF c \in Streaming THEN missed[c] ELSE 0]
    /\ UNCHANGED <<sse_clients, room, peer, waits>>

\* ...and writes to one after the other, as soon as g_output_stream_write returns.
sse_write(c) ==
    /\ c \in unwritten
    /\ Failing(c) \/ room[c] > 0 \/ ~waits
    /\ unwritten' = unwritten \ {c}
    /\ LET kept == IF Dropped(c) THEN Streaming \ {c} ELSE Streaming
       IN  sse_clients' = [d \in kept |-> IF d = c THEN [stalled |-> Stalled(c)] ELSE sse_clients[d]]
    /\ room' = [room EXCEPT ![c] = IF Dropped(c) THEN SendBuffer ELSE IF @ > FRAME THEN @ - FRAME ELSE 0]
    /\ peer' = [peer EXCEPT ![c] = IF Dropped(c) THEN "reading" ELSE @]
    /\ missed' = [missed EXCEPT ![c] = IF room[c] = 0 THEN CountOn(@) ELSE 0]
    /\ dropped' = IF Dropped(c) /\ ~Failing(c) THEN dropped \cup {c} ELSE dropped
    /\ UNCHANGED waits

\* The sockets close with the program.
stream_close ==
    /\ sse_clients' = << >> /\ unwritten' = {} /\ dropped' = {}
    /\ room' = [c \in Clients |-> SendBuffer]
    /\ peer' = [c \in Clients |-> "reading"]
    /\ missed' = [c \in Clients |-> 0]
    /\ UNCHANGED waits

\* The clients: reading makes room; a client may stop for good, closed or stuck,
\* and its connection may some time be found to be reset.
ClientReads(c) ==
    /\ c \in Streaming /\ peer[c] = "reading" /\ room[c] < SendBuffer
    /\ \E n \in 1 .. SendBuffer - room[c] : room' = [room EXCEPT ![c] = @ + n]
    /\ UNCHANGED <<sse_clients, peer, unwritten, waits, missed, dropped>>
ClientGone(c) ==
    /\ c \in Streaming
    /\ \/ peer[c] = "reading" /\ peer' = [peer EXCEPT ![c] = "gone"]
       \/ peer[c] = "gone" /\ peer' = [peer EXCEPT ![c] = "reset"]
    /\ UNCHANGED <<sse_clients, room, unwritten, waits, missed, dropped>>

-----------------------------------------------------------------------------
\* A client that reads, however slowly, is dropped only after SSE_MAX_STALLED
\* frames in a row that found no room at all, and one that is kept has missed
\* fewer: a single byte of room starts the count again.  Where a write waits for
\* room no frame is missed, and none is dropped for that (sse_broadcast).
DroppedWhenStalled ==
    /\ \A c \in Streaming : missed[c] < SSE_MAX_STALLED
    /\ \A c \in dropped : missed[c] = SSE_MAX_STALLED /\ ~waits
=============================================================================
