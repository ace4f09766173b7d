------------------------------- MODULE Relay -------------------------------
(***************************************************************************)
(* relay: tokio's copy_bidirectional between two connections, raced against *)
(* the shutdown.  Each direction reads one stream and writes another; when *)
(* its input ends it ends its output, and the relay is over when both have *)
(* ended.  Any error of either direction is the end of both, and so is the *)
(* shutdown; what a direction holds in its buffer is then lost.            *)
(*                                                                         *)
(* A stream is one half of a connection: how many bytes were put into it,  *)
(* how many were taken out of it, and whether it is open, orderly finished *)
(* or cut.  The variable `stream` belongs to everybody at the line; an     *)
(* instance moves only the four streams it is given.                       *)
(***************************************************************************)
EXTENDS Naturals

CONSTANTS
  Source, Sink,   \* the stream each direction reads, and writes
  BufferSize,     \* bytes a direction may hold
  StreamSize,     \* bytes a stream may hold
  Tls             \* the streams that are half of a TLS connection

VARIABLES
  stream,   \* stream[n]: [put, taken, end]
  copy,     \* copy[d]: "copying", "shutting" or "done"
  buffer,   \* buffer[d]: bytes read and not yet written
  result    \* "idle", "running", "ok", "failed" or "cancelled"

vars == <<stream, copy, buffer, result>>

Directions == DOMAIN Source
Sources == {Source[d] : d \in Directions}
Sinks == {Sink[d] : d \in Directions}

NewStream == [put |-> 0, taken |-> 0, end |-> "open"]
InFlight(n) == stream[n].put - stream[n].taken

RelayInit ==
  /\ copy = [d \in Directions |-> "copying"]
  /\ buffer = [d \in Directions |-> 0]
  /\ result = "idle"

RelayTypeOK ==
  /\ copy \in [Directions -> {"copying", "shutting", "done"}]
  /\ buffer \in [Directions -> 0..BufferSize]
  /\ result \in {"idle", "running", "ok", "failed", "cancelled"}

-----------------------------------------------------------------------------
(***************************************************************************)
(* The streams of a relay that is let go.                                  *)
(***************************************************************************)

\* Input of the same connection that nobody has read.
Unread(n) == \E d, e \in Directions : d # e /\ Sink[d] = n /\ InFlight(Source[e]) > 0

\* A TLS stream that is dropped sends no close_notify: its reader takes the
\* end for an error, and what still comes in may reset even an orderly end.
\* On a plain socket the drop looks like the end, or like a reset when input
\* is unread.
DroppedEnd(n) ==
  IF stream[n].end = "cut" \/ (n \in Tls /\ stream[n].end = "open") THEN {"cut"}
  ELSE IF n \in Tls THEN {"fin", "cut"}
  ELSE IF Unread(n) THEN {"cut"} ELSE {"fin"}

\* What is still unread in a source is gone, and its writer will notice.
DroppedSource(n) ==
  IF InFlight(n) = 0 /\ stream[n].end = "fin" THEN stream[n]
  ELSE [stream[n] EXCEPT !.taken = stream[n].put, !.end = "cut"]

Dropped ==
  \E end \in [Sinks -> {"fin", "cut"}] :
    /\ \A n \in Sinks : end[n] \in DroppedEnd(n)
    /\ stream' = [n \in DOMAIN stream |->
                    IF n \in Sources THEN DroppedSource(n)
                    ELSE IF n \in Sinks THEN [stream[n] EXCEPT !.end = end[n]]
                    ELSE stream[n]]

EndsWith(verdict) ==
  /\ result' = verdict
  /\ Dropped
  /\ copy' = [d \in Directions |-> "done"]
  /\ buffer' = [d \in Directions |-> 0]

-----------------------------------------------------------------------------
(***************************************************************************)
(* One direction, transfer_one_direction.                                  *)
(***************************************************************************)

\* Mutant: one task that reads only while nothing waits to be written.
ReadInTurns(d) ==
  /\ result = "running"
  /\ copy[d] = "copying"
  /\ \A e \in Directions : buffer[e] = 0
  /\ InFlight(Source[d]) > 0
  /\ stream' = [stream EXCEPT ![Source[d]].taken = @ + 1]
  /\ buffer' = [buffer EXCEPT ![d] = @ + 1]
  /\ UNCHANGED <<copy, result>>

\* Mutant: a buffer that is read into while it is full.
ReadOverfull(d) ==
  /\ result = "running"
  /\ copy[d] = "copying"
  /\ InFlight(Source[d]) > 0
  /\ stream' = [stream EXCEPT ![Source[d]].taken = @ + 1]
  /\ buffer' = [buffer EXCEPT ![d] = @ + 1]
  /\ UNCHANGED <<copy, result>>

Read(d) ==
  /\ result = "running"
  /\ copy[d] = "copying"
  /\ buffer[d] < BufferSize
  /\ InFlight(Source[d]) > 0
  /\ stream' = [stream EXCEPT ![Source[d]].taken = @ + 1]
  /\ buffer' = [buffer EXCEPT ![d] = @ + 1]
  /\ UNCHANGED <<copy, result>>

Write(d) ==
  /\ result = "running"
  /\ buffer[d] > 0
  /\ stream[Sink[d]].end = "open"
  /\ InFlight(Sink[d]) < StreamSize
  /\ stream' = [stream EXCEPT ![Sink[d]].put = @ + 1]
  /\ buffer' = [buffer EXCEPT ![d] = @ - 1]
  /\ UNCHANGED <<copy, result>>

\* Mutant: a connection that ends without close_notify is taken for ended.
SourceEndsAnyway(d) ==
  /\ result = "running"
  /\ copy[d] = "copying"
  /\ InFlight(Source[d]) = 0
  /\ stream[Source[d]].end # "open"
  /\ copy' = [copy EXCEPT ![d] = "shutting"]
  /\ UNCHANGED <<stream, buffer, result>>

SourceEnds(d) ==
  /\ result = "running"
  /\ copy[d] = "copying"
  /\ InFlight(Source[d]) = 0
  /\ stream[Source[d]].end = "fin"
  /\ copy' = [copy EXCEPT ![d] = "shutting"]
  /\ UNCHANGED <<stream, buffer, result>>

\* poll_shutdown, once everything is written; tokio forgives a connection
\* that is no longer connected.
Shut(d) ==
  /\ result = "running"
  /\ copy[d] = "shutting"
  /\ buffer[d] = 0
  /\ copy' = [copy EXCEPT ![d] = "done"]
  /\ stream' = [stream EXCEPT ![Sink[d]].end = IF @ = "open" THEN "fin" ELSE @]
  /\ UNCHANGED <<buffer, result>>

\* Mutant: two copies joined, so that an error of one does not end the other.
ReadFailsAlone(d) ==
  /\ result = "running"
  /\ copy[d] = "copying"
  /\ stream[Source[d]].end = "cut"
  /\ copy' = [copy EXCEPT ![d] = "done"]
  /\ buffer' = [buffer EXCEPT ![d] = 0]
  /\ UNCHANGED <<stream, result>>

ReadFails(d) ==
  /\ result = "running"
  /\ copy[d] = "copying"
  /\ buffer[d] < BufferSize
  /\ stream[Source[d]].end = "cut"
  /\ EndsWith("failed")

WriteFails(d) ==
  /\ result = "running"
  /\ buffer[d] > 0 \/ copy[d] = "shutting"
  /\ stream[Sink[d]].end = "cut"
  /\ EndsWith("failed")

-----------------------------------------------------------------------------
(***************************************************************************)
(* The relay as a whole.                                                   *)
(***************************************************************************)

Finish ==
  /\ result = "running"
  /\ \A d \in Directions : copy[d] = "done"
  /\ result' = "ok"
  /\ UNCHANGED <<stream, copy, buffer>>

\* `shutdown.changed()` came first, with a value or with a dropped sender.
Cancel ==
  /\ result = "running"
  /\ EndsWith("cancelled")

Transfer(d) ==
  \/ Read(d) \/ Write(d) \/ SourceEnds(d) \/ Shut(d)
  \/ ReadFails(d) \/ WriteFails(d)
=============================================================================
