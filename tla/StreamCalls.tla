------------------------------- MODULE StreamCalls -------------------------------
(***************************************************************************)
(* A dataStreamer (proxy/transport/stream.go) seen at whole calls, for the *)
(* modules that use one: each operator is a condition on the stream or what *)
(* a call leaves of it.  DataStreamer has the steps inside of the calls.   *)
(*                                                                         *)
(* A byte is known by its position.  sent: accepted by Write.  received:   *)
(* taken out of the channel by Read.  got: given to a caller that was told *)
(* no error, or lost to one that was.                                      *)
(***************************************************************************)
EXTENDS Integers

CONSTANT MaxBody     \* bound: bytes of a stream

ASSUME BodyAssumption == MaxBody \in Nat

Bytes == 0..MaxBody

Streams == [sent : Bytes, received : Bytes, got : Bytes, finished : BOOLEAN, closed : BOOLEAN]

\* What a query for a part returns: the bytes from..to - 1 of a body, and IsLast.
Parts == [from : Bytes, to : Bytes, last : BOOLEAN]
NoPart == [from |-> 0, to |-> 0, last |-> FALSE]

NewStream == [sent |-> 0, received |-> 0, got |-> 0, finished |-> FALSE, closed |-> FALSE]

\* The channel, of capacity 1, has a free slot.
SlotFree(s) == s.sent = s.received

Written(s, k) == [s EXCEPT !.sent = @ + k]
Finished(s) == [s EXCEPT !.finished = TRUE]
Closed(s) == [s EXCEPT !.closed = TRUE]

\* Bytes that Read has taken out of the channel.
Held(s) == s.received - s.got

\* Read into len bytes goes back to the channel, also when it has filled them
\* exactly; there it finds a slice, the end of the stream, or the stream closed.
Waits(s, len) == Held(s) <= len
FindsSlice(s, len) == Waits(s, len) /\ s.received < s.sent
FindsEnd(s, len) == Waits(s, len) /\ s.received = s.sent /\ s.finished
FindsClosed(s, len) == Waits(s, len) /\ s.closed

Received(s) == [s EXCEPT !.received = s.sent]
Given(s, k) == [s EXCEPT !.got = @ + k]
HeldLost(s) == [s EXCEPT !.got = s.received]
=================================================================================
