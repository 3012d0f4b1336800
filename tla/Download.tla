-------------------------------- MODULE Download --------------------------------
(***************************************************************************)
(* The download half of an HTTP exchange over RLDP, after the peer has     *)
(* answered the request (proxy/transport/client.go doRldpHttp): a loop asks *)
(* the peer for one part after the other and writes it to a streamer, from *)
(* which ServeHTTP (proxy/proxy.go) copies to the browser.                 *)
(*                                                                         *)
(* The peer and the browser are external: the peer's parts are pieces of a *)
(* body of known length, a query may fail, the browser may leave.          *)
(***************************************************************************)
EXTENDS StreamCalls

CONSTANTS
    MaxPart,     \* MaxChunkSize of the queries
    CopySize     \* bytes io.Copy reads at a time

ASSUME CopyAssumption == MaxPart \in Nat \ {0} /\ CopySize \in Nat \ {0}

VARIABLES
    answer,      \* whether the answer has a payload, and its length
    lpc,         \* where the loop is
    loopPart,    \* the part the last query returned
    failed,      \* a query of the loop failed
    dr,          \* the streamer
    cpc,         \* where ServeHTTP is
    copied,      \* bytes io.Copy has read
    told,        \* how io.Copy was told that the body is over
    cancelled    \* the request's context is

loopVars == <<lpc, loopPart, failed>>
copyVars == <<cpc, copied, told>>
downloadVars == <<answer, loopVars, dr, copyVars, cancelled>>

DownloadTypeOK ==
    /\ answer \in [payload : BOOLEAN, length : Bytes]
    /\ lpc \in {"query", "write", "wrote", "done"}
    /\ loopPart \in Parts
    /\ failed \in BOOLEAN
    /\ dr \in Streams
    /\ cpc \in {"read", "flush", "close", "done"}
    /\ copied \in Bytes
    /\ told \in {"nothing", "eof", "error"}
    /\ cancelled \in BOOLEAN

\* A response without payload has an empty body that is finished at once.
DownloadInit ==
    /\ answer \in [payload : BOOLEAN, length : Bytes]
    /\ ~answer.payload => answer.length = 0
    /\ lpc = IF answer.payload THEN "query" ELSE "done"
    /\ dr = IF answer.payload THEN NewStream ELSE Finished(NewStream)
    /\ loopPart = NoPart
    /\ failed = FALSE
    /\ cpc = "read"
    /\ copied = 0
    /\ told = "nothing"
    /\ cancelled = FALSE

-------------------------------------------------------------------------------
(***************************************************************************)
(* The loop.                                                               *)
(***************************************************************************)

\* DoQuery returns the next part; only the last one may be empty.
QueryAnswered ==
    /\ lpc = "query"
    /\ \E to \in loopPart.to..answer.length, last \in BOOLEAN :
          /\ to - loopPart.to <= MaxPart
          /\ last => to = answer.length
          /\ ~last => to > loopPart.to
          /\ loopPart' = [from |-> loopPart.to, to |-> to, last |-> last]
    /\ lpc' = "write"
    /\ UNCHANGED <<answer, failed, dr, copyVars, cancelled>>

\* Mutant: a failed query ends the body instead of breaking it off.
QueryFailsFinished ==
    /\ lpc = "query"
    /\ failed' = TRUE
    /\ dr' = Finished(dr)
    /\ lpc' = "done"
    /\ UNCHANGED <<answer, loopPart, copyVars, cancelled>>

\* DoQuery returns an error, also because the context was cancelled.
QueryFails ==
    /\ lpc = "query"
    /\ failed' = TRUE
    /\ dr' = Closed(dr)
    /\ lpc' = "done"
    /\ UNCHANGED <<answer, loopPart, copyVars, cancelled>>

\* Mutant: a Write that succeeded is repeated.
WriteOkAgain ==
    /\ lpc = "write"
    /\ \/ loopPart.to = loopPart.from /\ dr' = dr
       \/ loopPart.to > loopPart.from /\ SlotFree(dr) /\ dr' = Written(dr, loopPart.to - loopPart.from)
    /\ lpc' \in {"write", "wrote"}
    /\ UNCHANGED <<answer, loopPart, failed, copyVars, cancelled>>

\* dr.Write(part.Data): nothing to write, or a free slot.
WriteOk ==
    /\ lpc = "write"
    /\ \/ loopPart.to = loopPart.from /\ dr' = dr
       \/ loopPart.to > loopPart.from /\ SlotFree(dr) /\ dr' = Written(dr, loopPart.to - loopPart.from)
    /\ lpc' = "wrote"
    /\ UNCHANGED <<answer, loopPart, failed, copyVars, cancelled>>

\* dr.Write(part.Data) finds the stream closed.
WriteFails ==
    /\ lpc = "write"
    /\ loopPart.to > loopPart.from /\ dr.closed
    /\ lpc' = "done"
    /\ UNCHANGED <<answer, loopPart, failed, dr, copyVars, cancelled>>

\* Mutant: the stream is not finished after the last part.
WroteUnfinished ==
    /\ lpc = "wrote"
    /\ lpc' = IF loopPart.last THEN "done" ELSE "query"
    /\ UNCHANGED <<answer, loopPart, failed, dr, copyVars, cancelled>>

\* Finish after the last part, else the next query.
Wrote ==
    /\ lpc = "wrote"
    /\ dr' = IF loopPart.last THEN Finished(dr) ELSE dr
    /\ lpc' = IF loopPart.last THEN "done" ELSE "query"
    /\ UNCHANGED <<answer, loopPart, failed, copyVars, cancelled>>

-------------------------------------------------------------------------------
(***************************************************************************)
(* ServeHTTP: io.Copy(wr, resp.Body), then the deferred Close.             *)
(***************************************************************************)

\* Read holds less than the buffer and the channel has a slice.
CopyReceives ==
    /\ cpc = "read"
    /\ FindsSlice(dr, CopySize)
    /\ dr' = Received(dr)
    /\ UNCHANGED <<answer, loopVars, copyVars, cancelled>>

\* Read returns k bytes and what it tells of the body; io.Copy writes them.
Return(k, verdict) ==
    /\ dr' = Given(dr, k)
    /\ copied' = copied + k
    /\ told' = verdict
    /\ cpc' = "flush"
    /\ UNCHANGED <<answer, loopVars, cancelled>>

\* The buffer is full and bytes are left.
ReadFull == cpc = "read" /\ ~Waits(dr, CopySize) /\ Return(CopySize, "nothing")

ReadEof == cpc = "read" /\ FindsEnd(dr, CopySize) /\ Return(Held(dr), "eof")

ReadBroken == cpc = "read" /\ FindsClosed(dr, CopySize) /\ Return(Held(dr), "error")

\* io.Copy writes the bytes to the browser and reads on, unless the body is over or
\* the Write fails.
Flush ==
    /\ cpc = "flush"
    /\ \/ told = "nothing" /\ cpc' = "read"
       \/ told # "nothing" /\ cpc' = "close"
       \/ cancelled /\ cpc' = "close"
    /\ UNCHANGED <<answer, loopVars, dr, copied, told, cancelled>>

\* Mutant: the body is not closed.
LeaveOpen ==
    /\ cpc = "close"
    /\ cancelled' = TRUE
    /\ cpc' = "done"
    /\ UNCHANGED <<answer, loopVars, dr, copied, told>>

\* resp.Body.Close(); when the handler has returned, the server cancels its context.
Leave ==
    /\ cpc = "close"
    /\ dr' = Closed(dr)
    /\ cancelled' = TRUE
    /\ cpc' = "done"
    /\ UNCHANGED <<answer, loopVars, copied, told>>

\* The browser closes the connection: the server cancels the context.
BrowserLeaves ==
    /\ cpc \in {"read", "flush"}
    /\ ~cancelled
    /\ cancelled' = TRUE
    /\ UNCHANGED <<answer, loopVars, dr, copyVars>>

-------------------------------------------------------------------------------
Loop == WriteOk \/ WriteFails \/ Wrote \/ (cancelled /\ QueryFails)
Serve == CopyReceives \/ ReadFull \/ ReadEof \/ ReadBroken \/ Flush \/ Leave

DownloadNext == QueryAnswered \/ QueryFails \/ Loop \/ Serve \/ BrowserLeaves

DownloadSpec == DownloadInit /\ [][DownloadNext]_downloadVars

(***************************************************************************)
(* Each goroutine goes on while it can, DoQuery returns once its context is *)
(* cancelled.  Answers of the peer are not assumed.                        *)
(***************************************************************************)
DownloadFairness == WF_downloadVars(Loop) /\ WF_downloadVars(Serve)
DownloadFairSpec == DownloadSpec /\ DownloadFairness

PeerAnswers == WF_downloadVars(QueryAnswered \/ QueryFails)

-------------------------------------------------------------------------------
(***************************************************************************)
(* Properties.                                                             *)
(***************************************************************************)

\* ServeHTTP is told io.EOF only when it has read the whole body, and an error only
\* when a query failed: no body is cut silently and none that arrived is broken.
BodyVerdict ==
    /\ told = "eof" => copied = answer.length /\ ~failed
    /\ told = "error" => failed

\* What the loop has written are the answer's bytes up to the current part.
WrittenParts ==
    /\ loopPart.from <= loopPart.to /\ loopPart.to <= answer.length
    /\ loopPart.last => loopPart.to = answer.length
    /\ lpc = "write" => dr.sent = loopPart.from
    /\ lpc \in {"query", "wrote"} => dr.sent = loopPart.to
    /\ dr.sent <= answer.length

\* The stream is finished only by a loop that wrote the whole body, and closed only by
\* one whose query failed or by a ServeHTTP that is over.
StreamEnds ==
    /\ failed => lpc = "done"
    /\ dr.finished => lpc = "done" /\ ~failed /\ dr.sent = answer.length
    /\ dr.closed => failed \/ cpc = "done"

\* io.Copy has what the stream has given, and knows of an end that there was.
CopiedParts ==
    /\ dr.got <= dr.received /\ dr.received <= dr.sent
    /\ copied = dr.got
    /\ told # "nothing" => cpc # "read"
    /\ told = "eof" => dr.finished /\ dr.got = dr.sent
    /\ told = "error" => failed

\* The inductive invariant: loop, stream and ServeHTTP agree on how much of the body
\* went by and on how it ended.
DownloadIInv == DownloadTypeOK /\ WrittenParts /\ StreamEnds /\ CopiedParts

\* The browser's leaving ends both goroutines, wherever they wait for each other or
\* for a peer that is silent.
LeavingEnds == cancelled ~> lpc = "done" /\ cpc = "done"

\* With a peer that answers or refuses every query the response ends.
ResponseEnds == PeerAnswers => <>(lpc = "done" /\ cpc = "done")
===============================================================================
