----------------------------- MODULE DataStreamer -----------------------------
(***************************************************************************)
(* The dataStreamer of proxy/transport/stream.go: the in-memory pipe that  *)
(* carries request bodies to a TON site and response bodies back.  Its     *)
(* producers are the upload pump and the download loop of doRldpHttp and   *)
(* the goroutine of doTorrent; its consumers are io.Copy in ServeHTTP and  *)
(* handleGetPart.                                                          *)
(*                                                                         *)
(* A producer Writes, then ends the stream with Finish, or gives it up     *)
(* with Close (also after a failed Write), and returns.  A consumer Reads  *)
(* until it is told the end of the stream and may Close at any time        *)
(* between two Reads.                                                      *)
(*                                                                         *)
(* A byte is known by its position in the stream; a slice of bytes is the  *)
(* half-open interval of positions it holds.                               *)
(***************************************************************************)
EXTENDS Integers, Sequences

CONSTANTS
    Writers,    \* goroutines that call Write, Finish and Close
    Readers,    \* goroutines that call Read and Close
    NoProc,     \* holder of a free mutex
    MaxBytes,   \* bound: total bytes written
    MaxWrite,   \* bound: bytes of one Write
    MaxRead     \* bound: len(p) of one Read

ASSUME ProcAssumption == NoProc \notin Writers /\ NoProc \notin Readers
ASSUME BoundAssumption == /\ MaxBytes \in Nat
                          /\ MaxWrite \in Nat
                          /\ MaxRead \in Nat

VARIABLES
    parts,       \* slices waiting in the channel d.parts
    finished,    \* d.finished; Finish closes d.parts in the same critical section
    closed,      \* d.closed; Close closes d.closer in the same critical section
    buf,         \* d.buf, the rest of the slice being read
    writerLock,  \* holder of d.writerLock
    readerLock,  \* holder of d.readerLock
    wpc,         \* where each producer is
    wlen,        \* len(data) of the Write in progress
    rpc,         \* where each consumer is
    rlen,        \* len(p) of the Read in progress
    rn,          \* n, bytes the Read in progress has copied
    outcome,     \* the last non-nil error a Read returned to each consumer
    written,     \* history: bytes accepted by Write
    delivered,   \* history: bytes copied to the consumers
    cursor       \* history: position after the last byte copied

chanVars == <<parts, finished, closed, written>>
writerVars == <<writerLock, wpc, wlen>>
readerVars == <<buf, readerLock, rpc, rlen, rn, outcome, delivered, cursor>>
vars == <<parts, finished, closed, buf, writerLock, readerLock, wpc, wlen,
          rpc, rlen, rn, outcome, written, delivered, cursor>>

ChanCap == 1

Slice == [from : Nat, to : Nat]
Size(s) == s.to - s.from

TypeOK ==
    /\ parts \in Seq(Slice) /\ Len(parts) <= ChanCap
    /\ finished \in BOOLEAN
    /\ closed \in BOOLEAN
    /\ buf \in Slice
    /\ writerLock \in Writers \cup {NoProc}
    /\ readerLock \in Readers \cup {NoProc}
    /\ wpc \in [Writers -> {"idle", "sending", "failed", "done"}]
    /\ wlen \in [Writers -> Nat]
    /\ rpc \in [Readers -> {"idle", "reading", "done"}]
    /\ rlen \in [Readers -> Nat]
    /\ rn \in [Readers -> Nat]
    /\ outcome \in [Readers -> {"none", "eof", "error"}]
    /\ written \in Nat
    /\ delivered \in Nat
    /\ cursor \in Nat

Init ==
    /\ parts = <<>>
    /\ finished = FALSE
    /\ closed = FALSE
    /\ buf = [from |-> 0, to |-> 0]
    /\ writerLock = NoProc
    /\ readerLock = NoProc
    /\ wpc = [w \in Writers |-> "idle"]
    /\ wlen = [w \in Writers |-> 0]
    /\ rpc = [r \in Readers |-> "idle"]
    /\ rlen = [r \in Readers |-> 0]
    /\ rn = [r \in Readers |-> 0]
    /\ outcome = [r \in Readers |-> "none"]
    /\ written = 0
    /\ delivered = 0
    /\ cursor = 0

-------------------------------------------------------------------------------
(***************************************************************************)
(* Producers.                                                              *)
(***************************************************************************)

\* Write takes writerLock and finds the stream open; it will block in its select.
WriteBegin(w) ==
    /\ wpc[w] = "idle"
    /\ writerLock = NoProc
    /\ ~finished
    /\ \E n \in 1..MaxWrite :
          /\ written + n <= MaxBytes
          /\ wlen' = [wlen EXCEPT ![w] = n]
    /\ writerLock' = w
    /\ wpc' = [wpc EXCEPT ![w] = "sending"]
    /\ UNCHANGED <<chanVars, readerVars>>

\* Write takes writerLock, finds the stream finished and returns ErrClosedPipe.
WriteRefused(w) ==
    /\ wpc[w] = "idle"
    /\ writerLock = NoProc
    /\ finished
    /\ wpc' = [wpc EXCEPT ![w] = "failed"]
    /\ UNCHANGED <<chanVars, readerVars, writerLock, wlen>>

\* The select of Write sends the copied slice and returns.
WriteSend(w) ==
    /\ wpc[w] = "sending"
    /\ Len(parts) < ChanCap
    /\ parts' = Append(parts, [from |-> written, to |-> written + wlen[w]])
    /\ written' = written + wlen[w]
    /\ writerLock' = NoProc
    /\ wpc' = [wpc EXCEPT ![w] = "idle"]
    /\ UNCHANGED <<finished, closed, wlen, readerVars>>

\* The select of Write finds the stream closed and returns ErrClosedPipe.
WriteAborted(w) ==
    /\ wpc[w] = "sending"
    /\ closed
    /\ writerLock' = NoProc
    /\ wpc' = [wpc EXCEPT ![w] = "failed"]
    /\ UNCHANGED <<chanVars, wlen, readerVars>>

\* Mutant: Finish closes the channel without writerLock.
FinishUnlocked(w) ==
    /\ wpc[w] = "idle"
    /\ finished' = TRUE
    /\ wpc' = [wpc EXCEPT ![w] = "done"]
    /\ UNCHANGED <<parts, closed, written, writerLock, wlen, readerVars>>

\* Finish; the producer then returns.
Finish(w) ==
    /\ wpc[w] = "idle"
    /\ writerLock = NoProc
    /\ finished' = TRUE
    /\ wpc' = [wpc EXCEPT ![w] = "done"]
    /\ UNCHANGED <<parts, closed, written, writerLock, wlen, readerVars>>

\* Close by a producer whose source or Write failed; the producer then returns.
CloseByWriter(w) ==
    /\ wpc[w] \in {"idle", "failed"}
    /\ closed' = TRUE
    /\ wpc' = [wpc EXCEPT ![w] = "done"]
    /\ UNCHANGED <<parts, finished, written, writerLock, wlen, readerVars>>

-------------------------------------------------------------------------------
(***************************************************************************)
(* Consumers.  The loop of Read copies from buf while it holds bytes and   *)
(* p has room, returns when buf still holds bytes and p is full, and goes  *)
(* to the channel when buf is empty, whether p is full or not.             *)
(***************************************************************************)

\* Read takes readerLock; no consumer reads into an empty p.
ReadBegin(r) ==
    /\ rpc[r] = "idle"
    /\ readerLock = NoProc
    /\ \E n \in 1..MaxRead : rlen' = [rlen EXCEPT ![r] = n]
    /\ rn' = [rn EXCEPT ![r] = 0]
    /\ readerLock' = r
    /\ rpc' = [rpc EXCEPT ![r] = "reading"]
    /\ UNCHANGED <<chanVars, writerVars, buf, outcome, delivered, cursor>>

ReadReceive(r) ==
    /\ rpc[r] = "reading"
    /\ Size(buf) = 0
    /\ parts # <<>>
    /\ buf' = Head(parts)
    /\ parts' = Tail(parts)
    /\ UNCHANGED <<finished, closed, written, writerVars, readerLock, rpc,
                   rlen, rn, outcome, delivered, cursor>>

\* Mutant: the bytes that p has no room for are dropped.
ReadCopyTruncated(r) ==
    LET room == rlen[r] - rn[r]
        copied == IF Size(buf) < room THEN Size(buf) ELSE room
    IN  /\ rpc[r] = "reading"
        /\ Size(buf) > 0
        /\ room > 0
        /\ buf' = [buf EXCEPT !.from = buf.to]
        /\ rn' = [rn EXCEPT ![r] = @ + copied]
        /\ delivered' = delivered + copied
        /\ cursor' = buf.from + copied
        /\ UNCHANGED <<chanVars, writerVars, readerLock, rpc, rlen, outcome>>

ReadCopy(r) ==
    LET room == rlen[r] - rn[r]
        copied == IF Size(buf) < room THEN Size(buf) ELSE room
    IN  /\ rpc[r] = "reading"
        /\ Size(buf) > 0
        /\ room > 0
        /\ buf' = [buf EXCEPT !.from = @ + copied]
        /\ rn' = [rn EXCEPT ![r] = @ + copied]
        /\ delivered' = delivered + copied
        /\ cursor' = buf.from + copied
        /\ UNCHANGED <<chanVars, writerVars, readerLock, rpc, rlen, outcome>>

\* Read gives readerLock back and returns to its caller.
ReadReturn(r) ==
    /\ readerLock' = NoProc
    /\ rpc' = [rpc EXCEPT ![r] = "idle"]
    /\ UNCHANGED <<chanVars, writerVars, buf, rlen, rn, delivered, cursor>>

\* p is full and bytes are left: return n, nil.
ReadFull(r) ==
    /\ rpc[r] = "reading"
    /\ Size(buf) > 0
    /\ rn[r] = rlen[r]
    /\ ReadReturn(r)
    /\ UNCHANGED outcome

\* Mutant: Read looks at d.finished before it looks into the channel.
ReadEofEarly(r) ==
    /\ rpc[r] = "reading"
    /\ Size(buf) = 0
    /\ finished
    /\ ReadReturn(r)
    /\ outcome' = [outcome EXCEPT ![r] = "eof"]

\* The channel is closed and drained: return n, io.EOF.
ReadEof(r) ==
    /\ rpc[r] = "reading"
    /\ Size(buf) = 0
    /\ parts = <<>>
    /\ finished
    /\ ReadReturn(r)
    /\ outcome' = [outcome EXCEPT ![r] = "eof"]

\* The stream was closed: return n, io.ErrUnexpectedEOF.
ReadAborted(r) ==
    /\ rpc[r] = "reading"
    /\ Size(buf) = 0
    /\ closed
    /\ ReadReturn(r)
    /\ outcome' = [outcome EXCEPT ![r] = "error"]

\* Mutant: a consumer returns without Close.
LeaveUnclosed(r) ==
    /\ rpc[r] = "idle"
    /\ rpc' = [rpc EXCEPT ![r] = "done"]
    /\ UNCHANGED <<chanVars, writerVars, buf, readerLock, rlen, rn, outcome,
                   delivered, cursor>>

\* Close by a consumer: resp.Body.Close() in ServeHTTP, stream.Data.Close() after the last part.
CloseByReader(r) ==
    /\ rpc[r] = "idle"
    /\ closed' = TRUE
    /\ rpc' = [rpc EXCEPT ![r] = "done"]
    /\ UNCHANGED <<parts, finished, written, writerVars, buf, readerLock, rlen,
                   rn, outcome, delivered, cursor>>

-------------------------------------------------------------------------------
WriteStep(w) == WriteSend(w) \/ WriteAborted(w)

WriterTurn(w) ==
    \/ WriteBegin(w)
    \/ WriteRefused(w)
    \/ Finish(w)
    \/ CloseByWriter(w)

ReadStep(r) ==
    \/ ReadReceive(r)
    \/ ReadCopy(r)
    \/ ReadFull(r)
    \/ ReadEof(r)
    \/ ReadAborted(r)

ReaderTurn(r) == ReadBegin(r) \/ CloseByReader(r)

WriterNext(w) == WriterTurn(w) \/ WriteStep(w)
ReaderNext(r) == ReaderTurn(r) \/ ReadStep(r)

Next ==
    \/ \E w \in Writers : WriterNext(w)
    \/ \E r \in Readers : ReaderNext(r)

Spec == Init /\ [][Next]_vars

(***************************************************************************)
(* A select with a case that can go on goes on.  Every producer's source   *)
(* ends or fails and every consumer reads until it closes, so each takes   *)
(* its turn while the mutex is free; one that finds it taken owes nothing, *)
(* or a second goroutine's Close would release the first.                  *)
(***************************************************************************)
Fairness ==
    /\ \A w \in Writers : /\ WF_vars(WriteStep(w))
                          /\ WF_vars(WriterTurn(w) /\ writerLock = NoProc)
    /\ \A r \in Readers : /\ WF_vars(ReadStep(r))
                          /\ WF_vars(ReaderTurn(r) /\ readerLock = NoProc)

FairSpec == Spec /\ Fairness

-------------------------------------------------------------------------------
(***************************************************************************)
(* Properties.                                                             *)
(***************************************************************************)

\* The bytes copied to the consumers so far are exactly the first ones of the
\* stream: none is skipped, repeated or out of order, whatever the sizes of the
\* Writes and Reads and however the goroutines interleave.
InOrder == delivered = cursor /\ cursor <= written

\* A consumer that was told io.EOF has been given every byte a Write reported
\* as accepted: Finish overtakes no slice still in the channel or in buf.
EofComplete ==
    \A r \in Readers : outcome[r] = "eof" => finished /\ delivered = written

\* No Write is in its select once Finish has closed d.parts; a send there panics.
NoSendOnClosed == \A w \in Writers : wpc[w] = "sending" => ~finished

(***************************************************************************)
(* The inductive invariant behind the three.                               *)
(***************************************************************************)

\* Where the bytes accepted but not delivered are: the rest of buf, then the
\* channel, without a gap.
Chain ==
    /\ delivered = cursor
    /\ cursor = buf.from
    /\ buf.from <= buf.to
    /\ parts = <<>> => buf.to = written
    /\ parts # <<>> => /\ Head(parts).from = buf.to
                        /\ Head(parts).from < Head(parts).to
                        /\ Head(parts).to = written

\* Who is between Lock and Unlock.
Owners ==
    /\ \A w \in Writers : wpc[w] = "sending" <=> writerLock = w
    /\ \A r \in Readers : rpc[r] = "reading" <=> readerLock = r
    /\ \A w \in Writers : wpc[w] = "sending" => wlen[w] > 0
    /\ \A r \in Readers : rn[r] <= rlen[r]

\* After io.EOF nothing is left anywhere in the streamer.
Drained ==
    \A r \in Readers :
        outcome[r] = "eof" => finished /\ parts = <<>> /\ Size(buf) = 0

\* No goroutine is in the select of Write once d.parts is closed, the channel
\* and buf hold what is accepted and not delivered, the locks have one owner,
\* and io.EOF is told on an empty streamer.
IInv == TypeOK /\ Chain /\ Owners /\ NoSendOnClosed /\ Drained

\* The streamer implements the pipe.
Pipe == INSTANCE BytePipe WITH
            Consumers <- Readers, sent <- written, got <- delivered,
            ended <- finished, aborted <- closed, verdict <- outcome

\* Every step of the streamer is a step of the pipe or changes nothing it shows.
ImplementsPipe == Pipe!PipeSpec

\* A goroutine blocked in Write is released by the consumer that takes the slice or by
\* either side's Close; one blocked in Read also when p is full and the Read waits for a
\* slice that may never come.
NobodyBlocked ==
    /\ \A w \in Writers : wpc[w] = "sending" ~> wpc[w] # "sending"
    /\ \A r \in Readers : rpc[r] = "reading" ~> rpc[r] # "reading"
===============================================================================
