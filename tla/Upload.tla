--------------------------------- MODULE Upload ---------------------------------
(***************************************************************************)
(* The upload half of an HTTP exchange over RLDP (proxy/transport/client.go *)
(* doRldpHttp, getRLDPQueryHandler, handleGetPart).  While doRldpHttp waits *)
(* for the peer's answer, a pump copies the request's body into a streamer  *)
(* and the peer asks for it part by part; each of its queries is handled by *)
(* a goroutine of its own.                                                  *)
(*                                                                          *)
(* A byte is known by its position in the body; the streamer is seen at the *)
(* level of whole Reads and Writes.  The peer is external: it asks for the  *)
(* part after those it has, possibly more than once, and answers the        *)
(* request whenever it likes.                                               *)
(***************************************************************************)
EXTENDS StreamCalls

CONSTANTS
    Handlers,     \* goroutines of the peer's queries
    None,
    BufSize,      \* 4096: bytes the pump reads at a time
    Chunk,        \* MaxChunkSize of the peer's queries
    IntLimit      \* 2^31: Seqno * MaxChunkSize is an int32

ASSUME NameAssumption == None \notin Handlers
ASSUME SizeAssumption ==
    /\ BufSize \in Nat \ {0} /\ Chunk \in Nat \ {0} /\ IntLimit \in Nat \ {0}

VARIABLES
    body,        \* length of the body and whether its source fails at the end
    read,        \* bytes the pump has read
    ppc,         \* where the pump is
    n,           \* bytes of buf that the last Body.Read filled
    err,         \* the variable err, which pump and doRldpHttp share
    pumpErr,     \* the value the pump stored last
    mainErr,     \* the value doRldpHttp stored last
    mpc,         \* where doRldpHttp is
    answered,    \* how DoQuery returned
    active,      \* activeRequests holds the upload's stream
    up,          \* the upload's streamer
    nextOffset,  \* payloadStream.nextOffset
    mx,          \* holder of payloadStream.mx
    hpc,         \* where each handler is
    seqno,       \* req.Seqno of each handler's query
    part,        \* the part each handler has taken
    peer,        \* what the peer was sent
    lost         \* history: an answer did not reach the peer

pumpVars == <<body, read, ppc, n, pumpErr>>
mainVars == <<mpc, mainErr, answered>>
handVars == <<nextOffset, mx, hpc, seqno, part>>
peerVars == <<peer, lost>>
uploadVars == <<body, read, ppc, n, err, pumpErr, mainErr, mpc, answered, active, up,
          nextOffset, mx, hpc, seqno, part, peer, lost>>

\* parts: parts the peer has; bytes: their length; inPlace: each held the bytes
\* that follow the part before it; done: the last one had IsLast.
Peers == [parts : Nat, bytes : Nat, inPlace : BOOLEAN, done : BOOLEAN]

UploadTypeOK ==
    /\ body \in [length : Bytes, fails : BOOLEAN]
    /\ read \in Bytes
    /\ ppc \in {"read", "check", "write", "writeLast", "wrote", "wroteLast", "done"}
    /\ n \in 0..BufSize
    /\ err \in {"nil", "eof", "body", "pipe", "query"}
    /\ pumpErr \in {"nil", "eof", "body", "pipe"}
    /\ mainErr \in {"nil", "query"}
    /\ mpc \in {"query", "check", "parsed", "done"}
    /\ answered \in {"no", "ok", "error"}
    /\ active \in BOOLEAN
    /\ up \in Streams
    /\ nextOffset \in Bytes
    /\ mx \in Handlers \cup {None}
    /\ hpc \in [Handlers -> {"idle", "lock", "read", "send", "forget"}]
    /\ seqno \in [Handlers -> Nat]
    /\ part \in [Handlers -> Parts]
    /\ peer \in Peers
    /\ lost \in BOOLEAN

UploadInit ==
    /\ body \in [length : Bytes, fails : BOOLEAN]
    /\ read = 0
    /\ ppc = "read"
    /\ n = 0
    /\ err = "nil" /\ pumpErr = "nil" /\ mainErr = "nil"
    /\ mpc = "query"
    /\ answered = "no"
    /\ active = TRUE
    /\ up = NewStream
    /\ nextOffset = 0
    /\ mx = None
    /\ hpc = [h \in Handlers |-> "idle"]
    /\ seqno = [h \in Handlers |-> 0]
    /\ part = [h \in Handlers |-> NoPart]
    /\ peer = [parts |-> 0, bytes |-> 0, inPlace |-> TRUE, done |-> FALSE]
    /\ lost = FALSE

-------------------------------------------------------------------------------
(***************************************************************************)
(* The variable err.  Pump and doRldpHttp store and load it without a      *)
(* lock: a load yields the goroutine's own last value, or the other's.     *)
(***************************************************************************)

PumpSees(e) == e \in {pumpErr, err}
MainSees(e) == e \in {mainErr, err}

PumpStores(e) == pumpErr' = e /\ err' = e
MainStores(e) == mainErr' = e /\ err' = e

-------------------------------------------------------------------------------
(***************************************************************************)
(* The pump.                                                               *)
(***************************************************************************)

\* Body.Read: some bytes, or at the end of the body its error, with or without bytes.
PumpRead ==
    /\ ppc = "read"
    /\ \E k \in 0..BufSize :
          /\ read + k <= body.length
          /\ n' = k
          /\ read' = read + k
          /\ \/ k > 0 /\ PumpStores("nil")
             \/ read + k = body.length /\ PumpStores(IF body.fails THEN "body" ELSE "eof")
    /\ ppc' = "check"
    /\ UNCHANGED <<body, mainVars, active, up, handVars, peerVars>>

\* Mutant: a body that broke off leaves the stream open.
PumpCheckNoClose ==
    /\ ppc = "check"
    /\ \E first, second \in {pumpErr, err} :
          ppc' = IF first = "nil" THEN "write" ELSE IF second = "eof" THEN "writeLast" ELSE "done"
    /\ UNCHANGED <<body, read, n, err, pumpErr, mainVars, active, up, handVars, peerVars>>

\* if err != nil { if errors.Is(err, io.EOF) ...: err is loaded twice.
PumpCheck ==
    /\ ppc = "check"
    /\ \E first, second \in {pumpErr, err} :
          \/ first = "nil" /\ ppc' = "write" /\ up' = up
          \/ first # "nil" /\ second = "eof" /\ ppc' = "writeLast" /\ up' = up
          \/ /\ first # "nil" /\ second # "eof"
             /\ ppc' = "done"
             /\ up' = Closed(up)
    /\ UNCHANGED <<body, read, n, err, pumpErr, mainVars, active, handVars, peerVars>>

\* stream.Write(buf[:n]): nothing to write, a free slot in the channel, or closed.
PumpWrite ==
    /\ ppc \in {"write", "writeLast"}
    /\ \/ n = 0 /\ up' = up /\ PumpStores("nil")
       \/ /\ n > 0 /\ SlotFree(up)
          /\ up' = Written(up, n)
          /\ PumpStores("nil")
       \/ n > 0 /\ up.closed /\ up' = up /\ PumpStores("pipe")
    /\ ppc' = IF ppc = "write" THEN "wrote" ELSE "wroteLast"
    /\ UNCHANGED <<body, read, n, mainVars, active, handVars, peerVars>>

\* Mutant: the pump ends without Finish.
PumpNextNoFinish ==
    /\ ppc \in {"wrote", "wroteLast"}
    /\ \/ /\ PumpSees("nil")
          /\ ppc' = IF ppc = "wrote" THEN "read" ELSE "done"
          /\ up' = up
       \/ /\ \E e \in {pumpErr, err} : e # "nil"
          /\ ppc' = "done"
          /\ up' = Closed(up)
    /\ UNCHANGED <<body, read, n, err, pumpErr, mainVars, active, handVars, peerVars>>

\* After the Write: go on or Finish when err is nil, else Close.
PumpNext ==
    /\ ppc \in {"wrote", "wroteLast"}
    /\ \/ /\ PumpSees("nil")
          /\ ppc' = IF ppc = "wrote" THEN "read" ELSE "done"
          /\ up' = IF ppc = "wrote" THEN up ELSE Finished(up)
       \/ /\ \E e \in {pumpErr, err} : e # "nil"
          /\ ppc' = "done"
          /\ up' = Closed(up)
    /\ UNCHANGED <<body, read, n, err, pumpErr, mainVars, active, handVars, peerVars>>

-------------------------------------------------------------------------------
(***************************************************************************)
(* doRldpHttp after it started the pump and entered activeRequests.        *)
(***************************************************************************)

\* DoQuery returns the peer's answer or an error.
MainQueried ==
    /\ mpc = "query"
    /\ \/ answered' = "ok" /\ MainStores("nil")
       \/ answered' = "error" /\ MainStores("query")
    /\ mpc' = "check"
    /\ UNCHANGED <<pumpVars, active, up, handVars, peerVars>>

\* The deferred function: whatever is returned, the entry goes.
MainReturns ==
    /\ mpc' = "done"
    /\ active' = FALSE

\* err is nil: the response is built, and the request's Content-Length parsed, if
\* it has one; else an error is returned.
MainChecks ==
    /\ mpc = "check"
    /\ \/ MainSees("nil") /\ MainStores("nil") /\ mpc' = "parsed" /\ UNCHANGED active
       \/ MainSees("nil") /\ MainReturns /\ UNCHANGED <<err, mainErr>>
       \/ (\E e \in {mainErr, err} : e # "nil") /\ MainReturns /\ UNCHANGED <<err, mainErr>>
    /\ UNCHANGED <<pumpVars, answered, up, handVars, peerVars>>

MainParsed ==
    /\ mpc = "parsed"
    /\ MainReturns
    /\ UNCHANGED <<pumpVars, err, mainErr, answered, up, handVars, peerVars>>

-------------------------------------------------------------------------------
(***************************************************************************)
(* The handler of GetNextPayloadPart.                                      *)
(***************************************************************************)

\* int(req.Seqno * req.MaxChunkSize): the product of two int32.
Offset(s) == ((s * Chunk + IntLimit) % (2 * IntLimit)) - IntLimit

\* The peer asks for its next part; the handler looks the stream up.
Ask(h) ==
    /\ hpc[h] = "idle"
    /\ ~peer.done
    /\ active
    /\ seqno' = [seqno EXCEPT ![h] = peer.parts]
    /\ hpc' = [hpc EXCEPT ![h] = "lock"]
    /\ UNCHANGED <<pumpVars, err, mainVars, active, up, nextOffset, mx, part, peerVars>>

\* Mutant: the offset is not compared with the one expected.
BeginAnyOffset(h) ==
    /\ hpc[h] = "lock"
    /\ mx = None
    /\ hpc' = [hpc EXCEPT ![h] = "read"]
    /\ mx' = h
    /\ UNCHANGED <<pumpVars, err, mainVars, active, up, nextOffset, seqno, part, peerVars>>

\* handleGetPart takes the stream's mutex and compares the offsets.
Begin(h) ==
    /\ hpc[h] = "lock"
    /\ mx = None
    /\ IF Offset(seqno[h]) = nextOffset
       THEN hpc' = [hpc EXCEPT ![h] = "read"] /\ mx' = h
       ELSE hpc' = [hpc EXCEPT ![h] = "idle"] /\ mx' = mx
    /\ UNCHANGED <<pumpVars, err, mainVars, active, up, nextOffset, seqno, part, peerVars>>

\* Read holds less than the part and the channel has a slice.
Receive(h) ==
    /\ hpc[h] = "read"
    /\ FindsSlice(up, Chunk)
    /\ up' = Received(up)
    /\ UNCHANGED <<pumpVars, err, mainVars, active, handVars, peerVars>>

\* The part is full and bytes are left, or the stream has ended with it.
Take(h) ==
    LET last == Waits(up, Chunk)
        size == IF last THEN Held(up) ELSE Chunk
    IN  /\ hpc[h] = "read"
        /\ last => FindsEnd(up, Chunk)
        /\ up' = Given(up, size)
        /\ nextOffset' = nextOffset + size
        /\ part' = [part EXCEPT ![h] = [from |-> up.got, to |-> up.got + size, last |-> last]]
        /\ hpc' = [hpc EXCEPT ![h] = "send"]
        /\ mx' = None
        /\ UNCHANGED <<pumpVars, err, mainVars, active, seqno, peerVars>>

\* Mutant: a Read that failed counts what it had copied.
BreakCounted(h) ==
    /\ hpc[h] = "read"
    /\ FindsClosed(up, Chunk)
    /\ up' = HeldLost(up)
    /\ nextOffset' = nextOffset + Held(up)
    /\ part' = [part EXCEPT ![h] = [from |-> up.got, to |-> up.received, last |-> TRUE]]
    /\ hpc' = [hpc EXCEPT ![h] = "send"]
    /\ mx' = None
    /\ UNCHANGED <<pumpVars, err, mainVars, active, seqno, peerVars>>

\* The stream was closed: what Read had copied is lost, and no answer is sent.
Break(h) ==
    /\ hpc[h] = "read"
    /\ FindsClosed(up, Chunk)
    /\ up' = HeldLost(up)
    /\ hpc' = [hpc EXCEPT ![h] = "idle"]
    /\ mx' = None
    /\ UNCHANGED <<pumpVars, err, mainVars, active, nextOffset, seqno, part, peerVars>>

\* SendAnswer: the peer takes the answer to the query it is waiting for.
Send(h) ==
    LET p == part[h]
    IN  /\ hpc[h] = "send"
        /\ IF seqno[h] = peer.parts /\ ~peer.done
           THEN peer' = [parts |-> peer.parts + 1,
                         bytes |-> peer.bytes + (p.to - p.from),
                         inPlace |-> peer.inPlace /\ p.from = peer.bytes,
                         done |-> p.last]
           ELSE peer' = peer
        /\ hpc' = [hpc EXCEPT ![h] = IF p.last THEN "forget" ELSE "idle"]
        /\ UNCHANGED <<pumpVars, err, mainVars, active, up, nextOffset, mx, seqno, part, lost>>

\* SendAnswer fails, or the answer is lost.
SendLost(h) ==
    /\ hpc[h] = "send"
    /\ hpc' = [hpc EXCEPT ![h] = "idle"]
    /\ lost' = TRUE
    /\ UNCHANGED <<pumpVars, err, mainVars, active, up, nextOffset, mx, seqno, part, peer>>

\* After the last part: the entry is removed and the stream closed.
Forget(h) ==
    /\ hpc[h] = "forget"
    /\ active' = FALSE
    /\ up' = Closed(up)
    /\ hpc' = [hpc EXCEPT ![h] = "idle"]
    /\ UNCHANGED <<pumpVars, err, mainVars, nextOffset, mx, seqno, part, peerVars>>

-------------------------------------------------------------------------------
Pump == PumpRead \/ PumpCheck \/ PumpWrite \/ PumpNext
Main == MainQueried \/ MainChecks \/ MainParsed
Handle(h) == Begin(h) \/ Receive(h) \/ Take(h) \/ Break(h) \/ Forget(h)

UploadNext ==
    \/ Pump
    \/ Main
    \/ \E h \in Handlers : Ask(h) \/ Handle(h) \/ Send(h) \/ SendLost(h)

UploadSpec == UploadInit /\ [][UploadNext]_uploadVars

(***************************************************************************)
(* Body.Read, mutexes and channels let a goroutine go on that can; the     *)
(* peer asks while it waits for a part.  Answers of the peer to the        *)
(* request are not owed, nor that an answer to the peer arrives.           *)
(***************************************************************************)
UploadFairness ==
    /\ WF_uploadVars(Pump)
    /\ \A h \in Handlers : SF_uploadVars(Begin(h)) /\ WF_uploadVars(Handle(h)) /\ WF_uploadVars(Send(h))
    /\ WF_uploadVars(\E h \in Handlers : Ask(h))

UploadFairSpec == UploadSpec /\ UploadFairness

-------------------------------------------------------------------------------
(***************************************************************************)
(* Properties.                                                             *)
(***************************************************************************)

\* A peer that was told "last" has the whole body, every byte at its place, however
\* queries were repeated, answers lost, and err overwritten by doRldpHttp.
UploadWhole ==
    peer.done => /\ peer.inPlace
                 /\ peer.bytes = body.length
                 /\ ~body.fails

\* As long as the pump has not given the body up, each part is the next one of the
\* body, also beyond the int32 range of the offset.
PartsInPlace == (up.closed /\ ~up.finished) \/ peer.inPlace

(***************************************************************************)
(* The inductive invariant behind the two.                                 *)
(***************************************************************************)

\* What was read is in the stream, but for the slice the pump is about to write; and of
\* the values of err only the pump's own "eof" says that the body is over.
PumpedBytes ==
    /\ read <= body.length
    /\ ppc \in {"check", "write", "writeLast"} => up.sent + n = read
    /\ ppc \in {"read", "wrote", "wroteLast"} => up.sent = read
    /\ err \in {pumpErr, "nil", "query"}
    /\ ppc = "check" /\ pumpErr = "eof" => read = body.length /\ ~body.fails
    /\ ppc \in {"writeLast", "wroteLast"} => read = body.length /\ ~body.fails

\* The pump ends with the stream.  It is finished with the whole body in it, and then
\* closed only when all of it has been read.
StreamOver ==
    /\ up.got <= up.received /\ up.received <= up.sent
    /\ up.finished \/ up.closed => ppc = "done"
    /\ up.finished => up.sent = body.length /\ ~body.fails
    /\ up.finished /\ up.closed => up.got = up.sent

\* A handler that reads holds the mutex and was asked for the offset that comes next; one
\* that has read holds a whole part, or the last.
HandledParts ==
    \A h \in Handlers :
        /\ hpc[h] # "idle" => seqno[h] <= peer.parts
        /\ hpc[h] = "read" => mx = h /\ Offset(seqno[h]) = nextOffset
        /\ hpc[h] = "send" => /\ part[h].from <= part[h].to
                              /\ part[h].last \/ part[h].to = part[h].from + Chunk
                              /\ part[h].last => part[h].to = up.sent
        /\ hpc[h] = "forget" \/ (hpc[h] = "send" /\ part[h].last)
              => up.finished /\ up.got = up.sent

\* The peer waits for what handler h is about to send.
Awaited(h) == hpc[h] = "send" /\ seqno[h] = peer.parts /\ ~peer.done

\* The peer never has more than was taken, and what it waits for is all that was taken
\* and that it does not have.
PeerBehind ==
    /\ ~peer.done => peer.bytes = peer.parts * Chunk
    /\ peer.bytes <= nextOffset /\ nextOffset <= up.got
    /\ \A h \in Handlers : Awaited(h) => part[h].to - part[h].from = nextOffset - peer.bytes

\* As long as the pump has not given the body up, nothing that was read is lost.
NothingLost ==
    \/ up.closed /\ ~up.finished
    \/ /\ nextOffset = up.got
       /\ peer.inPlace
       /\ \A h \in Handlers : Awaited(h) => part[h].from = peer.bytes

UploadIInv ==
    /\ UploadTypeOK /\ PumpedBytes /\ StreamOver
    /\ HandledParts /\ PeerBehind /\ NothingLost /\ UploadWhole

\* No query of the peer waits for ever, whether the body ends, breaks off or is given
\* up: every handler ends, and frees the stream's mutex for the next.
HandlersEnd == \A h \in Handlers : hpc[h] # "idle" ~> hpc[h] = "idle"

\* The peer gets the last part of a body within the offset's range, unless the body
\* breaks off, an answer is lost, or doRldpHttp returns before the peer has it all.
UploadArrives ==
    ~body.fails /\ body.length <= IntLimit => <>(peer.done \/ lost \/ mpc # "query")
===============================================================================
