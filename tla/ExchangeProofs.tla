----------------------------- MODULE ExchangeProofs -----------------------------
(***************************************************************************)
(* Upload: the peer of doRldpHttp is given the request's body and nothing  *)
(* else.  Download: what ServeHTTP is told of a body is true.  For bodies, *)
(* parts and buffers of any size, and any number of handlers.              *)
(***************************************************************************)
EXTENDS Upload, Download, TLAPS

-------------------------------------------------------------------------------
(***************************************************************************)
(* Upload.                                                                 *)
(***************************************************************************)

\* The product of two int32 is never above the product: where it wraps around it is
\* negative or too small.
LEMMA OffsetBelow ==
    ASSUME NEW s \in Nat
    PROVE  Offset(s) \in Int /\ Offset(s) <= s * Chunk
<1> DEFINE p == s * Chunk
           m == (p + IntLimit) % (2 * IntLimit)
<1>1. p \in Nat /\ IntLimit \in Nat \ {0}
  BY SizeAssumption
<1>2. Offset(s) = m - IntLimit
  BY DEF Offset
<1>3. m \in 0..2 * IntLimit - 1 /\ m <= p + IntLimit
  <2> HIDE DEF p
  <2>1. p + IntLimit \in Nat /\ 2 * IntLimit \in Nat \ {0}
    BY <1>1
  <2> QED BY <2>1
<1> HIDE DEF p, m
<1> QED BY <1>1, <1>2, <1>3 DEF p

\* Finish and Close are marks on a stream.
LEMMA Ended ==
    ASSUME NEW s \in Streams
    PROVE  /\ Finished(s) \in Streams /\ Closed(s) \in Streams
           /\ Finished(s).finished /\ Finished(s).closed = s.closed
           /\ Closed(s).closed /\ Closed(s).finished = s.finished
           /\ \A t \in {Finished(s), Closed(s)} :
                 t.sent = s.sent /\ t.received = s.received /\ t.got = s.got
BY DEF Streams, Finished, Closed

LEMMA UploadStarts == UploadInit => UploadIInv
<1> SUFFICES ASSUME UploadInit PROVE UploadIInv
  OBVIOUS
<1> USE SizeAssumption, BodyAssumption DEF UploadInit
<1>1. NoPart \in Parts /\ NewStream \in Streams
  BY DEF NoPart, Parts, NewStream, Streams, Bytes
<1>2. UploadTypeOK
  <2>1. 0 \in Bytes /\ 0 \in 0..BufSize
    BY DEF Bytes
  <2>2. peer \in Peers
    BY DEF Peers
  <2> QED BY <1>1, <2>1, <2>2 DEF UploadTypeOK
<1>3. PumpedBytes /\ StreamOver
  <2>1. 0 <= body.length
    BY DEF Bytes
  <2> QED BY <2>1 DEF PumpedBytes, StreamOver, NewStream
<1>4. HandledParts /\ PeerBehind /\ NothingLost /\ UploadWhole
  BY DEF HandledParts, PeerBehind, NothingLost, UploadWhole, Awaited, NewStream
<1> QED BY <1>2, <1>3, <1>4 DEF UploadIInv

\* What a live pump does is nothing to the handlers and the peer.
LEMMA PumpAside ==
    ASSUME UploadIInv, ppc # "done", up'.got = up.got,
           UNCHANGED <<body, handVars, peerVars>>
    PROVE  HandledParts' /\ PeerBehind' /\ NothingLost' /\ UploadWhole'
<1> USE DEF handVars, peerVars
<1>1. ~up.finished /\ ~up.closed
  BY DEF UploadIInv, StreamOver
<1>2. HandledParts' /\ PeerBehind'
  BY <1>1 DEF UploadIInv, HandledParts, PeerBehind, Awaited, Offset
<1>3. NothingLost' /\ UploadWhole'
  BY <1>1 DEF UploadIInv, NothingLost, Awaited, UploadWhole
<1> QED BY <1>2, <1>3

LEMMA PumpKeeps == ASSUME UploadIInv, Pump PROVE UploadIInv'
<1> USE SizeAssumption, BodyAssumption
    DEF pumpVars, mainVars, handVars, peerVars, Written
<1>1. UNCHANGED <<body, mainVars, active, handVars, peerVars>>
  BY DEF Pump, PumpRead, PumpCheck, PumpWrite, PumpNext
<1>2. ppc # "done" /\ ~up.closed /\ ~up.finished
  BY DEF Pump, PumpRead, PumpCheck, PumpWrite, PumpNext, UploadIInv, StreamOver
<1>3. up'.got = up.got
  BY DEF Pump, PumpRead, PumpCheck, PumpWrite, PumpNext, UploadIInv, UploadTypeOK, Streams,
         Closed, Finished
<1>4. HandledParts' /\ PeerBehind' /\ NothingLost' /\ UploadWhole'
  BY <1>1, <1>2, <1>3, PumpAside
<1>5. UploadTypeOK' /\ PumpedBytes' /\ StreamOver'
  <2> USE <1>1, <1>2 DEF UploadIInv, UploadTypeOK, PumpedBytes, StreamOver, Bytes, Streams
  <2>1. CASE PumpRead
    <3>1. PICK k \in 0..BufSize :
            /\ read + k <= body.length /\ n' = k /\ read' = read + k
            /\ \/ pumpErr' = "nil" /\ err' = "nil"
               \/ /\ read + k = body.length
                  /\ pumpErr' = (IF body.fails THEN "body" ELSE "eof") /\ err' = pumpErr'
      BY <2>1 DEF PumpRead, PumpStores
    <3>2. up' = up /\ ppc = "read" /\ ppc' = "check"
      BY <2>1 DEF PumpRead
    <3>3. body.length \in Nat /\ body.length <= MaxBody
      OBVIOUS
    <3>4. UploadTypeOK'
      BY <3>1, <3>2, <3>3
    <3>5. PumpedBytes'
      BY <3>1, <3>2
    <3>6. StreamOver'
      BY <3>2
    <3> QED BY <3>4, <3>5, <3>6
  <2>2. CASE PumpCheck
    <3>1. /\ UNCHANGED <<read, n, err, pumpErr>>
          /\ ppc = "check" /\ ppc' \in {"write", "writeLast", "done"}
          /\ ppc' = "writeLast" => pumpErr = "eof"
          /\ \/ up' = up
             \/ ppc' = "done" /\ up' = Closed(up)
      BY <2>2 DEF PumpCheck
    <3>2. /\ up' \in Streams /\ ~up'.finished /\ (up'.closed => ppc' = "done")
          /\ up'.sent = up.sent /\ up'.received = up.received
      BY <3>1, Ended
    <3>3. UploadTypeOK'
      BY <3>1, <3>2
    <3>4. PumpedBytes'
      BY <3>1, <3>2
    <3>5. StreamOver'
      BY <3>2, <1>3
    <3> QED BY <3>3, <3>4, <3>5
  <2>3. CASE PumpWrite
    <3>1. /\ pumpErr' \in {"nil", "pipe"} /\ err' = pumpErr' /\ UNCHANGED <<read, n>>
          /\ \/ ppc = "write" /\ ppc' = "wrote"
             \/ ppc = "writeLast" /\ ppc' = "wroteLast"
      BY <2>3 DEF PumpWrite, PumpStores
    <3>2. \/ n = 0 /\ up' = up
          \/ up' = [up EXCEPT !.sent = @ + n]
      BY <2>3 DEF PumpWrite
    <3>3. up.sent + n = read /\ read <= body.length /\ body.length <= MaxBody
      BY <2>3 DEF PumpWrite
    <3>4. up' \in Streams /\ up'.sent = read /\ up'.received = up.received /\ up'.got = up.got
          /\ up'.closed = up.closed /\ up'.finished = up.finished
      BY <3>2, <3>3
    <3>5. UploadTypeOK'
      BY <3>1, <3>4
    <3>6. PumpedBytes'
      BY <3>1, <3>3, <3>4
    <3>7. StreamOver'
      BY <3>1, <3>3, <3>4
    <3> QED BY <3>5, <3>6, <3>7
  <2>4. CASE PumpNext
    <3>1. /\ UNCHANGED <<read, n, err, pumpErr>>
          /\ \/ ppc = "wrote" /\ ppc' = "read" /\ up' = up
             \/ ppc = "wroteLast" /\ ppc' = "done" /\ up' = Finished(up)
             \/ ppc' = "done" /\ up' = Closed(up)
      BY <2>4 DEF PumpNext
    <3>2. /\ up' \in Streams
          /\ up'.finished => ppc = "wroteLast" /\ ppc' = "done" /\ ~up'.closed
          /\ up'.closed => ppc' = "done"
          /\ up'.sent = up.sent /\ up'.received = up.received
      BY <3>1, Ended
    <3>3. ppc' \in {"read", "done"} /\ up.sent = read
      BY <2>4, <3>1 DEF PumpNext
    <3>4. UploadTypeOK'
      BY <3>1, <3>2, <3>3
    <3>5. PumpedBytes'
      BY <3>1, <3>2, <3>3
    <3>6. StreamOver'
      BY <3>1, <3>2, <3>3, <1>3
    <3> QED BY <3>4, <3>5, <3>6
  <2> QED BY <2>1, <2>2, <2>3, <2>4 DEF Pump
<1> QED BY <1>4, <1>5 DEF UploadIInv

\* doRldpHttp touches only its own variables, err and the entry.
LEMMA MainKeeps == ASSUME UploadIInv, Main PROVE UploadIInv'
<1> USE DEF pumpVars, mainVars, handVars, peerVars
<1>1. UNCHANGED <<pumpVars, up, handVars, peerVars>>
  BY DEF Main, MainQueried, MainChecks, MainParsed
<1>2. UploadTypeOK' /\ err' \in {err, "nil", "query"}
  <2>1. /\ err' \in {err, "nil", "query"}
        /\ mainErr' \in {mainErr, "nil", "query"}
        /\ mpc' \in {"check", "parsed", "done"}
        /\ answered' \in {answered, "ok", "error"}
        /\ active' \in {active, FALSE}
    BY DEF Main, MainQueried, MainChecks, MainParsed, MainReturns, MainStores
  <2>2. active' \in BOOLEAN
    BY <2>1 DEF UploadIInv, UploadTypeOK
  <2> QED BY <1>1, <2>1, <2>2 DEF UploadIInv, UploadTypeOK
<1>3. PumpedBytes' /\ StreamOver'
  BY <1>1, <1>2 DEF UploadIInv, PumpedBytes, StreamOver
<1>4. HandledParts' /\ PeerBehind' /\ NothingLost' /\ UploadWhole'
  BY <1>1 DEF UploadIInv, HandledParts, PeerBehind, NothingLost, UploadWhole, Awaited, Offset
<1> QED BY <1>2, <1>3, <1>4 DEF UploadIInv

\* A handler that reads for the peer's own offset finds the peer with all that was taken.
LEMMA NoneBehind ==
    ASSUME UploadIInv, NEW h \in Handlers, hpc[h] = "read", ~peer.done
    PROVE  nextOffset = peer.bytes
<1>1. /\ Offset(seqno[h]) = nextOffset /\ seqno[h] <= peer.parts
      /\ peer.bytes = peer.parts * Chunk /\ peer.bytes <= nextOffset
  BY DEF UploadIInv, HandledParts, PeerBehind
<1>2. seqno[h] \in Nat /\ peer.parts \in Nat /\ nextOffset \in Nat
  BY BodyAssumption DEF UploadIInv, UploadTypeOK, Peers, Bytes
<1>3. nextOffset <= seqno[h] * Chunk
  BY <1>1, <1>2, OffsetBelow
<1>4. seqno[h] * Chunk <= peer.parts * Chunk
  <2>1. \A a, b, c \in Nat : a <= b => a * c <= b * c
    OBVIOUS
  <2> QED BY <1>1, <1>2, <2>1, SizeAssumption
<1>5. seqno[h] * Chunk \in Nat /\ peer.parts * Chunk \in Nat
  BY <1>2, SizeAssumption
<1> QED BY <1>1, <1>2, <1>3, <1>4, <1>5

\* A query that is asked for or begun, and an answer that is lost, change no part.
LEMMA QueryKeeps ==
    ASSUME UploadIInv, NEW h \in Handlers, Ask(h) \/ Begin(h) \/ SendLost(h)
    PROVE  UploadIInv'
<1> USE NameAssumption DEF pumpVars, mainVars, handVars, peerVars
<1>1. UNCHANGED <<pumpVars, err, mainVars, active, up, nextOffset, part, peer>>
  BY DEF Ask, Begin, SendLost, peerVars
<1>2. /\ \A g \in Handlers \ {h} : hpc'[g] = hpc[g] /\ seqno'[g] = seqno[g]
      /\ hpc'[h] \in {"idle", "lock", "read"}
      /\ hpc'[h] # "idle" => seqno'[h] <= peer.parts
      /\ hpc'[h] = "read" => mx' = h /\ Offset(seqno'[h]) = nextOffset
      /\ mx' = mx \/ mx = None
  BY DEF Ask, Begin, SendLost, UploadIInv, UploadTypeOK, HandledParts, Peers
<1>3. UploadTypeOK'
  <2>1. /\ hpc' \in [Handlers -> {"idle", "lock", "read", "send", "forget"}]
        /\ seqno' \in [Handlers -> Nat]
        /\ mx' \in Handlers \cup {None} /\ lost' \in BOOLEAN
    BY DEF Ask, Begin, SendLost, UploadIInv, UploadTypeOK, Peers
  <2> QED BY <1>1, <2>1 DEF UploadIInv, UploadTypeOK
<1>4. PumpedBytes' /\ StreamOver' /\ UploadWhole'
  BY <1>1 DEF UploadIInv, PumpedBytes, StreamOver, UploadWhole
<1>5. HandledParts'
  BY <1>1, <1>2 DEF UploadIInv, HandledParts, Offset
<1>6. \A g \in Handlers : Awaited(g)' => Awaited(g)
  BY <1>1, <1>2 DEF Awaited
<1>7. PeerBehind' /\ NothingLost'
  BY <1>1, <1>6 DEF UploadIInv, PeerBehind, NothingLost
<1> QED BY <1>3, <1>4, <1>5, <1>7 DEF UploadIInv

\* What a handler does with the stream before it has a part: a slice is copied, what was
\* copied of a broken stream is lost, or the stream is closed after the last part.
LEMMA StreamKeeps ==
    ASSUME UploadIInv, NEW h \in Handlers, Receive(h) \/ Break(h) \/ Forget(h)
    PROVE  UploadIInv'
<1> USE DEF pumpVars, mainVars, handVars, peerVars
<1>1. UNCHANGED <<pumpVars, err, mainVars, nextOffset, seqno, part, peerVars>>
  BY DEF Receive, Break, Forget
<1>2. /\ up.received \in Nat /\ up.sent \in Nat /\ up.got \in Nat /\ nextOffset \in Nat
      /\ up.got <= up.received /\ up.received <= up.sent
  BY BodyAssumption DEF UploadIInv, UploadTypeOK, StreamOver, Streams, Bytes
<1>3. /\ up' \in Streams /\ up'.sent = up.sent /\ up'.finished = up.finished
      /\ up.got <= up'.got /\ up'.got <= up'.received /\ up'.received <= up'.sent
      /\ up'.closed = up.closed \/ (up'.closed /\ up.finished /\ up.got = up.sent)
      /\ up'.got = up.got \/ (up.closed /\ ~up.finished)
  <2>1. CASE Receive(h)
    BY <1>2, <2>1 DEF Receive, Received, UploadIInv, UploadTypeOK, Streams
  <2>2. CASE Break(h)
    <3>1. up.closed /\ up' = [up EXCEPT !.got = up.received] /\ up \in Streams
      BY <2>2 DEF Break, HeldLost, FindsClosed, UploadIInv, UploadTypeOK
    <3>2. /\ up' \in Streams /\ up'.sent = up.sent /\ up'.received = up.received
          /\ up'.got = up.received /\ up'.finished = up.finished /\ up'.closed = up.closed
      BY <3>1 DEF Streams
    <3>3. up.finished => up.got = up.sent
      BY <3>1 DEF UploadIInv, StreamOver
    <3>4. up.got <= up'.got /\ up'.got <= up'.received /\ up'.received <= up'.sent
      BY <1>2, <3>2
    <3>5. up.finished => up'.got = up.got
      BY <1>2, <3>2, <3>3
    <3>6. up'.got = up.got \/ (up.closed /\ ~up.finished)
      BY <3>1, <3>5
    <3> QED BY <3>2, <3>4, <3>6
  <2>3. CASE Forget(h)
    BY <1>2, <2>3, Ended DEF Forget, UploadIInv, UploadTypeOK, HandledParts
  <2> QED BY <2>1, <2>2, <2>3
<1>4. /\ hpc' = hpc \/ hpc' = [hpc EXCEPT ![h] = "idle"]
      /\ mx' = mx \/ (mx' = None /\ hpc[h] = "read" /\ hpc'[h] = "idle")
      /\ active' \in BOOLEAN
  BY DEF Receive, Break, Forget, UploadIInv, UploadTypeOK
<1>5. /\ hpc' \in [Handlers -> {"idle", "lock", "read", "send", "forget"}]
      /\ \A g \in Handlers : hpc'[g] \in {hpc[g], "idle"}
  BY <1>4 DEF UploadIInv, UploadTypeOK
<1>6. UploadTypeOK'
  BY <1>1, <1>3, <1>4, <1>5 DEF UploadIInv, UploadTypeOK
<1>7. PumpedBytes' /\ StreamOver' /\ UploadWhole'
  BY <1>1, <1>2, <1>3 DEF UploadIInv, PumpedBytes, StreamOver, UploadWhole
<1>8. HandledParts'
  <2> SUFFICES ASSUME NEW g \in Handlers, hpc'[g] # "idle"
               PROVE  /\ seqno[g] <= peer.parts
                      /\ hpc[g] = "read" => mx' = g /\ Offset(seqno[g]) = nextOffset
                      /\ hpc[g] = "send" => /\ part[g].from <= part[g].to
                                            /\ part[g].last \/ part[g].to = part[g].from + Chunk
                                            /\ part[g].last => part[g].to = up'.sent
                      /\ hpc[g] = "forget" \/ (hpc[g] = "send" /\ part[g].last)
                            => up'.finished /\ up'.got = up'.sent
    BY <1>1, <1>5 DEF HandledParts, Offset
  <2>1. hpc[g] = hpc'[g]
    BY <1>5
  <2>2. hpc[g] = "read" => mx' = g
    BY <1>4, <2>1 DEF UploadIInv, HandledParts
  <2> QED BY <1>2, <1>3, <2>1, <2>2 DEF UploadIInv, HandledParts
<1>9. \A g \in Handlers : Awaited(g)' => Awaited(g)
  BY <1>1, <1>5 DEF Awaited
<1>10. PeerBehind'
  <2>1. nextOffset <= up'.got
    BY <1>2, <1>3 DEF UploadIInv, PeerBehind, UploadTypeOK, Streams, Bytes
  <2> QED BY <1>1, <1>9, <2>1 DEF UploadIInv, PeerBehind
<1>11. NothingLost'
  BY <1>1, <1>3, <1>9 DEF UploadIInv, NothingLost
<1> QED BY <1>6, <1>7, <1>8, <1>10, <1>11 DEF UploadIInv

\* A record of two offsets and a mark is a part.
LEMMA PartBuilt ==
    ASSUME NEW i \in Bytes, NEW j \in Bytes, NEW b \in BOOLEAN
    PROVE  [from |-> i, to |-> j, last |-> b] \in Parts
BY DEF Parts

\* A part is taken: it is all the peer will lack, and it follows what the peer has.
LEMMA TakeKeeps == ASSUME UploadIInv, NEW h \in Handlers, Take(h) PROVE UploadIInv'
<1> DEFINE last == Waits(up, Chunk)
           size == IF last THEN Held(up) ELSE Chunk
<1> USE DEF pumpVars, mainVars, handVars, peerVars
<1>1. /\ hpc[h] = "read" /\ mx' = None
      /\ last => up.finished /\ up.received = up.sent
      /\ up' = [up EXCEPT !.got = @ + size]
      /\ nextOffset' = nextOffset + size
      /\ part' = [part EXCEPT ![h] = [from |-> up.got, to |-> up.got + size, last |-> last]]
      /\ hpc' = [hpc EXCEPT ![h] = "send"]
      /\ UNCHANGED <<pumpVars, err, mainVars, active, seqno, peerVars>>
  BY DEF Take, FindsEnd, Given
<1>2. /\ up.received \in Nat /\ up.sent \in Nat /\ up.got \in Nat /\ nextOffset \in Nat
      /\ up.sent <= MaxBody /\ up.got <= up.received /\ up.received <= up.sent
      /\ nextOffset <= up.got /\ peer.bytes <= nextOffset /\ peer.bytes \in Nat
      /\ Chunk \in Nat \ {0} /\ MaxBody \in Nat
  BY BodyAssumption, SizeAssumption
     DEF UploadIInv, UploadTypeOK, StreamOver, PeerBehind, Streams, Peers, Bytes
<1>3. /\ size \in Nat /\ up.got + size <= up.received
      /\ last \in BOOLEAN
      /\ ~last => size = Chunk
      /\ last => up.got + size = up.sent
      /\ up.got = up.sent => size = 0
  BY <1>1, <1>2 DEF Waits, Held
<1> HIDE DEF last, size
<1>4. /\ up' \in Streams /\ up'.got = up.got + size
      /\ up'.sent = up.sent /\ up'.received = up.received
      /\ up'.finished = up.finished /\ up'.closed = up.closed
  BY <1>1, <1>2, <1>3 DEF UploadIInv, UploadTypeOK, Streams, Bytes
<1>5. \A g \in Handlers \ {h} : hpc'[g] = hpc[g] /\ part'[g] = part[g] /\ hpc[g] # "read"
  BY <1>1, NameAssumption DEF UploadIInv, UploadTypeOK, HandledParts
<1>6. /\ hpc'[h] = "send" /\ part'[h].last = last
      /\ part'[h].from = up.got /\ part'[h].to = up.got + size
  BY <1>1 DEF UploadIInv, UploadTypeOK
<1>7. UploadTypeOK'
  <2>1. nextOffset' \in Bytes /\ up.got \in Bytes /\ up.got + size \in Bytes
    BY <1>1, <1>2, <1>3 DEF Bytes
  <2>2. part' \in [Handlers -> Parts]
    <3>1. [from |-> up.got, to |-> up.got + size, last |-> last] \in Parts
      <4>1. last \in BOOLEAN
        BY <1>3
      <4> QED BY <2>1, <4>1, PartBuilt, Zenon
    <3>2. part \in [Handlers -> Parts]
      BY DEF UploadIInv, UploadTypeOK
    <3> QED BY <1>1, <3>1, <3>2
  <2>3. hpc' \in [Handlers -> {"idle", "lock", "read", "send", "forget"}]
    BY <1>1 DEF UploadIInv, UploadTypeOK
  <2> QED BY <1>1, <1>4, <2>1, <2>2, <2>3 DEF UploadIInv, UploadTypeOK
<1>8. PumpedBytes' /\ StreamOver' /\ UploadWhole'
  BY <1>1, <1>2, <1>3, <1>4 DEF UploadIInv, PumpedBytes, StreamOver, UploadWhole
<1>9. HandledParts'
  <2> SUFFICES ASSUME NEW g \in Handlers, hpc'[g] # "idle"
               PROVE  /\ seqno[g] <= peer.parts
                      /\ hpc'[g] # "read"
                      /\ hpc'[g] = "send" =>
                            /\ part'[g].from <= part'[g].to
                            /\ part'[g].last \/ part'[g].to = part'[g].from + Chunk
                            /\ part'[g].last => part'[g].to = up'.sent
                      /\ hpc'[g] = "forget" \/ (hpc'[g] = "send" /\ part'[g].last)
                            => up'.finished /\ up'.got = up'.sent
    BY <1>1 DEF HandledParts, Offset
  <2>1. CASE g = h
    <3>1. part'[h].from <= part'[h].to
      BY <1>2, <1>3, <1>6
    <3>2. ~last => part'[h].to = part'[h].from + Chunk
      <4> SUFFICES ASSUME ~last PROVE part'[h].to = part'[h].from + Chunk
        OBVIOUS
      <4>1. size = Chunk
        BY <1>3
      <4> QED BY <1>6, <4>1, Zenon
    <3>3. last => part'[h].to = up'.sent /\ up'.finished /\ up'.got = up'.sent
      BY <1>1, <1>3, <1>4, <1>6, Zenon
    <3>4. seqno[h] <= peer.parts
      BY <1>1 DEF UploadIInv, HandledParts
    <3> QED BY <1>6, <2>1, <3>1, <3>2, <3>3, <3>4, Zenon
  <2>2. CASE g # h
    BY <1>2, <1>3, <1>4, <1>5, <2>2 DEF UploadIInv, HandledParts
  <2> QED BY <2>1, <2>2
<1>10. ~peer.done => nextOffset = peer.bytes
  BY <1>1, NoneBehind
<1>11. \A g \in Handlers \ {h} : Awaited(g)' => Awaited(g) /\ size = 0
  <2> SUFFICES ASSUME NEW g \in Handlers \ {h}, Awaited(g)'
               PROVE  Awaited(g) /\ size = 0
    OBVIOUS
  <2>1. Awaited(g)
    BY <1>1, <1>5 DEF Awaited
  <2>2. part[g].to - part[g].from = 0
    BY <1>2, <1>10, <2>1 DEF Awaited, UploadIInv, PeerBehind
  <2>3. part[g].from \in Nat /\ part[g].to \in Nat
    BY BodyAssumption DEF UploadIInv, UploadTypeOK, Parts, Bytes
  <2>4. part[g].last
    BY <1>2, <2>1, <2>2, <2>3 DEF Awaited, UploadIInv, HandledParts
  <2> QED BY <1>3, <2>1, <2>4 DEF Awaited, UploadIInv, HandledParts
<1>12. PeerBehind'
  <2>1. peer' = peer /\ nextOffset' <= up'.got /\ peer.bytes <= nextOffset'
    BY <1>1, <1>2, <1>3, <1>4
  <2>2. ASSUME NEW g \in Handlers, Awaited(g)'
        PROVE  part'[g].to - part'[g].from = nextOffset' - peer.bytes
    <3>1. CASE g = h
      BY <1>1, <1>2, <1>3, <1>6, <1>10, <2>2, <3>1 DEF Awaited
    <3>2. CASE g # h
      BY <1>1, <1>2, <1>5, <1>11, <2>2, <3>2 DEF UploadIInv, PeerBehind
    <3> QED BY <3>1, <3>2
  <2> QED BY <2>1, <2>2 DEF UploadIInv, PeerBehind
<1>13. NothingLost'
  <2>1. CASE up.closed /\ ~up.finished
    BY <1>4, <2>1 DEF NothingLost
  <2>2. CASE ~(up.closed /\ ~up.finished)
    <3>1. /\ nextOffset = up.got /\ peer.inPlace
          /\ \A g \in Handlers : Awaited(g) => part[g].from = peer.bytes
      BY <2>2 DEF UploadIInv, NothingLost
    <3>2. nextOffset' = up'.got /\ peer' = peer
      BY <1>1, <1>4, <3>1
    <3>3. ASSUME NEW g \in Handlers, Awaited(g)' PROVE part'[g].from = peer.bytes
      <4>1. CASE g = h
        BY <1>1, <1>6, <1>10, <3>1, <3>3, <4>1 DEF Awaited
      <4>2. CASE g # h
        BY <1>5, <1>11, <3>1, <3>3, <4>2
      <4> QED BY <4>1, <4>2
    <3> QED BY <3>1, <3>2, <3>3 DEF NothingLost
  <2> QED BY <2>1, <2>2
<1> QED BY <1>7, <1>8, <1>9, <1>12, <1>13 DEF UploadIInv

\* The peer takes an answer: then it has all that was taken, and no other answer is for
\* the query it asks next.
LEMMA SendKeeps == ASSUME UploadIInv, NEW h \in Handlers, Send(h) PROVE UploadIInv'
<1> USE DEF pumpVars, mainVars, handVars, peerVars
<1>1. /\ hpc[h] = "send"
      /\ hpc' = [hpc EXCEPT ![h] = IF part[h].last THEN "forget" ELSE "idle"]
      /\ UNCHANGED <<pumpVars, err, mainVars, active, up, nextOffset, mx, seqno, part, lost>>
  BY DEF Send
<1>2. /\ \A g \in Handlers \ {h} : hpc'[g] = hpc[g]
      /\ hpc'[h] \in {"idle", "forget"} /\ (hpc'[h] = "forget" => part[h].last)
      /\ hpc' \in [Handlers -> {"idle", "lock", "read", "send", "forget"}]
  BY <1>1 DEF UploadIInv, UploadTypeOK
<1>3. /\ peer.parts \in Nat /\ peer.bytes \in Nat /\ nextOffset \in Nat
      /\ part[h].from \in Nat /\ part[h].to \in Nat /\ part[h].last \in BOOLEAN
      /\ \A g \in Handlers : seqno[g] \in Nat
      /\ Chunk \in Nat \ {0}
  BY BodyAssumption, SizeAssumption DEF UploadIInv, UploadTypeOK, Peers, Parts, Bytes
<1>4. PumpedBytes' /\ StreamOver'
  BY <1>1 DEF UploadIInv, PumpedBytes, StreamOver
<1>5. CASE ~Awaited(h)
  <2>1. peer' = peer
    BY <1>1, <1>5 DEF Send, Awaited
  <2>2. UploadTypeOK' /\ UploadWhole'
    BY <1>1, <1>2, <2>1 DEF UploadIInv, UploadTypeOK, UploadWhole
  <2>3. HandledParts'
    BY <1>1, <1>2, <2>1 DEF UploadIInv, HandledParts, Offset
  <2>4. \A g \in Handlers : Awaited(g)' => Awaited(g)
    BY <1>1, <1>2, <2>1 DEF Awaited
  <2>5. PeerBehind' /\ NothingLost'
    BY <1>1, <2>1, <2>4 DEF UploadIInv, PeerBehind, NothingLost
  <2> QED BY <1>4, <2>2, <2>3, <2>5 DEF UploadIInv
<1>6. CASE Awaited(h)
  <2>1. /\ seqno[h] = peer.parts /\ ~peer.done
        /\ peer' = [parts |-> peer.parts + 1,
                    bytes |-> peer.bytes + (part[h].to - part[h].from),
                    inPlace |-> peer.inPlace /\ part[h].from = peer.bytes,
                    done |-> part[h].last]
    BY <1>6 DEF Send, Awaited
  <2>2. /\ part[h].to - part[h].from = nextOffset - peer.bytes
        /\ part[h].last \/ part[h].to = part[h].from + Chunk
        /\ peer.bytes = peer.parts * Chunk
        /\ part[h].last => up.finished /\ up.got = up.sent
    BY <1>1, <1>6, <2>1 DEF UploadIInv, PeerBehind, HandledParts
  <2>3. /\ peer'.parts = peer.parts + 1 /\ peer'.bytes = nextOffset
        /\ peer'.done = part[h].last
        /\ peer'.inPlace = (peer.inPlace /\ part[h].from = peer.bytes)
    <3>1. peer.bytes + (part[h].to - part[h].from) = nextOffset
      BY <1>3, <2>2
    <3>2. peer'.bytes = nextOffset
      BY <2>1, <3>1
    <3> QED BY <2>1, <3>2
  <2>4. UploadTypeOK'
    <3>1. (peer.inPlace /\ part[h].from = peer.bytes) \in BOOLEAN
      BY DEF UploadIInv, UploadTypeOK, Peers
    <3>2. peer.bytes + (part[h].to - part[h].from) \in Nat
      BY <1>3, <2>2
    <3>3. peer' \in Peers
      BY <1>3, <2>1, <3>1, <3>2 DEF Peers
    <3> QED BY <1>1, <1>2, <3>3 DEF UploadIInv, UploadTypeOK
  <2>5. HandledParts'
    BY <1>1, <1>2, <1>3, <2>2, <2>3 DEF UploadIInv, HandledParts, Offset
  <2>6. \A g \in Handlers : ~Awaited(g)'
    <3> SUFFICES ASSUME NEW g \in Handlers, hpc'[g] = "send" PROVE seqno[g] # peer'.parts
      BY <1>1 DEF Awaited
    <3>1. hpc[g] = "send"
      BY <1>2
    <3>2. seqno[g] <= peer.parts
      BY <3>1 DEF UploadIInv, HandledParts
    <3> QED BY <1>3, <2>3, <3>2
  <2>7. PeerBehind'
    <3>1. ~peer'.done => peer'.bytes = peer'.parts * Chunk
      <4>1. (peer.parts + 1) * Chunk = peer.parts * Chunk + Chunk
        BY <1>3
      <4>2. peer.parts * Chunk \in Nat
        BY <1>3
      <4> QED BY <1>3, <2>2, <2>3, <4>1, <4>2
    <3>2. peer'.bytes <= nextOffset' /\ nextOffset' <= up'.got
      BY <1>1, <1>3, <2>3 DEF UploadIInv, PeerBehind
    <3> QED BY <2>6, <3>1, <3>2 DEF PeerBehind
  <2>8. (up.closed /\ ~up.finished) \/ (nextOffset = up.got /\ peer.inPlace /\ part[h].from = peer.bytes)
    BY <1>6 DEF UploadIInv, NothingLost
  <2>9. NothingLost'
    BY <1>1, <2>3, <2>6, <2>8 DEF NothingLost
  <2>10. UploadWhole'
    <3> SUFFICES ASSUME part[h].last
                 PROVE  peer'.inPlace /\ peer'.bytes = body.length /\ ~body.fails
      BY <1>1, <2>3 DEF UploadWhole
    <3>1. up.finished /\ up.got = up.sent
      BY <2>2
    <3>2. up.sent = body.length /\ ~body.fails
      BY <3>1 DEF UploadIInv, StreamOver
    <3> QED BY <2>3, <2>8, <3>1, <3>2
  <2> QED BY <1>4, <2>4, <2>5, <2>7, <2>9, <2>10 DEF UploadIInv
<1> QED BY <1>5, <1>6

LEMMA UploadKeeps == UploadIInv /\ [UploadNext]_uploadVars => UploadIInv'
<1> SUFFICES ASSUME UploadIInv, [UploadNext]_uploadVars PROVE UploadIInv'
  OBVIOUS
<1>1. CASE Pump
  BY <1>1, PumpKeeps
<1>2. CASE Main
  BY <1>2, MainKeeps
<1>3. ASSUME NEW h \in Handlers, Ask(h) \/ Handle(h) \/ Send(h) \/ SendLost(h)
      PROVE  UploadIInv'
  BY <1>3, QueryKeeps, StreamKeeps, TakeKeeps, SendKeeps DEF Handle
<1>4. CASE UNCHANGED uploadVars
  BY <1>4 DEF uploadVars, UploadIInv, UploadTypeOK, PumpedBytes, StreamOver, HandledParts,
              PeerBehind, NothingLost, UploadWhole, Awaited, Offset
<1> QED BY <1>1, <1>2, <1>3, <1>4 DEF UploadNext

\* However queries are repeated, answers lost and err overwritten, pump, handlers and peer
\* agree on how much of the body went by.
THEOREM UploadInvariance == UploadSpec => []UploadIInv
<1> QED BY UploadStarts, UploadKeeps, PTL DEF UploadSpec

\* A peer that was told "last" has the whole body, every byte at its place.
THEOREM Whole == UploadSpec => []UploadWhole
<1>1. UploadIInv => UploadWhole
  BY DEF UploadIInv
<1> QED BY <1>1, UploadInvariance, PTL

\* As long as the pump has not given the body up, each part the peer has is the next one.
THEOREM InPlace == UploadSpec => []PartsInPlace
<1>1. UploadIInv => PartsInPlace
  BY DEF UploadIInv, NothingLost, PartsInPlace
<1> QED BY <1>1, UploadInvariance, PTL

-------------------------------------------------------------------------------
(***************************************************************************)
(* Download.                                                               *)
(***************************************************************************)

\* doRldpHttp has just built the response: nothing is written, nothing read.
LEMMA DownloadStarts == DownloadInit => DownloadIInv
<1> SUFFICES ASSUME DownloadInit PROVE DownloadIInv
  OBVIOUS
<1>1. /\ dr.sent = 0 /\ dr.received = 0 /\ dr.got = 0 /\ ~dr.closed
      /\ dr.finished <=> ~answer.payload
      /\ dr \in Streams
  <2>1. CASE answer.payload
    BY <2>1, BodyAssumption DEF DownloadInit, NewStream, Streams, Bytes
  <2>2. CASE ~answer.payload
    <3>1. dr = [sent |-> 0, received |-> 0, got |-> 0, finished |-> TRUE, closed |-> FALSE]
      BY <2>2 DEF DownloadInit, NewStream, Finished
    <3> QED BY <2>2, <3>1, BodyAssumption DEF Streams, Bytes
  <2> QED BY <2>1, <2>2
<1>2. /\ answer \in [payload : BOOLEAN, length : Bytes]
      /\ lpc \in {"query", "done"} /\ (lpc = "query" <=> answer.payload)
      /\ ~answer.payload => answer.length = 0
  BY DEF DownloadInit
<1>3. /\ loopPart = [from |-> 0, to |-> 0, last |-> FALSE]
      /\ loopPart \in Parts
  BY BodyAssumption DEF DownloadInit, NoPart, Parts, Bytes
<1>4. failed = FALSE /\ cpc = "read" /\ copied = 0 /\ told = "nothing" /\ cancelled = FALSE
  BY DEF DownloadInit
<1>5. 0 \in Bytes /\ answer.length \in Nat
  BY <1>2, BodyAssumption DEF Bytes
<1>6. DownloadTypeOK
  BY <1>1, <1>2, <1>3, <1>4, <1>5 DEF DownloadTypeOK
<1> QED
  BY <1>1, <1>2, <1>3, <1>4, <1>5, <1>6
     DEF DownloadIInv, WrittenParts, StreamEnds, CopiedParts

\* No step of the loop, of ServeHTTP or of the browser disturbs the invariant.
LEMMA DownloadKeeps == DownloadIInv /\ [DownloadNext]_downloadVars => DownloadIInv'
<1> SUFFICES ASSUME DownloadIInv, [DownloadNext]_downloadVars PROVE DownloadIInv'
  OBVIOUS
<1> USE BodyAssumption, CopyAssumption
    DEF DownloadIInv, DownloadTypeOK, WrittenParts, StreamEnds, CopiedParts, Bytes, Parts, Streams
<1>1. CASE QueryAnswered
  <2>1. PICK to \in loopPart.to..answer.length, last \in BOOLEAN :
          /\ last => to = answer.length
          /\ loopPart' = [from |-> loopPart.to, to |-> to, last |-> last]
    BY <1>1 DEF QueryAnswered
  <2> QED BY <1>1, <2>1 DEF QueryAnswered, copyVars
<1>2. CASE QueryFails
  BY <1>2 DEF QueryFails, Closed, copyVars
<1>3. CASE WriteOk
  BY <1>3 DEF WriteOk, Written, SlotFree, copyVars
<1>4. CASE WriteFails
  BY <1>4 DEF WriteFails, copyVars
<1>5. CASE Wrote
  BY <1>5 DEF Wrote, Finished, copyVars
<1>6. CASE CopyReceives
  BY <1>6 DEF CopyReceives, Received, FindsSlice, Waits, Held, loopVars, copyVars
<1>7. CASE ReadFull
  BY <1>7 DEF ReadFull, Return, Given, Waits, Held, loopVars
<1>8. CASE ReadEof
  BY <1>8 DEF ReadEof, Return, Given, FindsEnd, Waits, Held, loopVars
<1>9. CASE ReadBroken
  BY <1>9 DEF ReadBroken, Return, Given, FindsClosed, Waits, Held, loopVars
<1>10. CASE Flush
  BY <1>10 DEF Flush, loopVars
<1>11. CASE Leave
  BY <1>11 DEF Leave, Closed, loopVars
<1>12. CASE BrowserLeaves
  BY <1>12 DEF BrowserLeaves, loopVars, copyVars
<1>13. CASE UNCHANGED downloadVars
  BY <1>13 DEF downloadVars, loopVars, copyVars
<1> QED
  BY <1>1, <1>2, <1>3, <1>4, <1>5, <1>6, <1>7, <1>8, <1>9, <1>10, <1>11, <1>12, <1>13
     DEF DownloadNext, Loop, Serve

\* doRldpHttp's loop, its streamer and ServeHTTP agree at every moment on how much of
\* the body went by and on how it ended.
THEOREM DownloadInvariance == DownloadSpec => []DownloadIInv
<1> QED BY DownloadStarts, DownloadKeeps, PTL DEF DownloadSpec

\* ServeHTTP is told io.EOF only of a whole body, and an error only of a failed query.
THEOREM DownloadVerdict == DownloadSpec => []BodyVerdict
<1>1. DownloadIInv => BodyVerdict
  BY DEF DownloadIInv, WrittenParts, StreamEnds, CopiedParts, BodyVerdict
<1> QED BY <1>1, DownloadInvariance, PTL
=================================================================================
