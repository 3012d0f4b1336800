-------------------------- MODULE DataStreamerProofs --------------------------
(***************************************************************************)
(* Theorems about DataStreamer, for any producers, consumers and bounds.   *)
(*                                                                         *)
(* IInv is inductive; the invariants of the specification follow from it,  *)
(* and it supplies what each step needs to be a step of BytePipe.          *)
(***************************************************************************)
EXTENDS DataStreamer, TLAPS

\* Appending to the empty channel leaves a channel that holds that one slice.
LEMMA AppendToEmpty ==
    ASSUME NEW s \in Slice, NEW q \in Seq(Slice), Len(q) < ChanCap
    PROVE  /\ q = <<>>
           /\ Append(q, s) \in Seq(Slice)
           /\ Append(q, s) # <<>>
           /\ Len(Append(q, s)) <= ChanCap
           /\ Head(Append(q, s)) = s
BY DEF ChanCap

\* Receiving from a channel of capacity one empties it.
LEMMA TailEmpties ==
    ASSUME NEW q \in Seq(Slice), Len(q) <= ChanCap, q # <<>>
    PROVE  /\ Head(q) \in Slice
           /\ Tail(q) = <<>>
           /\ Tail(q) \in Seq(Slice)
           /\ Len(Tail(q)) <= ChanCap
BY DEF ChanCap

\* The initial state satisfies the inductive invariant.
LEMMA InitIInv == Init => IInv
<1> SUFFICES ASSUME Init PROVE IInv
    OBVIOUS
<1> USE DEF Init
<1>1. TypeOK
    <2>1. parts \in Seq(Slice) /\ Len(parts) <= ChanCap
        BY DEF ChanCap
    <2>2. buf \in Slice
        BY DEF Slice
    <2> QED
        BY <2>1, <2>2 DEF TypeOK
<1>2. Chain
    BY DEF Chain
<1>3. Owners
    BY ProcAssumption DEF Owners
<1>4. NoSendOnClosed
    BY DEF NoSendOnClosed
<1>5. Drained
    BY DEF Drained
<1> QED
    BY <1>1, <1>2, <1>3, <1>4, <1>5 DEF IInv

\* Every step of a producer keeps it.
LEMMA WriterIInv ==
    ASSUME IInv, NEW w \in Writers, WriterNext(w)
    PROVE  IInv'
<1> USE DEF IInv
<1>1. CASE WriteBegin(w)
    <2> USE <1>1 DEF WriteBegin, chanVars, readerVars
    <2>1. PICK n \in 1..MaxWrite : wlen' = [wlen EXCEPT ![w] = n]
        OBVIOUS
    <2>2. n \in Nat /\ n > 0
        BY BoundAssumption
    <2>3. TypeOK'
        BY <2>1, <2>2 DEF TypeOK
    <2>4. Chain'
        BY DEF Chain
    <2>5. Owners'
        BY <2>1, <2>2, ProcAssumption DEF Owners, TypeOK
    <2>6. NoSendOnClosed'
        BY DEF NoSendOnClosed, TypeOK
    <2>7. Drained'
        BY DEF Drained, Size
    <2> QED
        BY <2>3, <2>4, <2>5, <2>6, <2>7
<1>2. CASE WriteRefused(w)
    <2> USE <1>2 DEF WriteRefused, chanVars, readerVars
    <2>1. TypeOK'
        BY DEF TypeOK
    <2>2. Chain'
        BY DEF Chain
    <2>3. Owners'
        BY ProcAssumption DEF Owners, TypeOK
    <2>4. NoSendOnClosed'
        BY DEF NoSendOnClosed, TypeOK
    <2>5. Drained'
        BY DEF Drained, Size
    <2> QED
        BY <2>1, <2>2, <2>3, <2>4, <2>5
<1>3. CASE WriteSend(w)
    <2> USE <1>3 DEF WriteSend, readerVars
    <2> DEFINE s == [from |-> written, to |-> written + wlen[w]]
    <2>1. s \in Slice /\ wlen[w] \in Nat /\ wlen[w] > 0 /\ written \in Nat
        BY DEF Slice, TypeOK, Owners
    <2>2. parts' = Append(parts, s) /\ s.from = written /\ s.to = written + wlen[w]
        OBVIOUS
    <2> HIDE DEF s
    <2>3. /\ parts = <<>>
          /\ parts' \in Seq(Slice)
          /\ parts' # <<>>
          /\ Len(parts') <= ChanCap
          /\ Head(parts') = s
        BY <2>1, <2>2, AppendToEmpty DEF TypeOK
    <2>4. TypeOK'
        BY <2>1, <2>3 DEF TypeOK
    <2>5. Chain'
        BY <2>1, <2>2, <2>3 DEF Chain
    <2>6. Owners'
        BY ProcAssumption DEF Owners, TypeOK
    <2>7. NoSendOnClosed'
        BY DEF NoSendOnClosed, TypeOK
    <2>8. ~finished
        BY DEF NoSendOnClosed
    <2>9. Drained'
        BY <2>8 DEF Drained
    <2> QED
        BY <2>4, <2>5, <2>6, <2>7, <2>9
<1>4. CASE WriteAborted(w)
    <2> USE <1>4 DEF WriteAborted, chanVars, readerVars
    <2>1. TypeOK'
        BY DEF TypeOK
    <2>2. Chain'
        BY DEF Chain
    <2>3. Owners'
        BY ProcAssumption DEF Owners, TypeOK
    <2>4. NoSendOnClosed'
        BY DEF NoSendOnClosed, TypeOK
    <2>5. Drained'
        BY DEF Drained, Size
    <2> QED
        BY <2>1, <2>2, <2>3, <2>4, <2>5
<1>5. CASE Finish(w)
    <2> USE <1>5 DEF Finish, readerVars
    <2>1. TypeOK'
        BY DEF TypeOK
    <2>2. Chain'
        BY DEF Chain
    <2>3. Owners'
        BY ProcAssumption DEF Owners, TypeOK
    <2>4. NoSendOnClosed'
        BY ProcAssumption DEF NoSendOnClosed, Owners, TypeOK
    <2>5. Drained'
        BY DEF Drained, Size
    <2> QED
        BY <2>1, <2>2, <2>3, <2>4, <2>5
<1>6. CASE CloseByWriter(w)
    <2> USE <1>6 DEF CloseByWriter, readerVars
    <2>1. TypeOK'
        BY DEF TypeOK
    <2>2. Chain'
        BY DEF Chain
    <2>3. Owners'
        BY DEF Owners, TypeOK
    <2>4. NoSendOnClosed'
        BY DEF NoSendOnClosed, TypeOK
    <2>5. Drained'
        BY DEF Drained, Size
    <2> QED
        BY <2>1, <2>2, <2>3, <2>4, <2>5
<1> QED
    BY <1>1, <1>2, <1>3, <1>4, <1>5, <1>6 DEF WriterNext, WriterTurn, WriteStep

\* Every step of a consumer keeps it.
LEMMA ReaderIInv ==
    ASSUME IInv, NEW r \in Readers, ReaderNext(r)
    PROVE  IInv'
<1> USE DEF IInv
<1>1. CASE ReadBegin(r)
    <2> USE <1>1 DEF ReadBegin, chanVars, writerVars
    <2>1. PICK n \in 1..MaxRead : rlen' = [rlen EXCEPT ![r] = n]
        OBVIOUS
    <2>2. n \in Nat
        BY BoundAssumption
    <2>3. TypeOK'
        BY <2>1, <2>2 DEF TypeOK
    <2>4. Chain'
        BY DEF Chain
    <2>5. Owners'
        BY <2>1, <2>2, ProcAssumption DEF Owners, TypeOK
    <2>6. NoSendOnClosed'
        BY DEF NoSendOnClosed
    <2>7. Drained'
        BY DEF Drained, Size
    <2> QED
        BY <2>3, <2>4, <2>5, <2>6, <2>7
<1>2. CASE ReadReceive(r)
    <2> USE <1>2 DEF ReadReceive, writerVars
    <2>1. /\ Head(parts) \in Slice
          /\ parts' = <<>>
          /\ parts' \in Seq(Slice)
          /\ Len(parts') <= ChanCap
        BY TailEmpties DEF TypeOK
    <2>2. TypeOK'
        BY <2>1 DEF TypeOK
    <2>3. buf.to = buf.from
        BY DEF Size, TypeOK, Slice
    <2> DEFINE h == Head(parts)
    <2>4. /\ buf' = h /\ h.from = buf.to /\ h.from < h.to /\ h.to = written
          /\ delivered = cursor /\ cursor = buf.from
          /\ h.from \in Nat /\ h.to \in Nat
        BY <2>1 DEF Chain, Slice
    <2> HIDE DEF h
    <2>5. Chain'
        BY <2>1, <2>3, <2>4 DEF Chain
    <2>6. Owners'
        BY DEF Owners
    <2>7. NoSendOnClosed'
        BY DEF NoSendOnClosed
    <2>8. Drained'
        BY DEF Drained
    <2> QED
        BY <2>2, <2>5, <2>6, <2>7, <2>8
<1>3. CASE ReadCopy(r)
    <2> USE <1>3 DEF ReadCopy, chanVars, writerVars
    <2> DEFINE room == rlen[r] - rn[r]
               copied == IF Size(buf) < room THEN Size(buf) ELSE room
    <2>1. /\ buf.from \in Nat /\ buf.to \in Nat
          /\ rlen[r] \in Nat /\ rn[r] \in Nat
          /\ Size(buf) = buf.to - buf.from
          /\ Size(buf) > 0
          /\ rn[r] < rlen[r]
          /\ delivered \in Nat
          /\ buf \in Slice
          /\ rn \in [Readers -> Nat]
        <3>1. /\ buf \in Slice /\ rlen \in [Readers -> Nat] /\ rn \in [Readers -> Nat]
              /\ delivered \in Nat
            BY DEF TypeOK
        <3>2. /\ buf.from \in Nat /\ buf.to \in Nat /\ rlen[r] \in Nat /\ rn[r] \in Nat
            BY <3>1 DEF Slice
        <3>3. Size(buf) = buf.to - buf.from
            BY DEF Size
        <3>4. Size(buf) > 0 /\ room > 0
            OBVIOUS
        <3> QED
            BY <3>1, <3>2, <3>3, <3>4
    <2>2. /\ copied \in Nat
          /\ copied <= Size(buf)
          /\ rn[r] + copied <= rlen[r]
        BY <2>1
    <2>3. /\ buf' = [buf EXCEPT !.from = buf.from + copied]
          /\ rn' = [rn EXCEPT ![r] = rn[r] + copied]
          /\ delivered' = delivered + copied
          /\ cursor' = buf.from + copied
        OBVIOUS
    <2> HIDE DEF copied
    <2>4. /\ buf.from + copied \in Nat
          /\ rn[r] + copied \in Nat
          /\ delivered + copied \in Nat
        BY <2>1, <2>2
    <2>5. buf' \in Slice /\ buf'.from = buf.from + copied /\ buf'.to = buf.to
        BY <2>1, <2>3, <2>4 DEF Slice
    <2>6. TypeOK'
        <3>1. rn' \in [Readers -> Nat]
            BY <2>1, <2>3, <2>4
        <3>2. delivered' \in Nat /\ cursor' \in Nat
            BY <2>3, <2>4
        <3> QED
            BY <2>5, <3>1, <3>2 DEF TypeOK
    <2>7. Chain'
        <3>1. delivered = cursor /\ cursor = buf.from
            BY DEF Chain
        <3>2. buf.from + copied <= buf.to
            BY <2>1, <2>2
        <3>3. delivered' = cursor' /\ cursor' = buf'.from /\ buf'.from <= buf'.to
            BY <2>3, <2>5, <3>1, <3>2
        <3> QED
            BY <2>5, <3>3 DEF Chain
    <2>8. Owners'
        BY <2>2, <2>3 DEF Owners, TypeOK
    <2>9. NoSendOnClosed'
        BY DEF NoSendOnClosed
    <2>10. Drained'
        BY DEF Drained
    <2> QED
        BY <2>6, <2>7, <2>8, <2>9, <2>10
<1>4. CASE ReadFull(r)
    <2> USE <1>4 DEF ReadFull, ReadReturn, chanVars, writerVars
    <2>1. TypeOK'
        BY DEF TypeOK
    <2>2. Chain'
        BY DEF Chain
    <2>3. Owners'
        BY ProcAssumption DEF Owners, TypeOK
    <2>4. NoSendOnClosed'
        BY DEF NoSendOnClosed
    <2>5. Drained'
        BY DEF Drained, Size
    <2> QED
        BY <2>1, <2>2, <2>3, <2>4, <2>5
<1>5. CASE ReadEof(r)
    <2> USE <1>5 DEF ReadEof, ReadReturn, chanVars, writerVars
    <2>1. TypeOK'
        BY DEF TypeOK
    <2>2. Chain'
        BY DEF Chain
    <2>3. Owners'
        BY ProcAssumption DEF Owners, TypeOK
    <2>4. NoSendOnClosed'
        BY DEF NoSendOnClosed
    <2>5. Drained'
        BY DEF Drained, Size, TypeOK
    <2> QED
        BY <2>1, <2>2, <2>3, <2>4, <2>5
<1>6. CASE ReadAborted(r)
    <2> USE <1>6 DEF ReadAborted, ReadReturn, chanVars, writerVars
    <2>1. TypeOK'
        BY DEF TypeOK
    <2>2. Chain'
        BY DEF Chain
    <2>3. Owners'
        BY ProcAssumption DEF Owners, TypeOK
    <2>4. NoSendOnClosed'
        BY DEF NoSendOnClosed
    <2>5. Drained'
        BY DEF Drained, Size, TypeOK
    <2> QED
        BY <2>1, <2>2, <2>3, <2>4, <2>5
<1>7. CASE CloseByReader(r)
    <2> USE <1>7 DEF CloseByReader, writerVars
    <2>1. TypeOK'
        BY DEF TypeOK
    <2>2. Chain'
        BY DEF Chain
    <2>3. Owners'
        BY DEF Owners, TypeOK
    <2>4. NoSendOnClosed'
        BY DEF NoSendOnClosed
    <2>5. Drained'
        BY DEF Drained, Size
    <2> QED
        BY <2>1, <2>2, <2>3, <2>4, <2>5
<1> QED
    BY <1>1, <1>2, <1>3, <1>4, <1>5, <1>6, <1>7 DEF ReaderNext, ReaderTurn, ReadStep

\* IInv is inductive.
LEMMA NextIInv == IInv /\ [Next]_vars => IInv'
<1> SUFFICES ASSUME IInv, [Next]_vars
             PROVE  IInv'
    OBVIOUS
<1>1. ASSUME NEW w \in Writers, WriterNext(w) PROVE IInv'
    BY <1>1, WriterIInv
<1>2. ASSUME NEW r \in Readers, ReaderNext(r) PROVE IInv'
    BY <1>2, ReaderIInv
<1>3. CASE UNCHANGED vars
    BY <1>3 DEF IInv, TypeOK, Chain, Owners, NoSendOnClosed, Drained, Size, vars
<1> QED
    BY <1>1, <1>2, <1>3 DEF Next

\* The streamer is always in a state of the inductive invariant.
THEOREM Invariance == Spec => []IInv
BY InitIInv, NextIInv, PTL DEF Spec

-------------------------------------------------------------------------------
\* In a state of the inductive invariant the delivered bytes are in order.
LEMMA IInvInOrder == IInv => InOrder
<1> SUFFICES ASSUME IInv PROVE InOrder
    OBVIOUS
<1>1. CASE parts = <<>>
    BY <1>1 DEF IInv, Chain, InOrder, TypeOK, Slice
<1>2. CASE parts # <<>>
    <2>1. Head(parts) \in Slice
        BY <1>2, TailEmpties DEF IInv, TypeOK
    <2> QED
        BY <1>2, <2>1 DEF IInv, Chain, InOrder, TypeOK, Slice
<1> QED
    BY <1>1, <1>2

\* The bytes delivered are a prefix of the bytes written, in order: Read and
\* Write move slices through d.parts and d.buf without loss or repetition.
THEOREM Order == Spec => []InOrder
BY IInvInOrder, Invariance, PTL

\* io.EOF is returned only after every byte accepted by Write was delivered.
THEOREM Completeness == Spec => []EofComplete
<1>1. IInv => EofComplete
    BY DEF IInv, Drained, Chain, EofComplete, Size, TypeOK, Slice
<1> QED
    BY <1>1, Invariance, PTL

\* Finish never closes d.parts under a Write that is in its select.
THEOREM NoPanic == Spec => []NoSendOnClosed
<1>1. IInv => NoSendOnClosed
    BY DEF IInv
<1> QED
    BY <1>1, Invariance, PTL

-------------------------------------------------------------------------------
(***************************************************************************)
(* The refinement.                                                         *)
(***************************************************************************)

\* The initial streamer is an initial pipe.
LEMMA InitImplements == Init => Pipe!PipeInit
BY DEF Init, Pipe!PipeInit

\* A producer's step is a Put, an End, an Abort or invisible.
LEMMA WriterImplements ==
    ASSUME IInv, NEW w \in Writers, WriterNext(w)
    PROVE  [Pipe!PipeNext]_(Pipe!pipeVars)
<1> USE DEF Pipe!pipeVars
<1>1. CASE WriteBegin(w)
    BY <1>1 DEF WriteBegin, chanVars, readerVars
<1>2. CASE WriteRefused(w)
    BY <1>2 DEF WriteRefused, chanVars, readerVars
<1>3. CASE WriteSend(w)
    <2>1. /\ ~finished
          /\ written \in Nat /\ wlen[w] \in Nat /\ wlen[w] > 0
        BY <1>3 DEF WriteSend, IInv, TypeOK, Owners, NoSendOnClosed
    <2>2. Pipe!Put
        BY <1>3, <2>1 DEF WriteSend, readerVars, Pipe!Put
    <2> QED
        BY <2>2 DEF Pipe!PipeNext
<1>4. CASE WriteAborted(w)
    BY <1>4 DEF WriteAborted, chanVars, readerVars
<1>5. CASE Finish(w)
    BY <1>5 DEF Finish, readerVars, Pipe!PipeNext, Pipe!End
<1>6. CASE CloseByWriter(w)
    BY <1>6 DEF CloseByWriter, readerVars, Pipe!PipeNext, Pipe!Abort
<1> QED
    BY <1>1, <1>2, <1>3, <1>4, <1>5, <1>6 DEF WriterNext, WriterTurn, WriteStep

\* A consumer's step is a Take, a verdict, an Abort or invisible.
LEMMA ReaderImplements ==
    ASSUME IInv, IInv', NEW r \in Readers, ReaderNext(r)
    PROVE  [Pipe!PipeNext]_(Pipe!pipeVars)
<1> USE DEF Pipe!pipeVars
<1>1. CASE ReadBegin(r)
    BY <1>1 DEF ReadBegin, chanVars, writerVars
<1>2. CASE ReadReceive(r)
    BY <1>2 DEF ReadReceive, writerVars
<1>3. CASE ReadCopy(r)
    <2>1. /\ delivered \in Nat
          /\ buf \in Slice
          /\ rn[r] \in Nat /\ rlen[r] \in Nat
        BY DEF IInv, TypeOK
    <2>2. delivered' \in Nat /\ delivered' > delivered
        BY <1>3, <2>1 DEF ReadCopy, Size, Slice
    <2>3. delivered' <= written
        <3>1. InOrder'
            BY IInvInOrder, PTL
        <3> QED
            BY <1>3, <3>1 DEF ReadCopy, chanVars, InOrder
    <2>4. Pipe!Take
        BY <1>3, <2>2, <2>3 DEF ReadCopy, chanVars, Pipe!Take
    <2> QED
        BY <2>4 DEF Pipe!PipeNext
<1>4. CASE ReadFull(r)
    BY <1>4 DEF ReadFull, ReadReturn, chanVars, writerVars
<1>5. CASE ReadEof(r)
    <2>1. delivered = written
        BY <1>5 DEF ReadEof, IInv, Chain, TypeOK, Slice, Size
    <2>2. Pipe!TellEof(r)
        BY <1>5, <2>1 DEF ReadEof, ReadReturn, chanVars, writerVars, Pipe!TellEof
    <2> QED
        BY <2>2 DEF Pipe!PipeNext
<1>6. CASE ReadAborted(r)
    <2>1. Pipe!TellError(r)
        BY <1>6 DEF ReadAborted, ReadReturn, chanVars, writerVars, Pipe!TellError
    <2> QED
        BY <2>1 DEF Pipe!PipeNext
<1>7. CASE CloseByReader(r)
    BY <1>7 DEF CloseByReader, writerVars, Pipe!PipeNext, Pipe!Abort
<1> QED
    BY <1>1, <1>2, <1>3, <1>4, <1>5, <1>6, <1>7 DEF ReaderNext, ReaderTurn, ReadStep

\* Write, Read, Finish and Close of dataStreamer give their callers the pipe
\* that BytePipe describes.
THEOREM Refinement == Spec => ImplementsPipe
<1>1. ASSUME IInv, IInv', [Next]_vars
      PROVE  [Pipe!PipeNext]_(Pipe!pipeVars)
    <2>1. ASSUME NEW w \in Writers, WriterNext(w)
          PROVE  [Pipe!PipeNext]_(Pipe!pipeVars)
        BY <1>1, <2>1, WriterImplements
    <2>2. ASSUME NEW r \in Readers, ReaderNext(r)
          PROVE  [Pipe!PipeNext]_(Pipe!pipeVars)
        BY <1>1, <2>2, ReaderImplements
    <2>3. CASE UNCHANGED vars
        BY <2>3 DEF vars, Pipe!pipeVars
    <2> QED
        BY <1>1, <2>1, <2>2, <2>3 DEF Next
<1> QED
    BY <1>1, InitImplements, Invariance, PTL DEF Spec, ImplementsPipe, Pipe!PipeSpec
===============================================================================
