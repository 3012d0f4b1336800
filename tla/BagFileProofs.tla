----------------------------- MODULE BagFileProofs -----------------------------
(***************************************************************************)
(* Theorems about BagFile, for any piece size, files and Range headers.    *)
(*                                                                         *)
(* The lemmas give the arithmetic of pieces, in which the only product is  *)
(* the distance of a piece from the file's first, and what the cuts of     *)
(* proxyOrdered leave of a selected piece.  IInv then is inductive.        *)
(***************************************************************************)
EXTENDS BagFile, TLAPS

\* The product of the piece distance and the piece size.
LEMMA Product ==
    ASSUME NEW n \in Nat
    PROVE  /\ n * PieceSize \in Nat
           /\ (n + 1) * PieceSize = n * PieceSize + PieceSize
           /\ 0 * PieceSize = 0
BY SizeAssumption

\* Every piece of a file holds a run of its bytes that starts where the piece
\* before it ended.
LEMMA Pieces ==
    ASSUME NEW f \in Files, NEW p \in f.FromPiece..f.ToPiece
    PROVE  /\ p \in Nat /\ p - f.FromPiece \in Nat
           /\ StartOf(f, p) \in Nat /\ PieceBytes(f, p) \in Nat /\ EndOf(f, p) \in Nat
           /\ EndOf(f, p) = StartOf(f, p) + PieceBytes(f, p)
           /\ p < f.ToPiece => EndOf(f, p) = StartOf(f, p + 1)
<1>1. /\ f.FromPiece \in Nat /\ f.ToPiece \in Nat
      /\ f.FromPieceOffset \in Nat /\ f.ToPieceOffset \in Nat
      /\ f.FromPieceOffset < PieceSize /\ PieceSize \in Nat
      /\ f.FromPiece = f.ToPiece => f.FromPieceOffset <= f.ToPieceOffset
    BY FileAssumption, SizeAssumption DEF File
<1>2. p \in Nat /\ p - f.FromPiece \in Nat
    BY <1>1
<1>3. PieceBytes(f, p) \in Nat
    BY <1>1, <1>2 DEF PieceBytes
<1>4. StartOf(f, p) \in Nat
    <2>1. CASE p = f.FromPiece
        BY <2>1 DEF StartOf
    <2>2. CASE p # f.FromPiece
        <3> DEFINE n == p - f.FromPiece - 1
        <3>1. n \in Nat /\ p - f.FromPiece = n + 1
            BY <1>1, <1>2, <2>2
        <3> HIDE DEF n
        <3>2. (p - f.FromPiece) * PieceSize = n * PieceSize + PieceSize /\ n * PieceSize \in Nat
            BY <3>1, Product
        <3> QED
            BY <1>1, <2>2, <3>2 DEF StartOf
    <2> QED
        BY <2>1, <2>2
<1>5. ASSUME p < f.ToPiece PROVE EndOf(f, p) = StartOf(f, p + 1)
    <2> DEFINE n == p - f.FromPiece
    <2>1. /\ n \in Nat /\ p - f.FromPiece = n /\ (p + 1) - f.FromPiece = n + 1
          /\ p + 1 # f.FromPiece /\ p # f.ToPiece
        BY <1>1, <1>2, <1>5
    <2>2. n = 0 <=> p = f.FromPiece
        BY <1>1, <1>2
    <2> HIDE DEF n
    <2>3. n * PieceSize \in Nat /\ (n + 1) * PieceSize = n * PieceSize + PieceSize
        BY <2>1, Product
    <2>4. StartOf(f, p + 1) = n * PieceSize + PieceSize - f.FromPieceOffset
        BY <1>1, <2>1, <2>3 DEF StartOf
    <2>5. CASE p = f.FromPiece
        <3>1. EndOf(f, p) = PieceSize - f.FromPieceOffset
            BY <1>1, <2>1, <2>5 DEF EndOf, StartOf, PieceBytes
        <3>2. n * PieceSize = 0
            BY <2>2, <2>5, Product
        <3> QED
            BY <1>1, <2>4, <3>1, <3>2
    <2>6. CASE p # f.FromPiece
        <3>1. EndOf(f, p) = n * PieceSize - f.FromPieceOffset + PieceSize
            BY <1>1, <2>1, <2>6 DEF EndOf, StartOf, PieceBytes
        <3> QED
            BY <1>1, <2>3, <2>4, <3>1
    <2> QED
        BY <2>5, <2>6
<1> QED
    BY <1>2, <1>3, <1>4, <1>5 DEF EndOf

\* A file that is not empty has a first and a last byte.
LEMMA Sizes ==
    ASSUME NEW f \in Files
    PROVE  /\ f.FromPiece \in Nat /\ f.ToPiece \in Nat /\ f.FromPiece <= f.ToPiece
           /\ Size(f) \in Nat /\ LastIndex(f) \in Nat
           /\ NotEmpty(f) => Size(f) > 0 /\ LastIndex(f) = Size(f) - 1
<1>1. /\ f.FromPiece \in Nat /\ f.ToPiece \in Nat /\ f.FromPiece <= f.ToPiece
      /\ f.FromPieceOffset \in Nat /\ f.ToPieceOffset \in Nat
      /\ f.FromPieceOffset < PieceSize /\ PieceSize \in Nat
      /\ f.FromPiece = f.ToPiece => f.FromPieceOffset <= f.ToPieceOffset
    BY FileAssumption, SizeAssumption DEF File
<1>2. f.ToPiece \in f.FromPiece..f.ToPiece
    BY <1>1
<1>3. Size(f) \in Nat
    BY <1>2, Pieces DEF Size
<1>4. LastIndex(f) \in Nat
    BY <1>3 DEF LastIndex
<1>5. ASSUME NotEmpty(f) PROVE Size(f) > 0
    <2>1. CASE f.FromPiece = f.ToPiece
        BY <1>1, <1>5, <2>1 DEF NotEmpty, Size, EndOf, StartOf, PieceBytes
    <2>2. CASE f.FromPiece # f.ToPiece
        <3> DEFINE n == f.ToPiece - f.FromPiece - 1
        <3>1. n \in Nat /\ f.ToPiece - f.FromPiece = n + 1
            BY <1>1, <2>2
        <3> HIDE DEF n
        <3>2. (f.ToPiece - f.FromPiece) * PieceSize = n * PieceSize + PieceSize
              /\ n * PieceSize \in Nat
            BY <3>1, Product
        <3> QED
            BY <1>1, <2>2, <3>2 DEF Size, EndOf, StartOf, PieceBytes
    <2> QED
        BY <2>1, <2>2
<1> QED
    BY <1>1, <1>3, <1>4, <1>5 DEF LastIndex

\* What the cuts leave of a selected piece: the bytes of the range in it.
LEMMA Cuts ==
    ASSUME IInv, pc = "write"
    PROVE  /\ 0 <= PartLo /\ PartLo <= PartHi /\ PartHi <= PieceSize
           /\ PartLo \in Nat /\ PartHi \in Nat
           /\ PartHi - PartLo = Reached(EndOf(file, piece)) - Reached(StartOf(file, piece))
           /\ FilePos(file, piece, PartLo) = Reached(StartOf(file, piece))
<1> DEFINE start == StartOf(file, piece)
           end == EndOf(file, piece)
           cut == CutToFile(file, piece)
           skip == IF from > start THEN from - start ELSE 0
           trim == IF end - 1 > to THEN end - 1 - to ELSE 0
<1>1. /\ file \in Files /\ from \in Nat /\ to \in Nat /\ from <= to
      /\ piece \in file.FromPiece..file.ToPiece
      /\ end >= from /\ start <= to
      /\ toOff = end
    BY DEF IInv, TypeOK, Answered, Located, Selected
<1>2. start \in Nat /\ end \in Nat /\ end = start + PieceBytes(file, piece)
      /\ PieceBytes(file, piece) \in Nat
    BY <1>1, Pieces
<1>3. /\ cut.lo \in Nat /\ cut.hi \in Nat /\ cut.hi <= PieceSize
      /\ cut.hi - cut.lo = end - start
    <2>1. /\ file.FromPieceOffset \in Nat /\ file.ToPieceOffset \in Nat /\ PieceSize \in Nat
          /\ file.ToPieceOffset <= PieceSize
        BY <1>1, FileAssumption, SizeAssumption DEF File
    <2> QED
        BY <1>2, <2>1 DEF CutToFile, PieceBytes
<1>4. FilePos(file, piece, cut.lo) = start
    <2>1. /\ file.FromPieceOffset \in Nat /\ file.FromPiece \in Nat /\ piece \in Nat
          /\ 0 * PieceSize = 0
        BY <1>1, FileAssumption, Product DEF File
    <2>2. CASE piece = file.FromPiece
        BY <2>1, <2>2 DEF FilePos, CutToFile, StartOf
    <2>3. CASE piece # file.FromPiece
        <3>1. (piece - file.FromPiece) * PieceSize \in Nat
            BY <1>1, Pieces, Product
        <3> QED
            BY <2>1, <2>3, <3>1 DEF FilePos, CutToFile, StartOf
    <2> QED
        BY <2>2, <2>3
<1>5. from > start => taken = {piece}
    BY <1>1, <1>2 DEF IInv, Taken
<1>6. toOff - PieceBytes(file, piece) = start
    BY <1>1, <1>2
<1>7. PartLo = cut.lo + skip
    BY <1>5, <1>6 DEF PartLo
<1>8. PartHi = cut.hi - trim
    BY <1>1 DEF PartHi
<1>9. FilePos(file, piece, PartLo) = start + skip
    <2>1. /\ file.FromPieceOffset \in Nat
          /\ (piece - file.FromPiece) * PieceSize \in Nat
        BY <1>1, Pieces, Product, FileAssumption DEF File
    <2> QED
        BY <1>1, <1>2, <1>3, <1>4, <1>7, <2>1 DEF FilePos
<1> HIDE DEF cut, start, end
<1>10. PieceSize \in Nat
    BY SizeAssumption
<1>11. PartLo \in Nat /\ PartHi \in Nat /\ PartLo <= PartHi /\ PartHi <= PieceSize
    BY <1>1, <1>2, <1>3, <1>7, <1>8, <1>10
<1>12. PartHi - PartLo = Reached(end) - Reached(start)
    BY <1>1, <1>2, <1>3, <1>7, <1>8 DEF Reached
<1>13. FilePos(file, piece, PartLo) = Reached(start)
    BY <1>1, <1>2, <1>9 DEF Reached
<1> QED
    BY <1>11, <1>12, <1>13 DEF start, end

-------------------------------------------------------------------------------
\* The initial state satisfies the inductive invariant.
LEMMA InitIInv == Init => IInv
<1> SUFFICES ASSUME Init PROVE IInv
    OBVIOUS
<1> USE DEF Init
<1>1. TypeOK
    BY DEF TypeOK
<1>2. Answered /\ Located /\ Written /\ Taken
    BY DEF Answered, Located, Written, Taken
<1>3. PiecesReturned
    BY DEF PiecesReturned
<1> QED
    BY <1>1, <1>2, <1>3 DEF IInv

\* The answer to the request.
LEMMA RequestIInv ==
    ASSUME IInv, Refuse \/ Respond
    PROVE  IInv'
<1> USE DEF IInv, reqVars, fetchVars, outVars
<1>1. CASE Refuse
    <2> USE <1>1 DEF Refuse
    <2>1. TypeOK'
        BY DEF TypeOK
    <2>2. Answered' /\ Located' /\ Written' /\ Taken'
        BY DEF Answered, Located, Written, Taken
    <2>3. PiecesReturned'
        BY DEF Answered, PiecesReturned
    <2> QED
        BY <2>1, <2>2, <2>3
<1>2. CASE Respond
    <2> USE <1>2
    <2>1. /\ pc = "request" /\ pc' = "loop"
          /\ UNCHANGED <<file, range, toOff, taken, freed, ordered>>
          /\ status' \in {200, 206}
          /\ length' = to' + 1 - from'
          /\ piece' = file.FromPiece
          /\ pos' = from'
        BY DEF Respond
    <2>2. /\ file \in Files
          /\ file.FromPiece \in Nat /\ file.ToPiece \in Nat /\ file.FromPiece <= file.ToPiece
          /\ LastIndex(file) \in Nat
          /\ taken = {} /\ freed = {} /\ toOff = 0
        BY <2>1, Sizes DEF TypeOK, Answered, Located
    <2>3. PICK lo \in Nat, hi \in Nat :
              lo <= hi /\ hi <= LastIndex(file) /\ from' = lo /\ to' = hi
        <3>1. CASE range.form = "range"
            <4>1. /\ Lower(range) \in Nat /\ Upper(range, LastIndex(file)) \in Nat
                  /\ Upper(range, LastIndex(file)) <= LastIndex(file)
                  /\ Lower(range) <= Upper(range, LastIndex(file))
                BY <2>2, <3>1, RangeAssumption
                   DEF Respond, RangeError, TypeOK, RangeHeader, Position, Lower, Upper
            <4> QED
                BY <3>1, <4>1 DEF Respond
        <3>2. CASE range.form # "range"
            BY <2>2, <3>2 DEF Respond
        <3> QED
            BY <3>1, <3>2
    <2>4. length' = hi + 1 - lo /\ hi + 1 - lo \in Nat
        BY <2>1, <2>3
    <2>5. TypeOK'
        BY <2>1, <2>2, <2>3, <2>4 DEF TypeOK
    <2>6. Answered'
        BY <2>1, <2>2, <2>3, <2>4 DEF Answered
    <2>7. Located'
        BY <2>1, <2>2 DEF Located, StartOf
    <2>8. pos' = lo /\ Reached(toOff)' = lo
        BY <2>1, <2>2, <2>3 DEF Reached
    <2>9. Written'
        BY <2>1, <2>8 DEF Written
    <2>10. Taken'
        BY <2>1, <2>2 DEF Taken, Selected
    <2>11. PiecesReturned'
        BY <2>1, <2>2 DEF PiecesReturned
    <2> QED
        BY <2>5, <2>6, <2>7, <2>9, <2>10, <2>11
<1> QED
    BY <1>1, <1>2

\* What the loop knows of the piece it is at.
LEMMA AtPiece ==
    ASSUME IInv, pc = "loop", InLoop
    PROVE  /\ file \in Files /\ piece \in file.FromPiece..file.ToPiece
           /\ file.FromPiece \in Nat /\ file.ToPiece \in Nat
           /\ toOff = StartOf(file, piece) /\ toOff \in Nat
           /\ PieceBytes(file, piece) \in Nat
           /\ toOff + PieceBytes(file, piece) = EndOf(file, piece)
           /\ EndOf(file, piece)
                = IF piece + 1 <= file.ToPiece THEN StartOf(file, piece + 1) ELSE Size(file)
<1>1. /\ file \in Files /\ piece \in file.FromPiece..file.ToPiece
      /\ file.FromPiece \in Nat /\ file.ToPiece \in Nat
      /\ toOff = StartOf(file, piece)
    BY Sizes DEF IInv, TypeOK, Located, InLoop
<1>2. piece < file.ToPiece => EndOf(file, piece) = StartOf(file, piece + 1)
    BY <1>1, Pieces
<1>3. piece = file.ToPiece => EndOf(file, piece) = Size(file)
    BY DEF Size
<1> QED
    BY <1>1, <1>2, <1>3, Pieces

\* A step of the loop.
LEMMA LoopIInv ==
    ASSUME IInv, SkipPiece \/ Ask \/ Get \/ FinishStream
    PROVE  IInv'
<1> USE DEF IInv, reqVars, respVars, fetchVars, outVars
<1>1. CASE SkipPiece
    <2> USE <1>1 DEF SkipPiece
    <2>1. /\ from \in Nat /\ to \in Nat /\ from <= to /\ pos \in Nat
          /\ piece \notin Selected(file, from, to)
          /\ pos = Reached(toOff)
        BY DEF TypeOK, Answered, Written, Wanted
    <2>2. /\ toOff' = EndOf(file, piece) /\ toOff' \in Nat /\ toOff <= toOff'
          /\ toOff' < from \/ toOff > to
          /\ toOff \in Nat
        BY <2>1, AtPiece DEF Selected
    <2>3. TypeOK'
        BY <2>2, AtPiece DEF TypeOK
    <2>4. Answered'
        BY DEF Answered
    <2>5. Located'
        BY <2>2, AtPiece DEF Located
    <2>6. pos' = Reached(toOff)'
        BY <2>1, <2>2 DEF Reached
    <2>7. Written'
        BY <2>6 DEF Written
    <2>8. Taken'
        BY <2>1, <2>2, AtPiece DEF Taken, Selected
    <2>9. PiecesReturned'
        BY DEF PiecesReturned
    <2> QED
        BY <2>3, <2>4, <2>5, <2>7, <2>8, <2>9
<1>2. CASE Ask
    <2> USE <1>2 DEF Ask
    <2>1. /\ toOff = StartOf(file, piece) /\ toOff \in Nat
          /\ toOff' = EndOf(file, piece) /\ toOff' \in Nat
        BY AtPiece
    <2>2. TypeOK'
        BY <2>1 DEF TypeOK
    <2>3. Answered'
        BY DEF Answered
    <2>4. Located'
        BY <2>1 DEF Located, InLoop, Wanted
    <2>5. Written'
        BY <2>1 DEF Written, Reached
    <2>6. Taken'
        BY <2>1 DEF Taken
    <2>7. PiecesReturned'
        BY DEF PiecesReturned
    <2> QED
        BY <2>2, <2>3, <2>4, <2>5, <2>6, <2>7
<1>3. CASE Get
    <2> USE <1>3 DEF Get
    <2>1. piece \in Selected(file, from, to) /\ piece \in Nat
        BY DEF Located, TypeOK
    <2>2. TypeOK'
        BY <2>1 DEF TypeOK
    <2>3. Answered'
        BY DEF Answered
    <2>4. Located'
        BY DEF Located
    <2>5. Written'
        BY DEF Written, Reached
    <2>6. taken' = {p \in Selected(file, from, to) : p <= piece} /\ piece \notin taken
        BY <2>1, Sizes DEF Taken, Selected, TypeOK
    <2>7. Taken'
        BY <2>6 DEF Taken
    <2>8. PiecesReturned'
        BY <2>1 DEF PiecesReturned, Taken
    <2> QED
        BY <2>2, <2>3, <2>4, <2>5, <2>7, <2>8
<1>4. CASE FinishStream
    <2> USE <1>4 DEF FinishStream
    <2>1. TypeOK'
        BY DEF TypeOK
    <2>2. Answered' /\ Located' /\ Taken'
        BY DEF Answered, Located, Taken
    <2>3. ASSUME NotEmpty(file)
          PROVE  pos = to + 1 /\ taken = Selected(file, from, to)
        <3>1. /\ from \in Nat /\ to \in Nat /\ from <= to /\ to < Size(file)
              /\ Size(file) \in Nat
              /\ file.FromPiece \in Nat /\ file.ToPiece \in Nat
              /\ piece > file.ToPiece /\ piece \in Nat
            BY <2>3, Sizes DEF TypeOK, Answered, Located, InLoop
        <3>2. toOff = Size(file)
            BY <3>1 DEF Located
        <3>3. pos = to + 1
            BY <3>1, <3>2 DEF Written, Reached
        <3>4. taken = Selected(file, from, to)
            BY <3>1 DEF Taken, Selected
        <3> QED
            BY <3>3, <3>4
    <2>4. Written'
        <3>1. from \in Nat /\ to \in Nat /\ from <= to /\ toOff \in Nat
            BY DEF TypeOK, Answered
        <3>2. pos <= to + 1
            BY <3>1 DEF Written, Reached
        <3> QED
            BY <2>3, <3>2 DEF Written
    <2>5. PiecesReturned'
        BY <2>3 DEF PiecesReturned
    <2> QED
        BY <2>1, <2>2, <2>4, <2>5
<1> QED
    BY <1>1, <1>2, <1>3, <1>4

\* A part is written, or the stream given up.
LEMMA PartIInv ==
    ASSUME IInv, WritePart \/ CloseStream
    PROVE  IInv'
<1> USE DEF IInv, reqVars, respVars, fetchVars, outVars
<1>1. CASE WritePart
    <2> USE <1>1
    <2> DEFINE start == StartOf(file, piece)
               end == EndOf(file, piece)
    <2>1. /\ pc = "write" /\ pc' = "loop" /\ piece' = piece + 1
          /\ UNCHANGED <<file, range, status, from, to, length, toOff, taken, freed>>
        BY DEF WritePart
    <2>2. /\ file \in Files /\ from \in Nat /\ to \in Nat /\ from <= to
          /\ piece \in file.FromPiece..file.ToPiece /\ piece \in Nat
          /\ end >= from /\ start <= to /\ toOff = end
          /\ file.FromPiece \in Nat /\ file.ToPiece \in Nat
        BY <2>1, Sizes DEF TypeOK, Answered, Located, Selected
    <2>3. start \in Nat /\ end \in Nat /\ start <= end
        BY <2>2, Pieces
    <2>4. pos = Reached(start) /\ pos \in Nat /\ Reached(end) \in Nat
        BY <2>1, <2>2, <2>3 DEF Written, TypeOK, Reached
    <2>5. pos + (PartHi - PartLo) = Reached(end)
        BY <2>1, <2>4, Cuts
    <2>6. pos' = Reached(end) /\ ordered' = TRUE
        BY <2>1, <2>4, <2>5, Cuts DEF WritePart, Written
    <2>7. end = IF piece + 1 <= file.ToPiece THEN StartOf(file, piece + 1) ELSE Size(file)
        <3>1. piece < file.ToPiece => end = StartOf(file, piece + 1)
            BY <2>2, Pieces
        <3>2. piece = file.ToPiece => end = Size(file)
            BY DEF Size
        <3> QED
            BY <2>2, <3>1, <3>2
    <2> HIDE DEF start, end
    <2>8. TypeOK'
        BY <2>1, <2>2, <2>4, <2>6 DEF TypeOK
    <2>9. Answered'
        BY <2>1 DEF Answered
    <2>10. Located'
        BY <2>1, <2>2, <2>7 DEF Located
    <2>11. Written'
        BY <2>1, <2>2, <2>6 DEF Written, Reached
    <2>12. Taken'
        BY <2>1, <2>2 DEF Taken, Selected
    <2>13. PiecesReturned'
        BY <2>1 DEF PiecesReturned
    <2> QED
        BY <2>8, <2>9, <2>10, <2>11, <2>12, <2>13
<1>2. CASE CloseStream
    <2> USE <1>2
    <2>1. /\ pc \in {"wait", "write"} /\ pc' = "closed"
          /\ UNCHANGED <<file, range, status, from, to, length, piece, toOff, taken, freed,
                         pos, ordered>>
        BY DEF CloseStream
    <2>2. pos <= to + 1
        <3>1. /\ file \in Files /\ from \in Nat /\ to \in Nat /\ from <= to
              /\ piece \in file.FromPiece..file.ToPiece
            BY <2>1 DEF TypeOK, Answered, Located, Selected
        <3>2. StartOf(file, piece) \in Nat
            BY <3>1, Pieces
        <3> QED
            BY <2>1, <3>1, <3>2 DEF Written, Reached
    <2>3. TypeOK' /\ Answered' /\ Located' /\ Taken'
        BY <2>1 DEF TypeOK, Answered, Located, Taken
    <2>4. Written'
        BY <2>1, <2>2 DEF Written
    <2>5. PiecesReturned'
        BY <2>1 DEF PiecesReturned
    <2> QED
        BY <2>3, <2>4, <2>5
<1> QED
    BY <1>1, <1>2

\* Every step preserves the inductive invariant.
LEMMA NextIInv == IInv /\ [Next]_vars => IInv'
<1> SUFFICES ASSUME IInv, [Next]_vars PROVE IInv'
    OBVIOUS
<1>1. CASE Refuse \/ Respond
    BY <1>1, RequestIInv
<1>2. CASE SkipPiece \/ Ask \/ Get \/ FinishStream
    BY <1>2, LoopIInv
<1>3. CASE WritePart \/ CloseStream
    BY <1>3, PartIInv
<1>4. CASE UNCHANGED vars
    BY <1>4 DEF vars, IInv, TypeOK, Answered, Located, Written, Taken, PiecesReturned, Reached
<1> QED
    BY <1>1, <1>2, <1>3, <1>4 DEF Next

-------------------------------------------------------------------------------
\* The loop's bookkeeping is right in every state: proxyOrdered knows where it is.
THEOREM Invariance == Spec => []IInv
<1>1. Init => IInv
    BY InitIInv
<1>2. IInv /\ [Next]_vars => IInv'
    BY NextIInv
<1> QED
    BY <1>1, <1>2, PTL DEF Spec

\* No slice expression of proxyOrdered panics, whatever the file and the range.
THEOREM NoSlicePanic == Spec => []SlicesInRange
<1>1. IInv => SlicesInRange
    BY Cuts DEF SlicesInRange
<1> QED
    BY <1>1, Invariance, PTL

\* The body carries the range's bytes, in order, complete when it is finished.
THEOREM RangeServed == Spec => []ServesRange
<1>1. IInv => ServesRange
    <2> SUFFICES ASSUME IInv PROVE ServesRange
        OBVIOUS
    <2> USE DEF IInv
    <2>1. from \in Nat /\ to \in Nat /\ toOff \in Nat
        BY DEF TypeOK
    <2>2. /\ pc \notin {"request", "refused"} => from <= to /\ length = to + 1 - from
          /\ status \in {200, 206} => pc \notin {"request", "refused"}
        BY DEF Answered
    <2>3. status \in {200, 206} => pos <= to + 1
        <3> SUFFICES ASSUME status \in {200, 206} PROVE pos <= to + 1
            OBVIOUS
        <3>1. CASE pc = "loop"
            BY <2>1, <2>2, <3>1 DEF Written, Reached
        <3>2. CASE pc \in {"wait", "write"}
            <4>1. file \in Files /\ piece \in file.FromPiece..file.ToPiece
                BY <3>2 DEF TypeOK, Located, Selected
            <4>2. StartOf(file, piece) \in Nat
                BY <4>1, Pieces
            <4> QED
                BY <2>1, <2>2, <3>2, <4>2 DEF Written, Reached
        <3>3. CASE pc = "finished"
            BY <3>3 DEF Written
        <3>4. CASE pc = "closed"
            BY <3>4 DEF Written
        <3> QED
            BY <2>2, <3>1, <3>2, <3>3, <3>4 DEF TypeOK
    <2> QED
        BY <2>1, <2>2, <2>3 DEF ServesRange, Written
<1> QED
    BY <1>1, Invariance, PTL

\* The prefetcher gets every piece back but the one in hand.
THEOREM NoPieceKept == Spec => []PiecesReturned
<1>1. IInv => PiecesReturned
    BY DEF IInv
<1> QED
    BY <1>1, Invariance, PTL
===============================================================================
