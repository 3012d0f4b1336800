-------------------------------- MODULE BagFile --------------------------------
(***************************************************************************)
(* How doTorrent and proxyOrdered (proxy/transport/client.go) answer a     *)
(* request for a file of a TON storage bag: the Range header, the pieces   *)
(* asked of the prefetcher, and the goroutine that takes the pieces in     *)
(* order, cuts the file's bytes out of them and writes them to the         *)
(* response stream.                                                        *)
(*                                                                         *)
(* A file lies in a bag's data from FromPieceOffset of piece FromPiece to  *)
(* ToPieceOffset (exclusive) of piece ToPiece.  The storage library is     *)
(* external: where it puts a file that ends with a piece, in that piece    *)
(* (ToPieceOffset = PieceSize) or in the next (ToPieceOffset = 0), is left *)
(* open.  A byte is known by its position in the file, or in a piece.      *)
(***************************************************************************)
EXTENDS Integers

CONSTANTS
    PieceSize,      \* torrent.Info.PieceSize
    Files,          \* the files a request may name
    Ranges,         \* the Range headers a request may have
    Absent          \* a bound that "bytes=from-to" leaves out

File == [FromPiece : Nat, FromPieceOffset : Nat, ToPiece : Nat, ToPieceOffset : Nat]
Position == Nat \cup {Absent}
RangeHeader == [form : {"none", "invalid", "range"}, from : Position, to : Position]

ASSUME SizeAssumption == PieceSize \in Nat \ {0} /\ Absent \notin Nat
ASSUME FileAssumption ==
    \A f \in Files :
        /\ f \in File
        /\ f.FromPieceOffset < PieceSize
        /\ f.ToPieceOffset <= PieceSize
        /\ \/ f.FromPiece < f.ToPiece
           \/ f.FromPiece = f.ToPiece /\ f.FromPieceOffset <= f.ToPieceOffset
ASSUME RangeAssumption == Ranges \subseteq RangeHeader

VARIABLES
    file,       \* fileInfo
    range,      \* the request's Range header
    pc,         \* where the handler, then its streaming goroutine, is
    status,     \* httpResp.StatusCode
    from, to,   \* the bounds parseRange returned
    length,     \* httpResp.ContentLength
    piece,      \* the loop's piece
    toOff,      \* file offset after the pieces before it
    taken,      \* pieces WaitGet returned
    freed,      \* pieces given back with Free
    pos,        \* history: file position after the last byte written
    ordered     \* history: every Write started where the one before ended

reqVars == <<file, range>>
respVars == <<status, from, to, length>>
fetchVars == <<taken, freed>>
outVars == <<pos, ordered>>
vars == <<file, range, pc, status, from, to, length, piece, toOff, taken, freed, pos, ordered>>

-------------------------------------------------------------------------------
(***************************************************************************)
(* The arithmetic of pieces.                                               *)
(***************************************************************************)

\* The bytes of the file in a piece of it: what both loops call sz.
PieceBytes(f, p) ==
    (IF p = f.ToPiece THEN f.ToPieceOffset ELSE PieceSize)
        - (IF p = f.FromPiece THEN f.FromPieceOffset ELSE 0)

\* Where a piece's bytes start in the file.
StartOf(f, p) ==
    IF p = f.FromPiece THEN 0 ELSE (p - f.FromPiece) * PieceSize - f.FromPieceOffset
EndOf(f, p) == StartOf(f, p) + PieceBytes(f, p)

Size(f) == EndOf(f, f.ToPiece)
NotEmpty(f) == f.FromPiece # f.ToPiece \/ f.FromPieceOffset # f.ToPieceOffset

\* fileLastIndex
LastIndex(f) == IF Size(f) > 0 THEN Size(f) - 1 ELSE 0

\* Mutant: the pieces before the range are asked for too.
SelectedFromStart(f, lo, hi) ==
    {p \in f.FromPiece..f.ToPiece : StartOf(f, p) <= hi}

\* The pieces doTorrent asks the prefetcher for.
Selected(f, lo, hi) ==
    {p \in f.FromPiece..f.ToPiece : EndOf(f, p) >= lo /\ StartOf(f, p) <= hi}

\* parseRange; RangeError when it returns an error.
Lower(r) == IF r.from = Absent THEN 0 ELSE r.from
Upper(r, max) == IF r.to = Absent THEN max ELSE r.to

RangeError(r, max) ==
    \/ r.form = "invalid"
    \/ /\ r.form = "range"
       /\ Lower(r) > max \/ Upper(r, max) > max \/ Lower(r) > Upper(r, max)

-------------------------------------------------------------------------------
TypeOK ==
    /\ file \in Files
    /\ range \in Ranges
    /\ pc \in {"request", "loop", "wait", "write", "finished", "closed", "refused"}
    /\ status \in {0, 200, 206, 404, 416}
    /\ from \in Nat /\ to \in Nat /\ length \in Nat
    /\ piece \in Nat
    /\ toOff \in Nat
    /\ taken \in SUBSET Nat /\ freed \in SUBSET Nat
    /\ pos \in Nat
    /\ ordered \in BOOLEAN

Init ==
    /\ file \in Files
    /\ range \in Ranges
    /\ pc = "request"
    /\ status = 0
    /\ from = 0 /\ to = 0 /\ length = 0
    /\ piece = 0
    /\ toOff = 0
    /\ taken = {} /\ freed = {}
    /\ pos = 0
    /\ ordered = TRUE

\* GetFileOffsets does not know the name, or parseRange refuses the header.
Refuse ==
    /\ pc = "request"
    /\ \/ status' = 404
       \/ RangeError(range, LastIndex(file)) /\ status' = 416
    /\ pc' = "refused"
    /\ UNCHANGED <<reqVars, from, to, length, piece, toOff, fetchVars, outVars>>

\* The response head is returned; the streaming goroutine starts.
Respond ==
    /\ pc = "request"
    /\ ~RangeError(range, LastIndex(file))
    /\ IF range.form = "range"
       THEN /\ status' = 206
            /\ from' = Lower(range)
            /\ to' = Upper(range, LastIndex(file))
       ELSE /\ status' = 200
            /\ from' = 0
            /\ to' = LastIndex(file)
    /\ length' = to' + 1 - from'
    /\ piece' = file.FromPiece
    /\ pos' = from'
    /\ pc' = "loop"
    /\ UNCHANGED <<reqVars, toOff, fetchVars, ordered>>

-------------------------------------------------------------------------------
(***************************************************************************)
(* proxyOrdered.                                                           *)
(***************************************************************************)

InLoop == NotEmpty(file) /\ piece <= file.ToPiece
Wanted == piece \in Selected(file, from, to)

SkipPiece ==
    /\ pc = "loop"
    /\ InLoop /\ ~Wanted
    /\ toOff' = toOff + PieceBytes(file, piece)
    /\ piece' = piece + 1
    /\ UNCHANGED <<reqVars, respVars, pc, fetchVars, outVars>>

\* Mutant: the piece before is not given back.
AskKeeping ==
    /\ pc = "loop"
    /\ InLoop /\ Wanted
    /\ toOff' = toOff + PieceBytes(file, piece)
    /\ pc' = "wait"
    /\ UNCHANGED <<reqVars, respVars, piece, fetchVars, outVars>>

\* The piece before is given back, LastUsed is stored, WaitGet is called.
Ask ==
    /\ pc = "loop"
    /\ InLoop /\ Wanted
    /\ toOff' = toOff + PieceBytes(file, piece)
    /\ freed' = taken
    /\ pc' = "wait"
    /\ UNCHANGED <<reqVars, respVars, piece, taken, outVars>>

Get ==
    /\ pc = "wait"
    /\ taken' = taken \cup {piece}
    /\ pc' = "write"
    /\ UNCHANGED <<reqVars, respVars, piece, toOff, freed, outVars>>

\* Bounds of part in the piece: cut to the file, then to the range.
CutToFile(f, p) ==
    [lo |-> IF p = f.FromPiece THEN f.FromPieceOffset ELSE 0,
     hi |-> IF p = f.ToPiece THEN f.ToPieceOffset ELSE PieceSize]
PartLo ==
    LET fromOff == toOff - PieceBytes(file, piece)
    IN  CutToFile(file, piece).lo
            + (IF from > fromOff /\ taken = {piece} THEN from - fromOff ELSE 0)

\* Mutant: the part is cut before the last byte of the range.
PartHiShort ==
    CutToFile(file, piece).hi - (IF toOff > to THEN toOff - to ELSE 0)

PartHi ==
    CutToFile(file, piece).hi - (IF toOff - 1 > to THEN toOff - 1 - to ELSE 0)

\* File position of a piece's byte.
FilePos(f, p, i) == (p - f.FromPiece) * PieceSize + i - f.FromPieceOffset

\* Write takes the part; an empty part is no byte.
WritePart ==
    /\ pc = "write"
    /\ pos' = pos + (PartHi - PartLo)
    /\ ordered' = (ordered /\ (PartLo = PartHi \/ FilePos(file, piece, PartLo) = pos))
    /\ piece' = piece + 1
    /\ pc' = "loop"
    /\ UNCHANGED <<reqVars, respVars, toOff, fetchVars>>

\* The last piece is given back, the stream is finished.
FinishStream ==
    /\ pc = "loop"
    /\ ~InLoop
    /\ freed' = taken
    /\ pc' = "finished"
    /\ UNCHANGED <<reqVars, respVars, piece, toOff, taken, outVars>>

\* WaitGet or Write failed: the stream is closed, fetch.Stop drops what is left.
CloseStream ==
    /\ pc \in {"wait", "write"}
    /\ pc' = "closed"
    /\ UNCHANGED <<reqVars, respVars, piece, toOff, fetchVars, outVars>>

Next ==
    \/ Refuse
    \/ Respond
    \/ SkipPiece
    \/ Ask
    \/ Get
    \/ WritePart
    \/ FinishStream
    \/ CloseStream

Spec == Init /\ [][Next]_vars

-------------------------------------------------------------------------------
(***************************************************************************)
(* Properties.                                                             *)
(***************************************************************************)

\* Every slice expression of proxyOrdered is within bounds: no piece the range
\* selects is cut to less than nothing.
SlicesInRange ==
    pc = "write" => 0 <= PartLo /\ PartLo <= PartHi /\ PartHi <= PieceSize

\* The stream carries the range's bytes in order, and a finished stream all of
\* them and no more: as many as Content-Length announced.  (An empty file is
\* announced with one byte, see the README.)
ServesRange ==
    /\ ordered
    /\ status \in {200, 206} => pos <= to + 1
    /\ pc = "finished" /\ NotEmpty(file) => pos = to + 1 /\ pos - from = length

\* The goroutine holds one piece at most, never one the prefetcher was not asked
\* for, and a finished stream has taken and given back every piece asked for:
\* the prefetcher's window of 64 pieces cannot fill up with forgotten ones.
PiecesReturned ==
    /\ taken \subseteq Selected(file, from, to)
    /\ \A p, q \in taken \ freed : p = q
    /\ pc = "finished" /\ NotEmpty(file) =>
          taken = Selected(file, from, to) /\ freed = taken

-------------------------------------------------------------------------------
(***************************************************************************)
(* The inductive invariant behind the three.                               *)
(***************************************************************************)

\* The file position reached after x bytes of the file were passed.
Reached(x) == IF x < from THEN from ELSE IF x > to + 1 THEN to + 1 ELSE x

\* The range lies in the file and Content-Length is its size.
Answered ==
    /\ pc \in {"request", "refused"} => taken = {} /\ freed = {} /\ status \notin {200, 206}
    /\ pc \notin {"request", "refused"} =>
          from <= to /\ to <= LastIndex(file) /\ length = to + 1 - from

\* toOff is where the loop's piece starts, and once it was asked for, ends.
Located ==
    /\ pc = "request" => toOff = 0
    /\ pc = "loop" =>
          /\ piece \in file.FromPiece..(file.ToPiece + 1)
          /\ toOff = IF piece <= file.ToPiece THEN StartOf(file, piece) ELSE Size(file)
    /\ pc \in {"wait", "write"} =>
          /\ NotEmpty(file)
          /\ piece \in Selected(file, from, to)
          /\ toOff = EndOf(file, piece)

\* What was written is the part of the range that lies before the loop's piece.
Written ==
    /\ ordered
    /\ pc = "loop" => pos = Reached(toOff)
    /\ pc \in {"wait", "write"} => pos = Reached(StartOf(file, piece))
    /\ pc = "finished" /\ NotEmpty(file) => pos = to + 1
    /\ pc \in {"finished", "closed"} => pos <= to + 1

\* What was taken are the selected pieces before the loop's; only the first of
\* them can start before the range.
Taken ==
    /\ pc \in {"loop", "wait"} => taken = {p \in Selected(file, from, to) : p < piece}
    /\ pc = "write" => taken = {p \in Selected(file, from, to) : p <= piece}
    /\ pc = "loop" /\ taken # {} => from <= toOff
    /\ pc = "wait" /\ taken # {} => from <= StartOf(file, piece)
    /\ pc = "write" /\ taken # {piece} => from <= StartOf(file, piece)
    /\ pc = "wait" => freed = taken
    /\ pc = "write" => freed = taken \ {piece}

\* The loop has passed a prefix of the file's pieces, took the selected ones of
\* it, gave all but the last back, and wrote their share of the range.
IInv == TypeOK /\ Answered /\ Located /\ Written /\ Taken /\ PiecesReturned
===============================================================================
