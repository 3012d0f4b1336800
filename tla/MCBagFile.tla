------------------------------ MODULE MCBagFile ------------------------------
(***************************************************************************)
(* Small instance of BagFile for TLC: every file of up to three pieces and *)
(* every Range header whose bounds lie in it or just after it.             *)
(***************************************************************************)
EXTENDS BagFile

CONSTANTS MaxPiece, MaxBound

Offset == 0..PieceSize

MCFiles ==
    {f \in [FromPiece : 0..1, FromPieceOffset : 0..(PieceSize - 1),
            ToPiece : 0..MaxPiece, ToPieceOffset : Offset] :
        \/ f.FromPiece < f.ToPiece
        \/ f.FromPiece = f.ToPiece /\ f.FromPieceOffset <= f.ToPieceOffset}

MCBounds == (0..MaxBound) \cup {Absent}

MCRanges ==
    {[form |-> "none", from |-> Absent, to |-> Absent],
     [form |-> "invalid", from |-> Absent, to |-> Absent]}
        \cup [form : {"range"}, from : MCBounds, to : MCBounds]
===============================================================================
