----------------------------- MODULE MCNativeLib -----------------------------
(***************************************************************************)
(* A small instance of NativeLib for TLC.                                  *)
(***************************************************************************)
EXTENDS NativeLib, TLC

\* Starts are interchangeable.
Symmetry == Permutations(Calls)

\* Two starts that overlap are promised nothing.  They are followed until both are in,
\* and to the end only if both have a configuration, whose runs do not report.
Bounds == overlapped = {} \/ Entering # {} \/ config = Calls
===============================================================================
