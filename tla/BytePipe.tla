------------------------------- MODULE BytePipe -------------------------------
(***************************************************************************)
(* What a dataStreamer promises to the two goroutines that share it: a     *)
(* finite stream of bytes that one side appends to and the other side      *)
(* takes from, in order, that either ends cleanly or is aborted.           *)
(*                                                                         *)
(* A byte is known by its position in the stream, so the pipe is two       *)
(* counters.  A consumer is told "eof" only when the stream was ended and  *)
(* every byte of it was taken, and "error" only when it was aborted.       *)
(***************************************************************************)
EXTENDS Naturals

CONSTANT Consumers      \* the goroutines that read the stream

VARIABLES
    sent,       \* number of bytes the pipe accepted
    got,        \* number of bytes the consumers were given
    ended,      \* no more bytes will be accepted
    aborted,    \* the stream was given up by one of its sides
    verdict     \* what each consumer was last told about the end of the stream

pipeVars == <<sent, got, ended, aborted, verdict>>

Verdicts == {"none", "eof", "error"}

PipeInit ==
    /\ sent = 0
    /\ got = 0
    /\ ended = FALSE
    /\ aborted = FALSE
    /\ verdict = [c \in Consumers |-> "none"]

Put ==
    /\ ~ended
    /\ sent' \in Nat
    /\ sent' > sent
    /\ UNCHANGED <<got, ended, aborted, verdict>>

Take ==
    /\ got' \in Nat
    /\ got' > got
    /\ got' <= sent
    /\ UNCHANGED <<sent, ended, aborted, verdict>>

End ==
    /\ ended' = TRUE
    /\ UNCHANGED <<sent, got, aborted, verdict>>

Abort ==
    /\ aborted' = TRUE
    /\ UNCHANGED <<sent, got, ended, verdict>>

TellEof(c) ==
    /\ ended
    /\ got = sent
    /\ verdict' = [verdict EXCEPT ![c] = "eof"]
    /\ UNCHANGED <<sent, got, ended, aborted>>

TellError(c) ==
    /\ aborted
    /\ verdict' = [verdict EXCEPT ![c] = "error"]
    /\ UNCHANGED <<sent, got, ended, aborted>>

PipeNext ==
    \/ Put
    \/ Take
    \/ End
    \/ Abort
    \/ \E c \in Consumers : TellEof(c) \/ TellError(c)

PipeSpec == PipeInit /\ [][PipeNext]_pipeVars
===============================================================================
