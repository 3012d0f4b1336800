-------------------------------- MODULE DnsLookup --------------------------------
(***************************************************************************)
(* The look-up of a domain in resolve (proxy/transport/client.go 670-710): *)
(* several goroutines ask until one of them has an answer; the first answer *)
(* in the channel wins, the rest are told to stop.                         *)
(*                                                                         *)
(* The resolver is external: any call of it finds the domain, finds that   *)
(* there is no such record, or fails, by its timeout at the latest.        *)
(***************************************************************************)
EXTENDS Sequences, Naturals, FiniteSets

CONSTANT Lookups     \* the three goroutines

ASSUME LookupAssumption == IsFiniteSet(Lookups)

VARIABLES
    ctx,        \* the request's context is cancelled
    lookupCtx,  \* stopLookup was called
    ch,         \* answers
    lpc,        \* where each look-up is
    answer,     \* what it is about to send
    pc,         \* where resolve is
    result      \* what resolve has

dnsVars == <<ctx, lookupCtx, ch, lpc, answer, pc, result>>

Answers == {"domain", "nil"}

DnsTypeOK ==
    /\ ctx \in BOOLEAN /\ lookupCtx \in BOOLEAN
    /\ ch \in Seq(Answers) /\ Len(ch) <= Cardinality(Lookups)
    /\ lpc \in [Lookups -> {"ask", "failed", "send", "done"}]
    /\ answer \in [Lookups -> Answers]
    /\ pc \in {"wait", "stop", "done"}
    /\ result \in Answers \cup {"none", "failed"}

DnsInit ==
    /\ ctx = FALSE
    /\ lookupCtx = FALSE
    /\ ch = <<>>
    /\ lpc = [i \in Lookups |-> "ask"]
    /\ answer = [i \in Lookups |-> "nil"]
    /\ pc = "wait"
    /\ result = "none"

\* lookupCtx is derived from the request's context.
LookupDone == ctx \/ lookupCtx

\* Resolve returns the domain.
Finds(i) ==
    /\ lpc[i] = "ask"
    /\ answer' = [answer EXCEPT ![i] = "domain"]
    /\ lpc' = [lpc EXCEPT ![i] = "send"]
    /\ UNCHANGED <<ctx, lookupCtx, ch, pc, result>>

\* Resolve returns an error: of no record, or another one.
Fails(i) ==
    /\ lpc[i] = "ask"
    /\ answer' = [answer EXCEPT ![i] = "nil"]
    /\ lpc' = [lpc EXCEPT ![i] = "failed"]
    /\ UNCHANGED <<ctx, lookupCtx, ch, pc, result>>

\* The error is handled: stop, report that there is no record, or ask again.
Handle(i) ==
    /\ lpc[i] = "failed"
    /\ IF LookupDone
       THEN lpc' = [lpc EXCEPT ![i] = "done"]
       ELSE lpc' \in {[lpc EXCEPT ![i] = "send"], [lpc EXCEPT ![i] = "ask"]}
    /\ UNCHANGED <<ctx, lookupCtx, ch, answer, pc, result>>

\* Mutant: the channel has room for one answer.
SendOne(i) ==
    /\ lpc[i] = "send"
    /\ ch = <<>>
    /\ ch' = Append(ch, answer[i])
    /\ lpc' = [lpc EXCEPT ![i] = "done"]
    /\ UNCHANGED <<ctx, lookupCtx, answer, pc, result>>

\* Mutant: a look-up that has an answer stops the others itself.
SendStopping(i) ==
    /\ lpc[i] = "send"
    /\ Len(ch) < Cardinality(Lookups)
    /\ \/ lookupCtx' = TRUE /\ UNCHANGED <<ch, lpc>>
       \/ /\ ch' = Append(ch, answer[i])
          /\ lpc' = [lpc EXCEPT ![i] = "done"]
          /\ UNCHANGED lookupCtx
    /\ UNCHANGED <<ctx, answer, pc, result>>

\* The channel has room for an answer of each.
Send(i) ==
    /\ lpc[i] = "send"
    /\ Len(ch) < Cardinality(Lookups)
    /\ ch' = Append(ch, answer[i])
    /\ lpc' = [lpc EXCEPT ![i] = "done"]
    /\ UNCHANGED <<ctx, lookupCtx, answer, pc, result>>

\* case domain = <-ch
Take ==
    /\ pc = "wait"
    /\ ch # <<>>
    /\ result' = Head(ch)
    /\ ch' = Tail(ch)
    /\ pc' = "stop"
    /\ UNCHANGED <<ctx, lookupCtx, lpc, answer>>

\* case <-lookupCtx.Done()
GiveUp ==
    /\ pc = "wait"
    /\ LookupDone
    /\ result' = "failed"
    /\ pc' = "stop"
    /\ UNCHANGED <<ctx, lookupCtx, ch, lpc, answer>>

StopLookup ==
    /\ pc = "stop"
    /\ lookupCtx' = TRUE
    /\ pc' = "done"
    /\ UNCHANGED <<ctx, ch, lpc, answer, result>>

\* The browser leaves.
Cancel ==
    /\ ~ctx
    /\ ctx' = TRUE
    /\ UNCHANGED <<lookupCtx, ch, lpc, answer, pc, result>>

Lookup(i) == Finds(i) \/ Fails(i) \/ Handle(i) \/ Send(i)
Main == Take \/ GiveUp \/ StopLookup

DnsNext == Main \/ Cancel \/ \E i \in Lookups : Lookup(i)

DnsSpec == DnsInit /\ [][DnsNext]_dnsVars

\* Resolve returns by its timeout; everything else is a step that can be taken.
DnsFairness == WF_dnsVars(Main) /\ \A i \in Lookups : WF_dnsVars(Lookup(i))
DnsFairSpec == DnsSpec /\ DnsFairness

-------------------------------------------------------------------------------
(***************************************************************************)
(* Properties.                                                             *)
(***************************************************************************)

\* resolve says that it failed only to a request that was cancelled; in particular the
\* end of the first look-up is not the end of the others' answers.
FailsWhenCancelled == result = "failed" => ctx

\* A look-up that has an answer can leave it, also when nobody takes it any more.
SendsHaveRoom == \A i \in Lookups : lpc[i] = "send" => Len(ch) < Cardinality(Lookups)

\* Once resolve has its answer, or the browser has left, every look-up ends: none asks
\* for ever, and none is left in its send.
LookupsEnd == \A i \in Lookups : (LookupDone ~> lpc[i] = "done")

(***************************************************************************)
(* The inductive invariant behind the two.                                 *)
(***************************************************************************)

Ended == {i \in Lookups : lpc[i] = "done"}

\* resolve calls stopLookup when it has a result, the channel holds answers only, and no
\* more of them than look-ups have ended.
DnsIInv ==
    /\ DnsTypeOK
    /\ lookupCtx => pc = "done"
    /\ pc = "wait" => result = "none"
    /\ FailsWhenCancelled
    /\ Len(ch) <= Cardinality(Ended)
===============================================================================
