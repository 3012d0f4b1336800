------------------------------- MODULE NativeLib -------------------------------
(***************************************************************************)
(* The native library (cmd/lib/main.go): StartProxy, StartProxyWithConfig, *)
(* StopProxy, and the two goroutines of every start, one that runs the     *)
(* proxy and one that consumes its reports.  All of them share the globals *)
(* ActiveProxy and ProxyStopper, a context and its cancel function, with   *)
(* no lock, and read them when they come to it.  So two callers may be     *)
(* between the check and the two assignments of startProxy at once.        *)
(*                                                                         *)
(* A start that is accepted owns a call of RunProxy (module Runs), a       *)
(* context and a channel of reports, all named by it.  One that is refused *)
(* (ALREADY_STARTED) changes nothing and is left out.  Bound: Calls.       *)
(***************************************************************************)
EXTENDS Runs

ASSUME StartsAssumption ==
    Contexts = Calls \cup {None} /\ Channels = Calls /\ None \notin Calls

VARIABLES
    active,     \* ActiveProxy; None: the initial context
    stopper,    \* the context that ProxyStopper cancels
    config,     \* starts with a configuration: their run has no channel of reports
    caller,     \* where the caller of each start is
    runner,     \* where the goroutine is that runs the proxy
    consumer,   \* where the goroutine is that consumes the reports
    watch,      \* the context whose Done the consumer's select waits for
    got,        \* the type of the report it has taken
    answered,   \* starts whose channel res got a message
    alone,      \* history: runs that began when no other was under way
    overlapped  \* history: starts during whose check and assignments another one's came

goVars == <<runner, consumer, watch, got, answered>>
fieldVars == <<active, stopper>>
libVars == <<fieldVars, config, caller, goVars, alone, overlapped>>
callVars == <<phase, ctx, res, tun, error, ready, client>>
vars == <<runVars, libVars>>

LibTypeOK ==
    /\ RunTypeOK
    /\ active \in Contexts /\ stopper \in Contexts
    /\ config \subseteq Calls /\ answered \subseteq Calls
    /\ alone \subseteq Calls /\ overlapped \subseteq Calls
    /\ caller \in [Calls -> {"idle", "checked", "assigned", "waiting", "returned"}]
    /\ runner \in [Calls -> {"idle", "new", "run", "send", "done"}]
    /\ consumer \in [Calls -> {"idle", "loop", "select", "act", "done"}]
    /\ watch \in [Calls -> Contexts]
    /\ got \in [Calls -> {None, "loading", "ready", "error"}]

Init ==
    /\ RunInit
    /\ active = None /\ stopper = None /\ done = {None}
    /\ config = {} /\ answered = {} /\ alone = {} /\ overlapped = {}
    /\ caller = [s \in Calls |-> "idle"]
    /\ runner = [s \in Calls |-> "idle"]
    /\ consumer = [s \in Calls |-> "idle"]
    /\ watch = [s \in Calls |-> None]
    /\ got = [s \in Calls |-> None]

-------------------------------------------------------------------------------
(***************************************************************************)
(* The exported functions.                                                 *)
(***************************************************************************)

\* Starts between the check of startProxy and its second assignment.
Entering == {s \in Calls : caller[s] \in {"checked", "assigned"}}

Accept(s, withConfig) ==
    /\ caller[s] = "idle"
    /\ caller' = [caller EXCEPT ![s] = "checked"]
    /\ config' = IF withConfig THEN config \cup {s} ELSE config
    /\ overlapped' = IF Entering = {} THEN overlapped ELSE overlapped \cup {s} \cup Entering
    /\ UNCHANGED <<runVars, fieldVars, goVars, alone>>

\* Mutant: it does not look whether a proxy is active.
CheckAnyway(s, withConfig) == Accept(s, withConfig)

\* The select of startProxy, while what is active is cancelled.
Check(s, withConfig) == active \in done /\ Accept(s, withConfig)

\* ActiveProxy is assigned, and ProxyStopper after it; then the two goroutines start.
AssignActive(s) ==
    /\ caller[s] = "checked"
    /\ active' = s
    /\ caller' = [caller EXCEPT ![s] = "assigned"]
    /\ UNCHANGED <<runVars, stopper, config, goVars, alone, overlapped>>

AssignStopper(s) ==
    /\ caller[s] = "assigned"
    /\ stopper' = s
    /\ caller' = [caller EXCEPT ![s] = "waiting"]
    /\ runner' = [runner EXCEPT ![s] = "new"]
    /\ consumer' = [consumer EXCEPT ![s] = "loop"]
    /\ UNCHANGED <<runVars, active, config, watch, got, answered, alone, overlapped>>

\* <-res
Return(s) ==
    /\ caller[s] = "waiting" /\ s \in answered
    /\ caller' = [caller EXCEPT ![s] = "returned"]
    /\ UNCHANGED <<runVars, fieldVars, config, goVars, alone, overlapped>>

StopProxy == Cancel(stopper) /\ UNCHANGED <<callVars, chan, libVars>>

-------------------------------------------------------------------------------
(***************************************************************************)
(* The goroutine that runs the proxy.                                      *)
(***************************************************************************)

UnderWay(s) == caller[s] = "assigned" \/ runner[s] \in {"new", "run"}

\* It passes on the context that is active by now.
Begin(s) ==
    /\ runner[s] = "new"
    /\ RunProxy(s, active, IF s \in config THEN None ELSE s, "off")
    /\ runner' = [runner EXCEPT ![s] = "run"]
    /\ alone' = IF \E q \in Calls \ {s} : UnderWay(q) THEN alone ELSE alone \cup {s}
    /\ UNCHANGED <<fieldVars, config, caller, consumer, watch, got, answered, overlapped>>

RunOver(s) ==
    /\ runner[s] = "run" /\ phase[s] = "over"
    /\ runner' = [runner EXCEPT ![s] = IF s \in error THEN "send" ELSE "done"]
    /\ UNCHANGED <<runVars, fieldVars, config, caller, consumer, watch, got, answered, alone,
                   overlapped>>

SendError(s) ==
    /\ runner[s] = "send"
    /\ chan[s] = <<>>
    /\ chan' = [chan EXCEPT ![s] = <<[type |-> "error", run |-> s]>>]
    /\ runner' = [runner EXCEPT ![s] = "done"]
    /\ UNCHANGED <<callVars, done, fieldVars, config, caller, consumer, watch, got, answered,
                   alone, overlapped>>

-------------------------------------------------------------------------------
(***************************************************************************)
(* The consumer of the reports.                                            *)
(***************************************************************************)

\* Mutant: it keeps looking at the initial context.
LookAtFirst(s) ==
    /\ consumer[s] = "loop"
    /\ consumer' = [consumer EXCEPT ![s] = "select"]
    /\ UNCHANGED <<runVars, fieldVars, config, caller, runner, watch, got, answered, alone,
                   overlapped>>

\* Each round of its loop it waits for the context that is active by now.
Look(s) ==
    /\ consumer[s] = "loop"
    /\ watch' = [watch EXCEPT ![s] = active]
    /\ consumer' = [consumer EXCEPT ![s] = "select"]
    /\ UNCHANGED <<runVars, fieldVars, config, caller, runner, got, answered, alone,
                   overlapped>>

Leave(s) ==
    /\ consumer[s] = "select" /\ watch[s] \in done
    /\ consumer' = [consumer EXCEPT ![s] = "done"]
    /\ watch' = [watch EXCEPT ![s] = None]
    /\ UNCHANGED <<runVars, fieldVars, config, caller, runner, got, answered, alone,
                   overlapped>>

Take(s) ==
    /\ consumer[s] = "select"
    /\ Receive(s)
    /\ got' = [got EXCEPT ![s] = Head(chan[s]).type]
    /\ consumer' = [consumer EXCEPT ![s] = "act"]
    /\ watch' = [watch EXCEPT ![s] = None]
    /\ UNCHANGED <<callVars, done, fieldVars, config, caller, runner, answered, alone,
                   overlapped>>

\* The message is left in res if there is room; the first one is what counts.
Handled(s) ==
    /\ consumer[s] = "act"
    /\ consumer' = [consumer EXCEPT ![s] = "loop"]
    /\ got' = [got EXCEPT ![s] = None]
    /\ answered' = answered \cup {s}
    /\ UNCHANGED <<callVars, chan, fieldVars, config, caller, runner, watch, alone,
                   overlapped>>

\* Mutant: an error does not stop what is active.
ActKeeping(s) == Handled(s) /\ done' = done

\* An error calls ProxyStopper, as it is by now.
Act(s) ==
    /\ Handled(s)
    /\ IF got[s] = "error" THEN Cancel(stopper) ELSE done' = done

-------------------------------------------------------------------------------
Lib(s) ==
    \/ AssignActive(s) \/ AssignStopper(s) \/ Return(s)
    \/ Begin(s) \/ RunOver(s) \/ SendError(s)
    \/ Look(s) \/ Leave(s) \/ Take(s) \/ Act(s)

Next ==
    \/ \E s \in Calls, withConfig \in BOOLEAN : Check(s, withConfig)
    \/ StopProxy
    \/ \E s \in Calls : Lib(s) \/ (RunStep(s) /\ UNCHANGED libVars)

Spec == Init /\ [][Next]_vars

-------------------------------------------------------------------------------
(***************************************************************************)
(* Properties.  Two starts that overlap in startProxy may both be          *)
(* accepted; the one that assigns first is then cancelled by nobody, and   *)
(* if their assignments cross nothing is.  All that follows is promised to *)
(* the starts that were let through one at a time.                         *)
(***************************************************************************)

Begun(s) == caller[s] \in {"waiting", "returned"}

\* StopProxy reaches what runs: whichever context a run's goroutine found when it came to
\* read ActiveProxy, its own or a later one's, that context is cancelled or is the one
\* that ProxyStopper cancels, or is about to be.
RunsAreStoppable ==
    \A s \in Calls :
        phase[s] \notin {"idle", "over"} /\ ctx[s] \notin done \cup overlapped =>
            stopper = ctx[s] \/ (ctx[s] \in Calls /\ caller[ctx[s]] = "assigned")

\* A run that began when no other was under way, and that nobody has stopped, sends its
\* requests through its own transport.  (Runs that overlap share the variable client:
\* the last to start has it, even one that was stopped meanwhile and closes it.)
OwnTransport ==
    \A s \in alone :
        phase[s] = "serving" /\ ctx[s] \notin done \cup overlapped => client = s

\* A run that fails, at any point, frees the library for the next start: while its
\* context is not cancelled the error is on its way to a consumer that waits for it.
ErrorOnItsWay(s) ==
    \/ phase[s] = "failing" \/ runner[s] \in {"run", "send"}
    \/ chan[s] # <<>> /\ Head(chan[s]).type = "error"
    \/ consumer[s] = "act" /\ got[s] = "error"
FailureFrees ==
    \A s \in error : s \notin done \cup overlapped =>
        consumer[s] # "done" /\ ErrorOnItsWay(s)

\* StartProxy returns unless its run is stopped: until it is answered a report is on its
\* way, to a consumer that is there.  (Of StartProxyWithConfig only errors are reported:
\* while its proxy runs it does not return.)
AnswerArrives ==
    \A s \in Calls \ config :
        Begun(s) /\ s \notin done \cup overlapped \cup answered =>
            /\ consumer[s] # "done"
            /\ \/ runner[s] = "new" \/ phase[s] = "called"
               \/ chan[s] # <<>> \/ consumer[s] = "act"

(***************************************************************************)
(* The inductive invariant behind the four.                                *)
(***************************************************************************)

Assigned(c) == c \in Calls /\ caller[c] \notin {"idle", "checked"}

\* Each start has its two goroutines and its call, and they keep step; a run was given a
\* context that a start had assigned, and only what ProxyStopper held was cancelled.
Stages ==
    /\ active = None \/ Assigned(active)
    /\ \A c \in done \cup {stopper} : c = None \/ (c \in Calls /\ Begun(c))
    /\ \A s \in Calls :
          /\ Begun(s) <=> runner[s] # "idle"
          /\ Begun(s) <=> consumer[s] # "idle"
          /\ phase[s] = "idle" <=> runner[s] \in {"idle", "new"}
          /\ runner[s] \in {"send", "done"} => phase[s] = "over"
          /\ phase[s] # "idle" /\ s \notin config => res[s] = s
          /\ phase[s] # "idle" => ctx[s] = None \/ Assigned(ctx[s])

\* While a start that was let through alone is live nobody else is let through, and the
\* two fields are its own.
OneAtATime ==
    /\ None \in done
    /\ \A s \in Calls \ overlapped :
          /\ s \in Entering => Entering = {s}
          /\ caller[s] = "assigned" => active = s
          /\ Begun(s) /\ s \notin done => Entering = {} /\ active = s /\ stopper = s

\* Its consumer waits for its own context, and is there until that one is cancelled.
Watching ==
    \A s \in Calls : s \notin done \cup overlapped =>
        /\ consumer[s] = "select" => watch[s] = s
        /\ consumer[s] # "done"

\* As long as a run that began alone is live nobody else comes.
Alone ==
    \A s \in alone :
        /\ runner[s] \notin {"idle", "new"}
        /\ ctx[s] \notin done \cup overlapped =>
              /\ \A q \in Calls \ {s} : ~UnderWay(q)
              /\ phase[s] \in {"listen", "serving"} => client = s

IInv ==
    /\ LibTypeOK /\ Stages /\ OneAtATime /\ Watching
    /\ Alone /\ FailureFrees /\ AnswerArrives
===============================================================================
