--------------------------------- MODULE GuiApp ---------------------------------
(***************************************************************************)
(* The GUI application (cmd/proxy-gui-wails/app.go) with the button of its *)
(* window (frontend/src/App.tsx): StartProxy and the goroutine of each     *)
(* start, StopProxy, the loop over the reports, shutdown, and the answers  *)
(* to the tunnel.  They share the fields proxyStopCtx, proxyStop,          *)
(* tunnelGracefulStopCtx, tunnelGracefulStop and skipTunnel without a      *)
(* lock, and read them when they come to it.                               *)
(*                                                                         *)
(* A start that is accepted owns two calls of RunProxy (module Runs), the  *)
(* second for the retry without a tunnel, and two contexts, all named by   *)
(* it.  Bounds: Starts; one retry of a start; one call of StopProxy and    *)
(* one of StartProxy by the window at a time.                              *)
(*                                                                         *)
(* Of the reports only those are modelled that change the button, and the  *)
(* first "loading" of a run.                                               *)
(***************************************************************************)
EXTENDS Runs, SystemProxy

CONSTANTS
    Starts,      \* accepted calls of StartProxy
    Window,      \* the window, which calls StopProxy
    Shutdown     \* the end of the application

ASSUME GuiAssumption ==
    /\ Calls = Starts \X {1, 2}
    /\ Contexts = Starts \cup {None}
    /\ Channels = {"statusUpd"}
    /\ None \notin Starts \cup Calls \cup Channels
    /\ Window # Shutdown /\ {Window, Shutdown} \cap Starts = {}

VARIABLES
    stopCtx,     \* proxyStopCtx, and whom proxyStop cancels
    graceful,    \* tunnelGracefulStopCtx, and whom tunnelGracefulStop cancels
    released,    \* graceful contexts that are cancelled
    skip,        \* skipTunnel
    runner,      \* where the goroutine of each start is
    stopper,     \* where each caller is in StopProxy, or Shutdown in shutdown
    loop,        \* the report the loop is handling, or None
    disabled,    \* buttonDisabled
    isStop,
    starting,    \* the window has called StartProxy
    older,       \* history: the tunnels not over when graceful was made
    setFor,      \* history: the run for which the system's proxy is ours, or None
    excuse       \* history: why the system's proxy outlives that run

fieldVars == <<stopCtx, graceful, released, skip>>
windowVars == <<disabled, isStop, starting>>
historyVars == <<older, setFor, excuse>>
callVars == <<phase, ctx, res, tun, error, ready, client>>
guiVars == <<fieldVars, runner, stopper, loop, windowVars, historyVars>>
vars == <<runVars, systemVars, guiVars>>

Stoppers == Starts \cup {Window, Shutdown}

HistoryTypeOK ==
    /\ older \in SUBSET Calls
    /\ setFor \in Calls \cup {None}
    /\ excuse \in {"none", "late ready", "error", "not cleared"}

GuiTypeOK ==
    /\ RunTypeOK /\ SystemTypeOK
    /\ stopCtx \in Contexts /\ graceful \in Contexts /\ released \subseteq Contexts
    /\ skip \in BOOLEAN /\ disabled \in BOOLEAN /\ isStop \in BOOLEAN /\ starting \in BOOLEAN
    /\ runner \in [Starts -> {"idle", "new", "run", "dialog", "stop", "done"}]
    /\ stopper \in [Stoppers -> {"idle", "check", "cancel", "clear", "emit", "wait", "over"}]
    /\ loop \in Reports \cup {None}
    /\ HistoryTypeOK

Init ==
    /\ RunInit /\ SystemInit
    /\ stopCtx = None /\ done = {None}
    /\ graceful = None /\ released = {None} /\ older = {}
    /\ skip = FALSE
    /\ runner = [s \in Starts |-> "idle"]
    /\ stopper = [p \in Stoppers |-> "idle"]
    /\ loop = None
    /\ disabled = FALSE /\ isStop = FALSE /\ starting = FALSE
    /\ setFor = None /\ excuse = "none"

-------------------------------------------------------------------------------
(***************************************************************************)
(* The window.                                                             *)
(***************************************************************************)

Open == stopper[Shutdown] = "idle"

\* action(): the button calls StartProxy or StopProxy.
ClickStart ==
    /\ Open /\ ~disabled /\ ~isStop /\ ~starting
    /\ \E s \in Starts : runner[s] = "idle"
    /\ disabled' = TRUE /\ starting' = TRUE
    /\ UNCHANGED <<runVars, systemVars, fieldVars, runner, stopper, loop, isStop, historyVars>>

ClickStop ==
    /\ Open /\ ~disabled /\ isStop /\ stopper[Window] = "idle"
    /\ disabled' = TRUE
    /\ stopper' = [stopper EXCEPT ![Window] = "check"]
    /\ UNCHANGED <<runVars, systemVars, fieldVars, runner, loop, isStop, starting, historyVars>>

\* Mutant: "stopped" turns the button back to a start and leaves it disabled.
EmitKeepsDisabled(type) ==
    /\ disabled' = IF type \in {"error", "ready"} THEN FALSE ELSE disabled
    /\ isStop' = CASE type = "ready" -> TRUE [] type = "stopped" -> FALSE [] OTHER -> isStop

\* EventsEmit(ctx, "statusUpdate", type, ...)
Emit(type) ==
    /\ disabled' = IF type \in {"error", "ready", "stopped"} THEN FALSE ELSE disabled
    /\ isStop' = CASE type = "ready" -> TRUE [] type = "stopped" -> FALSE [] OTHER -> isStop

-------------------------------------------------------------------------------
(***************************************************************************)
(* StartProxy and its goroutine.                                           *)
(***************************************************************************)

\* Mutant: a start does not look at the one before.
StartProxyAnyway(s) ==
    /\ starting /\ runner[s] = "idle"
    /\ starting' = FALSE
    /\ stopCtx' = s
    /\ runner' = [runner EXCEPT ![s] = "new"]
    /\ UNCHANGED <<runVars, systemVars, graceful, released, skip, stopper, loop,
                   disabled, isStop, historyVars>>

StartProxy(s) ==
    /\ starting
    /\ starting' = FALSE
    /\ IF stopCtx \in done
       THEN /\ runner[s] = "idle"
            /\ stopCtx' = s
            /\ runner' = [runner EXCEPT ![s] = "new"]
       ELSE UNCHANGED <<stopCtx, runner>>
    /\ UNCHANGED <<runVars, systemVars, graceful, released, skip, stopper, loop,
                   disabled, isStop, historyVars>>

\* Tunnels that have not stopped.
Pending == {r \in Calls : tun[r] \in {"wanted", "running"}}

\* The goroutine reads the configuration and runs the proxy with the context that is
\* current by now.
Run(s) ==
    /\ runner[s] = "new"
    /\ runner' = [runner EXCEPT ![s] = "run"]
    /\ \/ UNCHANGED <<graceful, older>> /\ RunProxy(<<s, 1>>, stopCtx, "statusUpd", "off")
       \/ /\ graceful' = s /\ older' = Pending
          /\ RunProxy(<<s, 1>>, stopCtx, "statusUpd", "wanted")
    /\ UNCHANGED <<systemVars, stopCtx, released, skip, stopper, loop, windowVars, setFor,
                   excuse>>

Current(s) == IF phase[<<s, 2>>] = "idle" THEN <<s, 1>> ELSE <<s, 2>>

Finished(s) == runner[s] = "run" /\ phase[Current(s)] = "over"

\* RunProxy returns an error that the user's choice has caused: once more, without a tunnel.
Retry(s) ==
    /\ Finished(s) /\ Current(s) \in error /\ skip
    /\ skip' = FALSE
    /\ RunProxy(<<s, 2>>, stopCtx, "statusUpd", "off")
    /\ UNCHANGED <<systemVars, stopCtx, graceful, released, runner, stopper, loop,
                   windowVars, historyVars>>

ShowError(s) ==
    /\ Finished(s) /\ Current(s) \in error /\ ~skip
    /\ runner' = [runner EXCEPT ![s] = "dialog"]
    /\ UNCHANGED <<runVars, systemVars, fieldVars, stopper, loop, windowVars, historyVars>>

\* RunProxy has returned nil, or the user has seen the error: the deferred StopProxy.
Stop(s) ==
    /\ \/ Finished(s) /\ Current(s) \notin error
       \/ runner[s] = "dialog"
    /\ runner' = [runner EXCEPT ![s] = "stop"]
    /\ stopper' = [stopper EXCEPT ![s] = "check"]
    /\ UNCHANGED <<runVars, systemVars, fieldVars, loop, windowVars, historyVars>>

-------------------------------------------------------------------------------
(***************************************************************************)
(* StopProxy, by the window and by each goroutine, and shutdown.           *)
(***************************************************************************)

Moves(p, from, to) ==
    /\ stopper[p] = from
    /\ stopper' = [stopper EXCEPT ![p] = to]

AfterStop(p) == IF p = Shutdown THEN "wait" ELSE "emit"

StopCheck(p) ==
    /\ Moves(p, "check", IF stopCtx \in done THEN AfterStop(p) ELSE "cancel")
    /\ UNCHANGED <<runVars, systemVars, fieldVars, runner, loop, windowVars, historyVars>>

\* proxyStop() of whichever start is current by now.
StopCancel(p) ==
    /\ Moves(p, "cancel", "clear")
    /\ Cancel(stopCtx)
    /\ UNCHANGED <<callVars, chan, systemVars, fieldVars, runner, loop, windowVars, historyVars>>

\* _ = access.ClearProxy()
StopClear(p) ==
    /\ Moves(p, "clear", AfterStop(p))
    /\ \/ ClearProxy(TRUE) /\ setFor' = None /\ excuse' = "none"
       \/ /\ ClearProxy(FALSE) /\ setFor' = setFor
          /\ excuse' = IF setFor # None /\ ctx[setFor] \in done THEN "not cleared" ELSE excuse
    /\ UNCHANGED <<runVars, fieldVars, runner, loop, windowVars, older>>

StopEmit(p) ==
    /\ Moves(p, "emit", "idle")
    /\ Emit("stopped")
    /\ runner' = IF p \in Starts THEN [runner EXCEPT ![p] = "done"] ELSE runner
    /\ UNCHANGED <<runVars, systemVars, fieldVars, loop, starting, historyVars>>

ShutdownBegins ==
    /\ Moves(Shutdown, "idle", "check")
    /\ UNCHANGED <<runVars, systemVars, fieldVars, runner, loop, windowVars, historyVars>>

\* <-tunnelGracefulStopCtx.Done(); the process ends.
ShutdownEnds ==
    /\ graceful \in released
    /\ Moves(Shutdown, "wait", "over")
    /\ UNCHANGED <<runVars, systemVars, fieldVars, runner, loop, windowVars, historyVars>>

-------------------------------------------------------------------------------
(***************************************************************************)
(* The loop over the reports, and the tunnel's callbacks.                  *)
(***************************************************************************)

TakeStatus ==
    /\ loop = None
    /\ Receive("statusUpd")
    /\ LET report == Head(chan["statusUpd"])
       IN  loop' = (IF report.type = "loading" THEN None ELSE report) /\ Emit(report.type)
    /\ UNCHANGED <<callVars, done, systemVars, fieldVars, runner, stopper, starting, historyVars>>

HandleError ==
    /\ loop # None /\ loop.type = "error"
    /\ loop' = None
    /\ Cancel(stopCtx)
    /\ excuse' = IF setFor # None /\ ctx[setFor] = stopCtx /\ stopCtx \notin done
                 THEN "error" ELSE excuse
    /\ UNCHANGED <<callVars, chan, systemVars, fieldVars, runner, stopper, windowVars, older,
                   setFor>>

HandleReady ==
    /\ loop # None /\ loop.type = "ready"
    /\ loop' = None
    /\ SetProxy
    /\ IF setting' = Ours
       THEN /\ setFor' = loop.run
            /\ excuse' = IF ctx[loop.run] \in done THEN "late ready" ELSE "none"
       ELSE UNCHANGED <<setFor, excuse>>
    /\ UNCHANGED <<runVars, fieldVars, runner, stopper, windowVars, older>>

\* Mutant: the callback is bound to the cancel function of the first context.
TunnelStoppedFirst(r) ==
    /\ TunnelStops(r)
    /\ released' = released \cup {None}
    /\ UNCHANGED <<systemVars, stopCtx, graceful, skip, runner, stopper, loop, windowVars,
                   historyVars>>

\* OnTunnelStopped
TunnelStopped(r) ==
    /\ TunnelStops(r)
    /\ released' = released \cup {graceful}
    /\ UNCHANGED <<systemVars, stopCtx, graceful, skip, runner, stopper, loop, windowVars,
                   historyVars>>

\* The user answers tunnel_check: start without the tunnel.
SkipTunnel ==
    /\ Open /\ ~skip
    /\ \E r \in Calls : tun[r] = "running"
    /\ skip' = TRUE
    /\ UNCHANGED <<runVars, systemVars, stopCtx, graceful, released, runner, stopper, loop,
                   windowVars, historyVars>>

-------------------------------------------------------------------------------
RunNext(r) ==
    /\ \/ Begins(r) \/ TunnelStarts(r) \/ StartFails(r) \/ Started(r) \/ Listens(r)
       \/ ServerFails(r) \/ ReportsFailure(r) \/ ServerCloses(r) \/ WakesUp(r) \/ ReportsReady(r)
    /\ UNCHANGED <<systemVars, guiVars>>

Next ==
    /\ stopper[Shutdown] # "over"
    /\ \/ ClickStart \/ ClickStop \/ ShutdownBegins \/ ShutdownEnds
       \/ \E s \in Starts : StartProxy(s) \/ Run(s) \/ Retry(s) \/ ShowError(s) \/ Stop(s)
       \/ \E p \in Stoppers : StopCheck(p) \/ StopCancel(p) \/ StopClear(p) \/ StopEmit(p)
       \/ TakeStatus \/ HandleError \/ HandleReady
       \/ SkipTunnel
       \/ \E r \in Calls : RunNext(r) \/ TunnelStopped(r)

Spec == Init /\ [][Next]_vars

-------------------------------------------------------------------------------
(***************************************************************************)
(* Properties.                                                             *)
(***************************************************************************)

\* The system's proxy is ours only while the run it was set for is not cancelled, or
\* somebody is about to clear it: but for a "ready" that is handled when its run has been
\* cancelled, a run cancelled by an error report, which clears nothing, and a ClearProxy
\* whose error is dropped.
Stopping == \E p \in Stoppers : stopper[p] = "clear"
SystemProxyFollows ==
    setting = Ours /\ ~Stopping =>
        (setFor # None /\ ctx[setFor] \notin done) \/ excuse # "none"

\* The button is not lost: while it is disabled, something is under way that enables it
\* at its end.
Unfinished(s) == runner[s] \notin {"idle", "done"}
ButtonComesBack ==
    disabled => starting \/ stopper[Window] # "idle" \/ \E s \in Starts : Unfinished(s)

LastTunnel == <<graceful, 1>>

\* The application does not end before the last tunnel has stopped (and settled its
\* payments), or one that was still at work when the last was started; and it does not
\* wait for a last tunnel that has stopped.
GracefulStop ==
    graceful # None =>
        /\ stopper[Shutdown] = "over" =>
              \E r \in older \cup {LastTunnel} : tun[r] = "stopped"
        /\ tun[LastTunnel] = "stopped" => graceful \in released

(***************************************************************************)
(* The inductive invariant behind them.                                    *)
(***************************************************************************)

\* Only the current start is not cancelled: whoever starts or stops finds it.
OneLive ==
    /\ None \in done
    /\ stopCtx = None \/ runner[stopCtx] # "idle"
    /\ \A s \in Starts : runner[s] # "idle" /\ s \notin done => stopCtx = s

\* A start's goroutine, its calls and its StopProxy keep step, and it ends only when its
\* context is cancelled.
Stages ==
    /\ \A s \in Starts :
          /\ runner[s] = "stop" <=> stopper[s] # "idle"
          /\ stopper[s] \in {"clear", "emit"} => s \in done
          /\ runner[s] = "done" => s \in done
          /\ s \in released \cup {graceful} => runner[s] \notin {"idle", "new"}
    /\ \A r \in Calls :
          /\ runner[r[1]] \in {"idle", "new"} => phase[r] = "idle"
          /\ phase[r] = "idle" => tun[r] = "off" /\ ready[r] = "off"
          /\ r[2] = 2 => tun[r] = "off"

\* Reports, and with them the system's proxy, are of calls that were made.
Named ==
    /\ \A c \in Channels : chan[c] # <<>> => phase[Head(chan[c]).run] # "idle"
    /\ loop # None => phase[loop.run] # "idle"
    /\ setFor # None => phase[setFor] # "idle"

\* What is ours was set for a run, and can be cleared.
Clearable ==
    setting = Ours =>
        setFor # None /\ (os = "windows" \/ (os = "darwin" /\ authP = "granted"))

\* The last tunnel's context is released when that tunnel stops, or one of those that were
\* at work when it was started and that alone are left; shutdown waits for it.
Released ==
    /\ graceful # None =>
          /\ Pending \subseteq older \cup {LastTunnel}
          /\ graceful \in released <=> \E r \in older \cup {LastTunnel} : tun[r] = "stopped"
    /\ stopper[Shutdown] = "over" => graceful \in released

IInv ==
    /\ GuiTypeOK /\ OneLive /\ Stages /\ Named /\ Clearable /\ Released
    /\ SystemProxyFollows /\ ButtonComesBack
===============================================================================
