-------------------------------- MODULE ProxyRun --------------------------------
(***************************************************************************)
(* One run of the proxy (proxy/proxy.go RunProxy, RunProxyWithConfig,      *)
(* initDNSResolver): it opens one thing after the other, serves until its  *)
(* context is cancelled or the server fails, and closes what it opened.    *)
(* Beside it run the reader of the tunnel's events, the goroutine that     *)
(* shuts the server down, the one that reports "ready" a second after the  *)
(* start, and the caller's consumer of the reports.                        *)
(*                                                                         *)
(* What is opened is external: opening succeeds or fails.  So is the       *)
(* tunnel: it sends events in any order until it stops.                    *)
(***************************************************************************)
EXTENDS Sequences, Naturals

CONSTANTS
    DnsTries,     \* 5: attempts to find the root contract
    MaxEvents     \* bound: events of the tunnel

ASSUME TriesAssumption == DnsTries \in Nat \ {0} /\ MaxEvents \in Nat

VARIABLES
    tunnel,      \* a tunnel is configured
    cancelled,   \* closerCtx is
    pc,          \* where RunProxy is
    tries,       \* attempts made by initDNSResolver
    opened,      \* what is deferred to be closed, in this order
    closed,      \* number of deferred calls made
    open,        \* what is open
    res,         \* the channel of reports, of capacity 1
    tpc,         \* where the reader of the events is
    events,      \* events it has taken
    inited,
    initUpd,     \* what the channel initUpd holds
    server,      \* state of the HTTP server
    shutdown,    \* server.Shutdown was called
    failed,
    rpc          \* where the goroutine that reports "ready" is

mainVars == <<pc, tries, opened, closed>>
tunnelVars == <<tpc, events, inited>>
vars == <<tunnel, cancelled, mainVars, open, res, tunnelVars, initUpd,
          server, shutdown, failed, rpc>>

Resources == {"pool", "gate", "netMgr", "gateway", "dht", "gateStorage", "srv",
              "gateProxy", "transport"}
ServerStates == {"new", "serving", "closed", "failed"}

TypeOK ==
    /\ tunnel \in BOOLEAN /\ cancelled \in BOOLEAN
    /\ pc \in {"start", "config", "startDns", "connect", "dns", "startTunnel", "nodes", "net",
               "startDht", "gateway", "dht", "startRldp", "storage", "proxy", "startHttp",
               "listen", "serve", "error", "unwind", "returned"}
    /\ tries \in 0..DnsTries
    /\ opened \in Seq(Resources) /\ Len(opened) <= 9
    /\ closed \in 0..Len(opened)
    /\ open \subseteq Resources
    /\ res \in Seq({"loading", "ready", "error"}) /\ Len(res) <= 1
    /\ tpc \in {"off", "wait", "report", "done"}
    /\ events \in 0..MaxEvents
    /\ inited \in BOOLEAN
    /\ initUpd \in {"empty", "updated", "error"}
    /\ server \in ServerStates
    /\ shutdown \in BOOLEAN /\ failed \in BOOLEAN
    /\ rpc \in {"off", "sleep", "report", "done"}

Init ==
    /\ tunnel \in BOOLEAN
    /\ cancelled = FALSE
    /\ pc = "start"
    /\ tries = 0
    /\ opened = <<>>
    /\ closed = 0
    /\ open = {}
    /\ res = <<>>
    /\ tpc = "off"
    /\ events = 0
    /\ inited = FALSE
    /\ initUpd = "empty"
    /\ server = "new"
    /\ shutdown = FALSE
    /\ failed = FALSE
    /\ rpc = "off"

CtxDone == cancelled \/ pc = "returned"

\* res <- State{...}
Report(s) == res = <<>> /\ res' = <<s>>

-------------------------------------------------------------------------------
(***************************************************************************)
(* RunProxyWithConfig.                                                     *)
(***************************************************************************)

\* The "loading" reports.
Loading ==
    /\ Report("loading")
    /\ \E step \in {<<"start", "config">>, <<"startDns", "connect">>, <<"startTunnel", "nodes">>,
                    <<"startDht", "gateway">>, <<"startRldp", "storage">>, <<"startHttp", "listen">>} :
          pc = step[1] /\ pc' = step[2]
    /\ UNCHANGED <<tunnel, cancelled, tries, opened, closed, open, tunnelVars, initUpd,
                   server, shutdown, failed, rpc>>

\* The network's configuration: a broken file is an error.
Config ==
    /\ pc = "config"
    /\ pc' \in {"startDns", "returned"}
    /\ UNCHANGED <<tunnel, cancelled, tries, opened, closed, open, res, tunnelVars, initUpd,
                   server, shutdown, failed, rpc>>

\* initDNSResolver makes the pool and connects it; on an error nobody stops the pool.
ConnectPool ==
    /\ pc = "connect"
    /\ open' = open \cup {"pool"}
    /\ pc' \in {"dns", "unwind"}
    /\ UNCHANGED <<tunnel, cancelled, tries, opened, closed, res, tunnelVars, initUpd,
                   server, shutdown, failed, rpc>>

\* Mutant: the pool is not stopped at the end.
FindRootUnstopped ==
    /\ pc = "dns"
    /\ tries' = tries + 1
    /\ \/ pc' = IF tunnel THEN "startTunnel" ELSE "net"
       \/ pc' = IF tries' = DnsTries THEN "unwind" ELSE "dns"
    /\ UNCHANGED <<tunnel, cancelled, opened, closed, open, res, tunnelVars, initUpd,
                   server, shutdown, failed, rpc>>

\* One attempt to find the root contract.
FindRoot ==
    /\ pc = "dns"
    /\ tries' = tries + 1
    /\ \/ opened' = <<"pool">> /\ pc' = IF tunnel THEN "startTunnel" ELSE "net"
       \/ opened' = opened /\ pc' = IF tries' = DnsTries THEN "unwind" ELSE "dns"
    /\ UNCHANGED <<tunnel, cancelled, closed, open, res, tunnelVars, initUpd,
                   server, shutdown, failed, rpc>>

\* The file of the tunnel's nodes; then the tunnel and the reader of its events start.
Nodes ==
    /\ pc = "nodes"
    /\ \/ pc' = "net" /\ tpc' = "wait"
       \/ pc' = "unwind" /\ tpc' = tpc
    /\ UNCHANGED <<tunnel, cancelled, tries, opened, closed, open, res, events, inited, initUpd,
                   server, shutdown, failed, rpc>>

\* <-initUpd
AwaitTunnel ==
    /\ pc = "net" /\ tunnel
    /\ \/ initUpd = "updated" /\ opened' = opened \o <<"gate", "netMgr">> /\ pc' = "startDht"
       \/ initUpd = "error" /\ opened' = opened /\ pc' = "unwind"
    /\ initUpd' = "empty"
    /\ UNCHANGED <<tunnel, cancelled, tries, closed, open, res, tunnelVars,
                   server, shutdown, failed, rpc>>

\* Opens rs, closes them when the run ends, and goes on; or returns an error.
Opens(step, rs, next) ==
    /\ pc = step
    /\ \/ /\ opened' = opened \o rs
          /\ open' = open \cup {rs[i] : i \in DOMAIN rs}
          /\ pc' = next
       \/ pc' = "unwind" /\ UNCHANGED <<opened, open>>
    /\ UNCHANGED <<tunnel, cancelled, tries, closed, res, tunnelVars, initUpd,
                   server, shutdown, failed, rpc>>

OpenListener == ~tunnel /\ Opens("net", <<"gate", "netMgr">>, "startDht")
StartGateway == Opens("gateway", <<"gateway">>, "dht")
StartDht == Opens("dht", <<"dht">>, "startRldp")

\* Mutant: the storage server is deferred before the gateway it uses.
StartStorageSwapped == Opens("storage", <<"srv", "gateStorage">>, "proxy")

StartStorage == Opens("storage", <<"gateStorage", "srv">>, "proxy")
StartProxyGate == Opens("proxy", <<"gateProxy">>, "startHttp")

\* The transport, the two goroutines of the server, and the call of ListenAndServe.
Start ==
    /\ pc = "listen"
    /\ opened' = Append(opened, "transport")
    /\ open' = open \cup {"transport"}
    /\ rpc' = "sleep"
    /\ pc' = "serve"
    /\ UNCHANGED <<tunnel, cancelled, tries, closed, res, tunnelVars, initUpd,
                   server, shutdown, failed>>

\* ListenAndServe listens; when the address is taken it returns an error.
Listen ==
    /\ pc = "serve" /\ server = "new" /\ ~shutdown
    /\ \/ server' = "serving" /\ UNCHANGED <<failed, pc>>
       \/ server' = "failed" /\ failed' = TRUE /\ pc' = "error"
    /\ UNCHANGED <<tunnel, cancelled, tries, opened, closed, open, res, tunnelVars, initUpd,
                   shutdown, rpc>>

AcceptFails ==
    /\ pc = "serve" /\ server = "serving" /\ ~shutdown
    /\ server' = "failed"
    /\ UNCHANGED <<tunnel, cancelled, mainVars, open, res, tunnelVars, initUpd,
                   shutdown, failed, rpc>>

\* Mutant: a server that fails is not reported.
ServeReturnsUnreported ==
    /\ pc = "serve"
    /\ \/ /\ server \in {"new", "serving"} /\ shutdown
          /\ server' = "closed" /\ failed' = failed
          /\ pc' = "unwind"
       \/ /\ server = "failed"
          /\ server' = server /\ failed' = TRUE
          /\ pc' = "unwind"
    /\ UNCHANGED <<tunnel, cancelled, tries, opened, closed, open, res, tunnelVars, initUpd,
                   shutdown, rpc>>

\* ListenAndServe returns: ErrServerClosed is no error.
ServeReturns ==
    /\ pc = "serve"
    /\ \/ /\ server \in {"new", "serving"} /\ shutdown
          /\ server' = "closed" /\ failed' = failed
          /\ pc' = "unwind"
       \/ /\ server = "failed"
          /\ server' = server /\ failed' = TRUE
          /\ pc' = "error"
    /\ UNCHANGED <<tunnel, cancelled, tries, opened, closed, open, res, tunnelVars, initUpd,
                   shutdown, rpc>>

ReportError ==
    /\ pc = "error"
    /\ Report("error")
    /\ pc' = "unwind"
    /\ UNCHANGED <<tunnel, cancelled, tries, opened, closed, open, tunnelVars, initUpd,
                   server, shutdown, failed, rpc>>

\* Mutant: what was opened first is closed first.
UnwindForwards ==
    /\ pc = "unwind"
    /\ IF closed = Len(opened)
       THEN pc' = "returned" /\ UNCHANGED <<closed, open>>
       ELSE /\ open' = open \ {opened[closed + 1]}
            /\ closed' = closed + 1
            /\ pc' = pc
    /\ UNCHANGED <<tunnel, cancelled, tries, opened, res, tunnelVars, initUpd,
                   server, shutdown, failed, rpc>>

\* The deferred calls, the last first; the first deferred one cancels ctx.
Unwind ==
    /\ pc = "unwind"
    /\ IF closed = Len(opened)
       THEN pc' = "returned" /\ UNCHANGED <<closed, open>>
       ELSE /\ open' = open \ {opened[Len(opened) - closed]}
            /\ closed' = closed + 1
            /\ pc' = pc
    /\ UNCHANGED <<tunnel, cancelled, tries, opened, res, tunnelVars, initUpd,
                   server, shutdown, failed, rpc>>

-------------------------------------------------------------------------------
(***************************************************************************)
(* The reader of the tunnel's events.                                      *)
(***************************************************************************)

TakesEvent == tpc = "wait" /\ events < MaxEvents /\ events' = events + 1

\* MsgEvent before the first UpdatedEvent, or ConfigurationErrorEvent at any time.
TunnelTells ==
    /\ TakesEvent
    /\ tpc' = "report"
    /\ UNCHANGED <<tunnel, cancelled, mainVars, open, res, inited, initUpd,
                   server, shutdown, failed, rpc>>

TunnelReport ==
    /\ tpc = "report"
    /\ Report("loading")
    /\ tpc' = "wait"
    /\ UNCHANGED <<tunnel, cancelled, mainVars, open, events, inited, initUpd,
                   server, shutdown, failed, rpc>>

\* select { case initUpd <- e: default: }
OfferInit(e) == initUpd' = IF initUpd = "empty" THEN e ELSE initUpd

\* The first UpdatedEvent makes netMgr and gate; later ones change nothing here.
TunnelUpdated ==
    /\ TakesEvent
    /\ ~inited
    /\ inited' = TRUE
    /\ open' = open \cup {"netMgr", "gate"}
    /\ OfferInit("updated")
    /\ UNCHANGED <<tunnel, cancelled, mainVars, res, tpc, server, shutdown, failed, rpc>>

TunnelError ==
    /\ TakesEvent
    /\ OfferInit("error")
    /\ UNCHANGED <<tunnel, cancelled, mainVars, open, res, tpc, inited,
                   server, shutdown, failed, rpc>>

\* StoppedEvent.
TunnelStopped ==
    /\ tpc = "wait"
    /\ tpc' = "done"
    /\ UNCHANGED <<tunnel, cancelled, mainVars, open, res, events, inited, initUpd,
                   server, shutdown, failed, rpc>>

-------------------------------------------------------------------------------
(***************************************************************************)
(* The server's goroutines and the caller.                                 *)
(***************************************************************************)

\* Mutant: the goroutine waits for a context that only the return of RunProxy cancels.
ShutdownAtReturn ==
    /\ pc = "returned" /\ rpc # "off"
    /\ ~shutdown
    /\ shutdown' = TRUE
    /\ UNCHANGED <<tunnel, cancelled, mainVars, open, res, tunnelVars, initUpd,
                   server, failed, rpc>>

\* <-ctx.Done(); server.Shutdown(ctx)
Shutdown ==
    /\ pc \in {"serve", "error", "unwind", "returned"} /\ rpc # "off"
    /\ CtxDone
    /\ ~shutdown
    /\ shutdown' = TRUE
    /\ UNCHANGED <<tunnel, cancelled, mainVars, open, res, tunnelVars, initUpd,
                   server, failed, rpc>>

\* The second is over, by when ListenAndServe has tried to listen; failed is loaded
\* without a lock, perhaps just before it is stored.
WakeUp ==
    /\ rpc = "sleep"
    /\ server # "new"
    /\ rpc' = IF failed THEN "done" ELSE "report"
    /\ UNCHANGED <<tunnel, cancelled, mainVars, open, res, tunnelVars, initUpd,
                   server, shutdown, failed>>

ReportReady ==
    /\ rpc = "report"
    /\ Report("ready")
    /\ rpc' = "done"
    /\ UNCHANGED <<tunnel, cancelled, mainVars, open, tunnelVars, initUpd,
                   server, shutdown, failed>>

\* The caller takes a report.
Consume ==
    /\ res # <<>>
    /\ res' = <<>>
    /\ UNCHANGED <<tunnel, cancelled, mainVars, open, tunnelVars, initUpd,
                   server, shutdown, failed, rpc>>

\* The caller cancels closerCtx.
Cancel ==
    /\ ~cancelled
    /\ cancelled' = TRUE
    /\ UNCHANGED <<tunnel, mainVars, open, res, tunnelVars, initUpd,
                   server, shutdown, failed, rpc>>

-------------------------------------------------------------------------------
Main ==
    \/ Loading \/ Config \/ ConnectPool \/ FindRoot \/ Nodes \/ AwaitTunnel \/ OpenListener
    \/ StartGateway \/ StartDht \/ StartStorage \/ StartProxyGate
    \/ Start \/ Listen \/ ServeReturns \/ ReportError \/ Unwind

Tunnel == TunnelTells \/ TunnelReport \/ TunnelUpdated \/ TunnelError \/ TunnelStopped

Next ==
    \/ Main \/ Tunnel \/ AcceptFails
    \/ Shutdown \/ WakeUp \/ ReportReady
    \/ Consume \/ Cancel

Spec == Init /\ [][Next]_vars

(***************************************************************************)
(* Every goroutine goes on while it can; senders that wait on the channel  *)
(* of reports are served in turn (strong fairness), and the caller takes   *)
(* what is reported.  What is opened succeeds or fails.  The tunnel owes   *)
(* nothing.                                                                *)
(***************************************************************************)
Fairness ==
    /\ WF_vars(Main) /\ SF_vars(Loading) /\ SF_vars(ReportError)
    /\ SF_vars(TunnelReport)
    /\ WF_vars(Shutdown) /\ WF_vars(WakeUp) /\ SF_vars(ReportReady)
    /\ WF_vars(Consume)

FairSpec == Spec /\ Fairness

\* While RunProxy waits for it, the tunnel does not stop, and it tells in the end
\* whether it is up.
TunnelAnswers ==
    /\ [](pc = "net" /\ tunnel => tpc # "done")
    /\ pc = "net" /\ tunnel ~> initUpd # "empty" \/ pc # "net"

-------------------------------------------------------------------------------
(***************************************************************************)
(* Properties.                                                             *)
(***************************************************************************)

\* What each thing is built on.
Needs ==
    [r \in Resources |->
        CASE r \in {"gate", "gateway", "gateStorage", "gateProxy"} -> {"netMgr"}
          [] r = "dht" -> {"gateway"}
          [] r = "srv" -> {"dht", "gateStorage"}
          [] r = "transport" -> {"pool", "dht", "srv", "gateProxy"}
          [] OTHER -> {}]

\* The deferred calls of proxy.go:347-348 run in the wrong order: netMgr is closed, and
\* gate, the last but the pool, is not yet.
GateOutlivesNetMgr == pc = "unwind" /\ open = {"pool", "gate"}

\* At no time, start-up, failure and shutdown included, is something closed that
\* something still open is built on; but for gate, between the closing of netMgr and
\* its own, the next.
NeededIsOpen ==
    \A r \in open : Needs[r] \subseteq open \/ (r = "gate" /\ GateOutlivesNetMgr)

\* Whichever step fails, RunProxy leaves nothing open when it returns.  Two things are
\* left, and no others: the pool whose initDNSResolver failed, and what a tunnel makes
\* that RunProxy has not waited for.
NothingLeft ==
    pc = "returned" =>
        \/ open = {}
        \/ open = {"pool"} /\ opened = <<>>
        \/ open = {"gate", "netMgr"} /\ tunnel /\ opened = <<"pool">>

(***************************************************************************)
(* The inductive invariant behind the two.                                 *)
(***************************************************************************)

\* The things RunProxy opens, in the order in which it defers their closing.
Order == <<"pool", "gate", "netMgr", "gateway", "dht", "gateStorage", "srv", "gateProxy",
           "transport">>
FirstOf(k) == {Order[i] : i \in 1..k}

\* How many calls are deferred tells how far RunProxy came.
OpenedInOrder ==
    /\ \A i \in 1..Len(opened) : opened[i] = Order[i]
    /\ Len(opened) # 2
    /\ pc \in {"start", "config", "startDns", "connect", "dns"} => Len(opened) = 0
    /\ pc \in {"startTunnel", "nodes", "net"} => Len(opened) = 1
    /\ pc \in {"startDht", "gateway"} => Len(opened) = 3
    /\ pc = "dht" => Len(opened) = 4
    /\ pc \in {"startRldp", "storage"} => Len(opened) = 5
    /\ pc = "proxy" => Len(opened) = 7
    /\ pc \in {"startHttp", "listen"} => Len(opened) = 8
    /\ pc \in {"serve", "error"} => Len(opened) = 9
    /\ pc \notin {"unwind", "returned"} => closed = 0
    /\ pc = "returned" => closed = Len(opened)
    /\ pc \in {"start", "config", "startDns", "connect"} => tries = 0
    /\ pc = "dns" => tries < DnsTries

\* What is open is what was opened and not closed; but the pool is open before its
\* closing is deferred, and what the tunnel makes may never be deferred.
StillOpen ==
    /\ pc \in {"start", "config", "startDns", "connect"} => open = {}
    /\ pc = "dns" => open = {"pool"}
    /\ Len(opened) = 0 => open \in {{}, {"pool"}}
    /\ Len(opened) = 1 =>
          open = FirstOf(1 - closed) \cup (IF inited THEN {"gate", "netMgr"} ELSE {})
    /\ Len(opened) > 1 => open = FirstOf(Len(opened) - closed)

\* RunProxy waits for a tunnel that it has started, and goes on when it has made netMgr
\* and gate.
TunnelMade ==
    /\ tpc # "off" => tunnel /\ Len(opened) > 0
    /\ inited \/ initUpd # "empty" => tpc # "off"
    /\ initUpd = "updated" => inited
    /\ tunnel /\ Len(opened) > 1 => inited
    /\ pc \in {"startTunnel", "nodes"} => tunnel /\ tpc = "off"
    /\ tunnel /\ pc = "net" => tpc # "off"

\* The server exists from the transport on; it is shut down when the run is cancelled or
\* returns, and its failure ends the run.
ServerStarted ==
    /\ rpc = "off" <=> Len(opened) < 9
    /\ rpc = "off" => server = "new" /\ ~shutdown /\ ~failed
    /\ pc = "serve" => ~failed
    /\ pc = "error" => failed
    /\ shutdown => cancelled \/ pc = "returned"

IInv == TypeOK /\ OpenedInOrder /\ StillOpen /\ TunnelMade /\ ServerStarted

\* A cancelled run returns, wherever it is and whatever fails, if the tunnel answers
\* and the caller takes the reports.
StopReturns == TunnelAnswers => (cancelled ~> pc = "returned")

(***************************************************************************)
(* What a caller sees of the run: a call of RunProxy in module Runs.       *)
(***************************************************************************)

Phase ==
    CASE pc = "start" -> "called"
      [] pc = "serve" /\ server = "new" -> "listen"
      [] pc = "serve" /\ server # "new" -> "serving"
      [] pc = "error" -> "failing"
      [] pc \in {"unwind", "returned"} -> "over"
      [] OTHER -> "starting"

TunnelState ==
    CASE ~tunnel -> "off"
      [] tunnel /\ tpc = "off" -> "wanted"
      [] tpc \in {"wait", "report"} -> "running"
      [] tpc = "done" -> "stopped"

Failed == failed \/ (pc \in {"unwind", "returned"} /\ rpc = "off")

Call == INSTANCE Runs WITH
    Calls <- {1}, Contexts <- {1}, Channels <- {1}, None <- 0,
    phase <- <<Phase>>,
    ctx <- <<1>>,
    res <- <<1>>,
    tun <- <<TunnelState>>,
    error <- IF Failed THEN {1} ELSE {},
    ready <- <<rpc>>,
    client <- IF rpc = "off" THEN 0 ELSE 1,
    done <- IF cancelled THEN {1} ELSE {},
    chan <- <<[i \in DOMAIN res |-> [type |-> res[i], run |-> 1]]>>

\* For its callers, with all its goroutines, resources and failures, a run is a call of
\* module Runs: it reports, serves, fails and returns only as that module allows, and
\* reports "error" before it returns exactly if its server failed.
ImplementsRun == Call!RunSpec
===============================================================================
