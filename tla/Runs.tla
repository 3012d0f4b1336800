---------------------------------- MODULE Runs ----------------------------------
(***************************************************************************)
(* Calls of RunProxy (proxy/proxy.go) as their callers see them: contexts  *)
(* that are cancelled, reports on a channel, a server on one port, a       *)
(* return.  The calls of one process share the port and the package's      *)
(* variable client, through which every server sends its requests.         *)
(*                                                                         *)
(* ProxyRun has the steps inside of one call and implements this module;   *)
(* GuiApp and NativeLib make the calls.                                    *)
(***************************************************************************)
EXTENDS Sequences

CONSTANTS
    Calls,        \* calls of RunProxy or RunProxyWithConfig
    Contexts,     \* contexts that callers pass
    Channels,     \* channels of reports, each of capacity 1
    None

VARIABLES
    phase,        \* how far each call is; "over": its outcome is settled
    ctx,          \* the context it was given
    res,          \* the channel it was given, or None
    tun,          \* its tunnel: "off" if none is configured
    error,        \* calls that failed
    ready,        \* where the goroutine is that reports "ready"
    client,       \* the call whose transport the variable client holds
    done,         \* contexts that are cancelled
    chan          \* what each channel holds

runVars == <<phase, ctx, res, tun, error, ready, client, done, chan>>

Reports == [type : {"loading", "ready", "error"}, run : Calls]

RunTypeOK ==
    /\ phase \in [Calls -> {"idle", "called", "starting", "listen", "serving", "failing",
                            "over"}]
    /\ ctx \in [Calls -> Contexts \cup {None}]
    /\ res \in [Calls -> Channels \cup {None}]
    /\ tun \in [Calls -> {"off", "wanted", "running", "stopped"}]
    /\ error \in SUBSET Calls
    /\ ready \in [Calls -> {"off", "sleep", "report", "done"}]
    /\ client \in Calls \cup {None}
    /\ done \in SUBSET Contexts
    /\ chan \in [Channels -> {<<>>} \cup {<<r>> : r \in Reports}]

\* Nothing has been opened, reported or assigned yet.
Quiet ==
    /\ error = {}
    /\ ready = [r \in Calls |-> "off"]
    /\ client = None
    /\ chan = [c \in Channels |-> <<>>]

RunInit ==
    /\ phase = [r \in Calls |-> "idle"]
    /\ ctx = [r \in Calls |-> None]
    /\ res = [r \in Calls |-> None]
    /\ tun = [r \in Calls |-> "off"]
    /\ Quiet

-------------------------------------------------------------------------------
(***************************************************************************)
(* The callers' side.                                                      *)
(***************************************************************************)

\* A goroutine of the caller calls RunProxy.
RunProxy(r, context, channel, tunnel) ==
    /\ phase[r] = "idle"
    /\ phase' = [phase EXCEPT ![r] = "called"]
    /\ ctx' = [ctx EXCEPT ![r] = context]
    /\ res' = [res EXCEPT ![r] = channel]
    /\ tun' = [tun EXCEPT ![r] = tunnel]
    /\ UNCHANGED <<error, ready, client, done, chan>>

\* The context's cancel function; calling it again changes nothing.
Cancel(context) == done' = done \cup {context}

\* A receive from the channel.
Receive(channel) ==
    /\ chan[channel] # <<>>
    /\ chan' = [chan EXCEPT ![channel] = <<>>]

-------------------------------------------------------------------------------
(***************************************************************************)
(* The call's side.                                                        *)
(***************************************************************************)

\* res <- State{...}, which waits for room; without a channel nothing is sent.
Report(r, type) ==
    IF res[r] = None
    THEN chan' = chan
    ELSE /\ chan[res[r]] = <<>>
         /\ chan' = [chan EXCEPT ![res[r]] = <<[type |-> type, run |-> r]>>]

Goes(r, from, to) == phase[r] \in from /\ phase' = [phase EXCEPT ![r] = to]

\* The first report is "loading".
Begins(r) ==
    /\ Goes(r, {"called"}, "starting")
    /\ Report(r, "loading")
    /\ UNCHANGED <<ctx, res, tun, error, ready, client, done>>

\* So are those of the steps of the start-up, and those of the reader of the tunnel's
\* events at any time.
Loading(r) ==
    /\ phase[r] = "starting" \/ tun[r] = "running"
    /\ Report(r, "loading")
    /\ UNCHANGED <<phase, ctx, res, tun, error, ready, client, done>>

\* RunTunnel and the reader of its events are started; the tunnel stops when it likes.
TunnelStarts(r) ==
    /\ phase[r] = "starting" /\ tun[r] = "wanted"
    /\ tun' = [tun EXCEPT ![r] = "running"]
    /\ UNCHANGED <<phase, ctx, res, error, ready, client, done, chan>>

TunnelStops(r) ==
    /\ tun[r] = "running"
    /\ tun' = [tun EXCEPT ![r] = "stopped"]
    /\ UNCHANGED <<phase, ctx, res, error, ready, client, done, chan>>

\* A step of the start-up fails.
StartFails(r) ==
    /\ Goes(r, {"starting"}, "over")
    /\ error' = error \cup {r}
    /\ UNCHANGED <<ctx, res, tun, ready, client, done, chan>>

\* Mutant: only the first transport is assigned.
StartedOnce(r) ==
    /\ tun[r] # "wanted"
    /\ Goes(r, {"starting"}, "listen")
    /\ client' = IF client = None THEN r ELSE client
    /\ ready' = [ready EXCEPT ![r] = "sleep"]
    /\ UNCHANGED <<ctx, res, tun, error, done, chan>>

\* The transport is made and assigned to client, cancelled or not.
Started(r) ==
    /\ tun[r] # "wanted"
    /\ Goes(r, {"starting"}, "listen")
    /\ client' = r
    /\ ready' = [ready EXCEPT ![r] = "sleep"]
    /\ UNCHANGED <<ctx, res, tun, error, done, chan>>

Listens(r) ==
    /\ \A q \in Calls : phase[q] # "serving"
    /\ Goes(r, {"listen"}, "serving")
    /\ UNCHANGED <<ctx, res, tun, error, ready, client, done, chan>>

\* The port is taken, by another call or another program, or the server breaks.
ServerFails(r) ==
    /\ Goes(r, {"listen", "serving"}, "failing")
    /\ error' = error \cup {r}
    /\ UNCHANGED <<ctx, res, tun, ready, client, done, chan>>

ReportsFailure(r) ==
    /\ Goes(r, {"failing"}, "over")
    /\ Report(r, "error")
    /\ UNCHANGED <<ctx, res, tun, error, ready, client, done>>

\* The context is cancelled and the server shut down.
ServerCloses(r) ==
    /\ ctx[r] \in done
    /\ Goes(r, {"listen", "serving"}, "over")
    /\ UNCHANGED <<ctx, res, tun, error, ready, client, done, chan>>

\* A second after the start: whether the server has failed by now decides.
WakesUp(r) ==
    /\ ready[r] = "sleep" /\ phase[r] # "listen"
    /\ ready' = [ready EXCEPT ![r] = IF r \in error THEN "done" ELSE "report"]
    /\ UNCHANGED <<phase, ctx, res, tun, error, client, done, chan>>

ReportsReady(r) ==
    /\ ready[r] = "report"
    /\ Report(r, "ready")
    /\ ready' = [ready EXCEPT ![r] = "done"]
    /\ UNCHANGED <<phase, ctx, res, tun, error, client, done>>

RunStep(r) ==
    \/ Begins(r) \/ Loading(r) \/ TunnelStarts(r) \/ TunnelStops(r)
    \/ StartFails(r) \/ Started(r) \/ Listens(r) \/ ServerFails(r) \/ ReportsFailure(r)
    \/ ServerCloses(r) \/ WakesUp(r) \/ ReportsReady(r)

-------------------------------------------------------------------------------
(***************************************************************************)
(* The calls with any callers.                                             *)
(***************************************************************************)

CallerStep ==
    \/ \E r \in Calls, c \in Contexts, ch \in Channels \cup {None}, t \in {"off", "wanted"} :
          RunProxy(r, c, ch, t)
    \/ /\ \E c \in Contexts : Cancel(c)
       /\ UNCHANGED <<phase, ctx, res, tun, error, ready, client, chan>>
    \/ /\ \E c \in Channels : Receive(c)
       /\ UNCHANGED <<phase, ctx, res, tun, error, ready, client, done>>

\* Initially some calls may have begun.
RunBegun ==
    /\ phase \in [Calls -> {"idle", "called"}]
    /\ ctx \in [Calls -> Contexts \cup {None}] /\ done \in SUBSET Contexts
    /\ res \in [Calls -> Channels \cup {None}] /\ tun \in [Calls -> {"off", "wanted"}]
    /\ Quiet

CallNext == CallerStep \/ \E r \in Calls : RunStep(r)

RunSpec == RunBegun /\ [][CallNext]_runVars
===============================================================================
