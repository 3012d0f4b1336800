------------------------------ MODULE GuiAppProofs ------------------------------
(***************************************************************************)
(* GuiApp: the system's proxy follows its run, the button comes back and   *)
(* the application waits for its tunnel, for any number of starts.         *)
(***************************************************************************)
EXTENDS GuiApp, TLAPS

\* Calls are pairs of a start and a number.
LEMMA Pairs ==
    /\ \A s \in Starts : <<s, 1>> \in Calls /\ <<s, 2>> \in Calls
    /\ \A r \in Calls : /\ r[1] \in Starts /\ r[2] \in {1, 2}
                        /\ r = <<r[1], r[2]>>
BY GuiAssumption

LEMMA InitIsIInv == Init => IInv
<1> SUFFICES ASSUME Init PROVE IInv
  OBVIOUS
<1> USE GuiAssumption
<1>1. RunTypeOK
  BY DEF Init, RunInit, Quiet, RunTypeOK
<1>2. SystemTypeOK
  <2>1. {[on |-> FALSE, server |-> "none"], [on |-> TRUE, server |-> "other"]} \subseteq Settings
    BY DEF Settings
  <2> QED BY <2>1 DEF Init, SystemInit, SystemTypeOK
<1>3. GuiTypeOK
  BY <1>1, <1>2 DEF Init, GuiTypeOK, HistoryTypeOK, Stoppers
<1>4. OneLive /\ Released
  BY DEF Init, OneLive, Released, Stoppers
<1>5. setting # Ours
  BY DEF Init, SystemInit, Ours
<1>6. Stages /\ Named
  BY Pairs DEF Init, RunInit, Quiet, Stages, Stoppers, Named
<1>7. Clearable /\ SystemProxyFollows /\ ButtonComesBack
  BY <1>5 DEF Init, Clearable, SystemProxyFollows, ButtonComesBack
<1> QED BY <1>3, <1>4, <1>6, <1>7 DEF IInv

LEMMA HistoryTyped == ASSUME IInv, UNCHANGED historyVars PROVE HistoryTypeOK'
BY DEF IInv, GuiTypeOK, HistoryTypeOK, historyVars

\* Calls do not become idle again.
LEMMA NamedKept ==
    ASSUME IInv, UNCHANGED <<loop, setFor>>,
           \A r \in Calls : phase[r] # "idle" => phase'[r] # "idle",
           \A c \in Channels : chan'[c] = chan[c] \/ phase'[Head(chan'[c]).run] # "idle"
    PROVE  Named'
<1>1. loop # None => loop.run \in Calls
  BY DEF IInv, GuiTypeOK, Reports
<1>2. setFor # None => setFor \in Calls
  BY DEF IInv, GuiTypeOK, HistoryTypeOK
<1>3. ASSUME NEW c \in Channels, chan[c] # <<>> PROVE Head(chan[c]).run \in Calls
  <2>1. PICK report \in Reports : chan[c] = <<report>>
    BY <1>3 DEF IInv, GuiTypeOK, RunTypeOK
  <2>2. report.run \in Calls
    BY DEF Reports
  <2>3. Head(<<report>>) = report
    OBVIOUS
  <2> QED BY <2>1, <2>2, <2>3
<1>4. \A c \in Channels : chan'[c] # <<>> => phase'[Head(chan'[c]).run] # "idle"
  BY <1>3 DEF IInv, Named
<1> QED BY <1>1, <1>2, <1>4 DEF IInv, Named

\* Steps that let no tunnel stop and make no graceful context.
LEMMA ReleasedKept ==
    ASSUME IInv, UNCHANGED <<graceful, released, older>>,
           stopper'[Shutdown] = "over" => stopper[Shutdown] = "over",
           \A r \in Calls : /\ tun'[r] = "stopped" <=> tun[r] = "stopped"
                            /\ tun'[r] \in {"wanted", "running"} =>
                                  tun[r] \in {"wanted", "running"}
    PROVE  Released'
<1>1. older \in SUBSET Calls
  BY DEF IInv, GuiTypeOK, HistoryTypeOK
<1>2. Pending' \subseteq Pending
  BY DEF Pending
<1>3. LastTunnel' = LastTunnel /\ (graceful # None => LastTunnel \in Calls)
  BY Pairs, GuiAssumption DEF LastTunnel, IInv, GuiTypeOK
<1> QED BY <1>1, <1>2, <1>3 DEF IInv, Released

-------------------------------------------------------------------------------
(***************************************************************************)
(* The steps of a call of RunProxy.                                        *)
(***************************************************************************)

\* A report goes to one channel.
LEMMA Reported ==
    ASSUME RunTypeOK, NEW r \in Calls, NEW type \in {"loading", "ready", "error"},
           Report(r, type)
    PROVE  /\ chan' \in [Channels -> {<<>>} \cup {<<q>> : q \in Reports}]
           /\ \A c \in Channels : chan'[c] = chan[c] \/ Head(chan'[c]).run = r
<1> USE GuiAssumption
<1>1. CASE res[r] = None
  BY <1>1 DEF Report, RunTypeOK
<1>2. CASE res[r] # None
  <2> DEFINE report == [type |-> type, run |-> r]
  <2>1. report \in Reports /\ report.run = r
    BY DEF Reports
  <2>2. res[r] \in Channels
    BY <1>2 DEF RunTypeOK
  <2>3. chan' = [chan EXCEPT ![res[r]] = <<report>>]
    BY <1>2 DEF Report
  <2>4. Head(<<report>>) = report
    OBVIOUS
  <2> HIDE DEF report
  <2> QED BY <2>1, <2>2, <2>3, <2>4 DEF RunTypeOK
<1> QED BY <1>1, <1>2

\* What the application sees of a step of call r.
Course(r) ==
    /\ done' = done /\ ctx' = ctx
    /\ \A q \in Calls \ {r} : phase'[q] = phase[q] /\ tun'[q] = tun[q] /\ ready'[q] = ready[q]
    /\ phase[r] # "idle" /\ phase'[r] # "idle"
    /\ tun'[r] = tun[r] \/ (tun[r] = "wanted" /\ tun'[r] = "running")
    /\ \A c \in Channels : chan'[c] = chan[c] \/ Head(chan'[c]).run = r

LEMMA RunNextIs ==
    ASSUME IInv, NEW r \in Calls, RunNext(r)
    PROVE  RunTypeOK' /\ Course(r) /\ UNCHANGED <<systemVars, guiVars>>
<1> DEFINE Goal == RunTypeOK' /\ Course(r)
<1>0. RunTypeOK /\ (phase[r] = "idle" => ready[r] = "off")
  BY DEF IInv, GuiTypeOK, Stages
<1> USE <1>0 DEF RunTypeOK, Course
<1>1. ASSUME Begins(r) PROVE Goal
  <2>1. Report(r, "loading")
    BY <1>1 DEF Begins
  <2> QED BY <1>1, <2>1, Reported DEF Begins, Goes
<1>2. ASSUME TunnelStarts(r) PROVE Goal
  BY <1>2 DEF TunnelStarts
<1>3. ASSUME StartFails(r) PROVE Goal
  BY <1>3 DEF StartFails, Goes
<1>4. ASSUME Started(r) PROVE Goal
  BY <1>4 DEF Started, Goes
<1>5. ASSUME Listens(r) PROVE Goal
  BY <1>5 DEF Listens, Goes
<1>6. ASSUME ServerFails(r) PROVE Goal
  BY <1>6 DEF ServerFails, Goes
<1>7. ASSUME ReportsFailure(r) PROVE Goal
  <2>1. Report(r, "error")
    BY <1>7 DEF ReportsFailure
  <2> QED BY <1>7, <2>1, Reported DEF ReportsFailure, Goes
<1>8. ASSUME ServerCloses(r) PROVE Goal
  BY <1>8 DEF ServerCloses, Goes
<1>9. ASSUME WakesUp(r) PROVE Goal
  BY <1>9 DEF WakesUp
<1>10. ASSUME ReportsReady(r) PROVE Goal
  <2>1. Report(r, "ready")
    BY <1>10 DEF ReportsReady
  <2> QED BY <1>10, <2>1, Reported DEF ReportsReady
<1>11. UNCHANGED <<systemVars, guiVars>>
  BY DEF RunNext
<1> QED
  BY <1>1, <1>2, <1>3, <1>4, <1>5, <1>6, <1>7, <1>8, <1>9, <1>10, <1>11 DEF RunNext

LEMMA RunNextKeeps == ASSUME IInv, NEW r \in Calls, RunNext(r) PROVE IInv'
<1> USE DEF systemVars, guiVars, fieldVars, windowVars, historyVars
<1>1. RunTypeOK' /\ Course(r) /\ UNCHANGED <<systemVars, guiVars>>
  BY RunNextIs
<1>2. GuiTypeOK'
  BY <1>1, HistoryTyped DEF IInv, GuiTypeOK, SystemTypeOK
<1>3. OneLive'
  BY <1>1 DEF Course, IInv, OneLive
<1>4. Stages'
  BY <1>1, Pairs DEF Course, IInv, Stages
<1>5. Named'
  <2>1. \A q \in Calls : phase[q] # "idle" => phase'[q] # "idle"
    BY <1>1 DEF Course
  <2>2. \A c \in Channels : chan'[c] = chan[c] \/ phase'[Head(chan'[c]).run] # "idle"
    BY <1>1 DEF Course
  <2>3. UNCHANGED <<loop, setFor>>
    BY <1>1
  <2> QED BY <2>1, <2>2, <2>3, NamedKept
<1>6. Released'
  <2>1. \A q \in Calls : \/ tun'[q] = tun[q]
                         \/ tun[q] = "wanted" /\ tun'[q] = "running"
    BY <1>1 DEF Course
  <2> QED BY <1>1, <2>1, ReleasedKept
<1>7. Clearable' /\ SystemProxyFollows' /\ ButtonComesBack'
  BY <1>1 DEF Course, Clearable, IInv, SystemProxyFollows, Stopping, ButtonComesBack,
     Unfinished
<1> QED BY <1>2, <1>3, <1>4, <1>5, <1>6, <1>7 DEF IInv

LEMMA TunnelStoppedKeeps == ASSUME IInv, NEW r \in Calls, TunnelStopped(r) PROVE IInv'
<1> USE DEF systemVars, windowVars, historyVars
<1>1. /\ tun[r] = "running" /\ tun' = [tun EXCEPT ![r] = "stopped"]
      /\ released' = released \cup {graceful}
      /\ UNCHANGED <<phase, ctx, res, error, ready, client, done, chan>>
      /\ UNCHANGED <<systemVars, stopCtx, graceful, skip, runner, stopper, loop, windowVars,
                     historyVars>>
  BY DEF TunnelStopped, TunnelStops
<1>2. GuiTypeOK'
  BY <1>1, HistoryTyped DEF IInv, GuiTypeOK, RunTypeOK, SystemTypeOK
<1>3. OneLive' /\ Named' /\ Clearable' /\ SystemProxyFollows' /\ ButtonComesBack'
  BY <1>1 DEF IInv, OneLive, Named, Clearable, SystemProxyFollows, Stopping,
     ButtonComesBack, Unfinished
<1>4. r = <<r[1], 1>> /\ r[1] \in Starts
  BY <1>1, Pairs DEF IInv, Stages
<1>5. tun'[r] = "stopped" /\ \A q \in Calls \ {r} : tun'[q] = tun[q]
  BY <1>1 DEF IInv, GuiTypeOK, RunTypeOK
<1>6. Stages'
  BY <1>1, <1>4, <1>5 DEF IInv, Stages
<1>7. Released'
  <2>1. r \in Pending /\ Pending' \subseteq Pending
    BY <1>1, <1>5 DEF Pending
  <2>2. ASSUME graceful # None PROVE r \in older \cup {LastTunnel}
    BY <2>1, <2>2 DEF IInv, Released
  <2>3. LastTunnel' = LastTunnel /\ older' = older
    BY <1>1 DEF LastTunnel
  <2> QED BY <1>1, <1>5, <2>1, <2>2, <2>3 DEF IInv, Released
<1> QED BY <1>2, <1>3, <1>6, <1>7 DEF IInv

-------------------------------------------------------------------------------
(***************************************************************************)
(* The window and StartProxy.                                              *)
(***************************************************************************)

LEMMA WindowKeeps == ASSUME IInv, ClickStart \/ ClickStop PROVE IInv'
<1> USE DEF runVars, systemVars, fieldVars, historyVars
<1>1. /\ UNCHANGED <<runVars, systemVars, fieldVars, runner, loop, historyVars>>
      /\ \A s \in Starts : stopper'[s] = stopper[s]
      /\ stopper'[Shutdown] = stopper[Shutdown]
      /\ \A p \in Stoppers : stopper'[p] = "clear" <=> stopper[p] = "clear"
      /\ starting' \/ stopper'[Window] # "idle"
  BY GuiAssumption DEF ClickStart, ClickStop, IInv, GuiTypeOK, Stoppers
<1>2. GuiTypeOK'
  <2>1. RunTypeOK' /\ SystemTypeOK'
    BY <1>1 DEF IInv, GuiTypeOK, RunTypeOK, SystemTypeOK
  <2>2. disabled' \in BOOLEAN /\ starting' \in BOOLEAN /\ isStop' \in BOOLEAN
    BY DEF ClickStart, ClickStop, IInv, GuiTypeOK
  <2>3. stopper' \in [Stoppers ->
                        {"idle", "check", "cancel", "clear", "emit", "wait", "over"}]
    BY DEF ClickStart, ClickStop, IInv, GuiTypeOK
  <2> QED BY <1>1, <2>1, <2>2, <2>3, HistoryTyped DEF IInv, GuiTypeOK
<1>3. OneLive' /\ Named' /\ Clearable' /\ Stages'
  BY <1>1 DEF IInv, OneLive, Named, Clearable, Stages
<1>4. Released' /\ SystemProxyFollows' /\ ButtonComesBack'
  BY <1>1, ReleasedKept DEF IInv, SystemProxyFollows, Stopping, ButtonComesBack
<1> QED BY <1>2, <1>3, <1>4 DEF IInv

LEMMA StartProxyKeeps == ASSUME IInv, NEW s \in Starts, StartProxy(s) PROVE IInv'
<1> USE DEF runVars, systemVars, historyVars
<1>1. UNCHANGED <<runVars, systemVars, graceful, released, skip, stopper, loop,
                  disabled, isStop, historyVars>>
  BY DEF StartProxy
<1>2. GuiTypeOK'
  <2>1. RunTypeOK' /\ SystemTypeOK'
    BY <1>1 DEF IInv, GuiTypeOK, RunTypeOK, SystemTypeOK
  <2>2. stopCtx' \in Contexts /\ starting' \in BOOLEAN
    BY GuiAssumption DEF StartProxy, IInv, GuiTypeOK
  <2>3. runner' \in [Starts -> {"idle", "new", "run", "dialog", "stop", "done"}]
    BY DEF StartProxy, IInv, GuiTypeOK
  <2> QED BY <1>1, <2>1, <2>2, <2>3, HistoryTyped DEF IInv, GuiTypeOK
<1>3. Named' /\ Clearable' /\ Released' /\ SystemProxyFollows'
  BY <1>1, ReleasedKept DEF IInv, Named, Clearable, SystemProxyFollows, Stopping
<1>4. CASE stopCtx \in done
  <2>1. /\ runner[s] = "idle" /\ runner'[s] = "new" /\ stopCtx' = s
        /\ \A q \in Starts \ {s} : runner'[q] = runner[q]
    BY <1>4 DEF StartProxy, IInv, GuiTypeOK
  <2>2. OneLive'
    BY <1>1, <1>4, <2>1 DEF IInv, OneLive
  <2>3. Stages'
    BY <1>1, <2>1, Pairs DEF IInv, Stages
  <2>4. ButtonComesBack'
    BY <2>1 DEF ButtonComesBack, Unfinished
  <2> QED BY <1>2, <1>3, <2>2, <2>3, <2>4 DEF IInv
<1>5. CASE stopCtx \notin done
  <2>1. UNCHANGED <<stopCtx, runner>>
    BY <1>5 DEF StartProxy
  <2>2. OneLive' /\ Stages'
    BY <1>1, <2>1 DEF IInv, OneLive, Stages
  <2>3. stopCtx \in Starts /\ Unfinished(stopCtx)
    BY <1>5, GuiAssumption DEF IInv, GuiTypeOK, OneLive, Stages, Unfinished
  <2>4. ButtonComesBack'
    BY <2>1, <2>3 DEF ButtonComesBack, Unfinished
  <2> QED BY <1>2, <1>3, <2>2, <2>4 DEF IInv
<1> QED BY <1>4, <1>5

\* A call that had not been made is made.
Made(r) ==
    /\ phase[r] = "idle" /\ phase'[r] = "called" /\ tun'[r] \in {"off", "wanted"}
    /\ \A q \in Calls \ {r} : phase'[q] = phase[q] /\ ctx'[q] = ctx[q] /\ tun'[q] = tun[q]
    /\ UNCHANGED <<error, ready, client, done, chan>>

LEMMA MakesCall ==
    ASSUME IInv, NEW r \in Calls, NEW tunnel \in {"off", "wanted"},
           RunProxy(r, stopCtx, "statusUpd", tunnel)
    PROVE  RunTypeOK' /\ Made(r) /\ tun'[r] = tunnel
BY GuiAssumption DEF RunProxy, IInv, GuiTypeOK, RunTypeOK, Made

LEMMA RunKeeps ==
    ASSUME IInv, stopper[Shutdown] # "over", NEW s \in Starts, Run(s)
    PROVE  IInv'
<1> USE DEF systemVars, windowVars, historyVars
<1> DEFINE r == <<s, 1>>
<1>1. r \in Calls /\ r[1] = s /\ r[2] = 1
  BY Pairs
<1>2. RunTypeOK' /\ Made(r)
  BY <1>1, MakesCall DEF Run
<1>3. /\ runner[s] = "new" /\ runner' = [runner EXCEPT ![s] = "run"]
      /\ \/ UNCHANGED <<graceful, older>> /\ tun'[r] = "off"
         \/ graceful' = s /\ older' = Pending /\ tun'[r] = "wanted"
      /\ UNCHANGED <<systemVars, stopCtx, released, skip, stopper, loop, windowVars, setFor,
                     excuse>>
  BY <1>1, MakesCall DEF Run, r
<1> HIDE DEF r
<1>4. GuiTypeOK'
  <2>1. HistoryTypeOK'
    BY <1>3 DEF Pending, IInv, GuiTypeOK, HistoryTypeOK
  <2> QED BY <1>2, <1>3, <2>1, GuiAssumption DEF IInv, GuiTypeOK, SystemTypeOK
<1>5. runner'[s] = "run" /\ \A q \in Starts \ {s} : runner'[q] = runner[q]
  BY <1>3 DEF IInv, GuiTypeOK
<1>6. OneLive'
  BY <1>2, <1>3, <1>5 DEF Made, IInv, OneLive
<1>7. Stages'
  BY <1>1, <1>2, <1>3, <1>5, Pairs DEF Made, IInv, Stages
<1>8. Named' /\ Clearable' /\ SystemProxyFollows' /\ ButtonComesBack'
  <2>1. \A q \in Calls : phase[q] # "idle" => phase'[q] # "idle" /\ ctx'[q] = ctx[q]
    BY <1>2 DEF Made
  <2>2. Named'
    BY <1>2, <1>3, <2>1, NamedKept DEF Made
  <2>3. SystemProxyFollows'
    BY <1>2, <1>3, <2>1 DEF Made, IInv, GuiTypeOK, HistoryTypeOK, Named,
       SystemProxyFollows, Stopping
  <2>4. Clearable' /\ ButtonComesBack'
    BY <1>3, <1>5 DEF IInv, Clearable, ButtonComesBack, Unfinished
  <2> QED BY <2>2, <2>3, <2>4
<1>9. tun[r] = "off" /\ \A q \in Calls \ {r} : tun'[q] = tun[q]
  BY <1>1, <1>2 DEF Made, IInv, Stages
<1>10. Released'
  <2>1. CASE graceful' = s /\ older' = Pending /\ tun'[r] = "wanted"
    <3>1. s \notin released
      BY <1>3 DEF IInv, Stages
    <3>2. LastTunnel' = r
      BY <2>1 DEF LastTunnel, r
    <3>3. Pending' \subseteq Pending \cup {r} /\ r \notin Pending
      BY <1>9 DEF Pending
    <3>4. \A q \in Pending : tun'[q] # "stopped"
      BY <1>9, <3>3 DEF Pending
    <3> QED BY <1>3, <2>1, <3>1, <3>2, <3>3, <3>4 DEF Released
  <2>2. CASE UNCHANGED <<graceful, older>> /\ tun'[r] = "off"
    BY <1>1, <1>3, <1>9, <2>2, ReleasedKept
  <2> QED BY <1>3, <2>1, <2>2
<1> QED BY <1>4, <1>6, <1>7, <1>8, <1>10 DEF IInv

LEMMA RetryKeeps == ASSUME IInv, NEW s \in Starts, Retry(s) PROVE IInv'
<1> USE DEF systemVars, windowVars, historyVars
<1> DEFINE r == <<s, 2>>
<1>1. r \in Calls /\ r[1] = s /\ r[2] = 2
  BY Pairs
<1>2. RunTypeOK' /\ Made(r) /\ tun'[r] = "off"
  BY <1>1, MakesCall DEF Retry
<1>3. /\ runner[s] = "run" /\ skip' = FALSE
      /\ UNCHANGED <<systemVars, stopCtx, graceful, released, runner, stopper, loop,
                     windowVars, historyVars>>
  BY DEF Retry, Finished
<1> HIDE DEF r
<1>4. GuiTypeOK'
  BY <1>2, <1>3, HistoryTyped DEF IInv, GuiTypeOK, SystemTypeOK
<1>5. OneLive'
  BY <1>2, <1>3 DEF Made, IInv, OneLive
<1>6. Stages'
  BY <1>1, <1>2, <1>3 DEF Made, IInv, Stages
<1>7. \A q \in Calls : phase[q] # "idle" => phase'[q] # "idle" /\ ctx'[q] = ctx[q]
  BY <1>2 DEF Made
<1>8. Named'
  BY <1>2, <1>3, <1>7, NamedKept DEF Made
<1>9. Clearable' /\ SystemProxyFollows' /\ ButtonComesBack'
  BY <1>2, <1>3, <1>7 DEF Made, IInv, GuiTypeOK, HistoryTypeOK, Named, Clearable,
     SystemProxyFollows, Stopping, ButtonComesBack, Unfinished
<1>10. Released'
  <2>1. \A q \in Calls : tun'[q] = tun[q]
    BY <1>1, <1>2 DEF Made, IInv, Stages
  <2> QED BY <1>3, <2>1, ReleasedKept
<1> QED BY <1>4, <1>5, <1>6, <1>8, <1>9, <1>10 DEF IInv

LEMMA RunnerKeeps == ASSUME IInv, NEW s \in Starts, ShowError(s) \/ Stop(s) PROVE IInv'
<1> USE DEF runVars, systemVars, fieldVars, windowVars, historyVars
<1>1. /\ runner[s] \in {"run", "dialog"}
      /\ \/ runner'[s] = "dialog" /\ stopper' = stopper
         \/ runner'[s] = "stop" /\ stopper' = [stopper EXCEPT ![s] = "check"]
      /\ \A q \in Starts \ {s} : runner'[q] = runner[q]
      /\ UNCHANGED <<runVars, systemVars, fieldVars, loop, windowVars, historyVars>>
  BY DEF ShowError, Stop, Finished, IInv, GuiTypeOK
<1>2. /\ \/ runner'[s] = "dialog" /\ stopper'[s] = stopper[s]
         \/ runner'[s] = "stop" /\ stopper'[s] = "check"
      /\ \A p \in Stoppers \ {s} : stopper'[p] = stopper[p]
  BY <1>1 DEF IInv, GuiTypeOK, Stoppers
<1>3. GuiTypeOK'
  BY <1>1, HistoryTyped DEF Stoppers, ShowError, Stop, IInv, GuiTypeOK, RunTypeOK, SystemTypeOK
<1>4. OneLive' /\ Named' /\ Clearable'
  <2>1. \A q \in Starts : runner'[q] = "idle" <=> runner[q] = "idle"
    BY <1>1
  <2>2. stopCtx \in Starts \cup {None}
    BY GuiAssumption DEF IInv, GuiTypeOK
  <2>3. OneLive'
    BY <1>1, <2>1, <2>2 DEF IInv, OneLive
  <2> QED BY <1>1, <2>3 DEF IInv, Named, Clearable
<1>5. Stages'
  BY <1>1, <1>2, Pairs DEF Stoppers, IInv, Stages
<1>6. Released'
  BY <1>1, <1>2, ReleasedKept, GuiAssumption DEF Stoppers
<1>7. SystemProxyFollows'
  <2>1. stopper[s] = "idle"
    BY <1>1 DEF IInv, Stages
  <2> QED BY <1>1, <1>2, <2>1 DEF IInv, SystemProxyFollows, Stopping
<1>8. ButtonComesBack'
  BY <1>1 DEF ButtonComesBack, Unfinished
<1> QED BY <1>3, <1>4, <1>5, <1>6, <1>7, <1>8 DEF IInv

-------------------------------------------------------------------------------
(***************************************************************************)
(* StopProxy and shutdown.                                                 *)
(***************************************************************************)

\* Caller p of StopProxy, or shutdown, takes a step that changes nothing else.
Steps(p, from, to) ==
    /\ stopper[p] = from /\ stopper'[p] = to
    /\ \A q \in Stoppers \ {p} : stopper'[q] = stopper[q]
    /\ stopper' \in [Stoppers -> {"idle", "check", "cancel", "clear", "emit", "wait", "over"}]

LEMMA MovesSteps ==
    ASSUME IInv, NEW p \in Stoppers, NEW from,
           NEW to \in {"idle", "check", "cancel", "clear", "emit", "wait", "over"},
           Moves(p, from, to)
    PROVE  Steps(p, from, to)
BY DEF Moves, Steps, IInv, GuiTypeOK

\* Who is in StopProxy finds its own start cancelled or current.
LEMMA OwnStart ==
    ASSUME IInv, NEW s \in Starts, stopper[s] # "idle", s \notin done
    PROVE  stopCtx = s
BY DEF IInv, OneLive, Stages

LEMMA StopCheckKeeps == ASSUME IInv, NEW p \in Stoppers, StopCheck(p) PROVE IInv'
<1> USE DEF runVars, systemVars, fieldVars, windowVars, historyVars
<1> DEFINE to == IF stopCtx \in done THEN AfterStop(p) ELSE "cancel"
<1>1. /\ Moves(p, "check", to)
      /\ UNCHANGED <<runVars, systemVars, fieldVars, runner, loop, windowVars, historyVars>>
  BY DEF StopCheck
<1>2. to \in {"wait", "emit", "cancel"} /\ (to = "emit" => stopCtx \in done)
  BY DEF AfterStop
<1> HIDE DEF to
<1>3. Steps(p, "check", to)
  BY <1>1, <1>2, MovesSteps
<1>4. GuiTypeOK'
  BY <1>1, <1>3, HistoryTyped DEF Steps, IInv, GuiTypeOK, RunTypeOK, SystemTypeOK
<1>5. OneLive' /\ Named' /\ Clearable'
  BY <1>1 DEF IInv, OneLive, Named, Clearable
<1>6. Stages'
  BY <1>1, <1>2, <1>3, OwnStart DEF Steps, Stoppers, IInv, Stages
<1>7. Released'
  BY <1>1, <1>2, <1>3, ReleasedKept DEF Steps, Stoppers
<1>8. SystemProxyFollows'
  BY <1>1, <1>3 DEF Steps, IInv, SystemProxyFollows, Stopping
<1>9. ButtonComesBack'
  BY <1>1, <1>2, <1>3 DEF Steps, Stoppers, IInv, ButtonComesBack, Unfinished
<1> QED BY <1>4, <1>5, <1>6, <1>7, <1>8, <1>9 DEF IInv

\* A cancelled context more; the phase of the calls is untouched.
LEMMA CancelKeeps ==
    ASSUME IInv, Cancel(stopCtx), UNCHANGED <<callVars, stopCtx, graceful, released, runner>>
    PROVE  /\ done' = done \cup {stopCtx} /\ done' \in SUBSET Contexts
           /\ OneLive'
BY DEF Cancel, callVars, IInv, GuiTypeOK, RunTypeOK, OneLive

LEMMA StopCancelKeeps == ASSUME IInv, NEW p \in Stoppers, StopCancel(p) PROVE IInv'
<1> USE DEF callVars, systemVars, fieldVars, windowVars, historyVars
<1>1. UNCHANGED <<callVars, chan, systemVars, fieldVars, runner, loop, windowVars, historyVars>>
  BY DEF StopCancel
<1>2. Steps(p, "cancel", "clear")
  BY MovesSteps DEF StopCancel
<1>3. done' = done \cup {stopCtx} /\ done' \in SUBSET Contexts /\ OneLive'
  BY <1>1, CancelKeeps DEF StopCancel
<1>4. GuiTypeOK'
  BY <1>1, <1>2, <1>3, HistoryTyped DEF Steps, IInv, GuiTypeOK, RunTypeOK, SystemTypeOK
<1>5. Named' /\ Clearable'
  BY <1>1 DEF IInv, Named, Clearable
<1>6. Stages'
  BY <1>1, <1>2, <1>3, OwnStart DEF Steps, Stoppers, IInv, Stages
<1>7. Released'
  BY <1>1, <1>2, ReleasedKept DEF Steps, Stoppers
<1>8. SystemProxyFollows'
  BY <1>2 DEF Steps, SystemProxyFollows, Stopping
<1>9. ButtonComesBack'
  BY <1>1, <1>2 DEF Steps, Stoppers, IInv, ButtonComesBack, Unfinished
<1> QED BY <1>3, <1>4, <1>5, <1>6, <1>7, <1>8, <1>9 DEF IInv

LEMMA ClearTyped ==
    ASSUME SystemTypeOK, NEW succeeds \in BOOLEAN, ClearProxy(succeeds)
    PROVE  SystemTypeOK' /\ UNCHANGED <<os, authP>>
<1>1. setting \in Settings /\ UNCHANGED <<os, authP>>
  BY DEF SystemTypeOK, ClearProxy
<1>2. setting' \in {setting, [setting EXCEPT !.on = FALSE], [on |-> FALSE, server |-> "none"]}
  BY DEF ClearProxy, ClearOnDarwin, ClearOnWindows, NothingOnLinux
<1>3. [setting EXCEPT !.on = FALSE] \in Settings /\ [on |-> FALSE, server |-> "none"] \in Settings
  BY <1>1 DEF Settings
<1> QED BY <1>1, <1>2, <1>3 DEF SystemTypeOK

\* ClearProxy that succeeds leaves nothing of ours.
LEMMA Cleared ==
    ASSUME SystemTypeOK, Clearable, ClearProxy(TRUE)
    PROVE  setting' # Ours
<1> USE DEF Ours
<1>1. setting \in Settings
  BY DEF SystemTypeOK
<1>2. CASE ClearOnDarwin
  BY <1>1, <1>2 DEF ClearOnDarwin, Clearable, Settings
<1>3. CASE ClearOnWindows
  BY <1>1, <1>3 DEF ClearOnWindows, Settings
<1>4. CASE NothingOnLinux
  BY <1>4 DEF NothingOnLinux, Clearable
<1> QED BY <1>2, <1>3, <1>4 DEF ClearProxy

LEMMA SetTyped == ASSUME SystemTypeOK, SetProxy PROVE SystemTypeOK'
<1>1. setting \in Settings /\ os' = os
  BY DEF SystemTypeOK, SetProxy
<1>2. setting' \in {setting, [setting EXCEPT !.on = TRUE], Ours}
  BY DEF SetProxy, SetOnDarwin, SetOnWindows, NotOnLinux
<1>3. [setting EXCEPT !.on = TRUE] \in Settings /\ Ours \in Settings
  BY <1>1 DEF Settings, Ours
<1>4. authP' \in {"unasked", "granted", "refused"}
  BY DEF SetProxy, SetOnDarwin, SetOnWindows, NotOnLinux, SystemTypeOK
<1> QED BY <1>1, <1>2, <1>3, <1>4 DEF SystemTypeOK

\* What SetProxy makes ours can be cleared.
LEMMA SetIsClearable ==
    ASSUME SystemTypeOK, Clearable, SetProxy, setting' = Ours
    PROVE  os' = "windows" \/ (os' = "darwin" /\ authP' = "granted")
BY DEF SetProxy, SetOnDarwin, SetOnWindows, NotOnLinux, Clearable, SystemTypeOK

LEMMA StopClearKeeps == ASSUME IInv, NEW p \in Stoppers, StopClear(p) PROVE IInv'
<1> USE DEF runVars, fieldVars, windowVars
<1>1. /\ UNCHANGED <<runVars, fieldVars, runner, loop, windowVars, older>>
      /\ \/ ClearProxy(TRUE) /\ setFor' = None /\ excuse' = "none"
         \/ /\ ClearProxy(FALSE) /\ setFor' = setFor
            /\ excuse' = IF setFor # None /\ ctx[setFor] \in done THEN "not cleared" ELSE excuse
  BY DEF StopClear
<1>2. AfterStop(p) \in {"wait", "emit"}
  BY DEF AfterStop
<1>3. Steps(p, "clear", AfterStop(p))
  BY <1>2, MovesSteps DEF StopClear
<1>4. GuiTypeOK'
  <2>1. SystemTypeOK'
    BY <1>1, ClearTyped DEF IInv, GuiTypeOK
  <2>2. RunTypeOK'
    BY <1>1 DEF IInv, GuiTypeOK, RunTypeOK
  <2>3. HistoryTypeOK'
    BY <1>1 DEF IInv, GuiTypeOK, HistoryTypeOK
  <2> QED BY <1>1, <1>3, <2>1, <2>2, <2>3 DEF Steps, IInv, GuiTypeOK
<1>5. \/ setting' # Ours /\ setFor' = None
      \/ /\ UNCHANGED systemVars /\ setFor' = setFor
         /\ setFor # None /\ ctx[setFor] \in done => excuse' # "none"
  BY <1>1, Cleared DEF systemVars, ClearProxy, IInv, GuiTypeOK
<1>6. OneLive'
  BY <1>1 DEF IInv, OneLive
<1>7. Named' /\ Clearable' /\ SystemProxyFollows'
  BY <1>1, <1>5 DEF systemVars, IInv, Named, Clearable, SystemProxyFollows
<1>8. Stages'
  BY <1>1, <1>2, <1>3 DEF Steps, Stoppers, IInv, Stages
<1>9. Released'
  BY <1>1, <1>2, <1>3, ReleasedKept DEF Steps, Stoppers
<1>10. ButtonComesBack'
  BY <1>1, <1>2, <1>3 DEF Steps, Stoppers, IInv, ButtonComesBack, Unfinished
<1> QED BY <1>4, <1>6, <1>7, <1>8, <1>9, <1>10 DEF IInv

LEMMA StopEmitKeeps == ASSUME IInv, NEW p \in Stoppers, StopEmit(p) PROVE IInv'
<1> USE DEF runVars, systemVars, fieldVars, historyVars
<1>1. /\ UNCHANGED <<runVars, systemVars, fieldVars, loop, starting, historyVars>>
      /\ disabled' = FALSE /\ isStop' = FALSE
  BY DEF StopEmit, Emit
<1>2. Steps(p, "emit", "idle")
  BY MovesSteps DEF StopEmit
<1>3. /\ runner' \in [Starts -> {"idle", "new", "run", "dialog", "stop", "done"}]
      /\ p \in Starts => runner'[p] = "done"
      /\ \A s \in Starts \ {p} : runner'[s] = runner[s]
  BY DEF StopEmit, IInv, GuiTypeOK
<1>4. GuiTypeOK'
  BY <1>1, <1>2, <1>3, HistoryTyped DEF Steps, IInv, GuiTypeOK, RunTypeOK, SystemTypeOK
<1>5. p \in Starts => p \in done /\ runner[p] = "stop"
  BY <1>2 DEF Steps, IInv, Stages
<1>6. OneLive'
  <2>1. \A s \in Starts : runner'[s] = "idle" <=> runner[s] = "idle"
    BY <1>3, <1>5
  <2>2. stopCtx \in Starts \cup {None}
    BY GuiAssumption DEF IInv, GuiTypeOK
  <2> QED BY <1>1, <2>1, <2>2 DEF IInv, OneLive
<1>7. Stages'
  <2>1. \A s \in Starts : s \in Stoppers
    BY DEF Stoppers
  <2> QED BY <1>1, <1>2, <1>3, <1>5, <2>1, Pairs DEF Steps, IInv, Stages
<1>8. Released' /\ Named' /\ Clearable'
  BY <1>1, <1>2, ReleasedKept DEF Steps, Stoppers, IInv, Named, Clearable
<1>9. SystemProxyFollows' /\ ButtonComesBack'
  BY <1>1, <1>2 DEF Steps, IInv, SystemProxyFollows, Stopping, ButtonComesBack
<1> QED BY <1>4, <1>6, <1>7, <1>8, <1>9 DEF IInv

LEMMA ShutdownKeeps == ASSUME IInv, ShutdownBegins \/ ShutdownEnds PROVE IInv'
<1> USE DEF runVars, systemVars, fieldVars, windowVars, historyVars
<1>1. UNCHANGED <<runVars, systemVars, fieldVars, runner, loop, windowVars, historyVars>>
  BY DEF ShutdownBegins, ShutdownEnds
<1>2. \/ Steps(Shutdown, "idle", "check")
      \/ Steps(Shutdown, "wait", "over") /\ graceful \in released
  BY MovesSteps DEF ShutdownBegins, ShutdownEnds, Stoppers
<1>3. GuiTypeOK'
  BY <1>1, <1>2, HistoryTyped DEF Steps, IInv, GuiTypeOK, RunTypeOK, SystemTypeOK
<1>4. OneLive' /\ Named' /\ Clearable'
  BY <1>1 DEF IInv, OneLive, Named, Clearable
<1>5. Stages'
  BY <1>1, <1>2, GuiAssumption DEF Steps, Stoppers, IInv, Stages
<1>6. Released'
  BY <1>1, <1>2 DEF Steps, IInv, Released, Pending, LastTunnel
<1>7. SystemProxyFollows' /\ ButtonComesBack'
  BY <1>1, <1>2, GuiAssumption DEF Steps, Stoppers, IInv, SystemProxyFollows, Stopping,
     ButtonComesBack, Unfinished
<1> QED BY <1>3, <1>4, <1>5, <1>6, <1>7 DEF IInv

-------------------------------------------------------------------------------
(***************************************************************************)
(* The loop over the reports, and the user's answer.                       *)
(***************************************************************************)

LEMMA TakeStatusKeeps == ASSUME IInv, TakeStatus PROVE IInv'
<1> USE DEF callVars, systemVars, fieldVars, historyVars
<1> DEFINE report == Head(chan["statusUpd"])
<1>1. /\ UNCHANGED <<callVars, done, systemVars, fieldVars, runner, stopper, starting,
                     historyVars>>
      /\ chan["statusUpd"] # <<>> /\ chan' = [chan EXCEPT !["statusUpd"] = <<>>]
      /\ loop' \in {None, report}
      /\ disabled' \in {FALSE, disabled} /\ isStop' \in {TRUE, FALSE, isStop}
  BY DEF TakeStatus, Receive, Emit
<1>2. report \in Reports /\ phase[report.run] # "idle"
  BY <1>1, GuiAssumption DEF IInv, GuiTypeOK, RunTypeOK, Named
<1> HIDE DEF report
<1>3. chan' \in [Channels -> {<<>>} \cup {<<r>> : r \in Reports}]
  BY <1>1 DEF IInv, GuiTypeOK, RunTypeOK
<1>4. GuiTypeOK'
  <2>1. RunTypeOK' /\ SystemTypeOK'
    BY <1>1, <1>3 DEF IInv, GuiTypeOK, RunTypeOK, SystemTypeOK
  <2> QED BY <1>1, <1>2, <2>1, HistoryTyped DEF IInv, GuiTypeOK
<1>5. OneLive' /\ Stages' /\ Released' /\ Clearable'
  BY <1>1, ReleasedKept DEF IInv, OneLive, Stages, Clearable
<1>6. Named'
  <2>1. \A c \in Channels : chan'[c] = <<>>
    BY <1>1, GuiAssumption DEF IInv, GuiTypeOK, RunTypeOK
  <2>2. phase' = phase /\ setFor' = setFor
    BY <1>1
  <2>3. loop' # None => phase[loop'.run] # "idle"
    BY <1>1, <1>2
  <2> QED BY <2>1, <2>2, <2>3 DEF IInv, Named
<1>7. SystemProxyFollows' /\ ButtonComesBack'
  <2>1. UNCHANGED <<ctx, done, stopper, runner, starting, setting, setFor, excuse>>
    BY <1>1
  <2>2. disabled' => disabled
    BY <1>1
  <2> QED BY <2>1, <2>2 DEF IInv, SystemProxyFollows, Stopping, ButtonComesBack, Unfinished
<1> QED BY <1>4, <1>5, <1>6, <1>7 DEF IInv

\* The only cancellation that clears nothing is the one that excuses itself.
LEMMA HandleErrorKeeps == ASSUME IInv, HandleError PROVE IInv'
<1> USE DEF callVars, systemVars, fieldVars, windowVars
<1>1. /\ UNCHANGED <<callVars, chan, systemVars, fieldVars, runner, stopper, windowVars, older,
                     setFor>>
      /\ loop' = None
      /\ excuse' = IF setFor # None /\ ctx[setFor] = stopCtx /\ stopCtx \notin done
                   THEN "error" ELSE excuse
  BY DEF HandleError
<1>2. done' = done \cup {stopCtx} /\ done' \in SUBSET Contexts /\ OneLive'
  BY <1>1, CancelKeeps DEF HandleError
<1>3. GuiTypeOK'
  <2>1. RunTypeOK' /\ SystemTypeOK'
    BY <1>1, <1>2 DEF IInv, GuiTypeOK, RunTypeOK, SystemTypeOK
  <2>2. HistoryTypeOK'
    BY <1>1 DEF IInv, GuiTypeOK, HistoryTypeOK
  <2> QED BY <1>1, <2>1, <2>2 DEF IInv, GuiTypeOK
<1>4. Stages' /\ Named' /\ Clearable' /\ Released'
  BY <1>1, <1>2, ReleasedKept DEF IInv, Stages, Named, Clearable
<1>5. SystemProxyFollows'
  BY <1>1, <1>2 DEF IInv, SystemProxyFollows, Stopping
<1>6. ButtonComesBack'
  BY <1>1 DEF IInv, ButtonComesBack, Unfinished
<1> QED BY <1>2, <1>3, <1>4, <1>5, <1>6 DEF IInv

LEMMA HandleReadyKeeps == ASSUME IInv, HandleReady PROVE IInv'
<1> USE DEF runVars, fieldVars, windowVars
<1>1. /\ UNCHANGED <<runVars, fieldVars, runner, stopper, windowVars, older>>
      /\ loop # None /\ loop' = None /\ SetProxy
      /\ IF setting' = Ours
         THEN /\ setFor' = loop.run
              /\ excuse' = IF ctx[loop.run] \in done THEN "late ready" ELSE "none"
         ELSE UNCHANGED <<setFor, excuse>>
  BY DEF HandleReady
<1>2. loop.run \in Calls /\ phase[loop.run] # "idle" /\ loop.run # None
  BY <1>1, GuiAssumption DEF IInv, GuiTypeOK, Named, Reports
<1>3. GuiTypeOK'
  <2>1. SystemTypeOK'
    BY <1>1, SetTyped DEF IInv, GuiTypeOK
  <2>2. RunTypeOK'
    BY <1>1 DEF IInv, GuiTypeOK, RunTypeOK
  <2>3. HistoryTypeOK'
    BY <1>1, <1>2 DEF IInv, GuiTypeOK, HistoryTypeOK
  <2> QED BY <1>1, <2>1, <2>2, <2>3, HistoryTyped DEF IInv, GuiTypeOK
<1>4. OneLive' /\ Stages' /\ Released'
  BY <1>1, ReleasedKept DEF IInv, OneLive, Stages
<1>5. Clearable'
  BY <1>1, <1>2, SetIsClearable DEF IInv, GuiTypeOK, Clearable
<1>6. Named'
  BY <1>1, <1>2 DEF IInv, Named
<1>7. SystemProxyFollows'
  BY <1>1, <1>2 DEF SystemProxyFollows
<1>8. ButtonComesBack'
  BY <1>1 DEF IInv, ButtonComesBack, Unfinished
<1> QED BY <1>3, <1>4, <1>5, <1>6, <1>7, <1>8 DEF IInv

LEMMA SkipTunnelKeeps == ASSUME IInv, SkipTunnel PROVE IInv'
<1> USE DEF runVars, systemVars, windowVars, historyVars
<1>1. /\ UNCHANGED <<runVars, systemVars, stopCtx, graceful, released, runner, stopper, loop,
                     windowVars, historyVars>>
      /\ skip' = TRUE
  BY DEF SkipTunnel
<1>2. GuiTypeOK'
  BY <1>1, HistoryTyped DEF IInv, GuiTypeOK, RunTypeOK, SystemTypeOK
<1>3. OneLive' /\ Stages' /\ Named' /\ Clearable' /\ Released'
  BY <1>1, ReleasedKept DEF IInv, OneLive, Stages, Named, Clearable
<1>4. SystemProxyFollows' /\ ButtonComesBack'
  BY <1>1 DEF IInv, SystemProxyFollows, Stopping, ButtonComesBack, Unfinished
<1> QED BY <1>2, <1>3, <1>4 DEF IInv

-------------------------------------------------------------------------------
LEMMA Keeps == IInv /\ [Next]_vars => IInv'
<1> SUFFICES ASSUME IInv, [Next]_vars PROVE IInv'
  OBVIOUS
<1>1. CASE UNCHANGED vars
  <2> USE DEF vars, guiVars, runVars, systemVars, fieldVars, windowVars, historyVars
  <2>1. GuiTypeOK'
    BY <1>1, HistoryTyped DEF IInv, GuiTypeOK, RunTypeOK, SystemTypeOK
  <2>2. OneLive' /\ Stages' /\ Named' /\ Clearable'
    BY <1>1 DEF IInv, OneLive, Stages, Named, Clearable
  <2>3. Released' /\ SystemProxyFollows' /\ ButtonComesBack'
    BY <1>1, ReleasedKept DEF IInv, SystemProxyFollows, Stopping, ButtonComesBack,
       Unfinished
  <2> QED BY <2>1, <2>2, <2>3 DEF IInv
<1>2. CASE Next
  <2> stopper[Shutdown] # "over"
    BY <1>2 DEF Next
  <2>1. ASSUME NEW s \in Starts,
               StartProxy(s) \/ Run(s) \/ Retry(s) \/ ShowError(s) \/ Stop(s)
        PROVE  IInv'
    BY <2>1, StartProxyKeeps, RunKeeps, RetryKeeps, RunnerKeeps
  <2>2. ASSUME NEW p \in Stoppers, StopCheck(p) \/ StopCancel(p) \/ StopClear(p) \/ StopEmit(p)
        PROVE  IInv'
    BY <2>2, StopCheckKeeps, StopCancelKeeps, StopClearKeeps, StopEmitKeeps
  <2>3. ASSUME NEW r \in Calls, RunNext(r) \/ TunnelStopped(r) PROVE IInv'
    BY <2>3, RunNextKeeps, TunnelStoppedKeeps
  <2> QED BY <1>2, <2>1, <2>2, <2>3, WindowKeeps, ShutdownKeeps, TakeStatusKeeps,
             HandleErrorKeeps, HandleReadyKeeps, SkipTunnelKeeps DEF Next
<1> QED BY <1>1, <1>2

\* Whoever stops, starts or shuts down finds the current start, the only one that is not
\* cancelled, however the window, the goroutines and the loop interleave (app.go).
THEOREM Invariance == Spec => []IInv
<1>1. Init => IInv
  BY InitIsIInv
<1>2. IInv /\ [Next]_vars => IInv'
  BY Keeps
<1> QED BY <1>1, <1>2, PTL DEF Spec

\* The system's proxy is ours only while its run is not cancelled or somebody is about to
\* clear it, but for the three cases named with the property: a late "ready", an error and a
\* clearing that fails (app.go, StopProxy, shutdown and the loop over the reports).
THEOREM ProxyFollows == Spec => []SystemProxyFollows
<1>1. IInv => SystemProxyFollows
  BY DEF IInv
<1> QED BY <1>1, Invariance, PTL

\* While the button is disabled something is under way that enables it (App.tsx, action).
THEOREM ButtonReturns == Spec => []ButtonComesBack
<1>1. IInv => ButtonComesBack
  BY DEF IInv
<1> QED BY <1>1, Invariance, PTL

\* The application does not end before the last tunnel has stopped, or one that was at work
\* when the last was started, and is not held up by a last tunnel that has (app.go, shutdown
\* and OnTunnelStopped).
THEOREM GracefulEnd == Spec => []GracefulStop
<1>1. IInv => GracefulStop
  BY DEF IInv, Released, GracefulStop
<1> QED BY <1>1, Invariance, PTL
===============================================================================
