---------------------------- MODULE NativeLibProofs ----------------------------
(***************************************************************************)
(* NativeLib: what runs can be stopped, has its own transport, frees the   *)
(* library when it fails, and is answered, for any number of starts.       *)
(***************************************************************************)
EXTENDS NativeLib, TLAPS

LEMMA Starts == Init => IInv
<1> SUFFICES ASSUME Init PROVE IInv
  OBVIOUS
<1> USE StartsAssumption
<1>1. LibTypeOK
  BY DEF Init, RunInit, Quiet, LibTypeOK, RunTypeOK
<1>2. Stages /\ OneAtATime /\ Watching
  BY DEF Init, RunInit, Stages, OneAtATime, Watching, Begun, Entering
<1>3. Alone /\ FailureFrees /\ AnswerArrives
  BY DEF Init, RunInit, Quiet, Alone, FailureFrees, AnswerArrives, Begun
<1> QED BY <1>1, <1>2, <1>3 DEF IInv

-------------------------------------------------------------------------------
(***************************************************************************)
(* The steps of a call of RunProxy.                                        *)
(***************************************************************************)

\* A report fills the channel it goes to and leaves the others.
LEMMA Reported ==
    ASSUME LibTypeOK, NEW r \in Calls, NEW type \in {"loading", "ready", "error"},
           Report(r, type)
    PROVE  /\ chan' \in [Channels -> {<<>>} \cup {<<q>> : q \in Reports}]
           /\ \A c \in Channels : chan[c] # <<>> => chan'[c] = chan[c]
           /\ res[r] \in Channels => chan'[res[r]] # <<>>
<1>1. CASE res[r] = None
  BY <1>1, StartsAssumption DEF Report, LibTypeOK, RunTypeOK
<1>2. CASE res[r] # None
  <2> DEFINE report == [type |-> type, run |-> r]
  <2>1. report \in Reports
    BY DEF Reports
  <2>2. res[r] \in Channels
    BY <1>2 DEF LibTypeOK, RunTypeOK
  <2>3. chan[res[r]] = <<>> /\ chan' = [chan EXCEPT ![res[r]] = <<report>>]
    BY <1>2 DEF Report
  <2>4. <<report>> # <<>>
    OBVIOUS
  <2> HIDE DEF report
  <2> QED BY <2>1, <2>2, <2>3, <2>4 DEF LibTypeOK, RunTypeOK
<1> QED BY <1>1, <1>2

\* What a step of call r leaves alone.
Frame(r) ==
    /\ done' = done /\ ctx' = ctx /\ res' = res
    /\ \A q \in Calls \ {r} : phase'[q] = phase[q]
    /\ \A c \in Channels : chan[c] # <<>> => chan'[c] = chan[c]

\* How a call goes on.
Course(r) ==
    /\ \/ phase'[r] = phase[r]
       \/ phase[r] \notin {"idle", "over"} /\ phase'[r] # "idle"
    /\ phase[r] = "failing" => phase'[r] \in {"failing", "over"}
    /\ phase[r] = "called" /\ phase'[r] # "called" /\ res[r] \in Channels =>
          chan'[res[r]] # <<>>

\* Who fails and who has the transport afterwards.
Outcome(r) ==
    /\ error' = error \/ (error' = error \cup {r} /\ phase'[r] # phase[r])
    /\ client' = client \/ (client' = r /\ phase'[r] # phase[r])
    /\ phase'[r] \in {"listen", "serving"} =>
          client' = r \/ (client' = client /\ phase[r] \in {"listen", "serving"})

LEMMA RunStepIs ==
    ASSUME LibTypeOK, NEW r \in Calls, RunStep(r)
    PROVE  RunTypeOK' /\ Frame(r) /\ Course(r) /\ Outcome(r)
<1> DEFINE Goal == RunTypeOK' /\ Frame(r) /\ Course(r) /\ Outcome(r)
<1> USE DEF LibTypeOK, RunTypeOK, Frame, Course, Outcome
<1>1. ASSUME Begins(r) PROVE Goal
  <2>1. Report(r, "loading")
    BY <1>1 DEF Begins
  <2> QED BY <1>1, <2>1, Reported DEF Begins, Goes
<1>2. ASSUME Loading(r) PROVE Goal
  <2>1. Report(r, "loading")
    BY <1>2 DEF Loading
  <2> QED BY <1>2, <2>1, Reported DEF Loading
<1>3. ASSUME TunnelStarts(r) \/ TunnelStops(r) PROVE Goal
  BY <1>3 DEF TunnelStarts, TunnelStops
<1>4. ASSUME StartFails(r) PROVE Goal
  BY <1>4 DEF StartFails, Goes
<1>5. ASSUME Started(r) PROVE Goal
  BY <1>5 DEF Started, Goes
<1>6. ASSUME Listens(r) PROVE Goal
  BY <1>6 DEF Listens, Goes
<1>7. ASSUME ServerFails(r) PROVE Goal
  BY <1>7 DEF ServerFails, Goes
<1>8. ASSUME ReportsFailure(r) PROVE Goal
  <2>1. Report(r, "error")
    BY <1>8 DEF ReportsFailure
  <2> QED BY <1>8, <2>1, Reported DEF ReportsFailure, Goes
<1>9. ASSUME ServerCloses(r) PROVE Goal
  BY <1>9 DEF ServerCloses, Goes
<1>10. ASSUME WakesUp(r) PROVE Goal
  BY <1>10 DEF WakesUp
<1>11. ASSUME ReportsReady(r) PROVE Goal
  <2>1. Report(r, "ready")
    BY <1>11 DEF ReportsReady
  <2> QED BY <1>11, <2>1, Reported DEF ReportsReady
<1> QED
  BY <1>1, <1>2, <1>3, <1>4, <1>5, <1>6, <1>7, <1>8, <1>9, <1>10, <1>11 DEF RunStep

\* A call that takes a step other than Loading and the like is run by its goroutine.
LEMMA RunStepKeeps ==
    ASSUME IInv, NEW r \in Calls, RunStep(r), UNCHANGED libVars
    PROVE  IInv'
<1> USE StartsAssumption
<1>0. UNCHANGED <<active, stopper, config, caller, runner, consumer, watch, got, answered,
                  alone, overlapped>>
  BY DEF libVars, fieldVars, goVars
<1> USE <1>0
<1>1. RunTypeOK' /\ Frame(r) /\ Course(r) /\ Outcome(r)
  BY RunStepIs DEF IInv
<1>2. LibTypeOK'
  BY <1>1 DEF IInv, LibTypeOK
<1>3. phase'[r] # phase[r] => runner[r] = "run"
  BY <1>1 DEF Course, IInv, Stages, LibTypeOK
<1>4. Stages'
  BY <1>1, <1>3 DEF Frame, Course, IInv, Stages, Begun, Assigned
<1>5. OneAtATime' /\ Watching'
  BY <1>1 DEF Frame, IInv, OneAtATime, Watching, Begun, Entering
<1>6. Alone'
  <2> SUFFICES ASSUME NEW s \in alone, ctx'[s] \notin done' \cup overlapped
               PROVE  /\ \A q \in Calls \ {s} : ~UnderWay(q)'
                      /\ phase'[s] \in {"listen", "serving"} => client' = s
    BY <1>1 DEF Frame, IInv, Alone, Begun
  <2>1. s \in alone /\ s \in Calls /\ ctx[s] \notin done \cup overlapped
    BY <1>1 DEF Frame, IInv, LibTypeOK
  <2>2. \A q \in Calls \ {s} : ~UnderWay(q)
    BY <2>1 DEF IInv, Alone
  <2>3. CASE r = s
    BY <1>1, <2>1, <2>2, <2>3 DEF Outcome, IInv, Alone, UnderWay
  <2>4. CASE r # s
    <3>1. phase'[r] = phase[r]
      BY <1>3, <2>2, <2>4 DEF UnderWay
    <3>2. client' = client /\ phase'[s] = phase[s]
      BY <1>1, <2>1, <2>4, <3>1 DEF Frame, Outcome
    <3> QED BY <2>1, <2>2, <3>2 DEF IInv, Alone, UnderWay
  <2> QED BY <2>3, <2>4
<1>7. FailureFrees'
  <2> SUFFICES ASSUME NEW s \in Calls, s \in error', s \notin done \cup overlapped
               PROVE  consumer[s] # "done" /\ ErrorOnItsWay(s)'
    BY <1>1, <1>2 DEF Frame, FailureFrees, LibTypeOK, RunTypeOK
  <2>1. consumer[s] # "done"
    BY DEF IInv, Watching
  <2>2. CASE s \notin error
    <3>1. s = r /\ runner[r] = "run"
      BY <1>1, <1>3, <2>2 DEF Outcome
    <3> QED BY <2>1, <3>1 DEF ErrorOnItsWay
  <2>3. CASE s \in error
    <3>1. ErrorOnItsWay(s)
      BY <2>3 DEF IInv, FailureFrees
    <3>2. CASE phase[s] = "failing"
      <4>1. runner[s] = "run"
        BY <3>2 DEF IInv, Stages, LibTypeOK
      <4> QED BY <2>1, <4>1 DEF ErrorOnItsWay
    <3>3. CASE phase[s] # "failing"
      BY <1>1, <2>1, <3>1, <3>3 DEF Frame, ErrorOnItsWay
    <3> QED BY <3>2, <3>3
  <2> QED BY <2>2, <2>3
<1>8. AnswerArrives'
  <2> SUFFICES ASSUME NEW s \in Calls, Begun(s), s \notin config,
                      s \notin done \cup overlapped \cup answered
               PROVE  /\ consumer[s] # "done"
                      /\ \/ runner[s] = "new" \/ phase'[s] = "called"
                         \/ chan'[s] # <<>> \/ consumer[s] = "act"
    BY <1>1 DEF Frame, AnswerArrives, Begun
  <2>1. /\ consumer[s] # "done"
        /\ \/ runner[s] = "new" \/ phase[s] = "called"
           \/ chan[s] # <<>> \/ consumer[s] = "act"
    BY DEF IInv, AnswerArrives
  <2>2. CASE phase[s] = "called" /\ s = r
    <3>1. res[r] = r
      BY <2>2 DEF IInv, Stages
    <3> QED BY <1>1, <2>1, <2>2, <3>1 DEF Course
  <2>3. CASE ~(phase[s] = "called" /\ s = r)
    BY <1>1, <2>1, <2>3 DEF Frame
  <2> QED BY <2>2, <2>3
<1> QED
  BY <1>2, <1>4, <1>5, <1>6, <1>7, <1>8 DEF IInv

-------------------------------------------------------------------------------
(***************************************************************************)
(* The exported functions.                                                 *)
(***************************************************************************)

\* A start is let through only if what is active is cancelled, so none that came alone
\* is live.
LEMMA CheckKeeps ==
    ASSUME IInv, NEW s \in Calls, NEW withConfig \in BOOLEAN, Check(s, withConfig)
    PROVE  IInv'
<1> USE StartsAssumption
<1>1. /\ caller[s] = "idle" /\ caller' = [caller EXCEPT ![s] = "checked"]
      /\ active \in done
      /\ config \subseteq config' /\ config' \subseteq config \cup {s}
      /\ overlapped' = IF Entering = {} THEN overlapped
                       ELSE overlapped \cup {s} \cup Entering
      /\ UNCHANGED <<phase, ctx, res, tun, error, ready, client, done, chan>>
      /\ UNCHANGED <<active, stopper, runner, consumer, watch, got, answered, alone>>
  BY DEF Check, Accept, runVars, fieldVars, goVars
<1>2. Entering \subseteq Calls /\ overlapped \subseteq overlapped'
  BY <1>1 DEF Entering
<1>3. LibTypeOK'
  BY <1>1, <1>2 DEF IInv, LibTypeOK, RunTypeOK
<1>4. /\ \A q \in Calls : /\ Begun(q)' <=> Begun(q)
                          /\ caller'[q] = "assigned" <=> caller[q] = "assigned"
      /\ \A c : Assigned(c)' <=> Assigned(c)
      /\ Entering' = Entering \cup {s}
  BY <1>1 DEF Begun, Assigned, Entering, IInv, LibTypeOK
<1>5. Stages'
  BY <1>1, <1>4 DEF IInv, Stages
<1>6. OneAtATime'
  <2> SUFFICES ASSUME NEW q \in Calls \ overlapped'
               PROVE  /\ q \in Entering' => Entering' = {q}
                      /\ caller'[q] # "assigned"
                      /\ ~(Begun(q) /\ q \notin done)
    BY <1>1, <1>4 DEF IInv, OneAtATime
  <2>1. q \in Calls \ overlapped /\ q \notin Entering
    BY <1>1, <1>2
  <2>2. q \in Entering' => Entering' = {q}
    BY <1>1, <1>4, <2>1
  <2>3. caller'[q] # "assigned"
    BY <1>4, <2>1 DEF Entering
  <2>4. ~(Begun(q) /\ q \notin done)
    BY <1>1, <2>1 DEF IInv, OneAtATime
  <2> QED BY <2>2, <2>3, <2>4
<1>7. Watching'
  BY <1>1, <1>2 DEF IInv, Watching
<1>8. Alone'
  BY <1>1, <1>2, <1>4 DEF IInv, LibTypeOK, Alone, UnderWay
<1>9. FailureFrees' /\ AnswerArrives'
  BY <1>1, <1>2, <1>4 DEF IInv, FailureFrees, ErrorOnItsWay, AnswerArrives
<1> QED BY <1>3, <1>5, <1>6, <1>7, <1>8, <1>9 DEF IInv

\* While another start is between its check and its assignments no start that came alone
\* is live.
LEMMA NoneLive ==
    ASSUME IInv, NEW s \in Entering
    PROVE  /\ \A q \in Calls \ overlapped : Begun(q) => q \in done
           /\ \A q \in Calls \ overlapped : q \in Entering => q = s
           /\ caller[s] = "checked" =>
                 \A t \in alone : ctx[t] \in done \cup overlapped
<1>1. \A q \in Calls \ overlapped : /\ Begun(q) => q \in done
                                    /\ q \in Entering => q = s
  BY DEF IInv, OneAtATime
<1>2. ASSUME caller[s] = "checked", NEW t \in alone PROVE ctx[t] \in done \cup overlapped
  <2>1. phase[t] # "idle"
    BY DEF IInv, LibTypeOK, Alone, Stages
  <2>2. ctx[t] = None \/ Assigned(ctx[t])
    BY <2>1 DEF IInv, LibTypeOK, Stages
  <2>3. CASE ctx[t] = None
    BY <2>3 DEF IInv, OneAtATime
  <2>4. CASE Assigned(ctx[t])
    <3>1. ctx[t] \in Calls /\ ctx[t] # s /\ (Begun(ctx[t]) \/ ctx[t] \in Entering)
      BY <1>2, <2>4 DEF Assigned, Begun, Entering, IInv, LibTypeOK
    <3> QED BY <1>1, <3>1
  <2> QED BY <2>2, <2>3, <2>4
<1> QED BY <1>1, <1>2

LEMMA AssignActiveKeeps == ASSUME IInv, NEW s \in Calls, AssignActive(s) PROVE IInv'
<1> USE StartsAssumption
<1>1. /\ caller[s] = "checked" /\ caller' = [caller EXCEPT ![s] = "assigned"]
      /\ active' = s
      /\ UNCHANGED <<phase, ctx, res, tun, error, ready, client, done, chan>>
      /\ UNCHANGED <<stopper, config, runner, consumer, watch, got, answered, alone, overlapped>>
  BY DEF AssignActive, runVars, goVars
<1>2. LibTypeOK'
  BY <1>1 DEF IInv, LibTypeOK, RunTypeOK
<1>3. /\ \A q \in Calls : Begun(q)' <=> Begun(q)
      /\ \A c : Assigned(c) => Assigned(c)'
      /\ Assigned(s)' /\ s \in Entering /\ Entering' = Entering
      /\ \A q \in Calls \ {s} : caller'[q] = caller[q]
  BY <1>1 DEF Begun, Assigned, Entering, IInv, LibTypeOK
<1>4. /\ \A q \in Calls \ overlapped : Begun(q) => q \in done
      /\ \A q \in Calls \ overlapped : q \in Entering => q = s
      /\ \A t \in alone : ctx[t] \in done \cup overlapped
  BY <1>1, <1>3, NoneLive
<1>5. Stages'
  BY <1>1, <1>3 DEF IInv, Stages
<1>6. OneAtATime'
  <2>1. \A q \in Calls \ overlapped : q \in Entering => Entering = {q}
    BY DEF IInv, OneAtATime
  <2>2. \A q \in Calls \ overlapped : caller'[q] = "assigned" => q = s
    BY <1>3, <1>4 DEF Entering
  <2>3. None \in done
    BY DEF IInv, OneAtATime
  <2> QED BY <1>1, <1>3, <1>4, <2>1, <2>2, <2>3 DEF OneAtATime
<1>7. Watching'
  BY <1>1 DEF IInv, Watching
<1>8. Alone'
  BY <1>1, <1>4 DEF IInv, Alone
<1>9. FailureFrees' /\ AnswerArrives'
  BY <1>1, <1>3 DEF IInv, FailureFrees, ErrorOnItsWay, AnswerArrives
<1> QED BY <1>2, <1>5, <1>6, <1>7, <1>8, <1>9 DEF IInv

LEMMA AssignStopperKeeps == ASSUME IInv, NEW s \in Calls, AssignStopper(s) PROVE IInv'
<1> USE StartsAssumption
<1>1. /\ caller[s] = "assigned" /\ caller' = [caller EXCEPT ![s] = "waiting"]
      /\ stopper' = s
      /\ runner' = [runner EXCEPT ![s] = "new"]
      /\ consumer' = [consumer EXCEPT ![s] = "loop"]
      /\ UNCHANGED <<phase, ctx, res, tun, error, ready, client, done, chan>>
      /\ UNCHANGED <<active, config, watch, got, answered, alone, overlapped>>
  BY DEF AssignStopper, runVars
<1>2. LibTypeOK'
  BY <1>1 DEF IInv, LibTypeOK, RunTypeOK
<1>3. /\ caller'[s] = "waiting" /\ runner'[s] = "new" /\ consumer'[s] = "loop"
      /\ \A q \in Calls \ {s} : /\ caller'[q] = caller[q] /\ runner'[q] = runner[q]
                               /\ consumer'[q] = consumer[q]
  BY <1>1 DEF IInv, LibTypeOK
<1>4. /\ ~Begun(s) /\ Begun(s)' /\ s \in Entering /\ Entering' = Entering \ {s}
      /\ \A q \in Calls \ {s} : Begun(q)' <=> Begun(q)
      /\ \A c : Assigned(c)' <=> Assigned(c)
  BY <1>1, <1>3 DEF Begun, Entering, Assigned
<1>5. /\ \A q \in Calls \ overlapped : Begun(q) => q \in done
      /\ \A q \in Calls \ overlapped : q \in Entering => q = s
  BY <1>4, NoneLive
<1>6. Stages'
  <2>1. \A c \in done' \cup {stopper'} : c = None \/ (c \in Calls /\ Begun(c)')
    BY <1>1, <1>4 DEF IInv, Stages
  <2>2. phase[s] = "idle"
    BY <1>4 DEF IInv, Stages
  <2>3. active' = None \/ Assigned(active)'
    BY <1>1, <1>4 DEF IInv, Stages
  <2> QED BY <1>1, <1>3, <1>4, <2>1, <2>2, <2>3 DEF IInv, Stages
<1>7. OneAtATime'
  <2> SUFFICES ASSUME NEW q \in Calls \ overlapped
               PROVE  /\ q \notin Entering'
                      /\ caller'[q] # "assigned"
                      /\ Begun(q)' /\ q \notin done =>
                            Entering' = {} /\ active = q /\ stopper' = q
    BY <1>1 DEF IInv, OneAtATime
  <2>1. q \notin Entering' /\ caller'[q] # "assigned"
    BY <1>3, <1>4, <1>5 DEF Entering
  <2>2. CASE q = s
    <3>1. Entering = {s} /\ active = s
      BY <1>1, <1>4, <2>2 DEF IInv, OneAtATime
    <3> QED BY <1>1, <1>4, <2>1, <2>2, <3>1
  <2>3. CASE q # s
    BY <1>4, <1>5, <2>1, <2>3
  <2> QED BY <2>1, <2>2, <2>3
<1>8. Watching'
  BY <1>1, <1>3 DEF IInv, Watching
<1>9. Alone'
  <2>1. \A t \in alone : t \in Calls /\ t # s
    BY <1>4 DEF IInv, LibTypeOK, Alone, Stages
  <2>2. \A t \in alone : ctx[t] \in done \cup overlapped
    BY <1>1, <2>1 DEF IInv, Alone, UnderWay
  <2> QED BY <1>1, <1>3, <2>1, <2>2 DEF IInv, Alone
<1>10. FailureFrees'
  BY <1>1, <1>3, <1>4 DEF IInv, LibTypeOK, RunTypeOK, Stages, FailureFrees, ErrorOnItsWay
<1>11. AnswerArrives'
  BY <1>1, <1>3, <1>4 DEF IInv, AnswerArrives
<1> QED BY <1>2, <1>6, <1>7, <1>8, <1>9, <1>10, <1>11 DEF IInv

\* StopProxy cancels what ProxyStopper holds.
LEMMA StopKeeps == ASSUME IInv, StopProxy PROVE IInv'
<1> USE StartsAssumption
<1>1. done' = done \cup {stopper} /\ UNCHANGED <<callVars, chan, libVars>>
  BY DEF StopProxy, Cancel
<1> USE <1>1 DEF callVars, libVars, fieldVars, goVars
<1>2. LibTypeOK'
  BY DEF IInv, LibTypeOK, RunTypeOK
<1>3. Stages' /\ OneAtATime' /\ Watching'
  BY DEF IInv, Stages, OneAtATime, Watching, Begun, Assigned, Entering
<1>4. Alone'
  BY DEF IInv, Alone, Begun, UnderWay
<1>5. FailureFrees' /\ AnswerArrives'
  BY DEF IInv, LibTypeOK, RunTypeOK, FailureFrees, ErrorOnItsWay, AnswerArrives, Begun
<1> QED BY <1>2, <1>3, <1>4, <1>5 DEF IInv

LEMMA ReturnKeeps == ASSUME IInv, NEW s \in Calls, Return(s) PROVE IInv'
<1> USE StartsAssumption DEF Return, runVars, fieldVars, goVars
<1>1. LibTypeOK'
  BY DEF IInv, LibTypeOK, RunTypeOK
<1>2. /\ \A q \in Calls : /\ Begun(q)' <=> Begun(q)
                          /\ caller'[q] = "assigned" <=> caller[q] = "assigned"
      /\ \A c : Assigned(c)' <=> Assigned(c)
      /\ Entering' = Entering
  BY DEF Begun, Assigned, Entering, IInv, LibTypeOK
<1>3. Stages' /\ OneAtATime' /\ Watching'
  BY <1>2 DEF IInv, Stages, OneAtATime, Watching
<1>4. Alone'
  BY <1>2 DEF IInv, LibTypeOK, Alone, UnderWay
<1>5. FailureFrees' /\ AnswerArrives'
  BY <1>2 DEF IInv, FailureFrees, ErrorOnItsWay, AnswerArrives
<1> QED BY <1>1, <1>3, <1>4, <1>5 DEF IInv

-------------------------------------------------------------------------------
(***************************************************************************)
(* The goroutine that runs the proxy.                                      *)
(***************************************************************************)

LEMMA BeginKeeps == ASSUME IInv, NEW s \in Calls, Begin(s) PROVE IInv'
<1> USE StartsAssumption
<1> DEFINE channel == IF s \in config THEN None ELSE s
<1>1. /\ runner[s] = "new" /\ runner' = [runner EXCEPT ![s] = "run"]
      /\ phase[s] = "idle" /\ phase' = [phase EXCEPT ![s] = "called"]
      /\ ctx' = [ctx EXCEPT ![s] = active]
      /\ res' = [res EXCEPT ![s] = channel]
      /\ tun' = [tun EXCEPT ![s] = "off"]
      /\ alone' = IF \E q \in Calls \ {s} : UnderWay(q) THEN alone ELSE alone \cup {s}
      /\ UNCHANGED <<error, ready, client, done, chan>>
      /\ UNCHANGED <<active, stopper, config, caller, consumer, watch, got, answered, overlapped>>
  BY DEF Begin, RunProxy, fieldVars
<1>2. LibTypeOK'
  BY <1>1 DEF IInv, LibTypeOK, RunTypeOK
<1>3. /\ runner'[s] = "run" /\ phase'[s] = "called" /\ ctx'[s] = active
      /\ res'[s] = channel
      /\ \A q \in Calls \ {s} : /\ runner'[q] = runner[q] /\ phase'[q] = phase[q]
                               /\ ctx'[q] = ctx[q] /\ res'[q] = res[q]
  BY <1>1 DEF IInv, LibTypeOK, RunTypeOK
<1> HIDE DEF channel
<1>4. Stages'
  BY <1>1, <1>3 DEF IInv, Stages, Begun, Assigned, channel
<1>5. OneAtATime' /\ Watching'
  BY <1>1 DEF IInv, OneAtATime, Watching, Begun, Entering
<1>6. Alone'
  <2> SUFFICES ASSUME NEW t \in alone'
               PROVE  /\ runner'[t] \notin {"idle", "new"}
                      /\ ctx'[t] \notin done \cup overlapped =>
                            /\ \A q \in Calls \ {t} : ~UnderWay(q)'
                            /\ phase'[t] \in {"listen", "serving"} => client = t
    BY <1>1 DEF Alone
  <2>1. CASE t = s
    <3>1. s \notin alone
      BY <1>1 DEF IInv, Alone
    <3>2. \A q \in Calls \ {s} : ~UnderWay(q)
      BY <1>1, <2>1, <3>1
    <3> QED BY <1>1, <1>3, <2>1, <3>2 DEF UnderWay
  <2>2. CASE t # s
    <3>1. t \in alone /\ t \in Calls
      BY <1>1, <2>2 DEF IInv, LibTypeOK
    <3>2. ctx[t] \in done \cup overlapped
      BY <1>1, <2>2, <3>1 DEF IInv, Alone, UnderWay
    <3> QED BY <1>1, <1>3, <2>2, <3>1, <3>2 DEF IInv, Alone
  <2> QED BY <2>1, <2>2
<1>7. FailureFrees'
  BY <1>1, <1>3 DEF IInv, FailureFrees, ErrorOnItsWay
<1>8. AnswerArrives'
  BY <1>1, <1>3 DEF IInv, AnswerArrives, Begun
<1> QED BY <1>2, <1>4, <1>5, <1>6, <1>7, <1>8 DEF IInv

LEMMA RunOverKeeps == ASSUME IInv, NEW s \in Calls, RunOver(s) PROVE IInv'
<1> USE StartsAssumption
<1>1. /\ runner[s] = "run" /\ phase[s] = "over"
      /\ runner'[s] = IF s \in error THEN "send" ELSE "done"
      /\ \A q \in Calls \ {s} : runner'[q] = runner[q]
      /\ UNCHANGED <<runVars, active, stopper, config, caller, consumer, watch, got, answered,
                     alone, overlapped>>
  BY DEF RunOver, IInv, LibTypeOK, fieldVars
<1> USE <1>1 DEF runVars
<1>2. LibTypeOK'
  BY DEF RunOver, IInv, LibTypeOK, RunTypeOK
<1>3. Stages' /\ OneAtATime' /\ Watching'
  BY DEF IInv, Stages, OneAtATime, Watching, Begun, Assigned, Entering
<1>4. Alone'
  BY DEF IInv, LibTypeOK, Alone, Begun, UnderWay
<1>5. FailureFrees' /\ AnswerArrives'
  BY DEF IInv, LibTypeOK, RunTypeOK, FailureFrees, ErrorOnItsWay, AnswerArrives, Begun
<1> QED BY <1>2, <1>3, <1>4, <1>5 DEF IInv

LEMMA SendErrorKeeps == ASSUME IInv, NEW s \in Calls, SendError(s) PROVE IInv'
<1> USE StartsAssumption
<1> DEFINE report == [type |-> "error", run |-> s]
<1>1. report \in Reports /\ report.type = "error"
  BY DEF Reports
<1>2. /\ runner[s] = "send" /\ chan[s] = <<>>
      /\ runner' = [runner EXCEPT ![s] = "done"]
      /\ chan' = [chan EXCEPT ![s] = <<report>>]
      /\ UNCHANGED <<callVars, done, active, stopper, config, caller, consumer, watch, got,
                     answered, alone, overlapped>>
  BY DEF SendError, fieldVars
<1> HIDE DEF report
<1> USE DEF callVars
<1>3. LibTypeOK'
  BY <1>1, <1>2 DEF IInv, LibTypeOK, RunTypeOK
<1>4. /\ runner'[s] = "done" /\ chan'[s] = <<report>> /\ <<report>> # <<>>
      /\ Head(chan'[s]).type = "error"
      /\ \A q \in Calls \ {s} : runner'[q] = runner[q] /\ chan'[q] = chan[q]
  BY <1>1, <1>2 DEF IInv, LibTypeOK, RunTypeOK
<1>5. Stages' /\ OneAtATime' /\ Watching'
  BY <1>2, <1>4 DEF IInv, Stages, OneAtATime, Watching, Begun, Assigned, Entering
<1>6. Alone'
  BY <1>2, <1>4 DEF IInv, LibTypeOK, Alone, Begun, UnderWay
<1>7. FailureFrees' /\ AnswerArrives'
  BY <1>2, <1>4 DEF IInv, FailureFrees, ErrorOnItsWay, AnswerArrives, Begun
<1> QED BY <1>3, <1>5, <1>6, <1>7 DEF IInv

-------------------------------------------------------------------------------
(***************************************************************************)
(* The consumer of the reports.                                            *)
(***************************************************************************)

LEMMA LookKeeps == ASSUME IInv, NEW s \in Calls, Look(s) PROVE IInv'
<1> USE StartsAssumption
<1>1. /\ consumer[s] = "loop" /\ consumer'[s] = "select" /\ watch'[s] = active
      /\ \A q \in Calls \ {s} : consumer'[q] = consumer[q] /\ watch'[q] = watch[q]
      /\ UNCHANGED <<runVars, active, stopper, config, caller, runner, got, answered, alone,
                     overlapped>>
  BY DEF Look, IInv, LibTypeOK, fieldVars
<1> USE <1>1 DEF runVars
<1>2. LibTypeOK'
  BY DEF Look, IInv, LibTypeOK, RunTypeOK
<1>3. Stages' /\ OneAtATime' /\ Watching'
  BY DEF IInv, Stages, OneAtATime, Watching, Begun, Assigned, Entering
<1>4. Alone'
  BY DEF IInv, Alone, Begun, UnderWay
<1>5. FailureFrees' /\ AnswerArrives'
  BY DEF IInv, LibTypeOK, RunTypeOK, FailureFrees, ErrorOnItsWay, AnswerArrives, Begun
<1> QED BY <1>2, <1>3, <1>4, <1>5 DEF IInv

\* It leaves when its own context is cancelled: that is the one it waits for, or it is
\* cancelled already.
LEMMA LeaveKeeps == ASSUME IInv, NEW s \in Calls, Leave(s) PROVE IInv'
<1> USE StartsAssumption
<1>1. /\ consumer[s] = "select" /\ watch[s] \in done
      /\ consumer'[s] = "done" /\ watch'[s] = None
      /\ \A q \in Calls \ {s} : consumer'[q] = consumer[q] /\ watch'[q] = watch[q]
      /\ UNCHANGED <<runVars, active, stopper, config, caller, runner, got, answered, alone,
                     overlapped>>
  BY DEF Leave, IInv, LibTypeOK, fieldVars
<1> USE <1>1 DEF runVars
<1>2. s \in done \cup overlapped
  BY DEF IInv, Watching
<1>3. LibTypeOK'
  BY DEF Leave, IInv, LibTypeOK, RunTypeOK
<1>4. Stages' /\ OneAtATime' /\ Watching'
  BY <1>2 DEF IInv, Stages, OneAtATime, Watching, Begun, Assigned, Entering
<1>5. Alone'
  BY DEF IInv, Alone, Begun, UnderWay
<1>6. FailureFrees' /\ AnswerArrives'
  BY <1>2 DEF IInv, LibTypeOK, RunTypeOK, FailureFrees, ErrorOnItsWay, AnswerArrives, Begun
<1> QED BY <1>3, <1>4, <1>5, <1>6 DEF IInv

LEMMA TakeKeeps == ASSUME IInv, NEW s \in Calls, Take(s) PROVE IInv'
<1> USE StartsAssumption
<1>1. PICK report \in Reports : chan[s] = <<report>>
  BY DEF Take, Receive, IInv, LibTypeOK, RunTypeOK
<1>2. Head(chan[s]).type = report.type /\ report.type \in {"loading", "ready", "error"}
  BY <1>1 DEF Reports
<1>3. /\ consumer[s] = "select" /\ consumer' = [consumer EXCEPT ![s] = "act"]
      /\ watch' = [watch EXCEPT ![s] = None]
      /\ got' = [got EXCEPT ![s] = report.type]
      /\ chan' = [chan EXCEPT ![s] = <<>>]
      /\ UNCHANGED <<callVars, done, active, stopper, config, caller, runner, answered, alone,
                     overlapped>>
  BY <1>2 DEF Take, Receive, fieldVars
<1> USE DEF callVars
<1>4. LibTypeOK'
  BY <1>2, <1>3 DEF IInv, LibTypeOK, RunTypeOK
<1>5. /\ consumer'[s] = "act" /\ got'[s] = report.type
      /\ \A q \in Calls \ {s} : /\ consumer'[q] = consumer[q] /\ watch'[q] = watch[q]
                               /\ got'[q] = got[q] /\ chan'[q] = chan[q]
  BY <1>3 DEF IInv, LibTypeOK, RunTypeOK
<1>6. Stages' /\ OneAtATime' /\ Watching'
  BY <1>3, <1>5 DEF IInv, Stages, OneAtATime, Watching, Begun, Assigned, Entering
<1>7. Alone'
  BY <1>3 DEF IInv, Alone, Begun, UnderWay
<1>8. FailureFrees'
  BY <1>2, <1>3, <1>5 DEF IInv, FailureFrees, ErrorOnItsWay
<1>9. AnswerArrives'
  BY <1>3, <1>5 DEF IInv, AnswerArrives, Begun
<1> QED BY <1>4, <1>6, <1>7, <1>8, <1>9 DEF IInv

\* An error that is handled stops the consumer's own start, if anything still runs.
LEMMA ActKeeps == ASSUME IInv, NEW s \in Calls, Act(s) PROVE IInv'
<1> USE StartsAssumption
<1>1. /\ consumer[s] = "act" /\ consumer' = [consumer EXCEPT ![s] = "loop"]
      /\ got' = [got EXCEPT ![s] = None]
      /\ answered' = answered \cup {s}
      /\ done \subseteq done' /\ done' \subseteq done \cup {stopper}
      /\ got[s] = "error" => done' = done \cup {stopper}
      /\ UNCHANGED <<callVars, chan, active, stopper, config, caller, runner, watch, alone,
                     overlapped>>
  BY DEF Act, Handled, Cancel, fieldVars
<1> USE DEF callVars
<1>2. LibTypeOK'
  BY <1>1 DEF IInv, LibTypeOK, RunTypeOK
<1>3. /\ consumer'[s] = "loop"
      /\ \A q \in Calls \ {s} : consumer'[q] = consumer[q] /\ got'[q] = got[q]
  BY <1>1 DEF IInv, LibTypeOK
<1>4. Stages' /\ OneAtATime' /\ Watching'
  BY <1>1, <1>3 DEF IInv, Stages, OneAtATime, Watching, Begun, Assigned, Entering
<1>5. Alone'
  BY <1>1 DEF IInv, Alone, Begun, UnderWay
<1>6. Begun(s)
  BY <1>1 DEF IInv, Stages
<1>7. FailureFrees'
  BY <1>1, <1>3, <1>6 DEF IInv, LibTypeOK, RunTypeOK, OneAtATime, FailureFrees, ErrorOnItsWay
<1>8. AnswerArrives'
  BY <1>1, <1>3 DEF IInv, AnswerArrives, Begun
<1> QED BY <1>2, <1>4, <1>5, <1>7, <1>8 DEF IInv

-------------------------------------------------------------------------------
LEMMA Keeps == IInv /\ [Next]_vars => IInv'
<1> SUFFICES ASSUME IInv, [Next]_vars PROVE IInv'
  OBVIOUS
<1>1. CASE \E s \in Calls, withConfig \in BOOLEAN : Check(s, withConfig)
  BY <1>1, CheckKeeps
<1>2. CASE StopProxy
  BY <1>2, StopKeeps
<1>3. ASSUME NEW s \in Calls, Lib(s) PROVE IInv'
  BY <1>3, AssignActiveKeeps, AssignStopperKeeps, ReturnKeeps, BeginKeeps, RunOverKeeps,
     SendErrorKeeps, LookKeeps, LeaveKeeps, TakeKeeps, ActKeeps DEF Lib
<1>4. ASSUME NEW s \in Calls, RunStep(s), UNCHANGED libVars PROVE IInv'
  BY <1>4, RunStepKeeps
<1>5. CASE UNCHANGED vars
  <2> USE <1>5 DEF vars, runVars, libVars, fieldVars, goVars
  <2>1. LibTypeOK' /\ Stages' /\ OneAtATime' /\ Watching'
    BY DEF IInv, LibTypeOK, RunTypeOK, Stages, OneAtATime, Watching, Begun, Assigned, Entering
  <2>2. Alone' /\ FailureFrees' /\ AnswerArrives'
    BY DEF IInv, Alone, UnderWay, FailureFrees, ErrorOnItsWay, AnswerArrives, Begun
  <2> QED BY <2>1, <2>2 DEF IInv
<1> QED BY <1>1, <1>2, <1>3, <1>4, <1>5 DEF Next

\* The inductive invariant of the library holds for any number of starts and stops,
\* however their runners and consumers interleave (main.go, startProxy).
THEOREM Invariance == Spec => []IInv
<1> QED BY Starts, Keeps, PTL DEF Spec

\* Whichever context a run found in ActiveProxy, StopProxy cancels it, unless two starts
\* overlapped (main.go, 41-62).
THEOREM RunsCanBeStopped == Spec => []RunsAreStoppable
<1>1. IInv => RunsAreStoppable
  <2> SUFFICES ASSUME IInv, NEW s \in Calls, phase[s] # "idle",
                      ctx[s] \notin done \cup overlapped, caller[ctx[s]] # "assigned"
               PROVE  stopper = ctx[s]
    BY DEF RunsAreStoppable, IInv, Stages, Assigned, OneAtATime
  <2>1. ctx[s] \in Calls /\ Begun(ctx[s])
    BY DEF IInv, LibTypeOK, Stages, Assigned, Begun, OneAtATime
  <2> QED BY <2>1 DEF IInv, OneAtATime
<1> QED BY <1>1, Invariance, PTL

\* A run that began alone and is not stopped sends through its own transport, though
\* stopped runs that are still starting share the variable client (proxy.go, 420).
THEOREM TransportIsOwn == Spec => []OwnTransport
<1>1. IInv => OwnTransport
  BY DEF IInv, Alone, OwnTransport
<1> QED BY <1>1, Invariance, PTL

\* The error of a run that fails reaches a consumer that stops the library (main.go, the
\* loop over the reports).
THEOREM EveryFailureFrees == Spec => []FailureFrees
<1>1. IInv => FailureFrees
  BY DEF IInv
<1> QED BY <1>1, Invariance, PTL

\* A start that is not stopped has an answer, or one on its way (main.go, the channel
\* that StartProxy waits on).
THEOREM EveryStartIsAnswered == Spec => []AnswerArrives
<1>1. IInv => AnswerArrives
  BY DEF IInv
<1> QED BY <1>1, Invariance, PTL
===============================================================================
