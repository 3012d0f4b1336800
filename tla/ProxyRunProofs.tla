------------------------------ MODULE ProxyRunProofs ------------------------------
(***************************************************************************)
(* ProxyRun, for any number of attempts and events: what is built on       *)
(* something is closed first, a run that returns leaves nothing open, and   *)
(* for its callers it is a call of module Runs.                            *)
(***************************************************************************)
EXTENDS ProxyRun, TLAPS

-------------------------------------------------------------------------------
(***************************************************************************)
(* The order of the things that are opened.                                *)
(***************************************************************************)

LEMMA OrderIs ==
    /\ Order \in Seq(Resources) /\ Len(Order) = 9
    /\ \A i \in 1..9 : Order[i] \in Resources
    /\ \A i, j \in 1..9 : Order[i] = Order[j] => i = j
BY DEF Order, Resources

LEMMA FirstOfIs ==
    /\ FirstOf(0) = {} /\ FirstOf(1) = {"pool"} /\ FirstOf(2) = {"pool", "gate"}
    /\ FirstOf(3) = {"pool", "gate", "netMgr"}
    /\ \A k \in 0..9 : FirstOf(k) \subseteq Resources
    /\ \A k \in 1..9 : FirstOf(k) \ {Order[k]} = FirstOf(k - 1)
<1>1. /\ FirstOf(0) = {} /\ FirstOf(1) = {"pool"} /\ FirstOf(2) = {"pool", "gate"}
      /\ FirstOf(3) = {"pool", "gate", "netMgr"}
  BY DEF FirstOf, Order
<1>2. \A k \in 0..9 : FirstOf(k) \subseteq Resources
  BY OrderIs DEF FirstOf
<1>3. ASSUME NEW k \in 1..9 PROVE FirstOf(k) \ {Order[k]} = FirstOf(k - 1)
  BY OrderIs DEF FirstOf
<1> QED BY <1>1, <1>2, <1>3

\* How many things may be deferred, at the steps that defer some.
LEMMA Counts ==
    /\ \A k \in {0, 1} : ~(k > 1) /\ k < 9 /\ k <= 9 /\ 0 \in 0..k
    /\ \A k \in {1, 3, 4, 5, 7} : k # 1 => k > 1
    /\ \A k \in 3..8 : 0 \in 0..k /\ k <= 9
    /\ \A k \in Nat : k # 0 /\ k # 1 => k > 1
    /\ \A k \in Nat : k > 0 /\ ~(k > 1) => k = 1
OBVIOUS

\* What is opened next in the order is deferred next, and open with what was open.
LEMMA Defers ==
    ASSUME NEW s \in Seq(Resources), NEW rs \in Seq(Resources), Len(s) + Len(rs) <= 9,
           \A i \in 1..Len(s) : s[i] = Order[i],
           \A j \in 1..Len(rs) : rs[j] = Order[Len(s) + j]
    PROVE  /\ s \o rs \in Seq(Resources) /\ Len(s \o rs) = Len(s) + Len(rs)
           /\ \A i \in 1..Len(s \o rs) : (s \o rs)[i] = Order[i]
           /\ FirstOf(Len(s)) \cup {rs[j] : j \in DOMAIN rs} = FirstOf(Len(s \o rs))
<1>1. Len(s) \in Nat /\ Len(rs) \in Nat /\ DOMAIN rs = 1..Len(rs)
  OBVIOUS
<1>2. s \o rs \in Seq(Resources) /\ Len(s \o rs) = Len(s) + Len(rs)
  OBVIOUS
<1>3. ASSUME NEW i \in 1..Len(s \o rs) PROVE (s \o rs)[i] = Order[i]
  <2>1. CASE i <= Len(s)
    BY <1>1, <1>2, <2>1
  <2>2. CASE i > Len(s)
    <3>1. i - Len(s) \in 1..Len(rs) /\ (s \o rs)[i] = rs[i - Len(s)]
      BY <1>1, <1>2, <2>2
    <3> QED BY <1>1, <3>1
  <2> QED BY <1>1, <1>2, <2>1, <2>2
<1>4. FirstOf(Len(s)) \cup {rs[j] : j \in DOMAIN rs} = FirstOf(Len(s \o rs))
  <2>1. ASSUME NEW j \in 1..Len(rs) PROVE rs[j] \in FirstOf(Len(s \o rs))
    <3>1. Len(s) + j \in 1..Len(s \o rs)
      BY <1>1, <1>2
    <3> QED BY <3>1 DEF FirstOf
  <2>2. FirstOf(Len(s)) \subseteq FirstOf(Len(s \o rs))
    BY <1>1, <1>2 DEF FirstOf
  <2>3. ASSUME NEW i \in 1..Len(s \o rs)
        PROVE  Order[i] \in FirstOf(Len(s)) \cup {rs[j] : j \in DOMAIN rs}
    <3>1. CASE i <= Len(s)
      BY <1>1, <3>1 DEF FirstOf
    <3>2. CASE i > Len(s)
      <4>1. i - Len(s) \in 1..Len(rs) /\ Order[i] = rs[i - Len(s)]
        BY <1>1, <1>2, <3>2
      <4> QED BY <1>1, <4>1
    <3> QED BY <1>1, <1>2, <3>1, <3>2
  <2>4. FirstOf(Len(s \o rs)) \subseteq FirstOf(Len(s)) \cup {rs[j] : j \in DOMAIN rs}
    BY <2>3 DEF FirstOf
  <2>5. {rs[j] : j \in DOMAIN rs} \subseteq FirstOf(Len(s \o rs))
    BY <1>1, <2>1
  <2> QED BY <2>2, <2>4, <2>5
<1> QED BY <1>2, <1>3, <1>4

-------------------------------------------------------------------------------
(***************************************************************************)
(* The inductive invariant.                                                *)
(***************************************************************************)

LEMMA Starts == Init => IInv
<1> SUFFICES ASSUME Init PROVE IInv
  OBVIOUS
<1>1. <<>> \in Seq(Resources) /\ <<>> \in Seq({"loading", "ready", "error"}) /\ Len(<<>>) = 0
  OBVIOUS
<1>2. TypeOK
  <2>1. opened \in Seq(Resources) /\ Len(opened) = 0 /\ closed = 0
        /\ res \in Seq({"loading", "ready", "error"}) /\ Len(res) = 0
    BY <1>1 DEF Init
  <2>2. tries \in 0..DnsTries /\ events \in 0..MaxEvents
    BY TriesAssumption DEF Init
  <2>3. /\ tunnel \in BOOLEAN /\ cancelled \in BOOLEAN /\ inited \in BOOLEAN
        /\ shutdown \in BOOLEAN /\ failed \in BOOLEAN /\ open \subseteq Resources
    BY DEF Init
  <2>4. pc = "start" /\ tpc = "off" /\ initUpd = "empty" /\ server = "new" /\ rpc = "off"
    BY DEF Init
  <2> HIDE DEF Init
  <2> QED BY <2>1, <2>2, <2>3, <2>4 DEF TypeOK, ServerStates
<1>3. OpenedInOrder /\ StillOpen /\ TunnelMade /\ ServerStarted
  BY <1>1, TriesAssumption DEF Init, OpenedInOrder, StillOpen, TunnelMade, ServerStarted
<1> QED BY <1>2, <1>3 DEF IInv

\* A report is one of three, alone in its channel.
LEMMA Reported ==
    ASSUME NEW s \in {"loading", "ready", "error"}, Report(s)
    PROVE  res' \in Seq({"loading", "ready", "error"}) /\ Len(res') <= 1
BY DEF Report

\* RunProxy before the tunnel or the listener.
LEMMA EarlyKeeps ==
    ASSUME IInv, Loading \/ Config \/ ConnectPool \/ FindRoot \/ Nodes
    PROVE  IInv'
<1> USE DEF IInv, tunnelVars
<1>1. CASE Loading
  <2>1. res' \in Seq({"loading", "ready", "error"}) /\ Len(res') <= 1
    BY <1>1, Reported DEF Loading
  <2>2. /\ \/ pc = "start" /\ pc' = "config"
           \/ pc = "startDns" /\ pc' = "connect"
           \/ pc = "startTunnel" /\ pc' = "nodes"
           \/ pc = "startDht" /\ pc' = "gateway"
           \/ pc = "startRldp" /\ pc' = "storage"
           \/ pc = "startHttp" /\ pc' = "listen"
        /\ UNCHANGED <<tunnel, cancelled, tries, opened, closed, open, tunnelVars, initUpd,
                       server, shutdown, failed, rpc>>
    BY <1>1 DEF Loading
  <2>3. TypeOK'
    BY <2>1, <2>2 DEF TypeOK
  <2>4. OpenedInOrder'
    BY <2>2 DEF OpenedInOrder
  <2>5. StillOpen' /\ TunnelMade' /\ ServerStarted'
    BY <2>2 DEF StillOpen, TunnelMade, ServerStarted
  <2> QED BY <2>3, <2>4, <2>5
<1>2. CASE Config
  <2>1. TypeOK'
    BY <1>2 DEF Config, TypeOK
  <2>2. OpenedInOrder'
    BY <1>2 DEF Config, OpenedInOrder
  <2>3. StillOpen' /\ TunnelMade' /\ ServerStarted'
    BY <1>2 DEF Config, OpenedInOrder, StillOpen, TunnelMade, ServerStarted
  <2> QED BY <2>1, <2>2, <2>3
<1>3. CASE ConnectPool
  <2>1. TypeOK'
    BY <1>3 DEF ConnectPool, TypeOK, Resources
  <2>2. OpenedInOrder'
    BY <1>3, TriesAssumption DEF ConnectPool, OpenedInOrder
  <2>3. StillOpen' /\ TunnelMade' /\ ServerStarted'
    BY <1>3 DEF ConnectPool, OpenedInOrder, StillOpen, TunnelMade, ServerStarted
  <2> QED BY <2>1, <2>2, <2>3
<1>4. CASE FindRoot
  <2>1. /\ pc = "dns" /\ Len(opened) = 0 /\ closed = 0 /\ open = {"pool"}
        /\ tpc = "off" /\ ~inited /\ rpc = "off" /\ tries < DnsTries
    BY <1>4 DEF FindRoot, OpenedInOrder, StillOpen, TunnelMade, ServerStarted
  <2>2. /\ UNCHANGED <<tunnel, cancelled, closed, open, res, tunnelVars, initUpd,
                       server, shutdown, failed, rpc>>
        /\ tries' = tries + 1
        /\ \/ opened' = <<"pool">> /\ pc' = (IF tunnel THEN "startTunnel" ELSE "net")
           \/ opened' = opened /\ pc' = (IF tries' = DnsTries THEN "unwind" ELSE "dns")
    BY <1>4 DEF FindRoot
  <2>3. /\ <<"pool">> \in Seq(Resources) /\ Len(<<"pool">>) = 1
        /\ \A i \in 1..1 : <<"pool">>[i] = Order[i]
    BY DEF Resources, Order
  <2>4. opened' \in Seq(Resources) /\ Len(opened') \in {0, 1}
    BY <2>1, <2>2, <2>3 DEF TypeOK
  <2>5. ~(Len(opened') > 1) /\ Len(opened') < 9 /\ Len(opened') <= 9 /\ 0 \in 0..Len(opened')
    <3>1. Len(opened') \in {0, 1}
      BY <2>4
    <3> QED BY <3>1, Counts, Zenon
  <2>6. TypeOK'
    <3>1. tries' \in 0..DnsTries
      BY <2>1, <2>2, TriesAssumption DEF TypeOK
    <3>2. pc' \in {"startTunnel", "net", "unwind", "dns"}
      BY <2>2
    <3>3. closed' \in 0..Len(opened') /\ Len(opened') <= 9
      <4>1. closed' = 0
        BY <2>1, <2>2
      <4> QED BY <2>5, <4>1, Zenon
    <3> QED BY <2>2, <2>4, <3>1, <3>2, <3>3 DEF TypeOK
  <2>7. OpenedInOrder'
    <3>1. CASE opened' = <<"pool">> /\ pc' \in {"startTunnel", "net"}
      BY <2>1, <2>2, <2>3, <3>1 DEF OpenedInOrder
    <3>2. CASE opened' = opened /\ pc' = (IF tries' = DnsTries THEN "unwind" ELSE "dns")
      BY <2>1, <2>2, <3>2, TriesAssumption DEF OpenedInOrder, TypeOK
    <3> QED BY <2>2, <3>1, <3>2
  <2>8. StillOpen'
    <3>1. /\ pc' \in {"startTunnel", "net", "unwind", "dns"}
          /\ open' = {"pool"} /\ closed' = 0 /\ ~inited'
      BY <2>1, <2>2
    <3>2. open' = FirstOf(1 - closed') \cup (IF inited' THEN {"gate", "netMgr"} ELSE {})
      BY <3>1, FirstOfIs
    <3> QED BY <2>5, <3>1, <3>2 DEF StillOpen
  <2>9. TunnelMade'
    <3>1. tpc' = "off" /\ ~inited' /\ initUpd' = "empty"
      BY <2>1, <2>2 DEF TunnelMade
    <3>2. /\ pc' = "startTunnel" => tunnel'
          /\ pc' = "net" => ~tunnel'
          /\ pc' # "nodes"
      BY <2>2
    <3> QED BY <2>5, <3>1, <3>2 DEF TunnelMade
  <2>10. ServerStarted'
    <3>1. pc' \notin {"serve", "error"}
      BY <2>2
    <3>2. UNCHANGED <<cancelled, server, shutdown, failed, rpc>> /\ rpc = "off"
      BY <2>1, <2>2
    <3> QED BY <2>5, <3>1, <3>2 DEF ServerStarted
  <2> QED BY <2>6, <2>7, <2>8, <2>9, <2>10
<1>5. CASE Nodes
  <2>1. TypeOK'
    BY <1>5 DEF Nodes, TypeOK
  <2>2. OpenedInOrder'
    BY <1>5 DEF Nodes, OpenedInOrder
  <2>3. StillOpen' /\ TunnelMade' /\ ServerStarted'
    BY <1>5 DEF Nodes, OpenedInOrder, StillOpen, TunnelMade, ServerStarted
  <2> QED BY <2>1, <2>2, <2>3
<1> QED BY <1>1, <1>2, <1>3, <1>4, <1>5

\* RunProxy waits for the tunnel: what the tunnel has made is deferred.
LEMMA AwaitKeeps == ASSUME IInv, AwaitTunnel PROVE IInv'
<1> USE DEF IInv
<1>1. /\ pc = "net" /\ tunnel /\ Len(opened) = 1 /\ closed = 0 /\ tpc # "off"
      /\ opened[1] = Order[1] /\ opened \in Seq(Resources)
      /\ open = FirstOf(1) \cup (IF inited THEN {"gate", "netMgr"} ELSE {})
      /\ rpc = "off"
  <2>1. pc = "net" /\ tunnel
    BY DEF AwaitTunnel
  <2>2. /\ Len(opened) = 1 /\ closed = 0 /\ opened \in Seq(Resources)
        /\ \A i \in 1..Len(opened) : opened[i] = Order[i]
    BY <2>1 DEF TypeOK, OpenedInOrder
  <2>3. opened[1] = Order[1]
    BY <2>2
  <2>4. open = FirstOf(1) \cup (IF inited THEN {"gate", "netMgr"} ELSE {})
    BY <2>2 DEF StillOpen
  <2>5. tpc # "off" /\ rpc = "off"
    BY <2>1, <2>2 DEF TunnelMade, ServerStarted
  <2> QED BY <2>1, <2>2, <2>3, <2>4, <2>5
<1>2. /\ UNCHANGED <<tunnel, cancelled, tries, closed, open, res, tpc, events, inited,
                     server, shutdown, failed, rpc>>
      /\ initUpd' = "empty"
      /\ \/ initUpd = "updated" /\ opened' = opened \o <<"gate", "netMgr">> /\ pc' = "startDht"
         \/ initUpd = "error" /\ opened' = opened /\ pc' = "unwind"
  BY DEF AwaitTunnel, tunnelVars
<1>3. CASE opened' = opened /\ pc' = "unwind"
  <2>1. TypeOK'
    BY <1>2, <1>3 DEF TypeOK
  <2>2. OpenedInOrder' /\ StillOpen' /\ TunnelMade' /\ ServerStarted'
    BY <1>1, <1>2, <1>3 DEF OpenedInOrder, StillOpen, TunnelMade, ServerStarted
  <2> QED BY <2>1, <2>2
<1>4. CASE initUpd = "updated" /\ opened' = opened \o <<"gate", "netMgr">> /\ pc' = "startDht"
  <2> DEFINE rs == <<"gate", "netMgr">>
  <2>1. /\ rs \in Seq(Resources) /\ Len(rs) = 2
        /\ \A j \in 1..2 : rs[j] = Order[1 + j]
    BY DEF Resources, Order
  <2>2. /\ opened' \in Seq(Resources) /\ Len(opened') = 3
        /\ \A i \in 1..Len(opened') : opened'[i] = Order[i]
    <3> HIDE DEF rs
    <3>1. \A i \in 1..Len(opened) : opened[i] = Order[i]
      BY <1>1
    <3>2. Len(opened) + Len(rs) = 3 /\ \A j \in 1..Len(rs) : rs[j] = Order[Len(opened) + j]
      BY <1>1, <2>1
    <3>3. /\ opened \o rs \in Seq(Resources) /\ Len(opened \o rs) = Len(opened) + Len(rs)
          /\ \A i \in 1..Len(opened \o rs) : (opened \o rs)[i] = Order[i]
      <4>1. Len(opened) + Len(rs) <= 9
        BY <3>2
      <4>2. opened \in Seq(Resources) /\ rs \in Seq(Resources)
        BY <1>1, <2>1
      <4> QED BY <3>1, <3>2, <4>1, <4>2, Defers
    <3>4. opened' = opened \o rs
      BY <1>4 DEF rs
    <3> QED BY <3>2, <3>3, <3>4
  <2>3. inited /\ open' = FirstOf(3)
    <3>1. inited
      BY <1>4 DEF TunnelMade
    <3> QED BY <1>1, <1>2, <3>1, FirstOfIs
  <2>4. TypeOK'
    BY <1>1, <1>2, <1>4, <2>2 DEF TypeOK
  <2>5. OpenedInOrder'
    BY <1>1, <1>2, <1>4, <2>2 DEF OpenedInOrder
  <2>6. StillOpen'
    BY <1>1, <1>2, <1>4, <2>2, <2>3 DEF StillOpen
  <2>7. TunnelMade' /\ ServerStarted'
    BY <1>1, <1>2, <1>4, <2>2, <2>3 DEF TunnelMade, ServerStarted
  <2> QED BY <2>4, <2>5, <2>6, <2>7
<1> QED BY <1>2, <1>3, <1>4

\* Where RunProxy is after it has opened rs, as OpenedInOrder has it.
Opened(step, rs, next) ==
    \/ step = "net" /\ rs = <<"gate", "netMgr">> /\ next = "startDht" /\ ~tunnel
    \/ step = "gateway" /\ rs = <<"gateway">> /\ next = "dht"
    \/ step = "dht" /\ rs = <<"dht">> /\ next = "startRldp"
    \/ step = "storage" /\ rs = <<"gateStorage", "srv">> /\ next = "proxy"
    \/ step = "proxy" /\ rs = <<"gateProxy">> /\ next = "startHttp"

\* RunProxy opens the next things of the order, or gives up.
LEMMA OpensKeeps ==
    ASSUME IInv, NEW step, NEW rs, NEW next, Opened(step, rs, next), Opens(step, rs, next)
    PROVE  IInv'
<1> USE DEF IInv
<1>1. /\ pc = step
      /\ UNCHANGED <<tunnel, cancelled, tries, closed, res, tpc, events, inited, initUpd,
                     server, shutdown, failed, rpc>>
      /\ \/ /\ opened' = opened \o rs
            /\ open' = open \cup {rs[i] : i \in DOMAIN rs}
            /\ pc' = next
         \/ pc' = "unwind" /\ opened' = opened /\ open' = open
  BY DEF Opens, tunnelVars
<1>2. /\ closed = 0 /\ Len(opened) \in {1, 3, 4, 5, 7} /\ rpc = "off"
      /\ opened \in Seq(Resources) /\ \A i \in 1..Len(opened) : opened[i] = Order[i]
      /\ step \notin {"startTunnel", "nodes", "start", "config", "startDns", "connect", "dns",
                      "unwind", "returned", "serve", "error"}
  BY <1>1 DEF Opened, TypeOK, OpenedInOrder, ServerStarted
<1>3. CASE pc' = "unwind" /\ opened' = opened /\ open' = open
  <2>1. TypeOK'
    BY <1>1, <1>3 DEF TypeOK
  <2>2. OpenedInOrder'
    BY <1>1, <1>2, <1>3 DEF OpenedInOrder
  <2>3. StillOpen' /\ TunnelMade' /\ ServerStarted'
    BY <1>1, <1>2, <1>3 DEF StillOpen, TunnelMade, ServerStarted
  <2> QED BY <2>1, <2>2, <2>3
<1>4. CASE /\ opened' = opened \o rs
           /\ open' = open \cup {rs[i] : i \in DOMAIN rs}
           /\ pc' = next
  <2>1. /\ rs \in Seq(Resources) /\ Len(rs) \in {1, 2}
        /\ \A j \in 1..Len(rs) : rs[j] = Order[Len(opened) + j]
        /\ \/ Len(opened) + Len(rs) = 3 /\ next = "startDht"
           \/ Len(opened) + Len(rs) = 4 /\ next = "dht"
           \/ Len(opened) + Len(rs) = 5 /\ next = "startRldp"
           \/ Len(opened) + Len(rs) = 7 /\ next = "proxy"
           \/ Len(opened) + Len(rs) = 8 /\ next = "startHttp"
    <3>1. CASE step = "net" /\ rs = <<"gate", "netMgr">> /\ next = "startDht"
      <4>1. Len(opened) = 1
        BY <1>1, <3>1 DEF OpenedInOrder
      <4> QED BY <3>1, <4>1 DEF Resources, Order
    <3>2. CASE step = "gateway" /\ rs = <<"gateway">> /\ next = "dht"
      <4>1. Len(opened) = 3
        BY <1>1, <3>2 DEF OpenedInOrder
      <4> QED BY <3>2, <4>1 DEF Resources, Order
    <3>3. CASE step = "dht" /\ rs = <<"dht">> /\ next = "startRldp"
      <4>1. Len(opened) = 4
        BY <1>1, <3>3 DEF OpenedInOrder
      <4> QED BY <3>3, <4>1 DEF Resources, Order
    <3>4. CASE step = "storage" /\ rs = <<"gateStorage", "srv">> /\ next = "proxy"
      <4>1. Len(opened) = 5
        BY <1>1, <3>4 DEF OpenedInOrder
      <4> QED BY <3>4, <4>1 DEF Resources, Order
    <3>5. CASE step = "proxy" /\ rs = <<"gateProxy">> /\ next = "startHttp"
      <4>1. Len(opened) = 7
        BY <1>1, <3>5 DEF OpenedInOrder
      <4> QED BY <3>5, <4>1 DEF Resources, Order
    <3> QED BY <3>1, <3>2, <3>3, <3>4, <3>5 DEF Opened
  <2>2. /\ opened' \in Seq(Resources) /\ Len(opened') = Len(opened) + Len(rs)
        /\ \A i \in 1..Len(opened') : opened'[i] = Order[i]
        /\ FirstOf(Len(opened)) \cup {rs[j] : j \in DOMAIN rs} = FirstOf(Len(opened'))
    <3>1. Len(opened) + Len(rs) <= 9
      BY <2>1
    <3> QED BY <1>2, <1>4, <2>1, <3>1, Defers
  <2>3. open = FirstOf(Len(opened))
    <3>1. CASE Len(opened) = 1
      <4>1. step = "net"
        BY <1>1, <3>1 DEF Opened, OpenedInOrder
      <4>2. ~tunnel
        BY <4>1 DEF Opened
      <4>3. ~inited
        BY <4>2 DEF TunnelMade
      <4>4. open = FirstOf(1 - closed) \cup {}
        BY <3>1, <4>3 DEF StillOpen
      <4>5. 1 - closed = 1
        BY <1>2
      <4> QED BY <3>1, <4>4, <4>5
    <3>2. CASE Len(opened) # 1
      <4>1. Len(opened) > 1 /\ Len(opened) - closed = Len(opened)
        <5>1. Len(opened) \in {1, 3, 4, 5, 7} /\ closed = 0
          BY <1>2
        <5>2. Len(opened) > 1
          BY <3>2, <5>1, Counts, Zenon
        <5> QED BY <5>1, <5>2
      <4> QED BY <4>1 DEF StillOpen
    <3> QED BY <3>1, <3>2
  <2>4. open' = FirstOf(Len(opened')) /\ Len(opened') \in 3..8
    <3>1. open' = FirstOf(Len(opened'))
      BY <1>4, <2>2, <2>3
    <3>2. Len(opened') \in 3..8
      BY <1>2, <2>1, <2>2
    <3> QED BY <3>1, <3>2
  <2>5. TypeOK'
    <3>1. open' \subseteq Resources
      <4>1. Len(opened') \in 0..9
        BY <2>4
      <4> QED BY <2>4, <4>1, FirstOfIs
    <3>2. closed' \in 0..Len(opened') /\ Len(opened') <= 9
      <4>1. closed' = 0
        BY <1>1, <1>2
      <4>2. Len(opened') \in 3..8
        BY <2>4
      <4> QED BY <4>1, <4>2, Counts, Zenon
    <3>3. pc' \in {"startDht", "dht", "startRldp", "proxy", "startHttp"}
      BY <1>4, <2>1
    <3> QED BY <1>1, <2>2, <3>1, <3>2, <3>3 DEF TypeOK
  <2>6. OpenedInOrder'
    BY <1>1, <1>2, <1>4, <2>1, <2>2 DEF OpenedInOrder
  <2>7. StillOpen'
    BY <1>1, <1>2, <1>4, <2>1, <2>4 DEF StillOpen
  <2>8. TunnelMade'
    <3>1. tunnel => inited
      <4>1. CASE Len(opened) = 1
        BY <1>1, <4>1 DEF Opened, OpenedInOrder
      <4>2. CASE Len(opened) # 1
        <5>1. Len(opened) \in {1, 3, 4, 5, 7}
          BY <1>2
        <5>2. Len(opened) > 1
          BY <4>2, <5>1, Counts, Zenon
        <5> QED BY <5>2 DEF TunnelMade
      <4> QED BY <4>1, <4>2
    <3> QED BY <1>1, <1>4, <2>1, <2>4, <3>1 DEF TunnelMade
  <2>9. ServerStarted'
    BY <1>1, <1>2, <1>4, <2>1, <2>4 DEF ServerStarted
  <2> QED BY <2>5, <2>6, <2>7, <2>8, <2>9
<1> QED BY <1>1, <1>3, <1>4

\* The transport is the last thing of the order; with it come the server's goroutines.
LEMMA StartKeeps == ASSUME IInv, Start PROVE IInv'
<1> USE DEF IInv
<1>1. /\ pc = "listen" /\ pc' = "serve" /\ rpc' = "sleep"
      /\ opened' = Append(opened, "transport")
      /\ open' = open \cup {"transport"}
      /\ UNCHANGED <<tunnel, cancelled, tries, closed, res, tpc, events, inited, initUpd,
                     server, shutdown, failed>>
  BY DEF Start, tunnelVars
<1>2. /\ closed = 0 /\ Len(opened) = 8 /\ opened \in Seq(Resources)
      /\ \A i \in 1..Len(opened) : opened[i] = Order[i]
  BY <1>1 DEF TypeOK, OpenedInOrder
<1>3. open = FirstOf(Len(opened)) /\ rpc = "off" /\ (tunnel => inited)
  <2>1. Len(opened) > 1 /\ Len(opened) < 9 /\ Len(opened) - closed = Len(opened)
    BY <1>2
  <2> QED BY <2>1 DEF StillOpen, ServerStarted, TunnelMade
<1> DEFINE rs == <<"transport">>
<1>4. /\ rs \in Seq(Resources) /\ Len(rs) = 1
      /\ \A j \in 1..1 : rs[j] = Order[8 + j]
      /\ {rs[j] : j \in DOMAIN rs} = {"transport"}
  BY DEF Resources, Order
<1>5. opened' = opened \o rs
  <2>1. ASSUME NEW s \in Seq(Resources) PROVE Append(s, "transport") = s \o <<"transport">>
    OBVIOUS
  <2> QED BY <1>1, <1>2, <2>1, Zenon
<1>6. /\ opened' \in Seq(Resources) /\ Len(opened') = 9
      /\ \A i \in 1..Len(opened') : opened'[i] = Order[i]
      /\ open' = FirstOf(9)
  <2> HIDE DEF rs
  <2>1. Len(opened) + Len(rs) = 9 /\ \A j \in 1..Len(rs) : rs[j] = Order[Len(opened) + j]
    BY <1>2, <1>4
  <2>2. /\ opened \o rs \in Seq(Resources) /\ Len(opened \o rs) = Len(opened) + Len(rs)
        /\ \A i \in 1..Len(opened \o rs) : (opened \o rs)[i] = Order[i]
        /\ FirstOf(Len(opened)) \cup {rs[j] : j \in DOMAIN rs} = FirstOf(Len(opened \o rs))
    <3>1. Len(opened) + Len(rs) <= 9
      BY <2>1
    <3> QED BY <1>2, <1>4, <2>1, <3>1, Defers
  <2>3. FirstOf(Len(opened)) \cup {"transport"} = FirstOf(9)
    BY <1>4, <2>1, <2>2
  <2> QED BY <1>1, <1>3, <1>5, <2>1, <2>2, <2>3
<1>7. /\ Len(opened') > 1 /\ ~(Len(opened') < 9) /\ Len(opened') <= 9 /\ 0 \in 0..Len(opened')
      /\ open' \subseteq Resources /\ Len(opened') # 1 /\ Len(opened') # 0 /\ Len(opened') # 2
  BY <1>6, FirstOfIs
<1>8. TypeOK'
  <2>1. closed' = 0
    BY <1>1, <1>2
  <2>2. closed' \in 0..Len(opened') /\ Len(opened') <= 9
    BY <1>7, <2>1, Zenon
  <2> QED BY <1>1, <1>6, <1>7, <2>2 DEF TypeOK
<1>9. OpenedInOrder'
  BY <1>1, <1>2, <1>6 DEF OpenedInOrder
<1>10. StillOpen'
  <2>1. Len(opened') - closed' = 9
    BY <1>1, <1>2, <1>6
  <2> QED BY <1>1, <1>6, <1>7, <2>1 DEF StillOpen
<1>11. TunnelMade'
  BY <1>1, <1>2, <1>3, <1>7 DEF TunnelMade
<1>12. ServerStarted'
  BY <1>1, <1>3, <1>7 DEF ServerStarted
<1> QED BY <1>8, <1>9, <1>10, <1>11, <1>12

\* The server: it listens, breaks, is shut down, and its failure is reported.
LEMMA ServerKeeps ==
    ASSUME IInv, Listen \/ AcceptFails \/ ServeReturns \/ ReportError \/ Shutdown
    PROVE  IInv'
<1> USE DEF IInv, tunnelVars, mainVars
<1>1. UNCHANGED <<tunnel, cancelled, tries, opened, closed, open, tpc, events, inited, initUpd,
                  rpc>>
  BY DEF Listen, AcceptFails, ServeReturns, ReportError, Shutdown
<1>2. CASE Listen
  <2>1. TypeOK'
    BY <1>2 DEF Listen, TypeOK, ServerStates
  <2>2. OpenedInOrder' /\ StillOpen' /\ TunnelMade'
    BY <1>2 DEF Listen, OpenedInOrder, StillOpen, TunnelMade
  <2>3. rpc # "off" /\ ~(Len(opened) < 9)
    <3>1. Len(opened) = 9
      BY <1>2 DEF Listen, OpenedInOrder
    <3> QED BY <3>1 DEF ServerStarted
  <2>4. ServerStarted'
    BY <1>2, <2>3 DEF Listen, ServerStarted
  <2> QED BY <2>1, <2>2, <2>4
<1>3. CASE AcceptFails
  <2>1. TypeOK'
    BY <1>3 DEF AcceptFails, TypeOK, ServerStates
  <2>2. OpenedInOrder' /\ StillOpen' /\ TunnelMade'
    BY <1>3 DEF AcceptFails, OpenedInOrder, StillOpen, TunnelMade
  <2>3. ServerStarted'
    BY <1>3 DEF AcceptFails, ServerStarted, OpenedInOrder
  <2> QED BY <2>1, <2>2, <2>3
<1>4. CASE ServeReturns
  <2>1. TypeOK'
    <3>1. pc' \in {"unwind", "error"} /\ server' \in ServerStates /\ failed' \in BOOLEAN
      BY <1>4 DEF ServeReturns, TypeOK, ServerStates
    <3> QED BY <1>1, <1>4, <3>1 DEF ServeReturns, TypeOK
  <2>2. OpenedInOrder' /\ StillOpen' /\ TunnelMade'
    BY <1>4 DEF ServeReturns, OpenedInOrder, StillOpen, TunnelMade
  <2>3. ServerStarted'
    BY <1>4 DEF ServeReturns, ServerStarted, OpenedInOrder
  <2> QED BY <2>1, <2>2, <2>3
<1>5. CASE ReportError
  <2>1. TypeOK'
    BY <1>5, Reported DEF ReportError, TypeOK
  <2>2. OpenedInOrder' /\ StillOpen' /\ TunnelMade' /\ ServerStarted'
    BY <1>5 DEF ReportError, OpenedInOrder, StillOpen, TunnelMade, ServerStarted
  <2> QED BY <2>1, <2>2
<1>6. CASE Shutdown
  <2>1. TypeOK'
    BY <1>6 DEF Shutdown, TypeOK
  <2>2. OpenedInOrder' /\ StillOpen' /\ TunnelMade'
    BY <1>6 DEF Shutdown, OpenedInOrder, StillOpen, TunnelMade
  <2>3. ServerStarted'
    BY <1>6 DEF Shutdown, CtxDone, ServerStarted
  <2> QED BY <2>1, <2>2, <2>3
<1> QED BY <1>2, <1>3, <1>4, <1>5, <1>6

\* What only touches the channel of reports, its readers and its writers.
LEMMA ReportsKeep ==
    ASSUME IInv, WakeUp \/ ReportReady \/ Consume \/ Cancel \/ UNCHANGED vars
    PROVE  IInv'
<1> USE DEF IInv, tunnelVars, mainVars
<1>1. CASE WakeUp
  <2>1. TypeOK' /\ OpenedInOrder' /\ StillOpen' /\ TunnelMade'
    BY <1>1 DEF WakeUp, TypeOK, OpenedInOrder, StillOpen, TunnelMade
  <2>2. ServerStarted'
    BY <1>1 DEF WakeUp, ServerStarted
  <2> QED BY <2>1, <2>2
<1>2. CASE ReportReady
  <2>1. TypeOK'
    BY <1>2, Reported DEF ReportReady, TypeOK
  <2>2. OpenedInOrder' /\ StillOpen' /\ TunnelMade' /\ ServerStarted'
    BY <1>2 DEF ReportReady, OpenedInOrder, StillOpen, TunnelMade, ServerStarted
  <2> QED BY <2>1, <2>2
<1>3. CASE Consume
  <2>1. TypeOK'
    <3>1. <<>> \in Seq({"loading", "ready", "error"}) /\ Len(<<>>) <= 1
      OBVIOUS
    <3>2. res' \in Seq({"loading", "ready", "error"}) /\ Len(res') <= 1
      BY <1>3, <3>1 DEF Consume
    <3> QED BY <1>3, <3>2 DEF Consume, TypeOK
  <2>2. OpenedInOrder' /\ StillOpen' /\ TunnelMade' /\ ServerStarted'
    BY <1>3 DEF Consume, OpenedInOrder, StillOpen, TunnelMade, ServerStarted
  <2> QED BY <2>1, <2>2
<1>4. CASE Cancel
  <2>1. TypeOK' /\ OpenedInOrder' /\ StillOpen' /\ TunnelMade'
    BY <1>4 DEF Cancel, TypeOK, OpenedInOrder, StillOpen, TunnelMade
  <2>2. ServerStarted'
    BY <1>4 DEF Cancel, ServerStarted
  <2> QED BY <2>1, <2>2
<1>5. CASE UNCHANGED vars
  BY <1>5 DEF vars, TypeOK, OpenedInOrder, StillOpen, TunnelMade, ServerStarted
<1> QED BY <1>1, <1>2, <1>3, <1>4, <1>5

\* The deferred calls close the things in the reverse of the order.
LEMMA UnwindKeeps == ASSUME IInv, Unwind PROVE IInv'
<1> USE DEF IInv
<1>1. /\ pc = "unwind"
      /\ UNCHANGED <<tunnel, cancelled, tries, opened, res, tpc, events, inited, initUpd,
                     server, shutdown, failed, rpc>>
      /\ pc' \in {"unwind", "returned"}
  BY DEF Unwind, tunnelVars
<1>2. TunnelMade' /\ ServerStarted'
  BY <1>1 DEF TunnelMade, ServerStarted
<1>3. CASE closed = Len(opened)
  <2>1. pc' = "returned" /\ closed' = closed /\ open' = open
    BY <1>3 DEF Unwind
  <2>2. TypeOK'
    BY <1>1, <2>1 DEF TypeOK
  <2>3. OpenedInOrder' /\ StillOpen'
    BY <1>1, <1>3, <2>1 DEF OpenedInOrder, StillOpen
  <2> QED BY <1>2, <2>2, <2>3
<1>4. CASE closed # Len(opened)
  <2> DEFINE last == Len(opened) - closed
  <2>1. pc' = "unwind" /\ closed' = closed + 1 /\ open' = open \ {opened[last]}
    BY <1>1, <1>4 DEF Unwind
  <2>2. /\ closed \in 0..Len(opened) /\ Len(opened) \in Nat /\ Len(opened) <= 9
        /\ \A i \in 1..Len(opened) : opened[i] = Order[i]
    BY DEF TypeOK, OpenedInOrder
  <2>3. /\ last \in 1..9 /\ last \in 1..Len(opened) /\ closed' \in 0..Len(opened)
        /\ Len(opened) - closed' = last - 1 /\ Len(opened) # 0
    BY <1>4, <2>1, <2>2
  <2>4. opened[last] = Order[last] /\ FirstOf(last) \ {opened[last]} = FirstOf(last - 1)
    <3> HIDE DEF last
    <3> QED BY <2>2, <2>3, FirstOfIs
  <2>5. TypeOK'
    BY <1>1, <2>1, <2>3 DEF TypeOK
  <2>6. OpenedInOrder'
    BY <1>1, <2>1 DEF OpenedInOrder
  <2>7. StillOpen'
    <3>1. CASE Len(opened) = 1
      <4>1. closed = 0 /\ last = 1 /\ 1 - closed = 1 /\ 1 - closed' = 0
        BY <1>4, <2>1, <2>2, <3>1
      <4>2. open = {"pool"} \cup (IF inited THEN {"gate", "netMgr"} ELSE {})
        BY <3>1, <4>1, FirstOfIs DEF StillOpen
      <4>3. opened[last] = "pool"
        <5>1. Order[1] = "pool"
          BY DEF Order
        <5> QED BY <2>4, <4>1, <5>1
      <4>4. open' = FirstOf(1 - closed') \cup (IF inited' THEN {"gate", "netMgr"} ELSE {})
        BY <1>1, <2>1, <4>1, <4>2, <4>3, FirstOfIs
      <4>5. ~(Len(opened') > 1) /\ Len(opened') # 0
        BY <1>1, <3>1
      <4> QED BY <1>1, <2>1, <4>4, <4>5 DEF StillOpen
    <3>2. CASE Len(opened) # 1
      <4>1. Len(opened) > 1
        BY <2>2, <2>3, <3>2, Counts, Zenon
      <4>2. open = FirstOf(last)
        BY <4>1 DEF StillOpen
      <4>3. open' = FirstOf(last - 1)
        BY <2>1, <2>4, <4>2
      <4>4. open' = FirstOf(Len(opened') - closed')
        BY <1>1, <2>3, <4>3
      <4> QED BY <1>1, <2>1, <2>3, <3>2, <4>4 DEF StillOpen
    <3> QED BY <3>1, <3>2
  <2> QED BY <1>2, <2>5, <2>6, <2>7
<1> QED BY <1>3, <1>4

\* The reader of the tunnel's events; the first UpdatedEvent makes netMgr and gate.
LEMMA TunnelKeeps == ASSUME IInv, Tunnel PROVE IInv'
<1> USE DEF IInv, tunnelVars, mainVars
<1>1. UNCHANGED <<tunnel, cancelled, pc, tries, opened, closed, server, shutdown, failed, rpc>>
  BY DEF Tunnel, TunnelTells, TunnelReport, TunnelUpdated, TunnelError, TunnelStopped
<1>2. OpenedInOrder' /\ ServerStarted'
  BY <1>1 DEF OpenedInOrder, ServerStarted
<1>3. CASE TunnelTells \/ TunnelError
  <2>1. events' \in 0..MaxEvents
    BY <1>3, TriesAssumption DEF TunnelTells, TunnelError, TakesEvent, TypeOK
  <2>2. /\ UNCHANGED <<open, res, inited>>
        /\ tpc = "wait" /\ tpc' \in {"wait", "report"}
        /\ initUpd' = initUpd \/ initUpd' = "error"
    BY <1>3 DEF TunnelTells, TunnelError, TakesEvent, OfferInit
  <2>3. TypeOK'
    BY <1>1, <2>1, <2>2 DEF TypeOK
  <2>4. StillOpen' /\ TunnelMade'
    BY <1>1, <2>2 DEF StillOpen, TunnelMade
  <2> QED BY <1>2, <2>3, <2>4
<1>4. CASE TunnelReport
  <2>1. TypeOK'
    BY <1>4, Reported DEF TunnelReport, TypeOK
  <2>2. StillOpen' /\ TunnelMade'
    BY <1>4 DEF TunnelReport, StillOpen, TunnelMade
  <2> QED BY <1>2, <2>1, <2>2
<1>5. CASE TunnelStopped
  <2>1. TypeOK'
    BY <1>5 DEF TunnelStopped, TypeOK
  <2>2. StillOpen' /\ TunnelMade'
    BY <1>5 DEF TunnelStopped, StillOpen, TunnelMade
  <2> QED BY <1>2, <2>1, <2>2
<1>6. CASE TunnelUpdated
  <2>1. /\ tpc = "wait" /\ tpc' = tpc /\ ~inited /\ inited' = TRUE /\ res' = res
        /\ open' = open \cup {"netMgr", "gate"} /\ events' = events + 1 /\ events < MaxEvents
        /\ initUpd' = (IF initUpd = "empty" THEN "updated" ELSE initUpd)
    BY <1>6 DEF TunnelUpdated, TakesEvent, OfferInit
  <2>2. tunnel /\ Len(opened) > 0 /\ ~(Len(opened) > 1)
    BY <2>1 DEF TunnelMade
  <2>3. Len(opened) = 1
    <3>1. Len(opened) \in Nat
      BY DEF TypeOK
    <3> QED BY <2>2, <3>1, Counts, Zenon
  <2>4. TypeOK'
    <3>1. events' \in 0..MaxEvents
      BY <2>1, TriesAssumption DEF TypeOK
    <3>2. open' \subseteq Resources /\ initUpd' \in {"empty", "updated", "error"}
      BY <2>1 DEF TypeOK, Resources
    <3> QED BY <1>1, <2>1, <3>1, <3>2 DEF TypeOK
  <2>5. StillOpen'
    <3>1. open = FirstOf(1 - closed)
      BY <2>1, <2>3 DEF StillOpen
    <3>2. pc' \notin {"start", "config", "startDns", "connect", "dns"}
      <4>1. Len(opened) # 0
        BY <2>3
      <4> QED BY <1>1, <4>1 DEF OpenedInOrder
    <3>3. open' = FirstOf(1 - closed') \cup (IF inited' THEN {"gate", "netMgr"} ELSE {})
      BY <1>1, <2>1, <3>1
    <3>4. Len(opened') # 0 /\ ~(Len(opened') > 1)
      BY <1>1, <2>3
    <3> QED BY <3>2, <3>3, <3>4 DEF StillOpen
  <2>6. TunnelMade'
    BY <1>1, <2>1, <2>2 DEF TunnelMade
  <2> QED BY <1>2, <2>4, <2>5, <2>6
<1> QED BY <1>3, <1>4, <1>5, <1>6 DEF Tunnel

\* Every step keeps the invariant.
LEMMA Keeps == IInv /\ [Next]_vars => IInv'
<1> SUFFICES ASSUME IInv, [Next]_vars PROVE IInv'
  OBVIOUS
<1>1. CASE Main
  <2>1. CASE Loading \/ Config \/ ConnectPool \/ FindRoot \/ Nodes
    BY <2>1, EarlyKeeps
  <2>2. CASE AwaitTunnel
    BY <2>2, AwaitKeeps
  <2>3. CASE OpenListener
    BY <2>3, OpensKeeps DEF OpenListener, Opened
  <2>4. CASE StartGateway
    BY <2>4, OpensKeeps DEF StartGateway, Opened
  <2>5. CASE StartDht
    BY <2>5, OpensKeeps DEF StartDht, Opened
  <2>6. CASE StartStorage
    BY <2>6, OpensKeeps DEF StartStorage, Opened
  <2>7. CASE StartProxyGate
    BY <2>7, OpensKeeps DEF StartProxyGate, Opened
  <2>8. CASE Start
    BY <2>8, StartKeeps
  <2>9. CASE Listen \/ ServeReturns \/ ReportError
    BY <2>9, ServerKeeps
  <2>10. CASE Unwind
    BY <2>10, UnwindKeeps
  <2> QED BY <1>1, <2>1, <2>2, <2>3, <2>4, <2>5, <2>6, <2>7, <2>8, <2>9, <2>10 DEF Main
<1>2. CASE Tunnel
  BY <1>2, TunnelKeeps
<1>3. CASE AcceptFails \/ Shutdown
  BY <1>3, ServerKeeps
<1>4. CASE WakeUp \/ ReportReady \/ Consume \/ Cancel \/ UNCHANGED vars
  BY <1>4, ReportsKeep
<1> QED BY <1>1, <1>2, <1>3, <1>4 DEF Next

\* The things are opened, deferred and closed in one order, whatever fails and whenever.
THEOREM Invariance == Spec => []IInv
BY Starts, Keeps, PTL DEF Spec

-------------------------------------------------------------------------------
(***************************************************************************)
(* What the invariant means for the things that are open.                  *)
(***************************************************************************)

\* A thing of the order needs only things that come before it, but for gate: netMgr,
\* which it needs, comes next.
LEMMA NeedsComeBefore ==
    ASSUME NEW k \in 0..9, NEW r \in FirstOf(k)
    PROVE  Needs[r] \subseteq FirstOf(k) \/ (r = "gate" /\ k = 2)
<1>1. PICK i \in 1..k : r = Order[i]
  BY DEF FirstOf
<1>2. i \in 1..9 /\ i <= k
  OBVIOUS
<1>3. \A j \in 1..9 : j <= k => Order[j] \in FirstOf(k)
  BY DEF FirstOf
<1>4. CASE i = 2
  <2>1. r = "gate" /\ Needs[r] = {Order[3]}
    BY <1>1, <1>4 DEF Order, Needs, Resources
  <2>2. k = 2 \/ 3 <= k
    BY <1>2, <1>4
  <2> QED BY <1>3, <2>1, <2>2
<1>5. CASE i # 2
  <2>1. \A x \in Needs[r] : \E j \in 1..9 : j < i /\ x = Order[j]
    BY <1>1, <1>2, <1>5 DEF Order, Needs, Resources
  <2> QED BY <1>2, <1>3, <2>1
<1> QED BY <1>4, <1>5

\* What is built on something is closed before it; but gate is closed right after the
\* netMgr it is built on (proxy.go, 347-348).
THEOREM NeedsAreOpen == Spec => []NeededIsOpen
<1>1. IInv => NeededIsOpen
  <2> SUFFICES ASSUME IInv PROVE NeededIsOpen
    OBVIOUS
  <2> USE DEF IInv
  <2>1. Needs["pool"] = {} /\ Needs["gate"] = {"netMgr"} /\ Needs["netMgr"] = {}
    BY DEF Needs, Resources
  <2>2. CASE Len(opened) = 0
    BY <2>1, <2>2 DEF StillOpen, NeededIsOpen
  <2>3. CASE Len(opened) = 1
    <3>1. open = FirstOf(1 - closed) \cup (IF inited THEN {"gate", "netMgr"} ELSE {})
      BY <2>3 DEF StillOpen
    <3>2. 1 - closed \in {0, 1}
      BY <2>3 DEF TypeOK
    <3>3. open \subseteq {"pool"} \/ (open \subseteq {"pool", "gate", "netMgr"} /\ "netMgr" \in open)
      BY <3>1, <3>2, FirstOfIs
    <3> QED BY <2>1, <3>3 DEF NeededIsOpen
  <2>4. CASE Len(opened) \notin {0, 1}
    <3>1. Len(opened) \in Nat /\ closed \in 0..Len(opened) /\ Len(opened) <= 9
      BY DEF TypeOK
    <3>2. Len(opened) > 1 /\ Len(opened) - closed \in 0..9
      BY <2>4, <3>1
    <3>3. open = FirstOf(Len(opened) - closed)
      BY <3>2 DEF StillOpen
    <3>4. CASE Len(opened) - closed = 2
      <4>1. closed # 0 /\ closed # Len(opened)
        BY <3>1, <3>4 DEF OpenedInOrder
      <4>2. pc = "unwind"
        BY <4>1 DEF OpenedInOrder
      <4>3. open = {"pool", "gate"}
        BY <3>3, <3>4, FirstOfIs
      <4> QED BY <2>1, <4>2, <4>3 DEF NeededIsOpen, GateOutlivesNetMgr
    <3>5. CASE Len(opened) - closed # 2
      BY <3>2, <3>3, <3>5, NeedsComeBefore DEF NeededIsOpen
    <3> QED BY <3>4, <3>5
  <2> QED BY <2>2, <2>3, <2>4
<1> QED BY <1>1, Invariance, PTL

\* A run that returns has closed everything but the two things that nobody closes.
THEOREM LeavesNothing == Spec => []NothingLeft
<1>1. IInv => NothingLeft
  <2> SUFFICES ASSUME IInv, pc = "returned"
               PROVE  \/ open = {}
                      \/ open = {"pool"} /\ opened = <<>>
                      \/ open = {"gate", "netMgr"} /\ tunnel /\ opened = <<"pool">>
    BY DEF NothingLeft
  <2> USE DEF IInv
  <2>1. closed = Len(opened) /\ opened \in Seq(Resources)
        /\ \A i \in 1..Len(opened) : opened[i] = Order[i]
    BY DEF OpenedInOrder, TypeOK
  <2>2. CASE Len(opened) = 0
    <3>1. opened = <<>>
      BY <2>1, <2>2
    <3> QED BY <2>2, <3>1 DEF StillOpen
  <2>3. CASE Len(opened) = 1
    <3>1. opened[1] = "pool"
      BY <2>1, <2>3 DEF Order
    <3>2. opened = <<"pool">>
      BY <2>1, <2>3, <3>1
    <3>3. 1 - closed = 0
      BY <2>1, <2>3
    <3>4. open = IF inited THEN {"gate", "netMgr"} ELSE {}
      BY <2>3, <3>3, FirstOfIs DEF StillOpen
    <3>5. inited => tunnel
      BY DEF TunnelMade
    <3> QED BY <3>2, <3>4, <3>5
  <2>4. CASE Len(opened) \notin {0, 1}
    <3>1. Len(opened) \in Nat
      BY <2>1
    <3>2. Len(opened) > 1 /\ Len(opened) - closed = 0
      BY <2>1, <2>4, <3>1
    <3>3. open = FirstOf(Len(opened) - closed)
      BY <3>2 DEF StillOpen
    <3> QED BY <3>2, <3>3, FirstOfIs
  <2> QED BY <2>2, <2>3, <2>4
<1> QED BY <1>1, Invariance, PTL

-------------------------------------------------------------------------------
(***************************************************************************)
(* The refinement: the run's steps, one by one, as its callers see them.   *)
(***************************************************************************)

\* What a caller sees of the channel of reports.
Seen(s) == <<[i \in DOMAIN s |-> [type |-> s[i], run |-> 1]]>>

LEMMA SeenReports ==
    /\ Seen(<<>>)[1] = <<>>
    /\ \A t \in {"loading", "ready", "error"} : \A s :
          Seen(<<t>>) = [Seen(s) EXCEPT ![1] = <<[type |-> t, run |-> 1]>>]
    /\ \A s : Seen(<<>>) = [Seen(s) EXCEPT ![1] = <<>>]
    /\ \A s \in Seq({"loading", "ready", "error"}) : s # <<>> => Seen(s)[1] # <<>>
<1>1. Seen(<<>>)[1] = <<>> /\ \A s : Seen(<<>>) = [Seen(s) EXCEPT ![1] = <<>>]
  BY DEF Seen
<1>2. ASSUME NEW t \in {"loading", "ready", "error"}, NEW s
      PROVE  Seen(<<t>>) = [Seen(s) EXCEPT ![1] = <<[type |-> t, run |-> 1]>>]
  <2>1. [i \in DOMAIN <<t>> |-> [type |-> <<t>>[i], run |-> 1]] = <<[type |-> t, run |-> 1]>>
    OBVIOUS
  <2> QED BY <2>1 DEF Seen
<1>3. ASSUME NEW s \in Seq({"loading", "ready", "error"}), s # <<>> PROVE Seen(s)[1] # <<>>
  <2>1. DOMAIN s # {}
    BY <1>3
  <2>2. Seen(s)[1] = [i \in DOMAIN s |-> [type |-> s[i], run |-> 1]]
    BY DEF Seen
  <2>3. DOMAIN Seen(s)[1] = DOMAIN s
    BY <2>2
  <2>4. DOMAIN <<>> = {}
    OBVIOUS
  <2> QED BY <2>1, <2>3, <2>4
<1> QED BY <1>1, <1>2, <1>3

\* Of a run as its callers see it: phase, tunnel, error, the goroutine that reports
\* "ready", and the context stay.
Keep(p, t, e, r, d) ==
    /\ p => Phase' = Phase
    /\ t => TunnelState' = TunnelState
    /\ e => (Failed' <=> Failed)
    /\ r => rpc' = rpc
    /\ d => (cancelled' <=> cancelled)

\* Nothing that a caller sees changes.
LEMMA Unseen ==
    ASSUME Keep(TRUE, TRUE, TRUE, TRUE, TRUE), res' = res
    PROVE  UNCHANGED Call!runVars
BY DEF Keep, Call!runVars

\* A report, as Runs has it.
LEMMA Reports ==
    ASSUME NEW t \in {"loading", "ready", "error"}, Report(t)
    PROVE  Call!Report(1, t)
<1>1. res = <<>> /\ res' = <<t>>
  BY DEF Report
<1>2. Seen(res)[1] = <<>> /\ Seen(res') = [Seen(res) EXCEPT ![1] = <<[type |-> t, run |-> 1]>>]
  BY <1>1, SeenReports
<1>3. <<1>>[1] = 1
  OBVIOUS
<1> QED BY <1>2, <1>3 DEF Call!Report, Seen

\* A step from one phase to another.
LEMMA Going ==
    ASSUME NEW from, NEW to, Phase \in from, Phase' = to
    PROVE  Call!Goes(1, from, to)
BY DEF Call!Goes

\* Each action of Runs, from what it changes of a run as its callers see it.
LEMMA SeenBegins ==
    ASSUME Phase = "called", Phase' = "starting", Report("loading"),
           Keep(FALSE, TRUE, TRUE, TRUE, TRUE)
    PROVE  Call!Begins(1)
BY Reports, Going DEF Call!Begins, Keep

LEMMA SeenLoading ==
    ASSUME Phase = "starting" \/ TunnelState = "running", Report("loading"),
           Keep(TRUE, TRUE, TRUE, TRUE, TRUE)
    PROVE  Call!Loading(1)
BY Reports DEF Call!Loading, Keep

LEMMA SeenTunnelStarts ==
    ASSUME Phase = "starting", TunnelState = "wanted", TunnelState' = "running", res' = res,
           Keep(TRUE, FALSE, TRUE, TRUE, TRUE)
    PROVE  Call!TunnelStarts(1)
BY DEF Call!TunnelStarts, Keep

LEMMA SeenTunnelStops ==
    ASSUME TunnelState = "running", TunnelState' = "stopped", res' = res,
           Keep(TRUE, FALSE, TRUE, TRUE, TRUE)
    PROVE  Call!TunnelStops(1)
BY DEF Call!TunnelStops, Keep

LEMMA SeenStartFails ==
    ASSUME Phase = "starting", Phase' = "over", Failed', res' = res,
           Keep(FALSE, TRUE, FALSE, TRUE, TRUE)
    PROVE  Call!StartFails(1)
BY Going DEF Call!StartFails, Keep

LEMMA SeenStarted ==
    ASSUME Phase = "starting", Phase' = "listen", TunnelState # "wanted", rpc' = "sleep",
           res' = res, Keep(FALSE, TRUE, TRUE, FALSE, TRUE)
    PROVE  Call!Started(1)
BY Going DEF Call!Started, Keep

LEMMA SeenListens ==
    ASSUME Phase = "listen", Phase' = "serving", res' = res,
           Keep(FALSE, TRUE, TRUE, TRUE, TRUE)
    PROVE  Call!Listens(1)
BY Going DEF Call!Listens, Keep

LEMMA SeenServerFails ==
    ASSUME Phase \in {"listen", "serving"}, Phase' = "failing", Failed', res' = res,
           Keep(FALSE, TRUE, FALSE, TRUE, TRUE)
    PROVE  Call!ServerFails(1)
BY Going DEF Call!ServerFails, Keep

LEMMA SeenReportsFailure ==
    ASSUME Phase = "failing", Phase' = "over", Report("error"),
           Keep(FALSE, TRUE, TRUE, TRUE, TRUE)
    PROVE  Call!ReportsFailure(1)
BY Reports, Going DEF Call!ReportsFailure, Keep

LEMMA SeenServerCloses ==
    ASSUME cancelled, Phase \in {"listen", "serving"}, Phase' = "over", res' = res,
           Keep(FALSE, TRUE, TRUE, TRUE, TRUE)
    PROVE  Call!ServerCloses(1)
BY Going DEF Call!ServerCloses, Keep

LEMMA SeenWakesUp ==
    ASSUME rpc = "sleep", Phase # "listen", rpc' = (IF Failed THEN "done" ELSE "report"),
           res' = res, Keep(TRUE, TRUE, TRUE, FALSE, TRUE)
    PROVE  Call!WakesUp(1)
BY DEF Call!WakesUp, Keep

LEMMA SeenReportsReady ==
    ASSUME rpc = "report", rpc' = "done", Report("ready"),
           Keep(TRUE, TRUE, TRUE, FALSE, TRUE)
    PROVE  Call!ReportsReady(1)
BY Reports DEF Call!ReportsReady, Keep

LEMMA SeenReceive ==
    ASSUME TypeOK, res # <<>>, res' = <<>>, Keep(TRUE, TRUE, TRUE, TRUE, TRUE)
    PROVE  Call!CallerStep
<1>1. res \in Seq({"loading", "ready", "error"})
  BY DEF TypeOK
<1>2. Seen(res)[1] # <<>> /\ Seen(res') = [Seen(res) EXCEPT ![1] = <<>>]
  BY <1>1, SeenReports
<1>3. Call!Receive(1)
  BY <1>2 DEF Call!Receive, Seen
<1> QED BY <1>3 DEF Call!CallerStep, Keep

LEMMA SeenCancel ==
    ASSUME cancelled', res' = res, Keep(TRUE, TRUE, TRUE, TRUE, FALSE)
    PROVE  Call!CallerStep
<1>1. Call!Cancel(1)
  BY DEF Call!Cancel
<1> QED BY <1>1 DEF Call!CallerStep, Keep

\* A step of the run's side is a step of Runs.
LEMMA SeenStep == Call!RunStep(1) => Call!CallNext
BY DEF Call!CallNext

\* The phases of the run, and of its tunnel.
StartUp == {"config", "startDns", "connect", "dns", "startTunnel", "nodes", "net", "startDht",
            "gateway", "dht", "startRldp", "storage", "proxy", "startHttp", "listen"}

PhaseOf ==
    /\ pc = "start" => Phase = "called"
    /\ pc \in StartUp => Phase = "starting"
    /\ pc = "serve" => Phase = (IF server = "new" THEN "listen" ELSE "serving")
    /\ pc = "error" => Phase = "failing"
    /\ pc \in {"unwind", "returned"} => Phase = "over"

TunnelOf ==
    /\ ~tunnel /\ tpc = "off" => TunnelState = "off"
    /\ tunnel /\ tpc = "off" => TunnelState = "wanted"
    /\ tunnel /\ tpc \in {"wait", "report"} => TunnelState = "running"
    /\ tunnel /\ tpc = "done" => TunnelState = "stopped"

LEMMA Views == PhaseOf /\ TunnelOf /\ PhaseOf' /\ TunnelOf'
<1>1. PhaseOf
  BY DEF PhaseOf, Phase, StartUp
<1>2. TunnelOf
  BY DEF TunnelOf, TunnelState
<1> QED BY <1>1, <1>2, PTL

\* A step of the start-up that goes on, or gives up and returns an error.
LEMMA StartUpStep ==
    ASSUME pc \in StartUp, pc' \in StartUp \cup {"unwind", "returned"}, rpc = "off", ~failed,
           UNCHANGED <<tunnel, cancelled, res, tpc, failed, rpc>>
    PROVE  [Call!CallNext]_(Call!runVars)
<1>1. Phase = "starting" /\ TunnelState' = TunnelState /\ ~Failed
  BY Views DEF PhaseOf, StartUp, TunnelState, Failed
<1>2. CASE pc' \in StartUp
  <2>1. Phase' = "starting" /\ ~Failed'
    BY <1>2, Views DEF PhaseOf, StartUp, Failed
  <2>2. Keep(TRUE, TRUE, TRUE, TRUE, TRUE)
    BY <1>1, <2>1 DEF Keep
  <2> QED BY <2>2, Unseen
<1>3. CASE pc' \in {"unwind", "returned"}
  <2>1. Phase' = "over" /\ Failed'
    BY <1>3, Views DEF PhaseOf, Failed
  <2>2. Keep(FALSE, TRUE, FALSE, TRUE, TRUE)
    BY <1>1 DEF Keep
  <2>3. Call!StartFails(1)
    BY <1>1, <2>1, <2>2, SeenStartFails
  <2> QED BY <2>3, SeenStep DEF Call!RunStep
<1> QED BY <1>2, <1>3

\* A step that changes neither pc nor what a caller sees of the rest.
LEMMA HiddenStep ==
    ASSUME Phase' = Phase, TunnelState' = TunnelState,
           UNCHANGED <<cancelled, pc, res, failed, rpc>>
    PROVE  [Call!CallNext]_(Call!runVars)
<1>1. Failed' <=> Failed
  BY DEF Failed
<1>2. Keep(TRUE, TRUE, TRUE, TRUE, TRUE)
  BY <1>1 DEF Keep
<1> QED BY <1>2, Unseen

LEMMA LoadingImplements ==
    ASSUME IInv, Loading PROVE [Call!CallNext]_(Call!runVars)
<1>1. /\ \/ pc = "start" /\ pc' = "config"
         \/ pc \in StartUp /\ pc' \in StartUp
      /\ Report("loading")
      /\ UNCHANGED <<tunnel, cancelled, tpc, server, failed, rpc>>
  BY DEF Loading, StartUp, tunnelVars
<1>2. Failed' <=> Failed
  BY <1>1 DEF Failed, StartUp
<1>3. TunnelState' = TunnelState
  BY <1>1 DEF TunnelState
<1>4. CASE pc = "start" /\ pc' = "config"
  <2>1. Phase = "called" /\ Phase' = "starting"
    BY <1>4, Views DEF PhaseOf, StartUp
  <2>2. Keep(FALSE, TRUE, TRUE, TRUE, TRUE)
    BY <1>1, <1>2, <1>3 DEF Keep
  <2>3. Call!Begins(1)
    BY <1>1, <2>1, <2>2, SeenBegins
  <2> QED BY <2>3, SeenStep DEF Call!RunStep
<1>5. CASE pc \in StartUp /\ pc' \in StartUp
  <2>1. Phase = "starting" /\ Phase' = "starting"
    BY <1>5, Views DEF PhaseOf
  <2>2. Keep(TRUE, TRUE, TRUE, TRUE, TRUE)
    BY <1>1, <1>2, <1>3, <2>1 DEF Keep
  <2>3. Call!Loading(1)
    BY <1>1, <2>1, <2>2, SeenLoading
  <2> QED BY <2>3, SeenStep DEF Call!RunStep
<1> QED BY <1>1, <1>4, <1>5

\* The rest of the start-up.
LEMMA StartUpImplements ==
    ASSUME IInv,
           \/ Config \/ ConnectPool \/ FindRoot \/ Nodes \/ AwaitTunnel \/ OpenListener
           \/ StartGateway \/ StartDht \/ StartStorage \/ StartProxyGate
    PROVE  [Call!CallNext]_(Call!runVars)
<1> USE DEF IInv, tunnelVars
<1>1. pc \in StartUp \ {"listen"}
  BY DEF Config, ConnectPool, FindRoot, Nodes, AwaitTunnel, OpenListener, StartGateway, StartDht,
         StartStorage, StartProxyGate, Opens, StartUp
<1>2. rpc = "off" /\ ~failed
  <2>1. Len(opened) \in {0, 1} \/ Len(opened) \in 3..8
    BY <1>1 DEF OpenedInOrder, StartUp
  <2>2. \A k \in 3..8 : k < 9
    OBVIOUS
  <2>3. Len(opened) < 9
    BY <2>1, <2>2, Counts, Zenon
  <2> QED BY <2>3 DEF ServerStarted
<1>3. pc' \in StartUp \cup {"unwind", "returned"}
      /\ UNCHANGED <<tunnel, cancelled, res, failed, rpc>>
  BY DEF Config, ConnectPool, FindRoot, Nodes, AwaitTunnel, OpenListener, StartGateway, StartDht,
         StartStorage, StartProxyGate, Opens, StartUp
<1>4. CASE Nodes /\ tpc' # tpc
  <2>1. pc = "nodes" /\ pc' = "net" /\ tpc' = "wait" /\ tunnel /\ tpc = "off"
    BY <1>4 DEF Nodes, TunnelMade
  <2>2. /\ Phase = "starting" /\ Phase' = "starting"
        /\ TunnelState = "wanted" /\ TunnelState' = "running"
    BY <1>3, <2>1, Views DEF PhaseOf, TunnelOf, StartUp
  <2>3. ~Failed /\ ~Failed'
    BY <1>2, <1>3, <2>1 DEF Failed
  <2>4. Keep(TRUE, FALSE, TRUE, TRUE, TRUE)
    BY <1>3, <2>2, <2>3 DEF Keep
  <2>5. Call!TunnelStarts(1)
    BY <1>3, <2>2, <2>4, SeenTunnelStarts
  <2> QED BY <2>5, SeenStep DEF Call!RunStep
<1>5. CASE ~(Nodes /\ tpc' # tpc)
  <2>1. tpc' = tpc
    BY <1>5 DEF Config, ConnectPool, FindRoot, AwaitTunnel, OpenListener, StartGateway,
                StartDht, StartStorage, StartProxyGate, Opens
  <2> QED BY <1>1, <1>2, <1>3, <2>1, StartUpStep
<1> QED BY <1>4, <1>5

\* The transport is made and the server starts.
LEMMA StartImplements == ASSUME IInv, Start PROVE [Call!CallNext]_(Call!runVars)
<1> USE DEF IInv, tunnelVars
<1>1. /\ pc = "listen" /\ pc' = "serve" /\ rpc' = "sleep"
      /\ UNCHANGED <<tunnel, cancelled, res, tpc, server, failed>>
  BY DEF Start
<1>2. Len(opened) = 8
  BY <1>1 DEF OpenedInOrder
<1>3. Len(opened) < 9 /\ Len(opened) > 1
  BY <1>2
<1>4. server = "new" /\ ~failed /\ (tunnel => tpc # "off") /\ rpc = "off"
  BY <1>3 DEF ServerStarted, TunnelMade
<1>5. Phase = "starting" /\ Phase' = "listen" /\ ~Failed /\ ~Failed'
  BY <1>1, <1>4, Views DEF PhaseOf, StartUp, Failed
<1>6. TunnelState # "wanted" /\ TunnelState' = TunnelState
  <2>1. \/ ~tunnel /\ tpc = "off"
        \/ tunnel /\ tpc \in {"wait", "report"}
        \/ tunnel /\ tpc = "done"
    BY <1>4 DEF TunnelMade, TypeOK
  <2>2. TunnelState \in {"off", "running", "stopped"}
    BY <2>1, Views DEF TunnelOf
  <2>3. TunnelState' = TunnelState
    BY <1>1 DEF TunnelState
  <2> QED BY <2>2, <2>3
<1>7. Keep(FALSE, TRUE, TRUE, FALSE, TRUE)
  BY <1>1, <1>5, <1>6 DEF Keep
<1>8. Call!Started(1)
  BY <1>1, <1>5, <1>6, <1>7, SeenStarted
<1> QED BY <1>8, SeenStep DEF Call!RunStep

\* The server listens, breaks, closes, and its failure is reported.
LEMMA ServerImplements ==
    ASSUME IInv, Listen \/ AcceptFails \/ ServeReturns \/ ReportError
    PROVE  [Call!CallNext]_(Call!runVars)
<1> USE DEF IInv, tunnelVars, mainVars
<1>1. pc \in {"serve", "error"} /\ UNCHANGED <<tunnel, cancelled, tpc, shutdown, rpc>>
  BY DEF Listen, AcceptFails, ServeReturns, ReportError
<1>2. Len(opened) = 9
  BY <1>1 DEF OpenedInOrder
<1>3. ~(Len(opened) < 9)
  BY <1>2
<1>4. rpc # "off"
  BY <1>3 DEF ServerStarted
<1>5. TunnelState' = TunnelState
  BY <1>1 DEF TunnelState
<1>6. (Failed <=> failed) /\ (Failed' <=> failed')
  BY <1>1, <1>4 DEF Failed
<1>7. CASE Listen /\ server' = "serving" /\ UNCHANGED <<failed, pc>>
  <2>1. pc = "serve" /\ server = "new" /\ res' = res
    BY <1>7 DEF Listen
  <2>2. Phase = "listen" /\ Phase' = "serving"
    BY <1>7, <2>1, Views DEF PhaseOf
  <2>3. Keep(FALSE, TRUE, TRUE, TRUE, TRUE)
    BY <1>1, <1>5, <1>6, <1>7 DEF Keep
  <2>4. Call!Listens(1)
    BY <2>1, <2>2, <2>3, SeenListens
  <2> QED BY <2>4, SeenStep DEF Call!RunStep
<1>8. CASE pc = "serve" /\ pc' = "error" /\ failed' = TRUE /\ res' = res
  <2>1. Phase \in {"listen", "serving"} /\ Phase' = "failing"
    BY <1>8, Views DEF PhaseOf
  <2>2. Keep(FALSE, TRUE, FALSE, TRUE, TRUE) /\ Failed'
    BY <1>1, <1>5, <1>6, <1>8 DEF Keep
  <2>3. Call!ServerFails(1)
    BY <1>8, <2>1, <2>2, SeenServerFails
  <2> QED BY <2>3, SeenStep DEF Call!RunStep
<1>9. CASE AcceptFails
  <2>1. /\ pc = "serve" /\ pc' = "serve" /\ server = "serving" /\ server' = "failed"
        /\ UNCHANGED <<pc, res, failed>>
    BY <1>9 DEF AcceptFails
  <2>2. Phase = "serving" /\ Phase' = "serving"
    BY <2>1, Views DEF PhaseOf
  <2> QED BY <1>1, <1>5, <2>1, <2>2, HiddenStep
<1>10. CASE ServeReturns /\ pc' = "unwind"
  <2>1. pc = "serve" /\ failed' = failed /\ shutdown /\ res' = res
    BY <1>10 DEF ServeReturns
  <2>2. cancelled
    BY <2>1 DEF ServerStarted
  <2>3. Phase \in {"listen", "serving"} /\ Phase' = "over"
    BY <1>10, <2>1, Views DEF PhaseOf
  <2>4. Keep(FALSE, TRUE, TRUE, TRUE, TRUE)
    BY <1>1, <1>5, <1>6, <2>1 DEF Keep
  <2>5. Call!ServerCloses(1)
    BY <2>1, <2>2, <2>3, <2>4, SeenServerCloses
  <2> QED BY <2>5, SeenStep DEF Call!RunStep
<1>11. CASE ReportError
  <2>1. pc = "error" /\ pc' = "unwind" /\ Report("error") /\ failed' = failed
    BY <1>11 DEF ReportError
  <2>2. Phase = "failing" /\ Phase' = "over"
    BY <2>1, Views DEF PhaseOf
  <2>3. Keep(FALSE, TRUE, TRUE, TRUE, TRUE)
    BY <1>1, <1>5, <1>6, <2>1 DEF Keep
  <2>4. Call!ReportsFailure(1)
    BY <2>1, <2>2, <2>3, SeenReportsFailure
  <2> QED BY <2>4, SeenStep DEF Call!RunStep
<1> QED BY <1>7, <1>8, <1>9, <1>10, <1>11 DEF Listen, ServeReturns

\* The deferred calls and the shutdown of the server are invisible.
LEMMA UnwindImplements ==
    ASSUME IInv, Unwind \/ Shutdown PROVE [Call!CallNext]_(Call!runVars)
<1> USE DEF IInv, tunnelVars, mainVars
<1>1. UNCHANGED <<tunnel, cancelled, res, tpc, server, failed, rpc>>
  BY DEF Unwind, Shutdown
<1>2. TunnelState' = TunnelState
  BY <1>1 DEF TunnelState
<1>3. CASE Unwind
  <2>1. pc = "unwind" /\ pc' \in {"unwind", "returned"}
    BY <1>3 DEF Unwind
  <2>2. Phase' = Phase /\ (Failed' <=> Failed)
    BY <1>1, <2>1, Views DEF PhaseOf, Failed
  <2>3. Keep(TRUE, TRUE, TRUE, TRUE, TRUE)
    BY <1>1, <1>2, <2>2 DEF Keep
  <2> QED BY <1>1, <2>3, Unseen
<1>4. CASE Shutdown
  <2>1. pc' = pc
    BY <1>4 DEF Shutdown
  <2>2. Phase' = Phase
    BY <1>1, <2>1 DEF Phase
  <2> QED BY <1>1, <1>2, <2>1, <2>2, HiddenStep
<1> QED BY <1>3, <1>4

\* Of the tunnel a caller sees the reports and the end.
LEMMA TunnelImplements == ASSUME IInv, Tunnel PROVE [Call!CallNext]_(Call!runVars)
<1> USE DEF IInv, tunnelVars, mainVars
<1>1. /\ UNCHANGED <<tunnel, cancelled, pc, server, failed, rpc>>
      /\ tpc \in {"wait", "report"}
  BY DEF Tunnel, TunnelTells, TunnelReport, TunnelUpdated, TunnelError, TunnelStopped, TakesEvent
<1>2. tunnel /\ Phase' = Phase /\ (Failed' <=> Failed)
  BY <1>1 DEF TunnelMade, Phase, Failed
<1>3. TunnelState = "running"
  BY <1>1, <1>2, Views DEF TunnelOf
<1>4. CASE TunnelTells \/ TunnelUpdated \/ TunnelError
  <2>1. tpc' \in {"wait", "report"} /\ res' = res
    BY <1>4 DEF TunnelTells, TunnelUpdated, TunnelError, TakesEvent
  <2>2. TunnelState' = "running"
    BY <1>1, <1>2, <2>1, Views DEF TunnelOf
  <2> QED BY <1>1, <1>2, <1>3, <2>1, <2>2, HiddenStep
<1>5. CASE TunnelReport
  <2>1. Report("loading") /\ tpc' = "wait"
    BY <1>5 DEF TunnelReport
  <2>2. TunnelState' = "running"
    BY <1>1, <1>2, <2>1, Views DEF TunnelOf
  <2>3. Keep(TRUE, TRUE, TRUE, TRUE, TRUE)
    BY <1>1, <1>2, <1>3, <2>2 DEF Keep
  <2>4. Call!Loading(1)
    BY <1>3, <2>1, <2>3, SeenLoading
  <2> QED BY <2>4, SeenStep DEF Call!RunStep
<1>6. CASE TunnelStopped
  <2>1. tpc' = "done" /\ res' = res
    BY <1>6 DEF TunnelStopped
  <2>2. TunnelState' = "stopped"
    BY <1>1, <1>2, <2>1, Views DEF TunnelOf
  <2>3. Keep(TRUE, FALSE, TRUE, TRUE, TRUE)
    BY <1>1, <1>2 DEF Keep
  <2>4. Call!TunnelStops(1)
    BY <1>3, <2>1, <2>2, <2>3, SeenTunnelStops
  <2> QED BY <2>4, SeenStep DEF Call!RunStep
<1> QED BY <1>4, <1>5, <1>6 DEF Tunnel

\* The report "ready", and the caller.
LEMMA ReportsImplement ==
    ASSUME IInv, WakeUp \/ ReportReady \/ Consume \/ Cancel \/ UNCHANGED vars
    PROVE  [Call!CallNext]_(Call!runVars)
<1> USE DEF IInv, tunnelVars, mainVars
<1>1. UNCHANGED <<tunnel, pc, tpc, server, failed>>
  BY DEF WakeUp, ReportReady, Consume, Cancel, vars
<1>2. Phase' = Phase /\ TunnelState' = TunnelState
  BY <1>1 DEF Phase, TunnelState
<1>3. CASE WakeUp
  <2>1. /\ rpc = "sleep" /\ server # "new" /\ UNCHANGED <<cancelled, res>>
        /\ rpc' = (IF failed THEN "done" ELSE "report")
    BY <1>3 DEF WakeUp
  <2>2. (Failed <=> failed) /\ (Failed' <=> failed')
    BY <2>1 DEF Failed
  <2>3. Phase # "listen"
    BY <2>1 DEF Phase
  <2>4. Keep(TRUE, TRUE, TRUE, FALSE, TRUE)
    BY <1>1, <1>2, <2>1, <2>2 DEF Keep
  <2>5. Call!WakesUp(1)
    BY <2>1, <2>2, <2>3, <2>4, SeenWakesUp
  <2> QED BY <2>5, SeenStep DEF Call!RunStep
<1>4. CASE ReportReady
  <2>1. rpc = "report" /\ rpc' = "done" /\ Report("ready") /\ cancelled' = cancelled
    BY <1>4 DEF ReportReady
  <2>2. Failed' <=> Failed
    BY <1>1, <2>1 DEF Failed
  <2>3. Keep(TRUE, TRUE, TRUE, FALSE, TRUE)
    BY <1>2, <2>1, <2>2 DEF Keep
  <2>4. Call!ReportsReady(1)
    BY <2>1, <2>3, SeenReportsReady
  <2> QED BY <2>4, SeenStep DEF Call!RunStep
<1>5. CASE Consume
  <2>1. res # <<>> /\ res' = <<>> /\ UNCHANGED <<cancelled, rpc>>
    BY <1>5 DEF Consume
  <2>2. Failed' <=> Failed
    BY <1>1, <2>1 DEF Failed
  <2>3. Keep(TRUE, TRUE, TRUE, TRUE, TRUE)
    BY <1>2, <2>1, <2>2 DEF Keep
  <2>4. Call!CallerStep
    BY <2>1, <2>3, SeenReceive
  <2> QED BY <2>4 DEF Call!CallNext
<1>6. CASE Cancel
  <2>1. cancelled' /\ UNCHANGED <<res, rpc>>
    BY <1>6 DEF Cancel
  <2>2. Failed' <=> Failed
    BY <1>1, <2>1 DEF Failed
  <2>3. Keep(TRUE, TRUE, TRUE, TRUE, FALSE)
    BY <1>2, <2>1, <2>2 DEF Keep
  <2>4. Call!CallerStep
    BY <2>1, <2>3, SeenCancel
  <2> QED BY <2>4 DEF Call!CallNext
<1>7. CASE UNCHANGED vars
  BY <1>1, <1>2, <1>7, HiddenStep DEF vars
<1> QED BY <1>3, <1>4, <1>5, <1>6, <1>7

\* A run that starts is a call that has begun.
LEMMA StartImplementsBegun == Init => Call!RunBegun
<1> SUFFICES ASSUME Init PROVE Call!RunBegun
  OBVIOUS
<1>1. Phase = "called" /\ TunnelState \in {"off", "wanted"} /\ ~Failed
  BY DEF Init, Phase, TunnelState, Failed
<1>2. rpc = "off" /\ ~cancelled /\ Seen(res) = <<<<>>>>
  BY DEF Init, Seen
<1>3. Call!Quiet
  BY <1>1, <1>2 DEF Call!Quiet, Seen
<1> QED BY <1>1, <1>2, <1>3 DEF Call!RunBegun

\* For its callers, with all its goroutines, resources and failures, a run is a call of
\* module Runs.
THEOREM Implements == Spec => ImplementsRun
<1>1. IInv /\ [Next]_vars => [Call!CallNext]_(Call!runVars)
  <2> SUFFICES ASSUME IInv, [Next]_vars PROVE [Call!CallNext]_(Call!runVars)
    OBVIOUS
  <2>1. CASE Main
    BY <2>1, LoadingImplements, StartUpImplements, StartImplements, ServerImplements,
       UnwindImplements DEF Main
  <2>2. CASE Tunnel
    BY <2>2, TunnelImplements
  <2>3. CASE AcceptFails
    BY <2>3, ServerImplements
  <2>4. CASE Shutdown
    BY <2>4, UnwindImplements
  <2>5. CASE WakeUp \/ ReportReady \/ Consume \/ Cancel \/ UNCHANGED vars
    BY <2>5, ReportsImplement
  <2> QED BY <2>1, <2>2, <2>3, <2>4, <2>5 DEF Next
<1> QED BY <1>1, Invariance, StartImplementsBegun, PTL DEF Spec, ImplementsRun, Call!RunSpec
===================================================================================
