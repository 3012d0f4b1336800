-------------------------------- MODULE MCGuiApp --------------------------------
(***************************************************************************)
(* A small instance of GuiApp for TLC: two starts, each with its retry.    *)
(***************************************************************************)
EXTENDS GuiApp, TLC

MCCalls == Starts \X {1, 2}

\* Starts are interchangeable.
Symmetry == Permutations(Starts)

NoTunnel == \A r \in Calls : tun[r] = "off"
OneStart == \E s \in Starts : runner[s] = "idle"
Retried == skip \/ \E s \in Starts : phase[<<s, 2>>] # "idle"

\* The system's proxy and the tunnel do not meet: it is explored without tunnels, and
\* tunnels on Linux, where nothing is set.  Shutdown and retries meet the second start
\* only as far as named here.
Bounds ==
    \/ os # "linux" /\ NoTunnel /\ (Open \/ OneStart)
    \/ os = "linux" /\ ~setting.on /\ (OneStart \/ (~isStop /\ ~Retried))
===============================================================================
