------------------------------ MODULE ConfigStore ------------------------------
(***************************************************************************)
(* The configuration file (cmd/proxy-gui-wails/config.go and app.go, and   *)
(* cmd/proxy-cli/config/config.go, which has the same LoadConfig and       *)
(* SaveConfig): LoadConfig, which makes a file, adds a missing key or      *)
(* upgrades an old version, and SaveConfig under the mutex mx.  The window *)
(* may call SaveTunnelConfig several times at once; it assigns the fields  *)
(* without mx.  Writing may fail, and the process may crash, between any   *)
(* two steps.                                                              *)
(*                                                                         *)
(* Keys and wallets are numbers that say only which one it is.  A start    *)
(* that LoadConfig refuses changes nothing and is left out.                *)
(***************************************************************************)
EXTENDS Naturals

CONSTANTS
    Savers,     \* calls of SaveTunnelConfig
    Main,       \* the start of the program
    Paths,      \* files with the tunnel's nodes
    NoPath,     \* ""
    MaxSections,\* bound: TunnelSectionsNum
    MaxFresh    \* bound: keys and wallets generated

ASSUME StoreAssumption ==
    /\ Main \notin Savers /\ NoPath \notin Paths
    /\ MaxSections \in Nat /\ MaxFresh \in Nat \ {0}

VARIABLES
    file,       \* the file's state, and what it holds
    cfg,        \* the configuration in memory
    main,       \* where the program is in LoadConfig
    save,       \* where each call is in SaveTunnelConfig and SaveConfig
    args,       \* what it is to store
    data,       \* what it has marshalled
    ok,         \* history: the last write succeeded
    fresh,      \* number of keys and wallets generated
    wallets     \* history: the wallets that the program has run with

vars == <<file, cfg, main, save, args, data, ok, fresh, wallets>>

Callers == Savers \cup {Main}

\* 0 is none: a key of an old file may be missing, and old versions have no wallet.
Configs == [version : {0, 1}, key : 0..MaxFresh, wallet : 0..MaxFresh,
            sections : 0..MaxSections, pool : Paths \cup {NoPath}]
NoConfig == [version |-> 0, key |-> 0, wallet |-> 0, sections |-> 0, pool |-> NoPath]

TypeOK ==
    /\ file \in [state : {"none", "good", "broken"}, holds : Configs]
    /\ cfg \in Configs
    /\ main \in {"off", "new", "key", "version", "upgrade", "run"}
    /\ save \in [Callers -> {"idle", "sections", "pool", "lock", "marshal", "open", "write"}]
    /\ args \in [Savers -> [sections : 0..MaxSections, pool : Paths \cup {NoPath}]]
    /\ data \in Configs
    /\ ok \in BOOLEAN
    /\ fresh \in 0..MaxFresh
    /\ wallets \subseteq 0..MaxFresh

\* No file, or one of an old version with or without a key.
Init ==
    /\ file \in {[state |-> "none", holds |-> NoConfig], [state |-> "good", holds |-> NoConfig],
                 [state |-> "good", holds |-> [NoConfig EXCEPT !.key = 1]]}
    /\ cfg = NoConfig
    /\ main = "off"
    /\ save = [p \in Callers |-> "idle"]
    /\ args = [p \in Savers |-> [sections |-> 0, pool |-> NoPath]]
    /\ data = NoConfig
    /\ ok = TRUE
    /\ fresh = 1
    /\ wallets = {}

-------------------------------------------------------------------------------
(***************************************************************************)
(* SaveConfig.                                                             *)
(***************************************************************************)

Inside(p) == save[p] \in {"marshal", "open", "write"}
SaveAt(p, from, to) == save[p] = from /\ save' = [save EXCEPT ![p] = to]

\* Mutant: mx is not waited for.
LockAnyway(p) ==
    /\ SaveAt(p, "lock", "marshal")
    /\ UNCHANGED <<file, cfg, main, args, data, ok, fresh, wallets>>

Lock(p) ==
    /\ \A q \in Callers : ~Inside(q)
    /\ SaveAt(p, "lock", "marshal")
    /\ UNCHANGED <<file, cfg, main, args, data, ok, fresh, wallets>>

Marshal(p) ==
    /\ SaveAt(p, "marshal", "open")
    /\ data' = cfg
    /\ UNCHANGED <<file, cfg, main, args, ok, fresh, wallets>>

\* WriteFile opens and empties the file.
Truncate(p) ==
    /\ SaveAt(p, "open", "write")
    /\ file' = [file EXCEPT !.state = "broken"]
    /\ UNCHANGED <<cfg, main, args, data, ok, fresh, wallets>>

Runs == main' = "run" /\ wallets' = wallets \cup {cfg.wallet}

\* Mutant: no error of a save ends the program.
SavedAnyway(p, good) ==
    /\ ok' = good
    /\ CASE p # Main -> UNCHANGED <<main, wallets>>
         [] p = Main /\ main = "key" -> main' = "version" /\ wallets' = wallets
         [] p = Main /\ main # "key" -> Runs

\* SaveConfig returns.  In LoadConfig an error ends the program, but for the one of the
\* save that adds a key.
Saved(p, good) ==
    /\ ok' = good
    /\ CASE p # Main -> UNCHANGED <<main, wallets>>
         [] p = Main /\ main = "key" -> main' = "version" /\ wallets' = wallets
         [] p = Main /\ main # "key" ->
               IF good THEN Runs ELSE main' = "off" /\ wallets' = wallets

Write(p) ==
    /\ SaveAt(p, "write", "idle")
    /\ file' = [state |-> "good", holds |-> data]
    /\ Saved(p, TRUE)
    /\ UNCHANGED <<cfg, args, data, fresh>>

\* The file cannot be opened, or not be written.
WriteFails(p) ==
    /\ SaveAt(p, "open", "idle") \/ SaveAt(p, "write", "idle")
    /\ Saved(p, FALSE)
    /\ UNCHANGED <<file, cfg, args, data, fresh>>

-------------------------------------------------------------------------------
(***************************************************************************)
(* LoadConfig.                                                             *)
(***************************************************************************)

Generates(n) == fresh + n <= MaxFresh /\ fresh' = fresh + n

LoadSaves(next) ==
    /\ main' = next
    /\ save' = [save EXCEPT ![Main] = "lock"]

LoadNew ==
    /\ main = "off" /\ file.state = "none"
    /\ Generates(2)
    /\ cfg' = [NoConfig EXCEPT !.version = 1, !.key = fresh + 1, !.wallet = fresh + 2]
    /\ LoadSaves("new")
    /\ UNCHANGED <<file, args, data, ok, wallets>>

Load ==
    /\ main = "off" /\ file.state = "good"
    /\ IF file.holds.key = 0
       THEN /\ Generates(1)
            /\ cfg' = [file.holds EXCEPT !.key = fresh + 1]
            /\ LoadSaves("key")
       ELSE /\ cfg' = file.holds
            /\ main' = "version"
            /\ UNCHANGED <<save, fresh>>
    /\ ok' = TRUE
    /\ UNCHANGED <<file, args, data, wallets>>

Upgrade ==
    /\ main = "version" /\ cfg.version < 1
    /\ Generates(1)
    /\ cfg' = [cfg EXCEPT !.version = 1, !.wallet = fresh + 1]
    /\ LoadSaves("upgrade")
    /\ UNCHANGED <<file, args, data, ok, wallets>>

LoadEnds ==
    /\ main = "version" /\ cfg.version >= 1
    /\ Runs
    /\ UNCHANGED <<file, cfg, save, args, data, ok, fresh>>

-------------------------------------------------------------------------------
(***************************************************************************)
(* The window's calls.                                                     *)
(***************************************************************************)

Calls(p, sections, pool) ==
    /\ main = "run"
    /\ SaveAt(p, "idle", "sections")
    /\ args' = [args EXCEPT ![p] = [sections |-> sections, pool |-> pool]]
    /\ UNCHANGED <<file, cfg, main, data, ok, fresh, wallets>>

SaveTunnelConfig(p) ==
    \E n \in 0..MaxSections, path \in Paths \cup {NoPath} : Calls(p, n, path)

ResetTunnelConfig(p) == Calls(p, cfg.sections, NoPath)

\* The user chooses a file, or none; the chosen one is stored if the one in use until now,
\* which is parsed in its place, can be.
AddTunnel(p) == \E path \in Paths \cup {NoPath} : Calls(p, cfg.sections, path)

\* Mutant: the pool is assigned and not saved.
AssignPoolUnsaved(p) ==
    /\ SaveAt(p, "pool", "idle")
    /\ cfg' = [cfg EXCEPT !.pool = args[p].pool]
    /\ UNCHANGED <<file, main, args, data, ok, fresh, wallets>>

AssignSections(p) ==
    /\ SaveAt(p, "sections", "pool")
    /\ cfg' = [cfg EXCEPT !.sections = args[p].sections]
    /\ UNCHANGED <<file, main, args, data, ok, fresh, wallets>>

AssignPool(p) ==
    /\ SaveAt(p, "pool", "lock")
    /\ cfg' = [cfg EXCEPT !.pool = args[p].pool]
    /\ UNCHANGED <<file, main, args, data, ok, fresh, wallets>>

Crash ==
    /\ main # "off"
    /\ main' = "off"
    /\ save' = [p \in Callers |-> "idle"]
    /\ UNCHANGED <<file, cfg, args, data, ok, fresh, wallets>>

-------------------------------------------------------------------------------
Next ==
    \/ LoadNew \/ Load \/ Upgrade \/ LoadEnds \/ Crash
    \/ \E p \in Savers : SaveTunnelConfig(p) \/ ResetTunnelConfig(p) \/ AddTunnel(p)
                         \/ AssignSections(p) \/ AssignPool(p)
    \/ \E p \in Callers : Lock(p) \/ Marshal(p) \/ Truncate(p) \/ Write(p) \/ WriteFails(p)

Spec == Init /\ [][Next]_vars

-------------------------------------------------------------------------------
(***************************************************************************)
(* Properties.                                                             *)
(***************************************************************************)

\* All runs of the program, over restarts, crashes and failed writes, have the same
\* wallet, which holds the money that tunnels are paid with.
WalletKept == \A v, w \in wallets : v = w

\* Once all calls have returned, the file holds what is in memory, whatever fields were
\* assigned while another call marshalled, unless the last write failed.
FileCurrent ==
    main = "run" /\ ok /\ (\A p \in Callers : save[p] = "idle") =>
        file = [state |-> "good", holds |-> cfg]

(***************************************************************************)
(* The inductive invariant behind the two.                                 *)
(***************************************************************************)

\* One caller is inside of the mutex; LoadConfig saves before the window calls.
Exclusive ==
    /\ \A p, q \in Callers : Inside(p) /\ Inside(q) => p = q
    /\ main # "run" => \A p \in Savers : save[p] = "idle"
    /\ save[Main] \in {"idle", "lock", "marshal", "open", "write"}
    /\ save[Main] # "idle" <=> main \in {"new", "key", "upgrade"}

\* What was loaded is what a readable file holds, but for a new key.
Loaded ==
    main \in {"key", "version"} =>
        /\ file.state # "none"
        /\ file.state = "good" => /\ file.holds.wallet = cfg.wallet
                                  /\ file.holds.version = cfg.version

\* The wallet of all runs is in the file before the first of them, and stays in it while
\* the file can be read; what is about to be written has it.
Wrote(p) == save[p] \in {"open", "write"}
Stored ==
    /\ main \in {"new", "upgrade"} => wallets = {} /\ cfg.version = 1
    /\ \A w \in wallets :
          /\ file.state # "none"
          /\ file.state = "good" => file.holds.wallet = w /\ file.holds.version = 1
          /\ main # "off" => cfg.wallet = w /\ cfg.version = 1
          /\ (\E p \in Callers : Wrote(p)) => data.wallet = w /\ data.version = 1

\* A field that was assigned is on its way to the file, or in it.
Assigned == \E p \in Callers : save[p] \in {"pool", "lock", "marshal"}
Pending ==
    main # "off" /\ ~Assigned =>
        /\ \A p \in Callers : Wrote(p) => data = cfg
        /\ main \in {"version", "run"} /\ ok /\ (\A p \in Callers : ~Wrote(p)) =>
              file = [state |-> "good", holds |-> cfg]

\* The mutex, the wallet and the fields.
IInv == TypeOK /\ WalletKept /\ Exclusive /\ Loaded /\ Stored /\ Pending
===============================================================================
