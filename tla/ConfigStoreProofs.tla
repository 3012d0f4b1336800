--------------------------- MODULE ConfigStoreProofs ---------------------------
(***************************************************************************)
(* ConfigStore: the wallet is kept and the file is current, for any number *)
(* of calls, files with nodes, crashes and failed writes.                  *)
(***************************************************************************)
EXTENDS ConfigStore, TLAPS

\* A crash ends every call.
LEMMA OffIsIdle ==
    ASSUME IInv, main = "off", NEW p \in Callers
    PROVE  save[p] = "idle"
BY DEF IInv, Exclusive, Callers

\* Until the program runs only LoadConfig saves.
LEMMA LoadsAlone ==
    ASSUME IInv, main # "run", NEW p \in Callers, save[p] # "idle"
    PROVE  p = Main
BY DEF IInv, Exclusive, Callers

LEMMA Starts == Init => IInv
<1> SUFFICES ASSUME Init PROVE IInv
  OBVIOUS
<1> USE StoreAssumption
<1>1. NoConfig \in Configs /\ [NoConfig EXCEPT !.key = 1] \in Configs
  BY DEF NoConfig, Configs
<1>2. TypeOK
  BY <1>1 DEF Init, TypeOK, Callers
<1> QED
  BY <1>2 DEF Init, IInv, WalletKept, Exclusive, Inside, Loaded, Stored, Pending, Callers

-------------------------------------------------------------------------------
(***************************************************************************)
(* SaveConfig.                                                             *)
(***************************************************************************)

\* SaveAt moves one call.
LEMMA Moved ==
    ASSUME TypeOK, NEW p \in Callers, NEW from, NEW to, SaveAt(p, from, to)
    PROVE  /\ save[p] = from /\ save'[p] = to
           /\ \A q \in Callers \ {p} : save'[q] = save[q]
BY DEF SaveAt, TypeOK

LEMMA LockKeeps ==
    ASSUME IInv, NEW p \in Callers, Lock(p)
    PROVE  IInv'
<1> USE StoreAssumption
<1>1. /\ save[p] = "lock" /\ save'[p] = "marshal"
      /\ \A q \in Callers \ {p} : save'[q] = save[q]
  BY Moved DEF Lock, IInv
<1>2. TypeOK'
  BY DEF Lock, SaveAt, IInv, TypeOK
<1>3. UNCHANGED <<file, cfg, main, args, data, ok, fresh, wallets>>
  BY DEF Lock
<1>4. (Exclusive /\ Loaded /\ WalletKept)'
  BY <1>1, <1>3 DEF Lock, IInv, Exclusive, Inside, Loaded, WalletKept, Callers
<1>5. \A q \in Callers : Wrote(q)' <=> Wrote(q)
  BY <1>1 DEF Wrote
<1>6. Stored'
  BY <1>3, <1>5 DEF IInv, Stored
<1>7. Pending'
  BY <1>1 DEF Pending, Assigned
<1> QED BY <1>2, <1>4, <1>6, <1>7 DEF IInv

LEMMA MarshalKeeps ==
    ASSUME IInv, NEW p \in Callers, Marshal(p)
    PROVE  IInv'
<1> USE StoreAssumption
<1>1. /\ save[p] = "marshal" /\ save'[p] = "open"
      /\ \A q \in Callers \ {p} : save'[q] = save[q]
  BY Moved DEF Marshal, IInv
<1>2. TypeOK'
  BY DEF Marshal, SaveAt, IInv, TypeOK
<1>3. data' = cfg /\ UNCHANGED <<file, cfg, main, args, ok, fresh, wallets>>
  BY DEF Marshal
<1>4. (Exclusive /\ Loaded /\ WalletKept)'
  BY <1>1, <1>3 DEF IInv, Exclusive, Inside, Loaded, WalletKept, Callers
<1>5. main # "off"
  BY <1>1, OffIsIdle
<1>6. Stored'
  BY <1>3, <1>5 DEF IInv, Stored
<1>7. Pending'
  BY <1>1, <1>3 DEF Pending, Wrote
<1> QED BY <1>2, <1>4, <1>6, <1>7 DEF IInv

LEMMA TruncateKeeps ==
    ASSUME IInv, NEW p \in Callers, Truncate(p)
    PROVE  IInv'
<1> USE StoreAssumption
<1>1. /\ save[p] = "open" /\ save'[p] = "write"
      /\ \A q \in Callers \ {p} : save'[q] = save[q]
  BY Moved DEF Truncate, IInv
<1>2. file'.state = "broken" /\ UNCHANGED <<cfg, main, args, data, ok, fresh, wallets>>
  BY DEF Truncate, IInv, TypeOK
<1>3. TypeOK'
  BY DEF Truncate, SaveAt, IInv, TypeOK
<1>4. (Exclusive /\ Loaded /\ WalletKept)'
  BY <1>1, <1>2 DEF IInv, Exclusive, Inside, Loaded, WalletKept, Callers
<1>5. \A q \in Callers : Wrote(q)' <=> Wrote(q)
  BY <1>1 DEF Wrote
<1>6. Stored'
  BY <1>2, <1>5 DEF IInv, Stored
<1>7. Wrote(p)' /\ (Assigned' <=> Assigned)
  BY <1>1 DEF Wrote, Assigned
<1>8. Pending'
  BY <1>2, <1>5, <1>7 DEF IInv, Pending
<1> QED BY <1>3, <1>4, <1>6, <1>8 DEF IInv

\* Whoever writes is alone in the mutex and knows what it writes.
LEMMA Writers ==
    ASSUME IInv, NEW p \in Callers, Wrote(p)
    PROVE  /\ main # "off"
           /\ \A q \in Callers \ {p} : ~Inside(q)
           /\ main # "run" => p = Main /\ ~Assigned /\ data = cfg
           /\ ~Assigned => data = cfg
<1>1. main # "off" /\ save[p] # "idle"
  BY OffIsIdle DEF Wrote
<1>2. \A q \in Callers \ {p} : ~Inside(q)
  BY DEF IInv, Exclusive, Inside, Wrote
<1>3. ~Assigned => data = cfg
  BY <1>1 DEF IInv, Pending
<1>4. ASSUME main # "run" PROVE p = Main /\ ~Assigned
  BY <1>1, <1>4, LoadsAlone DEF Assigned, Wrote
<1> QED BY <1>1, <1>2, <1>3, <1>4

LEMMA WriteKeeps ==
    ASSUME IInv, NEW p \in Callers, Write(p)
    PROVE  IInv'
<1> USE StoreAssumption
<1>1. /\ save[p] = "write" /\ save'[p] = "idle"
      /\ \A q \in Callers \ {p} : save'[q] = save[q]
  BY Moved DEF Write, IInv
<1>2. /\ file' = [state |-> "good", holds |-> data] /\ ok' = TRUE
      /\ UNCHANGED <<cfg, args, data, fresh>>
  BY DEF Write, Saved
<1>3. Wrote(p) /\ \A q \in Callers : ~Wrote(q)'
  BY <1>1, Writers DEF Wrote, Inside
<1>4. Assigned' <=> Assigned
  BY <1>1 DEF Assigned
<1>5. save' \in [Callers -> {"idle", "sections", "pool", "lock", "marshal", "open", "write"}]
  BY DEF Write, SaveAt, IInv, TypeOK
<1>6. \A q, r \in Callers : Inside(q)' /\ Inside(r)' => q = r
  BY <1>1 DEF IInv, Exclusive, Inside
<1>7. CASE p # Main
  <2>1. UNCHANGED <<main, wallets>>
    BY <1>7 DEF Write, Saved
  <2>2. main = "run"
    BY <1>3, <1>7, Writers
  <2>3. TypeOK'
    BY <1>2, <1>5, <2>1 DEF IInv, TypeOK
  <2>4. (Exclusive /\ Loaded /\ WalletKept)'
    BY <1>1, <1>6, <1>7, <2>1, <2>2 DEF IInv, Exclusive, Loaded, WalletKept, Callers
  <2>5. Stored'
    BY <1>2, <1>3, <2>1, <2>2 DEF IInv, Stored
  <2>6. Pending'
    BY <1>2, <1>3, <1>4, <2>1, Writers DEF Pending
  <2> QED BY <2>3, <2>4, <2>5, <2>6 DEF IInv
<1>8. CASE p = Main /\ main = "key"
  <2>1. main' = "version" /\ UNCHANGED wallets
    BY <1>8 DEF Write, Saved
  <2>2. data = cfg
    BY <1>3, <1>8, Writers
  <2>3. TypeOK'
    BY <1>2, <1>5, <2>1 DEF IInv, TypeOK
  <2>4. (Exclusive /\ WalletKept)'
    BY <1>1, <1>6, <1>8, <2>1 DEF IInv, Exclusive, WalletKept, Callers
  <2>5. Loaded'
    BY <1>2, <2>2 DEF Loaded
  <2>6. Stored'
    BY <1>2, <1>3, <1>8, <2>1, <2>2 DEF IInv, Stored
  <2>7. Pending'
    BY <1>2, <1>3, <2>2 DEF Pending
  <2> QED BY <2>3, <2>4, <2>5, <2>6, <2>7 DEF IInv
<1>9. CASE p = Main /\ main # "key"
  <2>1. main' = "run" /\ wallets' = wallets \cup {cfg.wallet}
    BY <1>9 DEF Write, Saved, Runs
  <2>2. main \in {"new", "upgrade"}
    BY <1>1, <1>9 DEF IInv, Exclusive
  <2>3. data = cfg
    BY <1>3, <2>2, Writers
  <2>4. wallets' = {cfg.wallet} /\ cfg.version = 1
    BY <2>1, <2>2 DEF IInv, Stored
  <2>5. cfg.wallet \in 0..MaxFresh
    BY DEF IInv, TypeOK, Configs
  <2>6. TypeOK'
    BY <1>2, <1>5, <2>1, <2>4, <2>5 DEF IInv, TypeOK
  <2>7. (Exclusive /\ Loaded /\ WalletKept)'
    BY <1>1, <1>6, <1>9, <2>1, <2>4 DEF IInv, Exclusive, Loaded, WalletKept, Callers
  <2>8. Stored'
    BY <1>2, <1>3, <2>1, <2>3, <2>4 DEF Stored
  <2>9. Pending'
    BY <1>2, <1>3, <2>3 DEF Pending
  <2> QED BY <2>6, <2>7, <2>8, <2>9 DEF IInv
<1> QED BY <1>7, <1>8, <1>9

LEMMA WriteFailsKeeps ==
    ASSUME IInv, NEW p \in Callers, WriteFails(p)
    PROVE  IInv'
<1> USE StoreAssumption
<1>1. /\ Wrote(p) /\ save'[p] = "idle"
      /\ \A q \in Callers \ {p} : save'[q] = save[q]
  BY Moved DEF WriteFails, IInv, Wrote
<1>2. ok' = FALSE /\ UNCHANGED <<file, cfg, args, data, fresh>>
  BY DEF WriteFails, Saved
<1>3. \A q \in Callers : ~Wrote(q)'
  BY <1>1, Writers DEF Wrote, Inside
<1>4. save' \in [Callers -> {"idle", "sections", "pool", "lock", "marshal", "open", "write"}]
  BY DEF WriteFails, SaveAt, IInv, TypeOK
<1>5. \A q, r \in Callers : Inside(q)' /\ Inside(r)' => q = r
  BY <1>1 DEF IInv, Exclusive, Inside
<1>6. Pending'
  BY <1>2, <1>3 DEF Pending
<1>7. CASE p # Main
  <2>1. UNCHANGED <<main, wallets>>
    BY <1>7 DEF WriteFails, Saved
  <2>2. main = "run"
    BY <1>1, <1>7, Writers
  <2>3. TypeOK'
    BY <1>2, <1>4, <2>1 DEF IInv, TypeOK
  <2>4. (Exclusive /\ Loaded /\ WalletKept)'
    BY <1>1, <1>5, <1>7, <2>1, <2>2 DEF IInv, Exclusive, Loaded, WalletKept, Callers
  <2>5. Stored'
    BY <1>2, <1>3, <2>1, <2>2 DEF IInv, Stored
  <2> QED BY <1>6, <2>3, <2>4, <2>5 DEF IInv
<1>8. CASE p = Main
  <2>1. main # "run" /\ main # "off" /\ save[Main] # "idle"
    BY <1>1, <1>8, Writers DEF IInv, Exclusive, Wrote
  <2>2. /\ \/ main = "key" /\ main' = "version"
           \/ main \in {"new", "upgrade"} /\ main' = "off"
        /\ UNCHANGED wallets
    <3>1. main \in {"new", "key", "upgrade"}
      BY <2>1 DEF IInv, Exclusive
    <3>2. CASE main = "key"
      BY <1>8, <3>2 DEF WriteFails, Saved
    <3>3. CASE main # "key"
      <4>1. Saved(p, FALSE)
        BY DEF WriteFails
      <4>2. main' = "off" /\ wallets' = wallets
        BY <1>8, <3>3, <4>1 DEF Saved
      <4> QED BY <3>1, <3>3, <4>2
    <3> QED BY <3>2, <3>3
  <2>3. TypeOK'
    BY <1>2, <1>4, <2>2 DEF IInv, TypeOK
  <2>4. (Exclusive /\ Loaded /\ WalletKept)'
    BY <1>1, <1>2, <1>5, <1>8, <2>1, <2>2 DEF IInv, Exclusive, Loaded, WalletKept, Callers
  <2>5. Stored'
    BY <1>2, <1>3, <2>1, <2>2 DEF IInv, Stored
  <2> QED BY <1>6, <2>3, <2>4, <2>5 DEF IInv
<1> QED BY <1>7, <1>8

-------------------------------------------------------------------------------
(***************************************************************************)
(* LoadConfig.                                                             *)
(***************************************************************************)

\* While nothing is written the calls and the mutex do not matter to Stored.
LEMMA NobodyWrites ==
    ASSUME IInv, main \in {"off", "version"}, NEW p \in Callers
    PROVE  save[p] = "idle" /\ ~Wrote(p) /\ ~Inside(p)
BY OffIsIdle DEF IInv, Exclusive, Callers, Wrote, Inside

\* LoadConfig that starts to save.
LEMMA LoadSavesKeeps ==
    ASSUME IInv, main \in {"off", "version"}, NEW next \in {"new", "key", "upgrade"},
           LoadSaves(next), UNCHANGED <<file, args, data, wallets>>,
           cfg' \in Configs, ok' \in BOOLEAN, fresh' \in 0..MaxFresh,
           Loaded', Stored'
    PROVE  IInv'
<1> USE StoreAssumption
<1>1. /\ main' = next /\ save' = [save EXCEPT ![Main] = "lock"]
  BY DEF LoadSaves
<1>2. /\ save'[Main] = "lock"
      /\ \A p \in Savers : save'[p] = "idle"
  BY <1>1, NobodyWrites DEF IInv, TypeOK, Callers
<1>3. TypeOK'
  BY <1>1 DEF IInv, TypeOK
<1>4. (Exclusive /\ WalletKept)'
  BY <1>1, <1>2 DEF IInv, Exclusive, Inside, WalletKept, Callers
<1>5. Pending'
  BY <1>2 DEF Pending, Assigned, Callers
<1> QED BY <1>3, <1>4, <1>5 DEF IInv

\* Who writes after LoadConfig has got the mutex's queue.
LEMMA LoadSavesWritesNothing ==
    ASSUME IInv, main \in {"off", "version"}, NEW next, LoadSaves(next), NEW p \in Callers
    PROVE  ~Wrote(p)'
BY NobodyWrites DEF LoadSaves, Wrote, IInv, TypeOK

LEMMA LoadNewKeeps == IInv /\ LoadNew => IInv'
<1> SUFFICES ASSUME IInv, LoadNew PROVE IInv'
  OBVIOUS
<1> USE StoreAssumption
<1>1. /\ main = "off" /\ file.state = "none" /\ LoadSaves("new")
      /\ UNCHANGED <<file, args, data, ok, wallets>>
      /\ fresh + 2 <= MaxFresh /\ fresh' = fresh + 2
      /\ cfg' = [NoConfig EXCEPT !.version = 1, !.key = fresh + 1, !.wallet = fresh + 2]
  BY DEF LoadNew, Generates
<1>2. fresh \in Nat /\ ok' \in BOOLEAN
  BY <1>1 DEF IInv, TypeOK
<1>3. cfg' \in Configs /\ fresh' \in 0..MaxFresh /\ cfg'.version = 1
  <2>1. {0, fresh + 1, fresh + 2} \subseteq 0..MaxFresh /\ 0 \in 0..MaxSections
    BY <1>1, <1>2
  <2>2. cfg' = [version |-> 1, key |-> fresh + 1, wallet |-> fresh + 2, sections |-> 0,
                pool |-> NoPath]
    BY <1>1 DEF NoConfig
  <2> QED BY <1>1, <2>1, <2>2 DEF Configs
<1>4. wallets = {}
  BY <1>1 DEF IInv, Stored
<1>5. Loaded' /\ Stored'
  BY <1>1, <1>3, <1>4 DEF Loaded, Stored, LoadSaves
<1> QED BY <1>1, <1>2, <1>3, <1>5, LoadSavesKeeps

LEMMA LoadKeeps == IInv /\ Load => IInv'
<1> SUFFICES ASSUME IInv, Load PROVE IInv'
  OBVIOUS
<1> USE StoreAssumption
<1>1. /\ main = "off" /\ file.state = "good" /\ ok' = TRUE
      /\ UNCHANGED <<file, args, data, wallets>>
  BY DEF Load
<1>2. file \in [state : {"none", "good", "broken"}, holds : Configs] /\ fresh \in Nat
  BY DEF IInv, TypeOK
<1>3. CASE file.holds.key = 0
  <2>1. /\ fresh + 1 <= MaxFresh /\ fresh' = fresh + 1
        /\ cfg' = [file.holds EXCEPT !.key = fresh + 1] /\ LoadSaves("key")
    BY <1>3 DEF Load, Generates
  <2>2. /\ cfg' \in Configs /\ fresh' \in 0..MaxFresh
        /\ cfg'.wallet = file.holds.wallet /\ cfg'.version = file.holds.version
    BY <1>2, <2>1 DEF Configs
  <2>3. Loaded'
    BY <1>1, <2>2 DEF Loaded
  <2>4. main' = "key"
    BY <2>1 DEF LoadSaves
  <2>5. Stored'
    BY <1>1, <2>1, <2>2, <2>4, LoadSavesWritesNothing DEF IInv, Stored
  <2> QED BY <1>1, <2>1, <2>2, <2>3, <2>5, LoadSavesKeeps
<1>4. CASE file.holds.key # 0
  <2>1. cfg' = file.holds /\ main' = "version" /\ UNCHANGED <<save, fresh>>
    BY <1>4 DEF Load
  <2>2. \A p \in Callers : save[p] = "idle" /\ ~Wrote(p)' /\ ~Inside(p)'
    BY <1>1, <2>1, NobodyWrites DEF Wrote, Inside
  <2>3. TypeOK'
    BY <1>1, <1>2, <2>1 DEF IInv, TypeOK
  <2>4. (Exclusive /\ Loaded /\ WalletKept)'
    BY <1>1, <2>1, <2>2 DEF IInv, Exclusive, Loaded, WalletKept, Callers
  <2>5. Stored'
    BY <1>1, <2>1, <2>2 DEF IInv, Stored
  <2>6. Pending'
    <3>1. file = [state |-> "good", holds |-> file.holds]
      BY <1>1, <1>2
    <3> QED BY <1>1, <2>1, <2>2, <3>1 DEF Pending
  <2> QED BY <2>3, <2>4, <2>5, <2>6 DEF IInv
<1> QED BY <1>3, <1>4

LEMMA UpgradeKeeps == IInv /\ Upgrade => IInv'
<1> SUFFICES ASSUME IInv, Upgrade PROVE IInv'
  OBVIOUS
<1> USE StoreAssumption
<1>1. /\ main = "version" /\ cfg.version < 1 /\ LoadSaves("upgrade")
      /\ UNCHANGED <<file, args, data, ok, wallets>>
      /\ fresh + 1 <= MaxFresh /\ fresh' = fresh + 1
      /\ cfg' = [cfg EXCEPT !.version = 1, !.wallet = fresh + 1]
  BY DEF Upgrade, Generates
<1>2. fresh \in Nat /\ ok' \in BOOLEAN /\ cfg \in Configs
  BY <1>1 DEF IInv, TypeOK
<1>3. cfg' \in Configs /\ fresh' \in 0..MaxFresh /\ cfg'.version = 1
  <2>1. fresh + 1 \in 0..MaxFresh
    BY <1>1, <1>2
  <2> QED BY <1>1, <1>2, <2>1 DEF Configs
<1>4. wallets = {}
  <2>1. cfg.version # 1
    BY <1>1
  <2> QED BY <1>1, <2>1 DEF IInv, Stored
<1>5. Loaded' /\ Stored'
  BY <1>1, <1>3, <1>4 DEF Loaded, Stored, LoadSaves
<1> QED BY <1>1, <1>2, <1>3, <1>5, LoadSavesKeeps

LEMMA LoadEndsKeeps == IInv /\ LoadEnds => IInv'
<1> SUFFICES ASSUME IInv, LoadEnds PROVE IInv'
  OBVIOUS
<1> USE StoreAssumption
<1>1. /\ main = "version" /\ cfg.version >= 1
      /\ main' = "run" /\ wallets' = wallets \cup {cfg.wallet}
      /\ UNCHANGED <<file, cfg, save, args, data, ok, fresh>>
  BY DEF LoadEnds, Runs
<1>2. \A p \in Callers : save[p] = "idle" /\ ~Wrote(p)' /\ ~Inside(p)'
  BY <1>1, NobodyWrites DEF Wrote, Inside
<1>3. cfg \in Configs
  BY DEF IInv, TypeOK
<1>4. cfg.version = 1 /\ cfg.wallet \in 0..MaxFresh
  BY <1>1, <1>3 DEF Configs
<1>5. TypeOK'
  BY <1>1, <1>4 DEF IInv, TypeOK
<1>6. \A w \in wallets : w = cfg.wallet
  BY <1>1 DEF IInv, Stored
<1>7. (Exclusive /\ Loaded /\ WalletKept)'
  BY <1>1, <1>2, <1>6 DEF IInv, Exclusive, Loaded, WalletKept, Callers
<1>8. Stored'
  BY <1>1, <1>2, <1>4, <1>6 DEF IInv, Stored, Loaded
<1>9. ~Assigned /\ (ok => file = [state |-> "good", holds |-> cfg])
  BY <1>1, <1>2, NobodyWrites DEF IInv, Pending, Assigned
<1>10. Pending'
  BY <1>1, <1>2, <1>9 DEF Pending
<1> QED BY <1>5, <1>7, <1>8, <1>10 DEF IInv

-------------------------------------------------------------------------------
(***************************************************************************)
(* The window's calls, and crashes.                                        *)
(***************************************************************************)

LEMMA CallsKeeps ==
    ASSUME IInv, NEW p \in Savers, NEW n \in 0..MaxSections, NEW path \in Paths \cup {NoPath},
           Calls(p, n, path)
    PROVE  IInv'
<1> USE StoreAssumption
<1>1. /\ main = "run" /\ save[p] = "idle" /\ save'[p] = "sections"
      /\ \A q \in Callers \ {p} : save'[q] = save[q]
      /\ UNCHANGED <<file, cfg, main, data, ok, fresh, wallets>>
  BY Moved DEF Calls, IInv, Callers
<1>2. TypeOK'
  BY DEF Calls, SaveAt, IInv, TypeOK, Callers
<1>3. \A q \in Callers : (Wrote(q)' <=> Wrote(q)) /\ (Inside(q)' <=> Inside(q))
  BY <1>1 DEF Wrote, Inside
<1>4. Assigned' <=> Assigned
  BY <1>1 DEF Assigned
<1>5. save'[Main] = save[Main]
  BY <1>1 DEF Callers
<1>6. (Exclusive /\ Loaded /\ WalletKept)'
  BY <1>1, <1>3, <1>5 DEF IInv, Exclusive, Loaded, WalletKept
<1>7. (Stored /\ Pending)'
  BY <1>1, <1>3, <1>4 DEF IInv, Stored, Pending
<1> QED BY <1>2, <1>6, <1>7 DEF IInv

\* An assignment of a field: it leaves the wallet, and a save of it follows.
LEMMA AssignKeeps ==
    ASSUME IInv, NEW p \in Savers, NEW from \in {"sections", "pool"},
           NEW to \in {"pool", "lock"}, SaveAt(p, from, to),
           cfg' \in Configs, cfg'.wallet = cfg.wallet, cfg'.version = cfg.version,
           UNCHANGED <<file, main, args, data, ok, fresh, wallets>>
    PROVE  IInv'
<1> USE StoreAssumption
<1>1. /\ p \in Callers /\ p # Main
      /\ save[p] = from /\ save'[p] = to
      /\ \A q \in Callers \ {p} : save'[q] = save[q]
  BY Moved DEF IInv, Callers
<1>2. main = "run"
  BY <1>1 DEF IInv, Exclusive
<1>3. TypeOK'
  BY DEF SaveAt, IInv, TypeOK
<1>4. \A q \in Callers : (Wrote(q)' <=> Wrote(q)) /\ (Inside(q)' <=> Inside(q))
  BY <1>1 DEF Wrote, Inside
<1>5. save'[Main] = save[Main]
  BY <1>1 DEF Callers
<1>6. (Exclusive /\ Loaded /\ WalletKept)'
  BY <1>2, <1>4, <1>5 DEF IInv, Exclusive, Loaded, WalletKept
<1>7. Stored'
  BY <1>2, <1>4 DEF IInv, Stored
<1>8. Pending'
  BY <1>1 DEF Pending, Assigned
<1> QED BY <1>3, <1>6, <1>7, <1>8 DEF IInv

LEMMA CrashKeeps == IInv /\ Crash => IInv'
<1> SUFFICES ASSUME IInv, Crash PROVE IInv'
  OBVIOUS
<1>1. /\ main' = "off" /\ \A p \in Callers : save'[p] = "idle"
      /\ UNCHANGED <<file, cfg, args, data, ok, fresh, wallets>>
  BY DEF Crash
<1>2. TypeOK'
  BY DEF Crash, IInv, TypeOK
<1> QED
  BY <1>1, <1>2 DEF IInv, WalletKept, Exclusive, Inside, Loaded, Stored, Wrote, Pending, Callers

-------------------------------------------------------------------------------
LEMMA Keeps == IInv /\ [Next]_vars => IInv'
<1> SUFFICES ASSUME IInv, [Next]_vars PROVE IInv'
  OBVIOUS
<1>1. CASE LoadNew \/ Load \/ Upgrade \/ LoadEnds \/ Crash
  BY <1>1, LoadNewKeeps, LoadKeeps, UpgradeKeeps, LoadEndsKeeps, CrashKeeps
<1>2. ASSUME NEW p \in Savers, SaveTunnelConfig(p) \/ ResetTunnelConfig(p) \/ AddTunnel(p)
      PROVE  IInv'
  <2>1. cfg.sections \in 0..MaxSections
    BY DEF IInv, TypeOK, Configs
  <2>2. NoPath \in Paths \cup {NoPath}
    OBVIOUS
  <2> QED
    BY <1>2, <2>1, <2>2, CallsKeeps DEF SaveTunnelConfig, ResetTunnelConfig, AddTunnel
<1>3. ASSUME NEW p \in Savers, AssignSections(p) PROVE IInv'
  <2>1. cfg \in Configs /\ args[p].sections \in 0..MaxSections
    BY DEF IInv, TypeOK
  <2>2. /\ SaveAt(p, "sections", "pool") /\ cfg' = [cfg EXCEPT !.sections = args[p].sections]
        /\ UNCHANGED <<file, main, args, data, ok, fresh, wallets>>
    BY <1>3 DEF AssignSections
  <2>3. cfg' \in Configs /\ cfg'.wallet = cfg.wallet /\ cfg'.version = cfg.version
    BY <2>1, <2>2 DEF Configs
  <2> QED BY <2>2, <2>3, AssignKeeps
<1>4. ASSUME NEW p \in Savers, AssignPool(p) PROVE IInv'
  <2>1. cfg \in Configs /\ args[p].pool \in Paths \cup {NoPath}
    BY DEF IInv, TypeOK
  <2>2. /\ SaveAt(p, "pool", "lock") /\ cfg' = [cfg EXCEPT !.pool = args[p].pool]
        /\ UNCHANGED <<file, main, args, data, ok, fresh, wallets>>
    BY <1>4 DEF AssignPool
  <2>3. cfg' \in Configs /\ cfg'.wallet = cfg.wallet /\ cfg'.version = cfg.version
    BY <2>1, <2>2 DEF Configs
  <2> QED BY <2>2, <2>3, AssignKeeps
<1>5. ASSUME NEW p \in Callers,
             Lock(p) \/ Marshal(p) \/ Truncate(p) \/ Write(p) \/ WriteFails(p)
      PROVE  IInv'
  BY <1>5, LockKeeps, MarshalKeeps, TruncateKeeps, WriteKeeps, WriteFailsKeeps
<1>6. CASE UNCHANGED vars
  <2>1. UNCHANGED <<file, cfg, main, save, args, data, ok, fresh, wallets>>
    BY <1>6 DEF vars
  <2> QED
    BY <2>1 DEF IInv, TypeOK, WalletKept, Exclusive, Inside, Loaded, Stored, Wrote, Pending,
                Assigned
<1> QED BY <1>1, <1>2, <1>3, <1>4, <1>5, <1>6 DEF Next

\* The mutex has one owner, the wallet is on disk before the program runs with it, and an
\* assigned field is on its way to the file.
THEOREM Invariance == Spec => []IInv
<1> QED BY Starts, Keeps, PTL DEF Spec

\* No crash, failed write, restart or concurrent save gives the program another wallet.
THEOREM OneWallet == Spec => []WalletKept
<1>1. IInv => WalletKept
  BY DEF IInv
<1> QED BY <1>1, Invariance, PTL

\* When all calls have returned the file is what is in memory, unless the last write failed.
THEOREM FileIsCurrent == Spec => []FileCurrent
<1>1. IInv => FileCurrent
  <2> SUFFICES ASSUME IInv, main = "run", ok, \A p \in Callers : save[p] = "idle"
               PROVE  file = [state |-> "good", holds |-> cfg]
    BY DEF FileCurrent
  <2>1. ~Assigned /\ \A p \in Callers : ~Wrote(p)
    BY DEF Assigned, Wrote
  <2> QED BY <2>1 DEF IInv, Pending
<1> QED BY <1>1, Invariance, PTL
================================================================================
