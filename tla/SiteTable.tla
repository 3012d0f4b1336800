------------------------------- MODULE SiteTable -------------------------------
(***************************************************************************)
(* The table of active sites of proxy/transport/client.go: how requests    *)
(* find, resolve and share a TON site or a TON storage bag, how the        *)
(* cleaner stops bags nobody uses, and how a lost RLDP connection is       *)
(* taken out of its site.                                                  *)
(*                                                                         *)
(* A request runs RoundTrip: it looks its host up in activeSites, takes    *)
(* the site's mutex, prepares the site (resolve, connect or reuse), reads  *)
(* the target, gives the mutex back and talks to the target.  Sections     *)
(* under t.mx never wait for anything, so each is one step.                *)
(*                                                                         *)
(* DNS, DHT, ADNL and the storage library are external: an operation of    *)
(* theirs succeeds with a fresh object or fails.                           *)
(***************************************************************************)
EXTENDS Integers, FiniteSets

CONSTANTS
    Hosts,        \* host names
    Requests,     \* goroutines that call RoundTrip
    Sites,        \* siteInfo objects
    Bags,         \* bagInfo objects: a started torrent and its downloader
    Clients,      \* RLDP clients; a client also names the goroutine of its disconnect handler
    Cleaner,      \* the goroutine of cleaner()
    None,
    ReinitIdle,   \* 30 s: an RLDP client idle for longer is reinitialised
    ResolveTTL,   \* 90 s: a site without a success for longer is resolved again
    BagIdle,      \* 300 s: a bag unused for longer is stopped
    MaxTime       \* bound: the clock stops here

ASSUME TimeAssumption ==
    /\ ReinitIdle \in Nat /\ ResolveTTL \in Nat /\ BagIdle \in Nat /\ MaxTime \in Nat
    /\ ReinitIdle <= ResolveTTL /\ ResolveTTL <= BagIdle

ASSUME NameAssumption ==
    /\ None \notin Hosts \cup Requests \cup Sites \cup Bags \cup Clients \cup {Cleaner}
    /\ Cleaner \notin Requests \cup Clients
    /\ Requests \cap Clients = {}
    /\ Bags \cap Clients = {}

VARIABLES
    now,          \* time.Now().Unix()
    stopped,      \* globalCtx is done
    table,        \* t.activeSites
    host,         \* the host each siteInfo was allocated for
    actor,        \* siteInfo.Actor: ref is the bag, or rldpInfo.ActiveClient
    lastUsed,     \* siteInfo.LastUsed
    lastSuccess,  \* siteInfo.LastSuccess
    lock,         \* holder of siteInfo.mx
    bag,          \* what was done to each bag
    client,       \* state of each RLDP client
    rpc,          \* where each request is in RoundTrip
    rsite,        \* the request's site
    rtarget,      \* the bag or client the request took from prepare
    cpc,          \* where the cleaner is
    sweep,        \* entries of its copy of the table it has not visited
    cnow,         \* the time it read before the visits
    hpc,          \* where each client's disconnect handler is
    hhost,        \* the host the handler was made for
    hsite,        \* the site it looked up
    handed        \* history: last time prepare handed each bag to a request

timeVars == <<now, stopped>>
siteVars == <<table, host, actor, lastUsed, lastSuccess>>
reqVars == <<rpc, rsite, rtarget>>
cleanVars == <<cpc, sweep, cnow>>
handlerVars == <<hpc, hhost, hsite>>
vars == <<now, stopped, table, host, actor, lastUsed, lastSuccess, lock, bag, client,
          rpc, rsite, rtarget, cpc, sweep, cnow, hpc, hhost, hsite, handed>>

Procs == Requests \cup {Cleaner} \cup Clients

\* The zero value of LastSuccess lies further back than any timeout reaches.
Never == -1 - BagIdle
Times == Never..MaxTime

Actors == [kind : {"none", "bag", "rldp"}, ref : Bags \cup Clients \cup {None}]
NoActor == [kind |-> "none", ref |-> None]
BagActor(b) == [kind |-> "bag", ref |-> b]
RldpActor(c) == [kind |-> "rldp", ref |-> c]

\* Where a request is while it holds the site's mutex.
Preparing == {"prepare", "resolve", "download", "connect"}

TypeOK ==
    /\ now \in 0..MaxTime
    /\ stopped \in BOOLEAN
    /\ table \in [Hosts -> Sites \cup {None}]
    /\ host \in [Sites -> Hosts \cup {None}]
    /\ actor \in [Sites -> Actors]
    /\ lastUsed \in [Sites -> Times]
    /\ lastSuccess \in [Sites -> Times]
    /\ lock \in [Sites -> Procs \cup {None}]
    /\ bag \in [Bags -> {"new", "started", "running", "stopped"}]
    /\ client \in [Clients -> {"new", "open", "lost", "closed"}]
    /\ rpc \in [Requests -> {"idle", "wait", "exchange", "serve", "stream"} \cup Preparing]
    /\ rsite \in [Requests -> Sites \cup {None}]
    /\ rtarget \in [Requests -> Bags \cup Clients \cup {None}]
    /\ cpc \in {"sleep", "sweep", "delete", "stop", "done"}
    /\ sweep \in SUBSET (Hosts \X Sites)
    /\ cnow \in 0..MaxTime
    /\ hpc \in [Clients -> {"none", "lookup", "lock", "done"}]
    /\ hhost \in [Clients -> Hosts \cup {None}]
    /\ hsite \in [Clients -> Sites \cup {None}]
    /\ handed \in [Bags -> Times]

Init ==
    /\ now = 0
    /\ stopped = FALSE
    /\ table = [h \in Hosts |-> None]
    /\ host = [s \in Sites |-> None]
    /\ actor = [s \in Sites |-> NoActor]
    /\ lastUsed = [s \in Sites |-> Never]
    /\ lastSuccess = [s \in Sites |-> Never]
    /\ lock = [s \in Sites |-> None]
    /\ bag = [b \in Bags |-> "new"]
    /\ client = [c \in Clients |-> "new"]
    /\ rpc = [r \in Requests |-> "idle"]
    /\ rsite = [r \in Requests |-> None]
    /\ rtarget = [r \in Requests |-> None]
    /\ cpc = "sleep"
    /\ sweep = {}
    /\ cnow = 0
    /\ hpc = [c \in Clients |-> "none"]
    /\ hhost = [c \in Clients |-> None]
    /\ hsite = [c \in Clients |-> None]
    /\ handed = [b \in Bags |-> Never]

-------------------------------------------------------------------------------
(***************************************************************************)
(* RoundTrip: lookup under t.mx, then site.mx.                             *)
(***************************************************************************)

LookupHit(r) ==
    /\ rpc[r] = "idle"
    /\ \E h \in Hosts :
          /\ table[h] # None
          /\ rsite' = [rsite EXCEPT ![r] = table[h]]
    /\ rpc' = [rpc EXCEPT ![r] = "wait"]
    /\ rtarget' = [rtarget EXCEPT ![r] = None]
    /\ UNCHANGED <<timeVars, siteVars, lock, bag, client, cleanVars, handlerVars, handed>>

LookupMiss(r) ==
    /\ rpc[r] = "idle"
    /\ \E h \in Hosts, s \in Sites :
          /\ table[h] = None
          /\ host[s] = None
          /\ host' = [host EXCEPT ![s] = h]
          /\ table' = [table EXCEPT ![h] = s]
          /\ lastUsed' = [lastUsed EXCEPT ![s] = now]
          /\ rsite' = [rsite EXCEPT ![r] = s]
    /\ rpc' = [rpc EXCEPT ![r] = "wait"]
    /\ rtarget' = [rtarget EXCEPT ![r] = None]
    /\ UNCHANGED <<timeVars, actor, lastSuccess, lock, bag, client, cleanVars,
                   handlerVars, handed>>

\* Mutant: the site's mutex is not waited for.
LockAnyway(r) ==
    /\ rpc[r] = "wait"
    /\ lock' = [lock EXCEPT ![rsite[r]] = r]
    /\ rpc' = [rpc EXCEPT ![r] = "prepare"]
    /\ UNCHANGED <<timeVars, siteVars, bag, client, rsite, rtarget, cleanVars,
                   handlerVars, handed>>

Lock(r) ==
    /\ rpc[r] = "wait"
    /\ lock[rsite[r]] = None
    /\ lock' = [lock EXCEPT ![rsite[r]] = r]
    /\ rpc' = [rpc EXCEPT ![r] = "prepare"]
    /\ UNCHANGED <<timeVars, siteVars, bag, client, rsite, rtarget, cleanVars,
                   handlerVars, handed>>

-------------------------------------------------------------------------------
(***************************************************************************)
(* prepare, under the site's mutex.                                        *)
(***************************************************************************)

Expired(t, ttl) == t + ttl < now

\* Mutant: the error path of RoundTrip forgets the Unlock.
FailLocked(r) ==
    /\ rpc' = [rpc EXCEPT ![r] = "idle"]
    /\ UNCHANGED <<lock, rsite, rtarget>>

\* prepare returns an error: RoundTrip unlocks and fails.
Fail(r) ==
    /\ lock' = [lock EXCEPT ![rsite[r]] = None]
    /\ rpc' = [rpc EXCEPT ![r] = "idle"]
    /\ UNCHANGED <<rsite, rtarget>>

\* prepare returns nil: RoundTrip reads the target and unlocks.
HandOver(r, pc, target) ==
    /\ lock' = [lock EXCEPT ![rsite[r]] = None]
    /\ rpc' = [rpc EXCEPT ![r] = pc]
    /\ rtarget' = [rtarget EXCEPT ![r] = target]
    /\ UNCHANGED rsite

\* The first lines of prepare: the transport was stopped.
PrepareStopped(r) ==
    /\ rpc[r] = "prepare"
    /\ stopped
    /\ Fail(r)
    /\ UNCHANGED <<timeVars, siteVars, bag, client, cleanVars, handlerVars, handed>>

MustResolve(s) == actor[s].kind = "none" \/ Expired(lastSuccess[s], ResolveTTL)

PrepareResolve(r) ==
    /\ rpc[r] = "prepare"
    /\ ~stopped
    /\ MustResolve(rsite[r])
    /\ rpc' = [rpc EXCEPT ![r] = "resolve"]
    /\ UNCHANGED <<timeVars, siteVars, lock, bag, client, rsite, rtarget, cleanVars,
                   handlerVars, handed>>

\* Mutant: a bag found in the table is handed over without a store to LastUsed.
PrepareBagUntouched(r) ==
    LET s == rsite[r]
    IN  /\ rpc[r] = "prepare"
        /\ ~stopped
        /\ ~MustResolve(s)
        /\ actor[s].kind = "bag"
        /\ handed' = [handed EXCEPT ![actor[s].ref] = now]
        /\ HandOver(r, "serve", actor[s].ref)
        /\ UNCHANGED <<timeVars, table, host, actor, lastUsed, lastSuccess, bag, client,
                       cleanVars, handlerVars>>

PrepareBag(r) ==
    LET s == rsite[r]
    IN  /\ rpc[r] = "prepare"
        /\ ~stopped
        /\ ~MustResolve(s)
        /\ actor[s].kind = "bag"
        /\ lastUsed' = [lastUsed EXCEPT ![s] = now]
        /\ handed' = [handed EXCEPT ![actor[s].ref] = now]
        /\ HandOver(r, "serve", actor[s].ref)
        /\ UNCHANGED <<timeVars, table, host, actor, lastSuccess, bag, client,
                       cleanVars, handlerVars>>

\* The client is reused, reinitialised when it was idle for long.
PrepareClient(r) ==
    LET s == rsite[r]
    IN  /\ rpc[r] = "prepare"
        /\ ~stopped
        /\ ~MustResolve(s)
        /\ actor[s].kind = "rldp"
        /\ actor[s].ref # None
        /\ lastUsed' = IF Expired(lastUsed[s], ReinitIdle)
                       THEN [lastUsed EXCEPT ![s] = now] ELSE lastUsed
        /\ HandOver(r, "exchange", actor[s].ref)
        /\ UNCHANGED <<timeVars, table, host, actor, lastSuccess, bag, client,
                       cleanVars, handlerVars, handed>>

PrepareConnect(r) ==
    LET s == rsite[r]
    IN  /\ rpc[r] = "prepare"
        /\ ~stopped
        /\ ~MustResolve(s)
        /\ actor[s].kind = "rldp"
        /\ actor[s].ref = None
        /\ rpc' = [rpc EXCEPT ![r] = "connect"]
        /\ UNCHANGED <<timeVars, siteVars, lock, bag, client, rsite, rtarget,
                       cleanVars, handlerVars, handed>>

\* connectRLDP: a fresh client whose disconnect handler knows the host.
Connect(c, s) ==
    /\ client[c] = "new"
    /\ client' = [client EXCEPT ![c] = "open"]
    /\ hhost' = [hhost EXCEPT ![c] = host[s]]
    /\ actor' = [actor EXCEPT ![s] = RldpActor(c)]

ConnectOk(r) ==
    LET s == rsite[r]
    IN  /\ rpc[r] = "connect"
        /\ \E c \in Clients :
              /\ Connect(c, s)
              /\ HandOver(r, "exchange", c)
        /\ lastUsed' = [lastUsed EXCEPT ![s] = now]
        /\ UNCHANGED <<timeVars, table, host, lastSuccess, bag, cleanVars, hpc,
                       hsite, handed>>

\* The address does not answer: forget it and prepare again.
ConnectFails(r) ==
    /\ rpc[r] = "connect"
    /\ actor' = [actor EXCEPT ![rsite[r]] = NoActor]
    /\ rpc' = [rpc EXCEPT ![r] = "prepare"]
    /\ UNCHANGED <<timeVars, table, host, lastUsed, lastSuccess, lock, bag, client,
                   rsite, rtarget, cleanVars, handlerVars, handed>>

\* resolve finds a bag: the torrent is put in the store and started.
StartBag(r) ==
    /\ rpc[r] = "resolve"
    /\ \E b \in Bags :
          /\ bag[b] = "new"
          /\ bag' = [bag EXCEPT ![b] = "started"]
          /\ rtarget' = [rtarget EXCEPT ![r] = b]
    /\ rpc' = [rpc EXCEPT ![r] = "download"]
    /\ UNCHANGED <<timeVars, siteVars, lock, client, rsite, cleanVars, handlerVars, handed>>

\* CreateDownloader succeeds; resolve and prepare return the bag.
ResolveBag(r) ==
    LET s == rsite[r]
        b == rtarget[r]
    IN  /\ rpc[r] = "download"
        /\ bag' = [bag EXCEPT ![b] = "running"]
        /\ actor' = [actor EXCEPT ![s] = BagActor(b)]
        /\ lastSuccess' = [lastSuccess EXCEPT ![s] = now]
        /\ lastUsed' = [lastUsed EXCEPT ![s] = now]
        /\ handed' = [handed EXCEPT ![b] = now]
        /\ HandOver(r, "serve", b)
        /\ UNCHANGED <<timeVars, table, host, client, cleanVars, handlerVars>>

\* resolve finds an ADNL address and connects to it.
ResolveClient(r) ==
    LET s == rsite[r]
    IN  /\ rpc[r] = "resolve"
        /\ \E c \in Clients :
              /\ Connect(c, s)
              /\ HandOver(r, "exchange", c)
        /\ lastSuccess' = [lastSuccess EXCEPT ![s] = now]
        /\ lastUsed' = [lastUsed EXCEPT ![s] = now]
        /\ UNCHANGED <<timeVars, table, host, bag, cleanVars, hpc, hsite, handed>>

\* No record, no address, no connection, or no downloader: resolve returns nil
\* and an error, and prepare has assigned the nil to Actor.
ResolveFails(r) ==
    /\ rpc[r] \in {"resolve", "download"}
    /\ actor' = [actor EXCEPT ![rsite[r]] = NoActor]
    /\ Fail(r)
    /\ UNCHANGED <<timeVars, table, host, lastUsed, lastSuccess, bag, client,
                   cleanVars, handlerVars, handed>>

-------------------------------------------------------------------------------
(***************************************************************************)
(* doRldpHttp, doTorrent and the goroutine that streams a bag's file.      *)
(***************************************************************************)

\* The response is ready: a bag's file may follow as a stream.
Succeed(r) ==
    /\ rpc[r] \in {"exchange", "serve"}
    /\ lastSuccess' = [lastSuccess EXCEPT ![rsite[r]] = now]
    /\ \/ rpc' = [rpc EXCEPT ![r] = "idle"]
       \/ rpc[r] = "serve" /\ rpc' = [rpc EXCEPT ![r] = "stream"]
    /\ UNCHANGED <<timeVars, table, host, actor, lastUsed, lock, bag, client, rsite,
                   rtarget, cleanVars, handlerVars, handed>>

\* The exchange failed, the request's body could not be read, or the stream ended.
Leave(r) ==
    /\ rpc[r] \in {"exchange", "serve", "stream"}
    /\ rpc' = [rpc EXCEPT ![r] = "idle"]
    /\ UNCHANGED <<timeVars, siteVars, lock, bag, client, rsite, rtarget, cleanVars,
                   handlerVars, handed>>

\* proxyOrdered stores LastUsed before it waits for a piece, without the mutex.
Touch(r) ==
    /\ rpc[r] = "stream"
    /\ lastUsed' = [lastUsed EXCEPT ![rsite[r]] = now]
    /\ UNCHANGED <<timeVars, table, host, actor, lastSuccess, lock, bag, client,
                   reqVars, cleanVars, handlerVars, handed>>

-------------------------------------------------------------------------------
(***************************************************************************)
(* cleaner: copy the table, read the clock, visit the copy.                *)
(***************************************************************************)

\* The copy under t.mx and the clock after it are one step: only the cleaner removes
\* entries, and one added in between would be too young to be visited with effect.
Sweep ==
    /\ cpc = "sleep"
    /\ ~stopped
    /\ sweep' = {e \in Hosts \X Sites : table[e[1]] = e[2]}
    /\ cnow' = now
    /\ cpc' = "sweep"
    /\ UNCHANGED <<timeVars, siteVars, lock, bag, client, reqVars, handlerVars, handed>>

\* The clock of this round says the site was unused for too long.
Unused(s) == lastUsed[s] + BagIdle < cnow

\* TryLock fails, or the site is in use or holds no bag.
Skip(h, s) ==
    /\ cpc = "sweep"
    /\ <<h, s>> \in sweep
    /\ lock[s] # None \/ ~Unused(s) \/ actor[s].kind # "bag"
    /\ sweep' = sweep \ {<<h, s>>}
    /\ UNCHANGED <<timeVars, siteVars, lock, bag, client, reqVars, cpc, cnow,
                   handlerVars, handed>>

\* TryLock succeeds and the site holds an unused bag.
Check(h, s) ==
    /\ cpc = "sweep"
    /\ <<h, s>> \in sweep
    /\ lock[s] = None
    /\ Unused(s)
    /\ actor[s].kind = "bag"
    /\ lock' = [lock EXCEPT ![s] = Cleaner]
    /\ cpc' = "delete"
    /\ UNCHANGED <<timeVars, siteVars, bag, client, reqVars, sweep, cnow, handlerVars, handed>>

\* Mutant: the entry of the stopped bag stays in the table.
KeepEntry(h, s) ==
    /\ cpc = "delete"
    /\ <<h, s>> \in sweep
    /\ lock[s] = Cleaner
    /\ cpc' = "stop"
    /\ UNCHANGED <<timeVars, siteVars, lock, bag, client, reqVars, sweep, cnow,
                   handlerVars, handed>>

\* Under t.mx: the entry is removed if it is still this site.
Delete(h, s) ==
    /\ cpc = "delete"
    /\ <<h, s>> \in sweep
    /\ lock[s] = Cleaner
    /\ table' = IF table[h] = s THEN [table EXCEPT ![h] = None] ELSE table
    /\ cpc' = "stop"
    /\ UNCHANGED <<timeVars, host, actor, lastUsed, lastSuccess, lock, bag, client,
                   reqVars, sweep, cnow, handlerVars, handed>>

\* downloader.Close, torrent.Stop, Unlock.
StopBag(h, s) ==
    /\ cpc = "stop"
    /\ <<h, s>> \in sweep
    /\ lock[s] = Cleaner
    /\ bag' = [bag EXCEPT ![actor[s].ref] = "stopped"]
    /\ lock' = [lock EXCEPT ![s] = None]
    /\ sweep' = sweep \ {<<h, s>>}
    /\ cpc' = "sweep"
    /\ UNCHANGED <<timeVars, siteVars, client, reqVars, cnow, handlerVars, handed>>

\* Mutant: the cleaner runs one round.
RestForever ==
    /\ cpc = "sweep"
    /\ sweep = {}
    /\ cpc' = "done"
    /\ UNCHANGED <<timeVars, siteVars, lock, bag, client, reqVars, sweep, cnow,
                   handlerVars, handed>>

Rest ==
    /\ cpc = "sweep"
    /\ sweep = {}
    /\ cpc' = "sleep"
    /\ UNCHANGED <<timeVars, siteVars, lock, bag, client, reqVars, sweep, cnow,
                   handlerVars, handed>>

CleanerEnds ==
    /\ cpc = "sleep"
    /\ stopped
    /\ cpc' = "done"
    /\ UNCHANGED <<timeVars, siteVars, lock, bag, client, reqVars, sweep, cnow,
                   handlerVars, handed>>

-------------------------------------------------------------------------------
(***************************************************************************)
(* removeRLDP: the disconnect handler of a client.                         *)
(***************************************************************************)

\* The peer is gone; the handler starts.
Disconnect(c) ==
    /\ client[c] = "open"
    /\ client' = [client EXCEPT ![c] = "lost"]
    /\ hpc' = [hpc EXCEPT ![c] = "lookup"]
    /\ UNCHANGED <<timeVars, siteVars, lock, bag, reqVars, cleanVars, hhost, hsite, handed>>

\* Under t.mx: the site the table has for the host now, if any.
HandlerLookup(c) ==
    /\ hpc[c] = "lookup"
    /\ hsite' = [hsite EXCEPT ![c] = table[hhost[c]]]
    /\ hpc' = [hpc EXCEPT ![c] = IF table[hhost[c]] = None THEN "done" ELSE "lock"]
    /\ UNCHANGED <<timeVars, siteVars, lock, bag, client, reqVars, cleanVars, hhost, handed>>

\* Mutant: the client is closed but stays the site's ActiveClient.
KeepClient(c) ==
    LET s == hsite[c]
    IN  /\ hpc[c] = "lock"
        /\ lock[s] = None
        /\ client' = IF actor[s].kind = "rldp"
                     THEN [client EXCEPT ![c] = "closed"] ELSE client
        /\ hpc' = [hpc EXCEPT ![c] = "done"]
        /\ UNCHANGED <<timeVars, siteVars, lock, bag, reqVars, cleanVars, hhost,
                       hsite, handed>>

\* Under the site's mutex: destroyClient, when the site is an RLDP one.
HandlerDestroy(c) ==
    LET s == hsite[c]
    IN  /\ hpc[c] = "lock"
        /\ lock[s] = None
        /\ IF actor[s].kind = "rldp"
           THEN /\ client' = [client EXCEPT ![c] = "closed"]
                /\ actor' = IF actor[s].ref = c
                            THEN [actor EXCEPT ![s].ref = None] ELSE actor
           ELSE UNCHANGED <<client, actor>>
        /\ hpc' = [hpc EXCEPT ![c] = "done"]
        /\ UNCHANGED <<timeVars, table, host, lastUsed, lastSuccess, lock, bag,
                       reqVars, cleanVars, hhost, hsite, handed>>

-------------------------------------------------------------------------------
Tick ==
    /\ now < MaxTime
    /\ now' = now + 1
    /\ UNCHANGED <<stopped, siteVars, lock, bag, client, reqVars, cleanVars,
                   handlerVars, handed>>

\* Transport.Stop
Stop ==
    /\ ~stopped
    /\ stopped' = TRUE
    /\ UNCHANGED <<now, siteVars, lock, bag, client, reqVars, cleanVars, handlerVars, handed>>

\* The local steps of prepare.
PrepareNext(r) ==
    \/ PrepareStopped(r)
    \/ PrepareResolve(r)
    \/ PrepareBag(r)
    \/ PrepareClient(r)
    \/ PrepareConnect(r)

\* What it waits for the network for.
ResolveNext(r) ==
    \/ ConnectOk(r)
    \/ ConnectFails(r)
    \/ StartBag(r)
    \/ ResolveBag(r)
    \/ ResolveClient(r)
    \/ ResolveFails(r)

RequestNext(r) ==
    \/ LookupHit(r)
    \/ LookupMiss(r)
    \/ Lock(r)
    \/ PrepareNext(r)
    \/ ResolveNext(r)
    \/ Succeed(r)
    \/ Leave(r)
    \/ Touch(r)

VisitNext(h, s) ==
    \/ Skip(h, s)
    \/ Check(h, s)
    \/ Delete(h, s)
    \/ StopBag(h, s)

CleanerNext ==
    \/ Sweep
    \/ \E h \in Hosts, s \in Sites : VisitNext(h, s)
    \/ Rest
    \/ CleanerEnds

HandlerNext(c) == HandlerLookup(c) \/ HandlerDestroy(c)

Next ==
    \/ \E r \in Requests : RequestNext(r)
    \/ CleanerNext
    \/ \E c \in Clients : Disconnect(c) \/ HandlerNext(c)
    \/ Tick
    \/ Stop

Spec == Init /\ [][Next]_vars

(***************************************************************************)
(* Time passes, the cleaner, the handlers and the local steps of prepare   *)
(* run, and a goroutine waiting for a site's mutex is served in turn       *)
(* (sync.RWMutex is starvation-free for its writers).  New requests,       *)
(* disconnects, Stop, the answers of the network and the progress of a     *)
(* stream are not owed.                                                    *)
(***************************************************************************)
Fairness ==
    /\ WF_vars(Tick)
    /\ WF_vars(CleanerNext)
    /\ \A r \in Requests : WF_vars(PrepareNext(r)) /\ SF_vars(Lock(r))
    /\ \A c \in Clients : WF_vars(HandlerLookup(c)) /\ SF_vars(HandlerDestroy(c))

FairSpec == Spec /\ Fairness

-------------------------------------------------------------------------------
(***************************************************************************)
(* Properties.                                                             *)
(***************************************************************************)

\* A request that looks its host up never finds a stopped bag: the cleaner takes
\* the entry out of the table before it stops the bag, and the mutex keeps a new
\* bag from being stored in between.
TableBagRuns ==
    \A h \in Hosts : table[h] # None /\ actor[table[h]].kind = "bag"
                        => bag[actor[table[h]].ref] = "running"

\* A dead connection does not stay in the table: when an entry's client is not
\* open any more, its handler has yet to run and will find it there.
TableClientAlive ==
    \A h \in Hosts, c \in Clients :
        table[h] # None /\ actor[table[h]] = RldpActor(c) /\ client[c] # "open"
            => hpc[c] = "lookup" \/ (hpc[c] = "lock" /\ hsite[c] = table[h])

\* No bag is stopped within BagIdle of the last time prepare handed it out.
HandedBagSurvives ==
    [][\A b \in Bags : bag[b] # "stopped" /\ bag'[b] = "stopped"
                          => handed[b] + BagIdle < now]_vars

\* The lookups and connections that prepare waits for under the mutex end.
NetworkAnswers ==
    \A r \in Requests : []<>(rpc[r] \notin {"resolve", "download", "connect"})

\* The bag of an entry that nobody uses for BagIdle leaves the table: the cleaner
\* reaches every entry, also those whose mutex it found taken before.
InUse(s) == lastUsed[s] + BagIdle >= now
HasBag(h, b) == table[h] # None /\ actor[table[h]] = BagActor(b)
IdleTableBagLeaves ==
    NetworkAnswers =>
        \A h \in Hosts, b \in Bags :
            HasBag(h, b) ~> ~HasBag(h, b) \/ stopped \/ InUse(table[h])

\* "stop bags that was not used for > 5 min" (client.go:137): a running bag is
\* stopped once no request holds it, prepare has not handed it out for BagIdle,
\* and it is not the bag of an entry in use.
HeldBy(b) == {r \in Requests : rtarget[r] = b /\ rpc[r] \in {"serve", "stream"}}
Needed(b) ==
    \/ HeldBy(b) # {}
    \/ handed[b] + BagIdle >= now
    \/ \E h \in Hosts : HasBag(h, b) /\ InUse(table[h])
IdleBagStops ==
    \A b \in Bags : bag[b] = "running" ~> bag[b] = "stopped" \/ stopped \/ Needed(b)

\* A request that waits for its site's mutex gets it, whatever other requests,
\* the cleaner and the disconnect handlers do with the same site.
LockServed ==
    NetworkAnswers => \A r \in Requests : rpc[r] = "wait" ~> rpc[r] # "wait"

-------------------------------------------------------------------------------
(***************************************************************************)
(* The inductive invariant behind TableBagRuns and HandedBagSurvives.      *)
(***************************************************************************)

\* Entries of the table and of the cleaner's copy are kept under their host, and
\* only an allocated site is resolved.
Named ==
    /\ \A h \in Hosts : table[h] # None => host[table[h]] = h
    /\ \A e \in sweep : host[e[2]] = e[1]
    /\ \A s \in Sites : host[s] = None => actor[s].kind = "none"

\* Whoever prepares a site holds its mutex; the cleaner holds one at most, of a
\* site with a bag, and only between Check and StopBag.
Held ==
    /\ \A r \in Requests : rpc[r] # "idle" => rsite[r] \in Sites /\ host[rsite[r]] # None
    /\ \A r \in Requests : rpc[r] \in Preparing => lock[rsite[r]] = r
    /\ \A s \in Sites : lock[s] = Cleaner =>
          /\ host[s] # None
          /\ cpc \in {"delete", "stop"}
          /\ actor[s].kind = "bag"
          /\ cpc = "stop" => \A h \in Hosts : table[h] # s
    /\ \A s, q \in Sites : lock[s] = Cleaner /\ lock[q] = Cleaner => s = q

\* A bag belongs to one site, or to the request that is starting it.
Owned ==
    /\ \A s \in Sites : actor[s].kind = "bag" =>
          actor[s].ref \in Bags /\ bag[actor[s].ref] \in {"running", "stopped"}
    /\ \A s, q \in Sites : /\ actor[s].kind = "bag" /\ actor[q].kind = "bag"
                           /\ actor[s].ref = actor[q].ref
                           => s = q
    /\ \A r \in Requests : rpc[r] = "download" =>
          rtarget[r] \in Bags /\ bag[rtarget[r]] = "started"
    /\ \A r, q \in Requests :
          rpc[r] = "download" /\ rpc[q] = "download" /\ rtarget[r] = rtarget[q] => r = q

\* A disconnect handler knows the host its client was connected for, and waits for
\* the mutex of a site.
Handled ==
    \A c \in Clients :
        /\ client[c] # "new" => hhost[c] \in Hosts
        /\ hpc[c] # "none" => client[c] # "new"
        /\ hpc[c] = "lock" => hsite[c] \in Sites

\* LastUsed is at least as late as the bag's last handing over, and the bag the
\* cleaner is about to stop was not handed over for BagIdle before its round.
Clocks ==
    /\ cnow <= now
    /\ \A b \in Bags : handed[b] <= now
    /\ \A s \in Sites : actor[s].kind = "bag" => handed[actor[s].ref] <= lastUsed[s]
    /\ \A s \in Sites : lock[s] = Cleaner => handed[actor[s].ref] + BagIdle < cnow

\* A site's mutex protects its actor, a bag has one owner, and the cleaner acts on
\* a site nobody was handed for long.
IInv == TypeOK /\ Named /\ Held /\ Owned /\ Handled /\ Clocks /\ TableBagRuns

\* A site's client was connected for the site's host, and a handler runs only for a client
\* that is gone.
Linked ==
    /\ \A s \in Sites, c \in Clients : actor[s] = RldpActor(c) =>
          client[c] # "new" /\ hhost[c] = host[s]
    /\ \A c \in Clients : hpc[c] # "none" => client[c] \in {"lost", "closed"}

\* With the links of clients, sites and handlers: the invariant behind TableClientAlive.
TableIInv == IInv /\ Linked /\ TableClientAlive
===============================================================================
