------------------------------ MODULE SiteProofs ------------------------------
(***************************************************************************)
(* Theorems about SiteTable, for any hosts, goroutines, objects, timeouts  *)
(* and bound of the clock, and about DnsLookup, for any number of look-ups. *)
(*                                                                         *)
(* IInv is inductive: one lemma per group of actions, one step per action, *)
(* one leaf per conjunct.  The theorems the code rests on follow: the table *)
(* never offers a stopped bag, no bag is stopped within BagIdle of being   *)
(* handed to a request, and a lost client leaves its site.                 *)
(***************************************************************************)
EXTENDS SiteTable, DnsLookup, FiniteSetTheorems, TLAPS

\* Looking a host up and taking the site's mutex keeps IInv.
LEMMA LookupIInv ==
    ASSUME IInv, NEW r \in Requests,
           \/ LookupHit(r)
           \/ LookupMiss(r)
           \/ Lock(r)
    PROVE  IInv'
<1> USE DEF IInv
<1>1. CASE LookupHit(r)
    <2> USE <1>1 DEF LookupHit, timeVars, siteVars, cleanVars, handlerVars
    <2>1. TypeOK'
        BY DEF TypeOK
    <2>2. Named'
        BY DEF Named
    <2>3. Held'
        BY NameAssumption DEF Held, Preparing, Named, TypeOK
    <2>4. Owned'
        BY DEF Owned
    <2>5. Handled'
        BY DEF Handled
    <2>6. Clocks'
        BY DEF Clocks
    <2>7. TableBagRuns'
        BY DEF TableBagRuns
    <2> QED
        BY <2>1, <2>2, <2>3, <2>4, <2>5, <2>6, <2>7
<1>2. CASE LookupMiss(r)
    <2>0. PICK h \in Hosts, s \in Sites :
              /\ table[h] = None
              /\ host[s] = None
              /\ host' = [host EXCEPT ![s] = h]
              /\ table' = [table EXCEPT ![h] = s]
              /\ lastUsed' = [lastUsed EXCEPT ![s] = now]
              /\ rsite' = [rsite EXCEPT ![r] = s]
        BY <1>2 DEF LookupMiss
    <2>a. /\ rpc' = [rpc EXCEPT ![r] = "wait"]
          /\ rtarget' = [rtarget EXCEPT ![r] = None]
          /\ UNCHANGED <<timeVars, actor, lastSuccess, lock, bag, client, cleanVars,
                         handlerVars, handed>>
        BY <1>2 DEF LookupMiss
    <2> USE <2>0, <2>a DEF timeVars, cleanVars, handlerVars
    <2>1. TypeOK'
        BY TimeAssumption DEF TypeOK, Times, Never
    <2>2. Named'
        BY NameAssumption DEF Named, TypeOK
    <2>3. Held'
        BY NameAssumption DEF Held, Preparing, TypeOK
    <2>4. Owned'
        BY DEF Owned, TypeOK
    <2>5. Handled'
        BY DEF Handled
    <2>6. Clocks'
        BY DEF Clocks, Owned
    <2>7. TableBagRuns'
        BY DEF TableBagRuns, Named
    <2> QED
        BY <2>1, <2>2, <2>3, <2>4, <2>5, <2>6, <2>7
<1>3. CASE Lock(r)
    <2> USE <1>3 DEF Lock, timeVars, siteVars, cleanVars, handlerVars
    <2>1. TypeOK'
        BY DEF TypeOK, Procs, Preparing
    <2>2. Named'
        BY DEF Named
    <2>3. Held'
        BY NameAssumption DEF Held, TypeOK
    <2>4. Owned'
        BY DEF Owned
    <2>5. Handled'
        BY DEF Handled
    <2>6. Clocks'
        BY NameAssumption DEF Clocks
    <2>7. TableBagRuns'
        BY DEF TableBagRuns
    <2> QED
        BY <2>1, <2>2, <2>3, <2>4, <2>5, <2>6, <2>7
<1> QED
    BY <1>1, <1>2, <1>3

\* The local steps of prepare keep it.
LEMMA PrepareIInv ==
    ASSUME IInv, NEW r \in Requests,
           \/ PrepareStopped(r)
           \/ PrepareResolve(r)
           \/ PrepareBag(r)
           \/ PrepareClient(r)
           \/ PrepareConnect(r)
    PROVE  IInv'
<1> USE DEF IInv
<1>1. CASE PrepareStopped(r)
    <2> USE <1>1 DEF PrepareStopped, Fail, timeVars, siteVars, cleanVars, handlerVars
    <2>1. TypeOK'
        BY DEF TypeOK
    <2>2. Named'
        BY DEF Named
    <2>3. Held'
        BY NameAssumption DEF Held, Preparing, TypeOK
    <2>4. Owned'
        BY DEF Owned
    <2>5. Handled'
        BY DEF Handled
    <2>6. Clocks'
        BY NameAssumption DEF Clocks
    <2>7. TableBagRuns'
        BY DEF TableBagRuns
    <2> QED
        BY <2>1, <2>2, <2>3, <2>4, <2>5, <2>6, <2>7
<1>2. CASE PrepareResolve(r)
    <2> USE <1>2 DEF PrepareResolve, MustResolve, timeVars, siteVars, cleanVars, handlerVars
    <2>1. TypeOK'
        BY DEF TypeOK, Preparing
    <2>2. Named'
        BY DEF Named
    <2>3. Held'
        BY DEF Held, TypeOK
    <2>4. Owned'
        BY DEF Owned
    <2>5. Handled'
        BY DEF Handled
    <2>6. Clocks'
        BY DEF Clocks
    <2>7. TableBagRuns'
        BY DEF TableBagRuns
    <2> QED
        BY <2>1, <2>2, <2>3, <2>4, <2>5, <2>6, <2>7
<1>3. CASE PrepareBag(r)
    <2> USE <1>3 DEF PrepareBag, MustResolve, HandOver, timeVars, cleanVars, handlerVars
    <2>1. TypeOK'
        BY TimeAssumption DEF TypeOK, Times, Never, Owned, Held
    <2>2. Named'
        BY DEF Named
    <2>3. Held'
        BY NameAssumption DEF Held, Preparing, TypeOK
    <2>4. Owned'
        BY DEF Owned
    <2>5. Handled'
        BY DEF Handled
    <2>6. Clocks'
        BY NameAssumption DEF Clocks, Owned, Held, TypeOK
    <2>7. TableBagRuns'
        BY DEF TableBagRuns
    <2> QED
        BY <2>1, <2>2, <2>3, <2>4, <2>5, <2>6, <2>7
<1>4. CASE PrepareClient(r)
    <2> USE <1>4 DEF PrepareClient, HandOver, timeVars, cleanVars, handlerVars
    <2>1. TypeOK'
        BY TimeAssumption DEF TypeOK, Actors, Times, Never, Held
    <2>2. Named'
        BY DEF Named
    <2>3. Held'
        BY NameAssumption DEF Held, Preparing, TypeOK
    <2>4. Owned'
        BY DEF Owned
    <2>5. Handled'
        BY DEF Handled
    <2>6. Clocks'
        BY NameAssumption DEF Clocks
    <2>7. TableBagRuns'
        BY DEF TableBagRuns
    <2> QED
        BY <2>1, <2>2, <2>3, <2>4, <2>5, <2>6, <2>7
<1>5. CASE PrepareConnect(r)
    <2> USE <1>5 DEF PrepareConnect, timeVars, siteVars, cleanVars, handlerVars
    <2>1. TypeOK'
        BY DEF TypeOK, Preparing
    <2>2. Named'
        BY DEF Named
    <2>3. Held'
        BY DEF Held, TypeOK
    <2>4. Owned'
        BY DEF Owned
    <2>5. Handled'
        BY DEF Handled
    <2>6. Clocks'
        BY DEF Clocks
    <2>7. TableBagRuns'
        BY DEF TableBagRuns
    <2> QED
        BY <2>1, <2>2, <2>3, <2>4, <2>5, <2>6, <2>7
<1> QED
    BY <1>1, <1>2, <1>3, <1>4, <1>5

\* The steps of prepare that wait for the network keep it.
LEMMA ResolveIInv ==
    ASSUME IInv, NEW r \in Requests,
           \/ ConnectOk(r)
           \/ ConnectFails(r)
           \/ StartBag(r)
           \/ ResolveBag(r)
           \/ ResolveClient(r)
           \/ ResolveFails(r)
    PROVE  IInv'
<1> USE DEF IInv
<1>1. CASE ConnectOk(r)
    <2>0. PICK c \in Clients :
              /\ client[c] = "new"
              /\ client' = [client EXCEPT ![c] = "open"]
              /\ hhost' = [hhost EXCEPT ![c] = host[rsite[r]]]
              /\ actor' = [actor EXCEPT ![rsite[r]] = RldpActor(c)]
              /\ rtarget' = [rtarget EXCEPT ![r] = c]
              /\ lock' = [lock EXCEPT ![rsite[r]] = None]
              /\ rpc' = [rpc EXCEPT ![r] = "exchange"]
        BY <1>1 DEF ConnectOk, Connect, HandOver
    <2>a. /\ rpc[r] = "connect"
          /\ rsite' = rsite
          /\ lastUsed' = [lastUsed EXCEPT ![rsite[r]] = now]
          /\ UNCHANGED <<timeVars, table, host, lastSuccess, bag, cleanVars, hpc, hsite, handed>>
        BY <1>1 DEF ConnectOk, HandOver
    <2> USE <2>0, <2>a DEF RldpActor, timeVars, cleanVars
    <2>1. TypeOK'
        BY TimeAssumption DEF TypeOK, Actors, Times, Never, Held
    <2>2. Named'
        BY DEF Named, Held
    <2>3. Held'
        BY NameAssumption DEF Held, Preparing, TypeOK
    <2>4. Owned'
        BY DEF Owned
    <2>5. Handled'
        BY DEF Handled, Held, TypeOK
    <2>6. Clocks'
        BY NameAssumption DEF Clocks, TypeOK
    <2>7. TableBagRuns'
        BY DEF TableBagRuns
    <2> QED
        BY <2>1, <2>2, <2>3, <2>4, <2>5, <2>6, <2>7
<1>2. CASE ConnectFails(r)
    <2> USE <1>2 DEF ConnectFails, NoActor, timeVars, cleanVars, handlerVars
    <2>1. TypeOK'
        BY DEF TypeOK, Actors, Preparing
    <2>2. Named'
        BY DEF Named
    <2>3. Held'
        BY NameAssumption DEF Held, TypeOK
    <2>4. Owned'
        BY DEF Owned
    <2>5. Handled'
        BY DEF Handled
    <2>6. Clocks'
        BY NameAssumption DEF Clocks, Held, TypeOK
    <2>7. TableBagRuns'
        BY DEF TableBagRuns
    <2> QED
        BY <2>1, <2>2, <2>3, <2>4, <2>5, <2>6, <2>7
<1>3. CASE StartBag(r)
    <2> USE <1>3 DEF StartBag, timeVars, siteVars, cleanVars, handlerVars
    <2>1. TypeOK'
        BY DEF TypeOK, Preparing
    <2>2. Named'
        BY DEF Named
    <2>3. Held'
        BY DEF Held, TypeOK
    <2>4. Owned'
        BY DEF Owned, TypeOK
    <2>5. Handled'
        BY DEF Handled
    <2>6. Clocks'
        BY DEF Clocks
    <2>7. TableBagRuns'
        BY DEF TableBagRuns
    <2> QED
        BY <2>1, <2>2, <2>3, <2>4, <2>5, <2>6, <2>7
<1>4. CASE ResolveBag(r)
    <2> USE <1>4 DEF ResolveBag, HandOver, BagActor, timeVars, cleanVars, handlerVars
    <2>0. /\ rsite[r] \in Sites /\ host[rsite[r]] # None
          /\ lock[rsite[r]] = r
          /\ rtarget[r] \in Bags /\ bag[rtarget[r]] = "started"
          /\ \A q \in Sites : actor[q].kind = "bag" => actor[q].ref # rtarget[r]
          /\ actor'[rsite[r]].kind = "bag" /\ actor'[rsite[r]].ref = rtarget[r]
          /\ \A q \in Sites : q # rsite[r] => actor'[q] = actor[q]
        BY DEF TypeOK, Held, Owned, Preparing
    <2>1. TypeOK'
        BY TimeAssumption, <2>0 DEF TypeOK, Actors, Times, Never
    <2>2. Named'
        BY <2>0 DEF Named
    <2>3. Held'
        BY NameAssumption DEF Held, Preparing, TypeOK
    <2>4. Owned'
        <3>1. /\ bag' = [bag EXCEPT ![rtarget[r]] = "running"]
              /\ rpc' = [rpc EXCEPT ![r] = "serve"]
              /\ rtarget' = [rtarget EXCEPT ![r] = rtarget[r]]
            OBVIOUS
        <3>2. \A s \in Sites : actor'[s].kind = "bag" =>
                  actor'[s].ref \in Bags /\ bag'[actor'[s].ref] \in {"running", "stopped"}
            BY <2>0, <3>1 DEF Owned, TypeOK
        <3>3. \A s, q \in Sites : /\ actor'[s].kind = "bag" /\ actor'[q].kind = "bag"
                                 /\ actor'[s].ref = actor'[q].ref
                                 => s = q
            BY <2>0 DEF Owned
        <3>4. \A q \in Requests : rpc'[q] = "download" => q # r /\ rpc[q] = "download"
                                                       /\ rtarget'[q] = rtarget[q]
            BY <3>1 DEF TypeOK
        <3>5. \A q \in Requests : q # r /\ rpc[q] = "download" => rtarget[q] # rtarget[r]
            BY DEF Owned
        <3>6. \A q \in Requests : rpc'[q] = "download" =>
                  rtarget'[q] \in Bags /\ bag'[rtarget'[q]] = "started"
            BY <3>1, <3>4, <3>5 DEF Owned, TypeOK
        <3>7. \A q, p \in Requests :
                  rpc'[q] = "download" /\ rpc'[p] = "download" /\ rtarget'[q] = rtarget'[p]
                      => q = p
            BY <3>4 DEF Owned
        <3> QED
            BY <3>2, <3>3, <3>6, <3>7 DEF Owned
    <2>5. Handled'
        BY DEF Handled
    <2>6. Clocks'
        BY NameAssumption, <2>0 DEF Clocks, Held, TypeOK
    <2>7. TableBagRuns'
        BY <2>0 DEF TableBagRuns, TypeOK
    <2> QED
        BY <2>1, <2>2, <2>3, <2>4, <2>5, <2>6, <2>7
<1>5. CASE ResolveClient(r)
    <2>0. PICK c \in Clients :
              /\ client[c] = "new"
              /\ client' = [client EXCEPT ![c] = "open"]
              /\ hhost' = [hhost EXCEPT ![c] = host[rsite[r]]]
              /\ actor' = [actor EXCEPT ![rsite[r]] = RldpActor(c)]
              /\ rtarget' = [rtarget EXCEPT ![r] = c]
              /\ lock' = [lock EXCEPT ![rsite[r]] = None]
              /\ rpc' = [rpc EXCEPT ![r] = "exchange"]
        BY <1>5 DEF ResolveClient, Connect, HandOver
    <2>a. /\ rpc[r] = "resolve"
          /\ rsite' = rsite
          /\ lastUsed' = [lastUsed EXCEPT ![rsite[r]] = now]
          /\ lastSuccess' = [lastSuccess EXCEPT ![rsite[r]] = now]
          /\ UNCHANGED <<timeVars, table, host, bag, cleanVars, hpc, hsite, handed>>
        BY <1>5 DEF ResolveClient, HandOver
    <2> USE <2>0, <2>a DEF RldpActor, timeVars, cleanVars
    <2>1. TypeOK'
        BY TimeAssumption DEF TypeOK, Actors, Times, Never, Held
    <2>2. Named'
        BY DEF Named, Held
    <2>3. Held'
        BY NameAssumption DEF Held, Preparing, TypeOK
    <2>4. Owned'
        BY DEF Owned
    <2>5. Handled'
        BY DEF Handled, Held, TypeOK
    <2>6. Clocks'
        BY NameAssumption DEF Clocks, TypeOK
    <2>7. TableBagRuns'
        BY DEF TableBagRuns
    <2> QED
        BY <2>1, <2>2, <2>3, <2>4, <2>5, <2>6, <2>7
<1>6. CASE ResolveFails(r)
    <2> USE <1>6 DEF ResolveFails, Fail, NoActor, timeVars, cleanVars, handlerVars
    <2>1. TypeOK'
        BY DEF TypeOK, Actors
    <2>2. Named'
        BY DEF Named
    <2>3. Held'
        BY NameAssumption DEF Held, Preparing, TypeOK
    <2>4. Owned'
        BY DEF Owned
    <2>5. Handled'
        BY DEF Handled
    <2>6. Clocks'
        BY NameAssumption DEF Clocks, TypeOK
    <2>7. TableBagRuns'
        BY DEF TableBagRuns
    <2> QED
        BY <2>1, <2>2, <2>3, <2>4, <2>5, <2>6, <2>7
<1> QED
    BY <1>1, <1>2, <1>3, <1>4, <1>5, <1>6

\* Serving a response keeps it.
LEMMA ServeIInv ==
    ASSUME IInv, NEW r \in Requests,
           \/ Succeed(r)
           \/ Leave(r)
           \/ Touch(r)
    PROVE  IInv'
<1> USE DEF IInv
<1>1. CASE Succeed(r)
    <2>0. /\ rpc[r] \in {"exchange", "serve"}
          /\ \/ rpc' = [rpc EXCEPT ![r] = "idle"]
             \/ rpc' = [rpc EXCEPT ![r] = "stream"]
          /\ lastSuccess' = [lastSuccess EXCEPT ![rsite[r]] = now]
          /\ UNCHANGED <<timeVars, table, host, actor, lastUsed, lock, bag, client, rsite,
                         rtarget, cleanVars, handlerVars, handed>>
        BY <1>1 DEF Succeed
    <2> USE <2>0 DEF timeVars, cleanVars, handlerVars
    <2>1. TypeOK'
        BY TimeAssumption DEF TypeOK, Procs, Times, Never, Held
    <2>2. Named'
        BY DEF Named
    <2>3. Held'
        BY DEF Held, Preparing, TypeOK
    <2>4. Owned'
        BY NameAssumption DEF Owned, TypeOK
    <2>5. Handled'
        BY DEF Handled
    <2>6. Clocks'
        BY DEF Clocks
    <2>7. TableBagRuns'
        BY DEF TableBagRuns
    <2> QED
        BY <2>1, <2>2, <2>3, <2>4, <2>5, <2>6, <2>7
<1>2. CASE Leave(r)
    <2> USE <1>2 DEF Leave, timeVars, siteVars, cleanVars, handlerVars
    <2>1. TypeOK'
        BY DEF TypeOK
    <2>2. Named'
        BY DEF Named
    <2>3. Held'
        BY DEF Held, Preparing
    <2>4. Owned'
        BY DEF Owned
    <2>5. Handled'
        BY DEF Handled
    <2>6. Clocks'
        BY DEF Clocks
    <2>7. TableBagRuns'
        BY DEF TableBagRuns
    <2> QED
        BY <2>1, <2>2, <2>3, <2>4, <2>5, <2>6, <2>7
<1>3. CASE Touch(r)
    <2> USE <1>3 DEF Touch, timeVars, reqVars, cleanVars, handlerVars
    <2>1. TypeOK'
        BY TimeAssumption DEF TypeOK, Times, Never, Held
    <2>2. Named'
        BY DEF Named
    <2>3. Held'
        BY DEF Held
    <2>4. Owned'
        BY DEF Owned
    <2>5. Handled'
        BY DEF Handled
    <2>6. Clocks'
        BY DEF Clocks, Owned
    <2>7. TableBagRuns'
        BY DEF TableBagRuns
    <2> QED
        BY <2>1, <2>2, <2>3, <2>4, <2>5, <2>6, <2>7
<1> QED
    BY <1>1, <1>2, <1>3

\* A visit of the cleaner to a site keeps it.
LEMMA VisitIInv ==
    ASSUME IInv, NEW h \in Hosts, NEW s \in Sites,
           \/ Skip(h, s)
           \/ Check(h, s)
           \/ Delete(h, s)
           \/ StopBag(h, s)
    PROVE  IInv'
<1> USE DEF IInv
<1>1. CASE Skip(h, s)
    <2> USE <1>1 DEF Skip, timeVars, siteVars, reqVars, handlerVars
    <2>1. TypeOK'
        BY DEF TypeOK
    <2>2. Named'
        BY DEF Named
    <2>3. Held'
        BY DEF Held
    <2>4. Owned'
        BY DEF Owned
    <2>5. Handled'
        BY DEF Handled
    <2>6. Clocks'
        BY DEF Clocks
    <2>7. TableBagRuns'
        BY DEF TableBagRuns
    <2> QED
        BY <2>1, <2>2, <2>3, <2>4, <2>5, <2>6, <2>7
<1>2. CASE Check(h, s)
    <2> USE <1>2 DEF Check, Unused, timeVars, siteVars, reqVars, handlerVars
    <2>1. TypeOK'
        BY DEF TypeOK, Procs
    <2>2. Named'
        BY DEF Named
    <2>3. Held'
        BY NameAssumption DEF Held, Named
    <2>4. Owned'
        BY DEF Owned
    <2>5. Handled'
        BY DEF Handled
    <2>6. Clocks'
        BY TimeAssumption DEF Clocks, Times, Owned, TypeOK
    <2>7. TableBagRuns'
        BY DEF TableBagRuns
    <2> QED
        BY <2>1, <2>2, <2>3, <2>4, <2>5, <2>6, <2>7
<1>3. CASE Delete(h, s)
    <2> USE <1>3 DEF Delete, timeVars, reqVars, handlerVars
    <2>1. TypeOK'
        BY DEF TypeOK
    <2>2. Named'
        BY DEF Named
    <2>3. Held'
        BY NameAssumption DEF Held, Named, TypeOK
    <2>4. Owned'
        BY DEF Owned
    <2>5. Handled'
        BY DEF Handled
    <2>6. Clocks'
        BY DEF Clocks
    <2>7. TableBagRuns'
        BY DEF TableBagRuns
    <2> QED
        BY <2>1, <2>2, <2>3, <2>4, <2>5, <2>6, <2>7
<1>4. CASE StopBag(h, s)
    <2> USE <1>4 DEF StopBag, timeVars, siteVars, reqVars, handlerVars
    <2>1. TypeOK'
        BY DEF TypeOK
    <2>2. Named'
        BY DEF Named
    <2>3. Held'
        BY NameAssumption DEF Held, TypeOK
    <2>4. Owned'
        BY DEF Owned, Held
    <2>5. Handled'
        BY DEF Handled
    <2>6. Clocks'
        BY DEF Clocks
    <2>7. TableBagRuns'
        BY DEF TableBagRuns, Owned, Held, TypeOK
    <2> QED
        BY <2>1, <2>2, <2>3, <2>4, <2>5, <2>6, <2>7
<1> QED
    BY <1>1, <1>2, <1>3, <1>4

\* The start and the end of the cleaner's round keep it.
LEMMA RoundIInv ==
    ASSUME IInv,
           \/ Sweep
           \/ Rest
           \/ CleanerEnds
    PROVE  IInv'
<1> USE DEF IInv
<1>1. CASE Sweep
    <2> USE <1>1 DEF Sweep, timeVars, siteVars, reqVars, handlerVars
    <2>1. TypeOK'
        BY DEF TypeOK
    <2>2. Named'
        BY NameAssumption DEF Named
    <2>3. Held'
        BY DEF Held
    <2>4. Owned'
        BY DEF Owned
    <2>5. Handled'
        BY DEF Handled
    <2>6. Clocks'
        BY DEF Clocks, Held, TypeOK
    <2>7. TableBagRuns'
        BY DEF TableBagRuns
    <2> QED
        BY <2>1, <2>2, <2>3, <2>4, <2>5, <2>6, <2>7
<1>2. CASE Rest
    <2> USE <1>2 DEF Rest, timeVars, siteVars, reqVars, handlerVars
    <2>1. TypeOK'
        BY DEF TypeOK
    <2>2. Named'
        BY DEF Named
    <2>3. Held'
        BY DEF Held
    <2>4. Owned'
        BY DEF Owned
    <2>5. Handled'
        BY DEF Handled
    <2>6. Clocks'
        BY DEF Clocks
    <2>7. TableBagRuns'
        BY DEF TableBagRuns
    <2> QED
        BY <2>1, <2>2, <2>3, <2>4, <2>5, <2>6, <2>7
<1>3. CASE CleanerEnds
    <2> USE <1>3 DEF CleanerEnds, timeVars, siteVars, reqVars, handlerVars
    <2>1. TypeOK'
        BY DEF TypeOK
    <2>2. Named'
        BY DEF Named
    <2>3. Held'
        BY DEF Held
    <2>4. Owned'
        BY DEF Owned
    <2>5. Handled'
        BY DEF Handled
    <2>6. Clocks'
        BY DEF Clocks
    <2>7. TableBagRuns'
        BY DEF TableBagRuns
    <2> QED
        BY <2>1, <2>2, <2>3, <2>4, <2>5, <2>6, <2>7
<1> QED
    BY <1>1, <1>2, <1>3

\* A disconnect and its handler keep it.
LEMMA HandlerIInv ==
    ASSUME IInv, NEW c \in Clients,
           \/ Disconnect(c)
           \/ HandlerLookup(c)
           \/ HandlerDestroy(c)
    PROVE  IInv'
<1> USE DEF IInv
<1>1. CASE Disconnect(c)
    <2> USE <1>1 DEF Disconnect, timeVars, siteVars, reqVars, cleanVars
    <2>1. TypeOK'
        BY DEF TypeOK
    <2>2. Named'
        BY DEF Named
    <2>3. Held'
        BY DEF Held
    <2>4. Owned'
        BY DEF Owned
    <2>5. Handled'
        BY DEF Handled
    <2>6. Clocks'
        BY DEF Clocks
    <2>7. TableBagRuns'
        BY DEF TableBagRuns
    <2> QED
        BY <2>1, <2>2, <2>3, <2>4, <2>5, <2>6, <2>7
<1>2. CASE HandlerLookup(c)
    <2> USE <1>2 DEF HandlerLookup, timeVars, siteVars, reqVars, cleanVars
    <2>1. TypeOK'
        BY DEF TypeOK, Handled
    <2>2. Named'
        BY DEF Named
    <2>3. Held'
        BY DEF Held
    <2>4. Owned'
        BY DEF Owned
    <2>5. Handled'
        BY DEF Handled, TypeOK
    <2>6. Clocks'
        BY DEF Clocks
    <2>7. TableBagRuns'
        BY DEF TableBagRuns
    <2> QED
        BY <2>1, <2>2, <2>3, <2>4, <2>5, <2>6, <2>7
<1>3. CASE HandlerDestroy(c)
    <2> USE <1>3 DEF HandlerDestroy, timeVars, reqVars, cleanVars
    <2>0. client' = client \/ client' = [client EXCEPT ![c] = "closed"]
        OBVIOUS
    <2>a. /\ hsite[c] \in Sites
          /\ \A q \in Sites :
                actor'[q] = actor[q] \/ (actor[q].kind = "rldp" /\ actor'[q].kind = "rldp"
                                         /\ actor'[q].ref = None /\ lock[q] = None)
          /\ actor' \in [Sites -> Actors]
        BY DEF TypeOK, Handled, Actors
    <2>1. TypeOK'
        BY <2>a DEF TypeOK
    <2>2. Named'
        BY <2>a DEF Named
    <2>3. Held'
        BY <2>a DEF Held
    <2>4. Owned'
        BY <2>a DEF Owned
    <2>5. Handled'
        BY DEF Handled, TypeOK
    <2>6. Clocks'
        BY <2>a DEF Clocks, Held
    <2>7. TableBagRuns'
        BY <2>a DEF TableBagRuns, TypeOK
    <2> QED
        BY <2>1, <2>2, <2>3, <2>4, <2>5, <2>6, <2>7
<1> QED
    BY <1>1, <1>2, <1>3

\* The clock and Stop keep it.
LEMMA ClockIInv ==
    ASSUME IInv,
           \/ Tick
           \/ Stop
    PROVE  IInv'
<1> USE DEF IInv
<1>1. CASE Tick
    <2> USE <1>1 DEF Tick, siteVars, reqVars, cleanVars, handlerVars
    <2>1. TypeOK'
        BY TimeAssumption DEF TypeOK
    <2>2. Named'
        BY DEF Named
    <2>3. Held'
        BY DEF Held
    <2>4. Owned'
        BY DEF Owned
    <2>5. Handled'
        BY DEF Handled
    <2>6. Clocks'
        BY DEF Clocks, Times, TypeOK
    <2>7. TableBagRuns'
        BY DEF TableBagRuns
    <2> QED
        BY <2>1, <2>2, <2>3, <2>4, <2>5, <2>6, <2>7
<1>2. CASE Stop
    <2> USE <1>2 DEF Stop, siteVars, reqVars, cleanVars, handlerVars
    <2>1. TypeOK'
        BY DEF TypeOK
    <2>2. Named'
        BY DEF Named
    <2>3. Held'
        BY DEF Held
    <2>4. Owned'
        BY DEF Owned
    <2>5. Handled'
        BY DEF Handled
    <2>6. Clocks'
        BY DEF Clocks
    <2>7. TableBagRuns'
        BY DEF TableBagRuns
    <2> QED
        BY <2>1, <2>2, <2>3, <2>4, <2>5, <2>6, <2>7
<1> QED
    BY <1>1, <1>2

-------------------------------------------------------------------------------
\* The initial state satisfies the inductive invariant.
LEMMA InitIInv == Init => IInv
<1> SUFFICES ASSUME Init PROVE IInv
    OBVIOUS
<1> USE NameAssumption DEF Init
<1>1. NoActor \in Actors /\ NoActor.kind = "none"
    BY DEF NoActor, Actors
<1>2. 0 \in 0..MaxTime /\ Never \in Times /\ Never \in Int /\ Never < 0
    BY TimeAssumption DEF Never, Times
<1>3. TypeOK
    BY <1>1, <1>2 DEF TypeOK
<1>4. Named
    BY <1>1 DEF Named
<1>5. Held
    BY DEF Held, Preparing
<1>6. Owned
    BY <1>1 DEF Owned
<1>7. Handled
    BY DEF Handled
<1>8. Clocks
    BY <1>1, <1>2 DEF Clocks
<1>9. TableBagRuns
    BY DEF TableBagRuns
<1> QED
    BY <1>3, <1>4, <1>5, <1>6, <1>7, <1>8, <1>9 DEF IInv

\* IInv is inductive.
LEMMA NextIInv == IInv /\ [Next]_vars => IInv'
<1> SUFFICES ASSUME IInv, [Next]_vars
             PROVE  IInv'
    OBVIOUS
<1>1. ASSUME NEW r \in Requests, RequestNext(r) PROVE IInv'
    BY <1>1, LookupIInv, PrepareIInv, ResolveIInv, ServeIInv
       DEF RequestNext, PrepareNext, ResolveNext
<1>2. ASSUME CleanerNext PROVE IInv'
    BY <1>2, VisitIInv, RoundIInv DEF CleanerNext, VisitNext
<1>3. ASSUME NEW c \in Clients, Disconnect(c) \/ HandlerNext(c) PROVE IInv'
    BY <1>3, HandlerIInv DEF HandlerNext
<1>4. CASE Tick \/ Stop
    BY <1>4, ClockIInv
<1>5. CASE UNCHANGED vars
    BY <1>5 DEF IInv, TypeOK, Named, Held, Owned, Handled, Clocks, TableBagRuns, vars
<1> QED
    BY <1>1, <1>2, <1>3, <1>4, <1>5 DEF Next

\* The mutexes, the table and the clocks of activeSites always satisfy IInv.
THEOREM Invariance == Spec => []IInv
BY InitIInv, NextIInv, PTL DEF Spec

\* The table never offers a bag that the cleaner stopped.
THEOREM TableIsSafe == Spec => []TableBagRuns
<1>1. IInv => TableBagRuns
    BY DEF IInv
<1> QED
    BY <1>1, Invariance, PTL

-------------------------------------------------------------------------------
\* Only StopBag stops a bag: that of the site the cleaner holds.
LEMMA OnlyCleanerStops ==
    ASSUME IInv, [Next]_vars, NEW b \in Bags, bag[b] # "stopped", bag'[b] = "stopped"
    PROVE  \E s \in Sites : lock[s] = Cleaner /\ actor[s].ref = b
<1>1. bag \in [Bags -> {"new", "started", "running", "stopped"}]
    BY DEF IInv, TypeOK
<1>2. ASSUME NEW r \in Requests, RequestNext(r) PROVE FALSE
    <2>1. CASE StartBag(r)
        BY <1>1, <2>1 DEF StartBag
    <2>2. CASE ResolveBag(r)
        BY <1>1, <2>2 DEF ResolveBag
    <2>3. CASE bag' = bag
        BY <2>3
    <2> QED
        BY <1>2, <2>1, <2>2, <2>3
           DEF RequestNext, PrepareNext, ResolveNext, LookupHit, LookupMiss, Lock,
               PrepareStopped, PrepareResolve, PrepareBag, PrepareClient, PrepareConnect,
               ConnectOk, ConnectFails, ResolveClient, ResolveFails, Succeed, Leave, Touch
<1>3. ASSUME NEW h \in Hosts, NEW s \in Sites, StopBag(h, s)
      PROVE  lock[s] = Cleaner /\ actor[s].ref = b
    BY <1>1, <1>3 DEF StopBag
<1>4. ASSUME CleanerNext
      PROVE  bag' = bag \/ \E h \in Hosts, s \in Sites : StopBag(h, s)
    BY <1>4 DEF CleanerNext, VisitNext, Sweep, Skip, Check, Delete, Rest, CleanerEnds
<1>5. ASSUME NEW c \in Clients, Disconnect(c) \/ HandlerNext(c) PROVE bag' = bag
    BY <1>5 DEF HandlerNext, Disconnect, HandlerLookup, HandlerDestroy
<1>6. ASSUME Tick \/ Stop \/ UNCHANGED vars PROVE bag' = bag
    BY <1>6 DEF Tick, Stop, vars
<1>7. bag' # bag
    OBVIOUS
<1>8. CleanerNext
    <2>1. ~ \E r \in Requests : RequestNext(r)
        BY <1>2
    <2>2. ~ \E c \in Clients : Disconnect(c) \/ HandlerNext(c)
        BY <1>5, <1>7
    <2>3. ~ (Tick \/ Stop \/ UNCHANGED vars)
        BY <1>6, <1>7
    <2> QED
        BY <2>1, <2>2, <2>3 DEF Next
<1> QED
    BY <1>3, <1>4, <1>7, <1>8

\* The cleaner's five minutes count from the last time prepare handed the bag
\* out, whatever happens between its look at LastUsed and torrent.Stop.
THEOREM HandedBagsSurvive == Spec => HandedBagSurvives
<1>1. ASSUME IInv, [Next]_vars,
             NEW b \in Bags, bag[b] # "stopped", bag'[b] = "stopped"
      PROVE  handed[b] + BagIdle < now
    <2>1. PICK s \in Sites : lock[s] = Cleaner /\ actor[s].ref = b
        BY <1>1, OnlyCleanerStops
    <2>2. handed[b] + BagIdle < cnow /\ cnow <= now
        BY <1>1, <2>1 DEF IInv, Clocks
    <2>3. handed[b] \in Int /\ cnow \in Int /\ now \in Int /\ BagIdle \in Int
        BY <1>1, TimeAssumption DEF IInv, TypeOK, Times, Never
    <2> QED
        BY <2>2, <2>3
<1>2. IInv /\ [Next]_vars
        => [\A b \in Bags : bag[b] # "stopped" /\ bag'[b] = "stopped"
                              => handed[b] + BagIdle < now]_vars
    BY <1>1
<1> QED
    BY <1>2, Invariance, PTL DEF Spec, HandedBagSurvives

-------------------------------------------------------------------------------
(***************************************************************************)
(* TableClientAlive.                                                       *)
(***************************************************************************)

\* A site that is allocated has no actor yet; a removed entry leaves the others.
LEMMA TableLinks ==
    ASSUME TableIInv,
           \/ \E r \in Requests : LookupMiss(r)
           \/ \E h \in Hosts, s \in Sites : Delete(h, s)
    PROVE  Linked' /\ TableClientAlive'
<1> USE DEF TableIInv
<1>1. ASSUME NEW r \in Requests, LookupMiss(r) PROVE Linked' /\ TableClientAlive'
    <2>1. PICK h \in Hosts, s \in Sites :
              /\ table[h] = None
              /\ host[s] = None
              /\ host' = [host EXCEPT ![s] = h]
              /\ table' = [table EXCEPT ![h] = s]
        BY <1>1 DEF LookupMiss
    <2>2. UNCHANGED <<actor, client, hpc, hhost, hsite>>
        BY <1>1 DEF LookupMiss, handlerVars
    <2>3. actor[s].kind = "none"
        BY <2>1 DEF IInv, Named
    <2>4. \A c \in Clients : actor[s] # RldpActor(c)
        BY <2>3 DEF RldpActor
    <2>5. Linked'
        BY <2>1, <2>2, <2>4 DEF Linked, IInv, TypeOK, RldpActor
    <2>6. TableClientAlive'
        BY <2>1, <2>2, <2>4 DEF TableClientAlive, IInv, TypeOK, RldpActor
    <2> QED
        BY <2>5, <2>6
<1>2. ASSUME NEW h \in Hosts, NEW s \in Sites, Delete(h, s) PROVE Linked' /\ TableClientAlive'
    <2>1. table' = table \/ table' = [table EXCEPT ![h] = None]
        BY <1>2 DEF Delete
    <2>2. UNCHANGED <<host, actor, client, hpc, hhost, hsite>>
        BY <1>2 DEF Delete, handlerVars
    <2>3. Linked'
        BY <2>2 DEF Linked, RldpActor
    <2>4. TableClientAlive'
        BY <2>1, <2>2 DEF TableClientAlive, IInv, TypeOK, RldpActor
    <2> QED
        BY <2>3, <2>4
<1> QED
    BY <1>1, <1>2

\* prepare puts a client in a site only fresh from connectRLDP, and for the site's host.
LEMMA ActorLinks ==
    ASSUME TableIInv, NEW r \in Requests, ResolveNext(r)
    PROVE  Linked' /\ TableClientAlive'
<1> USE DEF TableIInv
<1>1. CASE ConnectOk(r) \/ ResolveClient(r)
    <2>1. PICK c \in Clients :
              /\ client[c] = "new"
              /\ client' = [client EXCEPT ![c] = "open"]
              /\ hhost' = [hhost EXCEPT ![c] = host[rsite[r]]]
              /\ actor' = [actor EXCEPT ![rsite[r]] = RldpActor(c)]
        BY <1>1 DEF ConnectOk, ResolveClient, Connect
    <2>2. UNCHANGED <<table, host, hpc, hsite>> /\ rpc[r] # "idle"
        BY <1>1 DEF ConnectOk, ResolveClient
    <2>3. rsite[r] \in Sites
        BY <2>2 DEF IInv, Held
    <2>4. \A d \in Clients : RldpActor(d) = RldpActor(c) => d = c
        BY DEF RldpActor
    <2>5. \A s \in Sites, d \in Clients :
              actor'[s] = RldpActor(d) =>
                  \/ s = rsite[r] /\ d = c
                  \/ s # rsite[r] /\ d # c /\ actor[s] = RldpActor(d)
        BY <2>1, <2>3, <2>4 DEF Linked, IInv, TypeOK
    <2>6. client'[c] = "open" /\ hhost'[c] = host[rsite[r]]
          /\ \A d \in Clients \ {c} : client'[d] = client[d] /\ hhost'[d] = hhost[d]
        BY <2>1 DEF IInv, TypeOK
    <2>7. hpc[c] = "none"
        BY <2>1 DEF Linked
    <2>8. Linked'
        <3>1. ASSUME NEW s \in Sites, NEW d \in Clients, actor'[s] = RldpActor(d)
              PROVE  client'[d] # "new" /\ hhost'[d] = host[s]
            BY <2>5, <2>6, <3>1 DEF Linked
        <3>2. ASSUME NEW d \in Clients, hpc[d] # "none" PROVE client'[d] \in {"lost", "closed"}
            BY <2>6, <2>7, <3>2 DEF Linked
        <3> QED
            BY <2>2, <3>1, <3>2 DEF Linked, RldpActor
    <2>9. TableClientAlive'
        <3>1. ASSUME NEW h \in Hosts, NEW d \in Clients,
                     table[h] # None, actor'[table[h]] = RldpActor(d), client'[d] # "open"
              PROVE  hpc[d] = "lookup" \/ (hpc[d] = "lock" /\ hsite[d] = table[h])
            <4>1. table[h] \in Sites
                BY <3>1 DEF IInv, TypeOK
            <4>2. d # c /\ actor[table[h]] = RldpActor(d) /\ client[d] # "open"
                BY <2>5, <2>6, <3>1, <4>1
            <4> QED
                BY <3>1, <4>2 DEF TableClientAlive
        <3> QED
            BY <2>2, <3>1 DEF TableClientAlive, RldpActor
    <2> QED
        BY <2>8, <2>9
<1>2. CASE ConnectFails(r) \/ StartBag(r) \/ ResolveBag(r) \/ ResolveFails(r)
    <2>1. /\ UNCHANGED <<table, host, client, hpc, hhost, hsite>>
          /\ \/ actor' = actor
             \/ actor' = [actor EXCEPT ![rsite[r]] = NoActor]
             \/ actor' = [actor EXCEPT ![rsite[r]] = BagActor(rtarget[r])]
        BY <1>2 DEF ConnectFails, StartBag, ResolveBag, ResolveFails, handlerVars, siteVars
    <2>2. \A s \in Sites, c \in Clients : actor'[s] = RldpActor(c) => actor[s] = RldpActor(c)
        BY <2>1 DEF IInv, TypeOK, NoActor, BagActor, RldpActor
    <2>3. Linked'
        BY <2>1, <2>2 DEF Linked, RldpActor
    <2>4. TableClientAlive'
        BY <2>1, <2>2 DEF TableClientAlive, RldpActor, IInv, TypeOK
    <2> QED
        BY <2>3, <2>4
<1> QED
    BY <1>1, <1>2 DEF ResolveNext

\* A lost client's handler finds the site that has the client, if the table has it.
LEMMA HandlerLinks ==
    ASSUME TableIInv, NEW c \in Clients, Disconnect(c) \/ HandlerNext(c)
    PROVE  Linked' /\ TableClientAlive'
<1> USE DEF TableIInv
<1>1. CASE Disconnect(c)
    <2>1. /\ client[c] = "open"
          /\ client' = [client EXCEPT ![c] = "lost"]
          /\ hpc' = [hpc EXCEPT ![c] = "lookup"]
          /\ UNCHANGED <<table, host, actor, hhost, hsite>>
        BY <1>1 DEF Disconnect, siteVars
    <2>2. Linked'
        BY <2>1 DEF Linked, IInv, TypeOK, RldpActor
    <2>3. TableClientAlive'
        BY <2>1 DEF TableClientAlive, IInv, TypeOK, RldpActor
    <2> QED
        BY <2>2, <2>3
<1>2. CASE HandlerLookup(c)
    <2>1. /\ hpc[c] = "lookup"
          /\ hsite' = [hsite EXCEPT ![c] = table[hhost[c]]]
          /\ hpc' = [hpc EXCEPT ![c] = IF table[hhost[c]] = None THEN "done" ELSE "lock"]
          /\ UNCHANGED <<table, host, actor, client, hhost>>
        BY <1>2 DEF HandlerLookup, siteVars
    <2>2. Linked'
        BY <2>1 DEF Linked, IInv, TypeOK, RldpActor
    <2>3. TableClientAlive'
        <3>1. ASSUME NEW h \in Hosts, NEW d \in Clients,
                     table[h] # None, actor[table[h]] = RldpActor(d), client[d] # "open"
              PROVE  hpc'[d] = "lookup" \/ (hpc'[d] = "lock" /\ hsite'[d] = table[h])
            <4>1. CASE d # c
                BY <2>1, <3>1, <4>1 DEF TableClientAlive, IInv, TypeOK
            <4>2. CASE d = c
                <5>1. table[h] \in Sites /\ host[table[h]] = h
                    BY <3>1 DEF IInv, TypeOK, Named
                <5>2. hhost[c] = h
                    BY <3>1, <4>2, <5>1 DEF Linked
                <5> QED
                    BY <2>1, <3>1, <4>2, <5>2 DEF IInv, TypeOK
            <4> QED
                BY <4>1, <4>2
        <3> QED
            BY <2>1, <3>1 DEF TableClientAlive, RldpActor
    <2> QED
        BY <2>2, <2>3
<1>3. CASE HandlerDestroy(c)
    <2> DEFINE s == hsite[c]
    <2>1. /\ hpc[c] = "lock"
          /\ hpc' = [hpc EXCEPT ![c] = "done"]
          /\ \/ actor[s].kind = "rldp" /\ client' = [client EXCEPT ![c] = "closed"]
             \/ actor[s].kind # "rldp" /\ client' = client
          /\ \/ actor[s].kind = "rldp" /\ actor[s].ref = c
                /\ actor' = [actor EXCEPT ![s].ref = None]
             \/ (actor[s].kind # "rldp" \/ actor[s].ref # c) /\ actor' = actor
          /\ UNCHANGED <<table, host, hhost, hsite>>
        BY <1>3 DEF HandlerDestroy
    <2>2. s \in Sites /\ client[c] \in {"lost", "closed"}
        BY <2>1 DEF IInv, Handled, Linked
    <2>3. \A d \in Clients : client'[d] = client[d] \/ (d = c /\ client'[d] = "closed")
        BY <2>1 DEF IInv, TypeOK
    <2>4. \A q \in Sites, d \in Clients :
              actor'[q] = RldpActor(d) => actor[q] = RldpActor(d) /\ ~(d = c /\ q = s)
        <3>1. \A d \in Clients : d # None
            BY NameAssumption
        <3>2. actor \in [Sites -> Actors]
            BY DEF IInv, TypeOK
        <3>3. CASE actor[s].kind = "rldp" /\ actor[s].ref = c
            <4>1. actor' = [actor EXCEPT ![s].ref = None]
                BY <2>1, <3>3
            <4>2. actor'[s].ref = None
                BY <2>2, <3>2, <4>1 DEF Actors
            <4> QED
                BY <2>2, <3>1, <3>2, <4>1, <4>2 DEF RldpActor
        <3>4. CASE actor[s].kind # "rldp" \/ actor[s].ref # c
            <4>1. actor' = actor
                BY <2>1, <3>4
            <4> QED
                BY <3>4, <4>1 DEF RldpActor
        <3> QED
            BY <3>3, <3>4
    <2>5. Linked'
        <3>1. ASSUME NEW q \in Sites, NEW d \in Clients, actor'[q] = RldpActor(d)
              PROVE  client'[d] # "new" /\ hhost[d] = host[q]
            BY <2>3, <2>4, <3>1 DEF Linked
        <3>2. ASSUME NEW d \in Clients, hpc'[d] # "none" PROVE client'[d] \in {"lost", "closed"}
            <4>1. hpc[d] # "none"
                BY <2>1, <3>2 DEF IInv, TypeOK
            <4> QED
                BY <2>3, <4>1 DEF Linked
        <3> QED
            BY <2>1, <3>1, <3>2 DEF Linked, RldpActor
    <2>6. TableClientAlive'
        <3>1. ASSUME NEW h \in Hosts, NEW d \in Clients,
                     table[h] # None, actor'[table[h]] = RldpActor(d), client'[d] # "open"
              PROVE  hpc'[d] = "lookup" \/ (hpc'[d] = "lock" /\ hsite[d] = table[h])
            <4>1. table[h] \in Sites
                BY <3>1 DEF IInv, TypeOK
            <4>2. actor[table[h]] = RldpActor(d) /\ ~(d = c /\ table[h] = s)
                BY <2>4, <3>1, <4>1
            <4>3. client[d] # "open"
                BY <2>2, <2>3, <3>1
            <4>4. hpc[d] = "lookup" \/ (hpc[d] = "lock" /\ hsite[d] = table[h])
                BY <3>1, <4>2, <4>3 DEF TableClientAlive
            <4>5. d # c
                BY <2>1, <4>2, <4>4
            <4> QED
                BY <2>1, <4>4, <4>5 DEF IInv, TypeOK
        <3> QED
            BY <2>1, <3>1 DEF TableClientAlive, RldpActor
    <2> QED
        BY <2>5, <2>6
<1> QED
    BY <1>1, <1>2, <1>3 DEF HandlerNext

\* Every other step leaves table, actors, clients and handlers as they are.
LEMMA OthersLink ==
    ASSUME TableIInv, UNCHANGED <<table, host, actor, client, handlerVars>>
    PROVE  Linked' /\ TableClientAlive'
BY DEF TableIInv, Linked, TableClientAlive, RldpActor, handlerVars

LEMMA NextLinks == TableIInv /\ [Next]_vars => Linked' /\ TableClientAlive'
<1> SUFFICES ASSUME TableIInv, [Next]_vars
             PROVE  Linked' /\ TableClientAlive'
    OBVIOUS
<1>1. ASSUME NEW r \in Requests, RequestNext(r) PROVE Linked' /\ TableClientAlive'
    <2>1. CASE LookupMiss(r)
        BY <2>1, TableLinks
    <2>2. CASE ResolveNext(r)
        BY <2>2, ActorLinks
    <2>3. CASE LookupHit(r) \/ Lock(r) \/ PrepareNext(r) \/ Succeed(r) \/ Leave(r) \/ Touch(r)
        <3>1. UNCHANGED <<table, host, actor, client, handlerVars>>
            BY <2>3 DEF LookupHit, Lock, PrepareNext, PrepareStopped, PrepareResolve, PrepareBag,
                        PrepareClient, PrepareConnect, Succeed, Leave, Touch, siteVars
        <3> QED
            BY <3>1, OthersLink
    <2> QED
        BY <1>1, <2>1, <2>2, <2>3 DEF RequestNext
<1>2. ASSUME CleanerNext PROVE Linked' /\ TableClientAlive'
    <2>1. CASE \E h \in Hosts, s \in Sites : Delete(h, s)
        BY <2>1, TableLinks
    <2>2. ASSUME NEW h \in Hosts, NEW s \in Sites, Skip(h, s) \/ Check(h, s) \/ StopBag(h, s)
          PROVE  Linked' /\ TableClientAlive'
        <3>1. UNCHANGED <<table, host, actor, client, handlerVars>>
            BY <2>2 DEF Skip, Check, StopBag, siteVars
        <3> QED
            BY <3>1, OthersLink
    <2>3. CASE Sweep \/ Rest \/ CleanerEnds
        <3>1. UNCHANGED <<table, host, actor, client, handlerVars>>
            BY <2>3 DEF Sweep, Rest, CleanerEnds, siteVars
        <3> QED
            BY <3>1, OthersLink
    <2> QED
        BY <1>2, <2>1, <2>2, <2>3 DEF CleanerNext, VisitNext
<1>3. ASSUME NEW c \in Clients, Disconnect(c) \/ HandlerNext(c) PROVE Linked' /\ TableClientAlive'
    BY <1>3, HandlerLinks
<1>4. CASE Tick \/ Stop \/ UNCHANGED vars
    <2>1. UNCHANGED <<table, host, actor, client, handlerVars>>
        BY <1>4 DEF Tick, Stop, vars, siteVars, handlerVars
    <2> QED
        BY <2>1, OthersLink
<1> QED
    BY <1>1, <1>2, <1>3, <1>4 DEF Next

LEMMA InitLinks == Init => Linked /\ TableClientAlive
<1> SUFFICES ASSUME Init PROVE Linked /\ TableClientAlive
    OBVIOUS
<1>1. \A s \in Sites, c \in Clients : actor[s] # RldpActor(c)
    BY DEF Init, NoActor, RldpActor
<1> QED
    BY <1>1 DEF Init, Linked, TableClientAlive

\* With the handlers and the clients the sites are linked to, the invariant is complete.
THEOREM TableInvariance == Spec => []TableIInv
<1>1. Init => TableIInv
    BY InitIInv, InitLinks DEF TableIInv
<1>2. TableIInv /\ [Next]_vars => TableIInv'
    BY NextIInv, NextLinks DEF TableIInv
<1> QED
    BY <1>1, <1>2, PTL DEF Spec

\* A dead connection does not stay in the table: its handler will find it there.
THEOREM DeadClientsLeave == Spec => []TableClientAlive
<1>1. TableIInv => TableClientAlive
    BY DEF TableIInv
<1> QED
    BY <1>1, TableInvariance, PTL

-------------------------------------------------------------------------------
(***************************************************************************)
(* DnsLookup: resolve gives up only for a cancelled request, and the       *)
(* channel has room for every answer.                                      *)
(***************************************************************************)

LEMMA DnsStarts == DnsInit => DnsIInv
<1> SUFFICES ASSUME DnsInit PROVE DnsIInv
  OBVIOUS
<1>1. Ended = {} /\ Cardinality({}) = 0
  BY FS_EmptySet DEF DnsInit, Ended
<1>2. Cardinality(Lookups) \in Nat
  BY LookupAssumption, FS_CardinalityType
<1>3. ch = <<>> /\ Len(<<>>) = 0 /\ <<>> \in Seq(Answers)
  BY DEF DnsInit
<1>4. DnsTypeOK
  <2>1. ch \in Seq(Answers) /\ Len(ch) <= Cardinality(Lookups)
    BY <1>2, <1>3
  <2>2. "nil" \in Answers
    BY DEF Answers
  <2> QED BY <2>1, <2>2 DEF DnsInit, DnsTypeOK
<1> QED BY <1>1, <1>3, <1>4 DEF DnsInit, DnsIInv, FailsWhenCancelled

\* Fewer look-ups have ended than there are while one is in its send.
LEMMA OneMoreEnds ==
    ASSUME DnsIInv, NEW i \in Lookups, lpc[i] = "send"
    PROVE  /\ Cardinality(Ended) < Cardinality(Lookups)
           /\ Cardinality(Ended \cup {i}) = Cardinality(Ended) + 1
           /\ Cardinality(Lookups) \in Nat /\ Cardinality(Ended) \in Nat
<1>1. Ended \subseteq Lookups /\ i \notin Ended
  BY DEF Ended
<1>2. IsFiniteSet(Ended)
  BY <1>1, LookupAssumption, FS_Subset
<1>3. Cardinality(Ended) < Cardinality(Lookups)
  <2>1. Cardinality(Ended) <= Cardinality(Lookups) /\ Ended # Lookups
    BY <1>1, LookupAssumption, FS_Subset
  <2>2. Cardinality(Ended) # Cardinality(Lookups)
    BY <1>1, <2>1, LookupAssumption, FS_Subset
  <2> QED BY <2>1, <2>2, <1>2, LookupAssumption, FS_CardinalityType
<1>4. Cardinality(Ended \cup {i}) = Cardinality(Ended) + 1
  BY <1>1, <1>2, FS_AddElement
<1> QED BY <1>2, <1>3, <1>4, LookupAssumption, FS_CardinalityType

LEMMA DnsKeeps == DnsIInv /\ [DnsNext]_dnsVars => DnsIInv'
<1> SUFFICES ASSUME DnsIInv, [DnsNext]_dnsVars PROVE DnsIInv'
  OBVIOUS
<1> USE DEF DnsIInv, DnsTypeOK, Answers, FailsWhenCancelled
<1>0. Cardinality(Lookups) \in Nat /\ IsFiniteSet(Ended) /\ Cardinality(Ended) \in Nat
  <2>1. Ended \subseteq Lookups
    BY DEF Ended
  <2> QED BY <2>1, LookupAssumption, FS_Subset, FS_CardinalityType
<1>1. CASE Take
  <2>1. Ended' = Ended
    BY <1>1 DEF Take, Ended
  <2>2. Head(ch) \in Answers /\ Tail(ch) \in Seq(Answers) /\ Len(Tail(ch)) = Len(ch) - 1
    BY <1>1 DEF Take
  <2> QED BY <1>0, <1>1, <2>1, <2>2 DEF Take
<1>2. CASE GiveUp
  BY <1>2 DEF GiveUp, LookupDone, Ended
<1>3. CASE StopLookup
  BY <1>3 DEF StopLookup, Ended
<1>4. CASE Cancel
  BY <1>4 DEF Cancel, Ended
<1>5. ASSUME NEW i \in Lookups, Finds(i) PROVE DnsIInv'
  <2>1. Ended' = Ended
    BY <1>5 DEF Finds, Ended
  <2> QED BY <1>5, <2>1 DEF Finds
<1>6. ASSUME NEW i \in Lookups, Fails(i) PROVE DnsIInv'
  <2>1. Ended' = Ended
    BY <1>6 DEF Fails, Ended
  <2> QED BY <1>6, <2>1 DEF Fails
<1>7. ASSUME NEW i \in Lookups, Handle(i) PROVE DnsIInv'
  <2>1. Ended \subseteq Ended' /\ Ended' \subseteq Lookups
    BY <1>7 DEF Handle, Ended
  <2>2. Cardinality(Ended) <= Cardinality(Ended') /\ Cardinality(Ended') \in Nat
    BY <2>1, LookupAssumption, FS_Subset, FS_CardinalityType
  <2>3. lpc' \in [Lookups -> {"ask", "failed", "send", "done"}]
    BY <1>7 DEF Handle
  <2>4. UNCHANGED <<ctx, lookupCtx, ch, answer, pc, result>>
    BY <1>7 DEF Handle
  <2> QED BY <1>0, <2>2, <2>3, <2>4
<1>8. ASSUME NEW i \in Lookups, Send(i) PROVE DnsIInv'
  <2>1. Ended' = Ended \cup {i}
    BY <1>8 DEF Send, Ended
  <2>2. Cardinality(Ended') = Cardinality(Ended) + 1
    BY <1>8, <2>1, OneMoreEnds DEF Send
  <2>3. ch' \in Seq(Answers) /\ Len(ch') = Len(ch) + 1
    BY <1>8 DEF Send
  <2> QED BY <1>0, <1>8, <2>2, <2>3 DEF Send
<1>9. CASE UNCHANGED dnsVars
  BY <1>9 DEF dnsVars, Ended
<1> QED
  BY <1>1, <1>2, <1>3, <1>4, <1>5, <1>6, <1>7, <1>8, <1>9 DEF DnsNext, Main, Lookup

\* resolve stops the look-ups only with a result in hand, and each leaves one answer.
THEOREM DnsInvariance == DnsSpec => []DnsIInv
<1> QED BY DnsStarts, DnsKeeps, PTL DEF DnsSpec

\* The end of one look-up is never taken for the end of the request.
THEOREM FailsOnlyWhenCancelled == DnsSpec => []FailsWhenCancelled
<1>1. DnsIInv => FailsWhenCancelled
  BY DEF DnsIInv
<1> QED BY <1>1, DnsInvariance, PTL

\* No look-up waits in its send, for any number of them.
THEOREM SendsFindRoom == DnsSpec => []SendsHaveRoom
<1>1. DnsIInv => SendsHaveRoom
  <2> SUFFICES ASSUME DnsIInv, NEW i \in Lookups, lpc[i] = "send"
               PROVE  Len(ch) < Cardinality(Lookups)
    BY DEF SendsHaveRoom
  <2>1. Len(ch) <= Cardinality(Ended) /\ Len(ch) \in Nat
    BY DEF DnsIInv, DnsTypeOK
  <2>2. /\ Cardinality(Ended) < Cardinality(Lookups)
        /\ Cardinality(Lookups) \in Nat /\ Cardinality(Ended) \in Nat
    BY OneMoreEnds
  <2> QED BY <2>1, <2>2
<1> QED BY <1>1, DnsInvariance, PTL
==============================================================================
