# Formal model of Tonutils Proxy

TLA+ modules, TLC configurations and TLAPS proofs for the proxy of this
repository: a local HTTP proxy that serves `.ton`, `.adnl`, `.t.me` and `.bag`
hosts from TON sites (HTTP over RLDP) and from TON storage bags (torrents), and
passes other requests on.

All paths below are relative to the repository (`src/` is its root).

## 1. Inventory

### The parts and how they interact

| Part | Source | State | Operations |
|---|---|---|---|
| Data streamer | `proxy/transport/stream.go` | channel of one slice, rest of a slice, `finished`, `closed`, three mutexes | `Read`, `Write`, `Finish`, `Close` (`FlushReader` has no caller) |
| Site table | `proxy/transport/client.go` 61-356, 656-785 | `activeSites`, per site `Actor`, `LastUsed`, `LastSuccess`, mutex | `RoundTrip`, `prepare`, `resolve`, `connectRLDP`, the cleaner, the disconnect handler, `Stop` |
| Bag file serving | `client.go` 360-495, 787-904 | position in file, range and pieces; pieces held | `doTorrent`, `parseRange`, `proxyOrdered` |
| RLDP-HTTP exchange | `client.go` 198-260, 497-654, `types.go` | `activeRequests`, next offset per upload, two streams per request | `doRldpHttp` with its upload pump and download loop, the query handler, `handleGetPart` |
| DNS lookup race | `client.go` 670-714 | a channel of three results | three lookup goroutines, the first result wins |
| Proxy run | `proxy/proxy.go` 146-506 | start-up stage, tunnel events, HTTP server | `RunProxy`, `RunProxyWithConfig`, `initDNSResolver` |
| HTTP front | `proxy/proxy.go` 33-144 | none of its own | `ServeHTTP` |
| Native library | `cmd/lib/main.go` | `ActiveProxy`, `ProxyStopper` | `StartProxy`, `StartProxyWithConfig`, `StopProxy` |
| CLI and its config | `cmd/proxy-cli` | one config file | flags, `LoadConfig`, `SaveConfig` |
| GUI application | `cmd/proxy-gui-wails` | stop contexts, config and its file, status channel | `StartProxy`, `StopProxy`, `startup`, `shutdown`, `SaveTunnelConfig`, `ResetTunnelConfig`, `AddTunnel`, `LoadConfig`, `SaveConfig` |
| Web frontend | `frontend/src/App.tsx` | whether the button is disabled, whether it stops | `action`, the handler of `statusUpdate` |
| System proxy access | `proxy/access` | the operating system's proxy settings | `SetProxy`, `ClearProxy` |
| Virtual storage | `proxy/transport/storage.go` | a map of torrents, an in-memory file system | `SetTorrent`, `GetTorrent`, ... |
| ADNL address parsing, content types | `types.go` 63-87, `content.go` | none | pure data |

A request enters `ServeHTTP`, which hands a TON host's request to the
transport.  `RoundTrip` finds or allocates the site under the table's mutex,
prepares it under the site's mutex (resolve in DNS and DHT, connect, or reuse),
and then talks to the target without any mutex: `doRldpHttp` exchanges messages
with an RLDP client, `doTorrent` starts a goroutine that takes pieces from the
bag.  Either way the body that `ServeHTTP` copies to the browser is a data
streamer.  Beside the requests run the cleaner (every 3 s), the disconnect
handlers of RLDP clients, the upload pumps, the handlers of the peers' queries
and, around the whole, the goroutines of `RunProxyWithConfig` and of the three
programs that start and stop it.

### What is hard

* **Concurrency.**  A streamer is shared by a producer and a consumer that may
  both close it; a site is shared by requests, cleaner and disconnect handlers;
  a bag's stream goes on without the site's mutex while the cleaner may stop it.
* **Failure.**  DNS, DHT, ADNL, torrent and downloader each may fail between two
  assignments of `prepare`.
* **Ordering.**  Closing a channel against sending on it; deleting an entry
  against stopping its bag; a handler that looked a site up before it changed.
* **Overlapping runs.**  The programs let a stopped run end in its own time and
  start the next one meanwhile; contexts, the package's transport, the reports'
  channel and the system's proxy are read when a goroutine comes to them, not when
  it was started.
* **Crashes.**  The configuration, which holds the key of a wallet, is written in
  place.
* **Time.**  `LastUsed` and `LastSuccess` against 30, 90 and 300 seconds, with a
  clock read before the visits of a round.
* **Arithmetic.**  Slices of pieces cut to a file and to a range.

`PROJECT.json` lists these as hazards, each at its line.

### What makes each part correct

* Streamer: bytes in order, `io.EOF` only after the last, no send on a closed
  channel, nobody blocked for ever.
* Site table: a looked-up bag runs; a bag just handed out is not stopped; an
  unused one leaves; a dead connection does not stay; the mutex is served.
* Bag file: no slice out of range; the body is the range; pieces are given back.
* Exchange: the peer gets the upload's parts once each and in order; the body
  is the answer's parts in order; nothing of a request is left when it is over.
* Proxy run: what was started is closed once, in reverse order; a reported state
  is true when it is reported; the caller returns.
* Programs: StopProxy reaches what runs, a failure frees the library, every start is
  answered, the button comes back; the system's proxy does not outlive its run, nor
  does the application end before its tunnel.
* Configuration: the wallet is never exchanged, and the file ends up with what is in
  memory.

## 2. Plan

1. `BytePipe`, `DataStreamer` (abstract and detailed), proofs. **Done.**
2. `SiteTable`, proofs. **Done.**
3. `BagFile`, proofs. **Done.**
4. `StreamCalls`, `Upload`, `Download`: the two halves of `doRldpHttp` over a
   streamer seen at whole calls, proofs. **Done.**
5. `DnsLookup`, `ProxyRun`, proofs. **Done.**
6. `Runs`, the calls of `RunProxy` as callers see them, which `ProxyRun` implements;
   `NativeLib` and `GuiApp` (with `SystemProxy`) on top of it, both with proofs.
   **Done.**
7. `ConfigStore`, proofs. **Done.**
8. `DataStreamer` shown to implement a stream seen at whole calls, which
   `Upload` and `Download` use; one exchange that composes both halves with
   `ServeHTTP`'s context.
9. An abstract life cycle of a bag (fetched, served, stopped) that `SiteTable`
   implements, with `VirtualStorage`.
10. Proofs of every safety property that a run checks. **Done.**
11. Proofs of the refinements that items 8 and 9 add.

## 3. Modules

### BytePipe and DataStreamer

`BytePipe` is the promise: a consumer takes what a producer put, in order; it is
told "eof" only when the pipe was ended and emptied, and "error" only when it was
aborted.  `DataStreamer` is `stream.go`: `parts` is the channel of capacity 1,
`buf` the rest of the slice being read, each mutex a variable with its holder.
A byte is its position in the stream, a slice an interval of positions.  `Write`
is `WriteBegin` or `WriteRefused` (mutex and check), then `WriteSend` or
`WriteAborted` (the two cases of its select).  `Read` is `ReadBegin`, then
`ReadReceive`, `ReadCopy` and one of `ReadFull`, `ReadEof`, `ReadAborted`.
`Finish` and `Close` are single steps: no other step sees the inside of their
critical sections.  `history`: `written`, `delivered`, `cursor`.

Users of the stream are modelled as weakly as the code allows: a producer may
finish or close at any time between two Writes, a consumer may close between any
two Reads.  `FlushReader` is left out: nothing calls it.

### SiteTable

`RoundTrip` is `LookupHit` or `LookupMiss` (under `t.mx`), `Lock` (`site.mx`),
the steps of `prepare`, then `HandOver` (it reads the target and unlocks) and
`Succeed` or `Leave`.  Sections under `t.mx` do not block and are one step each;
what `prepare` does under `site.mx` is split wherever it waits for the network,
so that clock, `Stop` and unsynchronised stores (`Touch`, `Succeed`) can come in
between.  `resolve` is one success or failure, except that a started torrent
whose `CreateDownloader` fails is visible (`StartBag`, then `ResolveFails`).
The cleaner's round is `Sweep`, then per entry `Skip`, or `Check` (TryLock, load
of `LastUsed`), `Delete` (under `t.mx`) and `StopBag`.  The disconnect handler is
`HandlerLookup` and `HandlerDestroy`.  `handed` is history: when `prepare` last
gave a bag to a request.

Timeouts are constants with their order in the code (30 s <= 90 s <= 300 s).

### BagFile

One request for a file of a bag.  A file is where it lies in the bag's pieces;
a header is absent, not understood, or a pair of bounds of which either may be
missing.  `Refuse` is 404 or 416, `Respond` everything else `doTorrent` does
before it starts the goroutine, `SkipPiece`, `Ask`, `Get`, `WritePart` and
`FinishStream` the loop of `proxyOrdered`, `CloseStream` its error returns.
`pos` and `ordered` are history.  An empty file is answered with a
Content-Length of 1 (`(to+1)-from` with both 0, lines 409-412 and 457) and an empty
body; the properties about the length therefore speak of files that are not empty.
`FileAssumption` is what the storage library promises of file offsets; that a
file which ends with a piece may be reported either way is left open.

### StreamCalls

A streamer for the modules that use one: `sent`, `received` and `got` count the
bytes accepted by `Write`, taken out of the channel by `Read`, and given to
`Read`'s caller.  The operators are what whole calls find and leave; `Waits` is
the loop of `Read` that goes back to the channel even when the buffer is exactly
full, so that a reader learns of the end together with the last bytes.

### Upload

`doRldpHttp` until the peer has answered.  The pump is `PumpRead`, `PumpCheck`,
`PumpWrite`, `PumpNext`; it shares the variable `err` with `doRldpHttp`
(`MainQueried`, `MainChecks`, `MainParsed`), without a lock.  `err` holds the value
stored last, `pumpErr` and `mainErr` what each goroutine stored last; a load
yields either (`PumpSees`, `MainSees`), and the two loads of lines 544 and 545 may
differ.  A handler is `Ask` (the query and the look-up in `activeRequests`),
`Begin` (mutex, comparison of offsets), `Receive` and `Take` or `Break` (the Read
of `handleGetPart`), `Send` or `SendLost`, and `Forget` after the last part.
`Offset` is the int32 product.  The peer is external: it asks for the part after
those it has, several times if it likes, and takes the first answer.

### Download

`doRldpHttp` from the answer on, with `ServeHTTP`.  The loop is `QueryAnswered` or
`QueryFails`, `WriteOk` or `WriteFails`, and `Wrote` (Finish or the next query).
`ServeHTTP` is `io.Copy` (`Receive`, `ReadFull`, `ReadEof`, `ReadBroken`, `Flush`)
and `Leave`, the deferred `Close` after which the server cancels the context.

### DnsLookup

The three goroutines of `resolve` (`Finds`, `Fails`, `Handle`, `Send`), its select
(`Take`, `GiveUp`) and `StopLookup`.

### ProxyRun

`RunProxy` and `RunProxyWithConfig` as one sequence of steps, each of which may
fail (`Loading` stands for the reports in between).  `opened` is the list of
deferred calls, `closed` how many were made, `open` what is really open; the two
differ exactly where the code forgets something.  `TunnelTells`, `TunnelReport`,
`TunnelUpdated`, `TunnelError` and `TunnelStopped` are the reader of the tunnel's
events, `Shutdown` and `WakeUp`/`ReportReady` the two goroutines of the server.
A tunnel's later updates only change addresses and are left out.  The second
that the last goroutine sleeps is taken to be longer than `ListenAndServe` needs
to listen or to fail to.

`ImplementsRun` maps it to one call of `Runs`, reports and failures included.

### Runs

Calls of `RunProxy` seen from outside, and what they share: a port that one server
can listen on, channels of reports, and `client`, the package's variable through
which every server sends its requests.  A call is `Begins`, `Loading`,
`TunnelStarts`, `StartFails` or `Started`, `Listens`, `ServerFails` and
`ReportsFailure` or `ServerCloses`, with `WakesUp` and `ReportsReady` beside it.
Between `Started` and `Listens` other calls may come in, as they may in the code.
`RunSpec` is the promise to any caller: it may call, cancel and receive at any time.

### NativeLib

`active` is `ActiveProxy` and `stopper` the context that `ProxyStopper` cancels.  An
accepted `StartProxy` or `StartProxyWithConfig` is `Check`, `AssignActive` and
`AssignStopper`; no lock joins the three, so those of two starts interleave.  Its runner
is `Begin` (the goroutine gets to run, and reads `ActiveProxy`), `RunOver` and
`SendError`; its consumer `Look` (the select evaluates `ActiveProxy.Done()`), `Leave`, or
`Take` and `Act`, and back to `Look`.  `overlapped` is history: the starts that were in
`startProxy` together, of which nothing is promised (section "Found on the way").

### SystemProxy and GuiApp

`SystemProxy` is the setting of one network service, whether the proxy is on and whose
server it names.  macOS asks for a right once and clears only what is ours; Windows
writes two values one after the other and switches the proxy off whoever's it is;
on Linux nothing is implemented.  Setting and clearing may both fail.

In `GuiApp` a start owns a context, a graceful context and up to two calls of
`RunProxy` (with the tunnel, and the retry without).  `StopProxy` is `StopCheck`,
`StopCancel`, `StopClear` and `StopEmit`, by the window (`ClickStop`), by every start's
goroutine when it ends (`Stop`), and, but for the event, by `shutdown`.  `TakeStatus`,
`HandleError` and `HandleReady` are the loop of `startup`.  The window is its button:
`ClickStart`, `ClickStop` and `Emit`, the handler of `statusUpdate`.  The fields have no
lock; each access is a step of its own.  `setFor`, `excuse` and `older` are history: for
which run the system's proxy is ours, in which of three ways the code leaves it set when
that run is over (section "Found on the way"), and which tunnels had not stopped when
the current graceful context was made.

### ConfigStore

One file, one `Config` in memory.  `SaveConfig` is `Lock`, `Marshal`, `Truncate` and
`Write`, with `WriteFails` in place of the last two; `LoadConfig` is `LoadNew`, or
`Load`, `Upgrade` and `LoadEnds`, with its saves in between.  The window's calls assign
the fields in two steps (`AssignSections`, `AssignPool`), without the mutex, and then
save.  `Crash` may come anywhere and leaves only the file.  The command-line program's
configuration has the same two functions; a key and a wallet are numbers.

## 4. Runs

| Run | Bounds | What it shows |
|---|---|---|
| `DataStreamer` | 2 producers, 2 consumers, 3 bytes, Writes and Reads of 1 or 2 | `NoSendOnClosed`, `IInv` (order), `ImplementsPipe`, `NobodyBlocked` |
| `SiteTable` | 1 host, 2 requests, 2 sites, 2 bags, 2 clients, clock to 2 | `TableIInv`, `TableBagRuns`, `TableClientAlive`, `HandedBagSurvives` |
| `SiteTableLive` | 1 host, 2 requests, 1 site, 2 bags, 1 client with its disconnects and failed connections, clock to 1 | `IdleTableBagLeaves`, `LockServed` |
| `BagFile` | pieces of 3 bytes, every file of up to 3 pieces, every header with bounds to 9 | `SlicesInRange`, `ServesRange`, `IInv` (pieces given back) |
| `Upload` | 2 handlers, bodies of 5 bytes, slices of 3, parts of 2, offsets below 4 | `UploadWhole`, `PartsInPlace`, `HandlersEnd`, `UploadArrives` |
| `Download` | bodies of 6 bytes, parts of 3, copies of 2 | `BodyVerdict`, `DownloadIInv`, `LeavingEnds`, `ResponseEnds` |
| `DnsLookup` | 3 look-ups, as in the code | `FailsWhenCancelled`, `LookupsEnd` |
| `ProxyRun` | 2 attempts at DNS, 3 events of the tunnel, with and without one | `IInv`, `NeededIsOpen`, `NothingLeft`, `StopReturns`, `ImplementsRun` |
| `NativeLib` | 2 starts, each with or without a configuration, any number of stops, within `Bounds` | `IInv`, `RunsAreStoppable`, `OwnTransport`, `FailureFrees`, `AnswerArrives` |
| `GuiApp` | 2 starts with a retry each, on each operating system, within `Bounds` | `IInv`, `SystemProxyFollows`, `ButtonComesBack`, `GracefulStop` |
| `ConfigStore` | 2 calls of the window, 1 file of nodes, 5 keys and wallets, any number of crashes | `IInv`, `WalletKept`, `FileCurrent` |
| `SiteTableIdle` | 1 request, 2 bags | a violation: `IdleBagStops` |

**Why the bounds are enough.**  Two producers are what it takes to race `Finish`
with `Write`, two consumers to race `Read` with `Close`; a Write longer than a
Read, a Read longer than a Write and a full channel all occur within 3 bytes.
Two sites are a live one and one that left the table while a request still holds
it; two bags or clients are the old and the new one of a re-resolved site; the
clock runs to 2 in `SiteTable`, where a timeout of 1 ends within a round of the cleaner
or between two, and to 1 in `SiteTableLive`, where a bag looked up at 0 is idle from then
on and one looked up at 1 is in use for good; a timeout of 0 has always ended (`Reinit`
and re-resolution are then allowed at any time, and the theorems do not depend on the
values).  Hosts do not interact except through the
cleaner's round, so one is enough.  In `Upload` two handlers are the one that reads
and a repeated query that waits for its mutex; slices are longer and shorter than
parts, and the fifth byte lies beyond the range of the offset.  The attempts at
DNS differ only in being the last or not; three events of a tunnel are an error,
an update and a message in any order.  In `NativeLib` and `GuiApp` two
starts are a stopped run that has not ended and its successor, which every hazard
of these programs is about; a third would only repeat the second.  `MCNativeLib` follows
two starts that overlap in `startProxy` until both are in, and to the end only if both
have a configuration (their runs do not report); the theorems assume no such bound.
`GuiApp` is explored under the state constraint `Bounds` of `MCGuiApp`: tunnels on Linux, where
nothing is set, the system's proxy without tunnels, since the two do not meet, and
shutdown and retries with a second start only as far as it names; what the constraint
leaves out is covered by `GuiAppProofs`, which assumes none of it.  In `ConfigStore`
five keys and wallets are enough for the program to be made new, to crash and to
upgrade again.  The theorems cover every other value.

`CHECK_DEADLOCK FALSE` appears where the system may stop: all producers and
consumers of a stream returned, the transport stopped and the clock at its bound,
the file served, the exchange or the run over, the program closed
or its bound of starts reached, the configuration refused.

**Fairness.**  A `select` with a case that can proceed proceeds, and a goroutine
that can run is run (weak fairness per goroutine step).  In `DataStreamer` each
goroutine also takes its turn while the mutex it needs is free: sources end or
fail and callers read until they close.  In `SiteTable` the clock advances, the
cleaner and the handlers run, and a mutex is granted to each waiter in turn
(strong fairness on `Lock` and `HandlerDestroy`: Go's mutex hands itself over to
a waiter that starves).  Answers of the network are not assumed; where a property
needs them it says so (`NetworkAnswers`, `PeerAnswers`, `TunnelAnswers`).  In
`Upload` a handler that waits for the stream's mutex gets it (strong fairness on
`Begin`), and the peer asks while it lacks a part; in `ProxyRun` the senders that
wait on the channel of reports are served in turn, as Go's channels do, and the
caller reads the reports.  `NativeLib`, `GuiApp` and `ConfigStore` state no fairness:
their properties are invariants, also those that say that something is on its way
(`AnswerArrives`, `ButtonComesBack`, `FailureFrees`).

### Disagreements with a comment

`client.go:137` says of the cleaner: "stop bags that was not used for > 5 min".

* `SiteTableIdle`: a site whose last success is more than 90 s old is resolved
  again by the next request, and `prepare` assigns the new bag, or nil, to
  `Actor` (line 275) without stopping the old one.  The cleaner visits only bags
  that are the `Actor` of a site, so the old bag is never stopped.

### Found on the way, with no comment to disagree with

* `Upload`: `doRldpHttp` removes the entry of an upload when it returns, but nobody
  closes its stream, and `ValidTill` is never read: a pump that waits in `Write`
  then stays there.
* `Upload`: an answer to a query that is lost cannot be asked for again, since
  `nextOffset` has moved on; the upload is stuck until the exchange fails.
* `ServeHTTP` drops the error of `io.Copy`, so a body that broke off can look whole
  to the browser.
* `NothingLeft` names what a failed start leaves open: the pool of a failed
  `initDNSResolver`, and the gate of a tunnel that comes up after an error event.
* `gate` is closed after the `netMgr` it is built on (lines 347-348 of `proxy.go` defer the
  two calls in this order): `NeededIsOpen` names the step between the two as its one
  exception.  The handler of line 272 can run before `gate` is assigned.
* `SiteTable` allows `Touch` between the cleaner's `Check` and `StopBag`: a stream stores
  `LastUsed` (line 817) without the site's mutex, so a bag that was used just now can
  be stopped.  The streams touch their bag once a piece.
* A run that is cancelled within a second of its start reports "ready" although its
  server was closed (`proxy.go:441` knows only failures).  In `GuiApp` such a report, or
  one that is merely handled late, sets the system's proxy after it was cleared; and
  an error after "ready" cancels the run without clearing, after which `StopProxy`
  finds nothing to stop.  Third, the error of `ClearProxy` is dropped (lines 266 and 429,
  and `darwin.go:212`), and no later `StopProxy` tries again, as the context is done.
  `SystemProxyFollows` names the three in `excuse`, and shows of the setting itself that
  there is no fourth.
* `NativeLib`: the first report answers `StartProxy`, and that is "loading": it returns
  "" before the proxy listens.  `StartProxyWithConfig` passes no channel of reports
  and returns only when its run fails, and never if it is stopped first.
* `NativeLib`: `startProxy` checks `ActiveProxy` and assigns it and `ProxyStopper` without a
  lock, so two starts at once may both be accepted.  The context of the one that assigns
  first is then cancelled by nobody; if the assignments cross, `ProxyStopper` cancels the
  other's context, and `ActiveProxy` is never done: every later start is refused.  A
  start whose context was overtaken may also wait for its answer for ever.  The
  properties except the starts that were in `startProxy` together (`overlapped`), and
  show that nothing of this befalls the others.
* `GuiApp`: a tunnel that has stopped releases the graceful context that is current by
  then.  When the last tunnel was started while an older one was still at work, the
  application may end before the last has stopped; `GracefulStop` names exactly those.
* `GuiApp`: a start whose configuration names a tunnel and that fails before the tunnel
  runs leaves a graceful context that nobody releases, and `shutdown` waits for it.
  A `skipTunnel` that its own run does not use up retries a later one, without its
  tunnel.
* `AddTunnel` (`app.go:302`) parses the file in use until then and stores the chosen one
  unread.
* `LoadConfig` refuses a file that a crash has left empty, at every later start; and it
  dereferences a nil `cfg` when `os.Stat` fails with another error than "not exist".
* `windows.go`: `setPoxy` and `disPoxy` end without a return value where they succeed.
  It concerns only the error that is printed.  `darwin.go:118` releases a protocol
  that may be NULL.
* A caller that stops reading reports before the run has returned (the native
  library does) can hold the run in a report, and with it everything open;
  `StopReturns` therefore assumes a caller that reads on.

## 5. Proofs

All theorems hold for every value of the constants that satisfies the stated
assumptions (`ProcAssumption`, `BoundAssumption`, `TimeAssumption`,
`NameAssumption`, `SizeAssumption`, `BodyAssumption`, `CopyAssumption`,
`FileAssumption`, `RangeAssumption`, `StoreAssumption`, `LookupAssumption`,
`StartsAssumption`, `GuiAssumption`, `TriesAssumption`).

* `DataStreamerProofs`: `IInv` is inductive.  The heart is `Chain` (what was
  accepted and not delivered is the rest of `buf` followed by the channel) and
  `Owners` (who is between Lock and Unlock), without which a second Write could
  be inside the select when `Finish` closes the channel.  From it `Order`,
  `Completeness`, `NoPanic`, and `Refinement`: every step is a step of the pipe
  or leaves it unchanged.
* `SiteProofs`: of `SiteTable`, `IInv` says that the site's mutex protects its `Actor`
  (`Held`), that a bag has one owner (`Owned`), and that the bag the cleaner holds
  was not handed out for BagIdle before its round (`Clocks`).  From it
  `TableIsSafe` and `HandedBagsSurvive`.  `TableIInv` adds `Linked` (the client that a
  site has as its `Actor` was connected for that site's host, and only a client that
  was lost has a handler under way), without which `TableClientAlive` would not survive a
  handler that looks up the wrong host; from it `DeadClientsLeave`.  Of `DnsLookup`,
  `DnsIInv` says that the look-ups are stopped only when `resolve` has its result, and
  that the channel holds no more answers than look-ups have ended.  The first gives
  `FailsOnlyWhenCancelled`, the second `SendsFindRoom`: a look-up with an answer never
  waits, since it is not among those that have ended.
* `BagFileProofs`: the lemmas `Pieces`, `Sizes` and `Cuts` are the arithmetic;
  `IInv` says that the loop has passed a prefix of the pieces and written their
  share of the range.  From it `NoSlicePanic`, `RangeServed`, `NoPieceKept`.
* `ExchangeProofs`: of `Upload`, `Whole` and `InPlace`.  `UploadIInv` follows the bytes
  from the body to the peer: what the pump read is in the stream or in its hands
  (`PumpedBytes`), the stream is finished only with the whole body in it and closed
  after that only when it is empty (`StreamOver`), a handler that reads was asked for the
  offset that comes next and holds a whole part or the last (`HandledParts`), and the
  peer is behind `nextOffset` by exactly the part it waits for (`PeerBehind`).
  `NothingLost` is why the parts are in place: until the pump closes the stream
  unfinished, `nextOffset` is all that was taken; afterwards a handler's half-read
  part is gone, but then no last part comes, and `UploadWhole` holds.  The offset is
  an int32: one that has wrapped is below the product (`OffsetBelow`), and with it below
  `nextOffset`.
  `UploadIInv` was checked with TLC under the bounds of run `Upload`; the run itself
  lists the two properties that follow from it.
  Of `Download`, `DownloadIInv` joins the loop's place (`WrittenParts`), the ends of
  the stream (`StreamEnds`) and what `io.Copy` has (`CopiedParts`).  `BodyVerdict` is
  not inductive alone: that an "eof" means a whole body needs that only a loop at
  its last part finishes the stream.  From it `DownloadVerdict`.
* `ProxyRunProofs`: the nine things that a run opens have one order (`Order`), whether
  the tunnel or the listener makes two of them.  `IInv` says that `opened` is a prefix of
  it, of a length that the place in `RunProxyWithConfig` tells (`OpenedInOrder`), and
  that what is open is the prefix not yet closed (`StillOpen`), but for the pool
  before its closing is deferred and for what the tunnel makes on its own
  (`TunnelMade`).  Since everything but `gate` needs only what comes before it in the
  order (`NeedsComeBefore`), every prefix is sound but the one of two: `NeedsAreOpen`, which
  names that one step of the unwinding; and the prefix left at the return is empty:
  `LeavesNothing`.  `Implements` is the refinement of `Runs`: the
  lemmas `Seen...` give each action of `Runs` from what it changes of a run as its
  callers see it (`Keep` names what stays), the lemmas `...Implements` map the
  run's steps to them.  `ServerStarted` is what they need of the invariant: a start
  that gives up has no server yet, and a server is closed only on a cancelled context.
* `ConfigStoreProofs`: `WalletKept` speaks of runs that are past and of one file.  It
  needs `Stored` (a readable file, what is in memory and what is about to be written
  have the wallet of all runs so far), which needs `Loaded` (what was loaded is what the
  file holds, also where the error of a save was dropped) and `Exclusive` (one caller in
  the mutex; no saves of the window before `LoadConfig` has ended).  `Pending` is the
  argument of `FileIsCurrent`: a field that was assigned is on its way to the file or
  in it.
* `NativeLibProofs`: while a start that was let through alone is live, nobody else is let
  through and both fields are its own (`OneAtATime`), although a goroutine reads the
  active context when it comes to it.  A run was given a context that a start had
  assigned (`Stages`); that one is live and let through alone, or cancelled, or it
  overlapped another: `RunsCanBeStopped`.
  `Watching` says what a consumer waits for: its own context, or one that came after
  its own was cancelled; without it a consumer might leave while its run can still
  fail, and `FailureFrees` and `AnswerArrives` would not be inductive.  `Alone` says
  that as long as a run that began alone is live nobody else begins, from which
  `TransportIsOwn` follows.
* `GuiAppProofs`: `OneLive` (only the current start is not cancelled) is the heart:
  whoever is in `StopProxy`, with a start of its own that is not cancelled, finds that
  start current, so after `StopCheck` or `StopCancel` it is cancelled (`OwnStart`).
  `Stages` keeps a start's goroutine, its calls and its `StopProxy` in step, and has a
  start that took the graceful context behind it; `Named` says that reports are of calls that were made, so that the
  context of the run the proxy is set for does not change any more.  `Clearable` says
  that a setting of ours is one that `ClearProxy` clears, if it does not fail.  `Released`
  is `GracefulStop` before shutdown has passed its wait: the current graceful context is
  released exactly when the last tunnel or one of `older` has stopped, and no other tunnel
  is left that could stop.

Every invariant, action property and refinement that a run checks is stated by one of
these theorems.  Only model-checked are the liveness properties (`NobodyBlocked`,
`IdleTableBagLeaves`, `LockServed`, `HandlersEnd`, `UploadArrives`, `LeavingEnds`,
`ResponseEnds`, `LookupsEnd`, `StopReturns`): fairness and ENABLED are out of the
prover's reach.  The violation of `SiteTableIdle` is a run of TLC, too.

## 6. Not modelled

See the components of `PROJECT.json` with status `not_modelled`: `VirtualStorage` is a
locked map (planned), `content.go` a constant table, `ParseADNLAddress` a checksum.
Of the frontend only the button is modelled; of the application, dialogs, prices and
the question for a new route are left out; of the command-line program, its flags and
`main`, which runs one proxy until the process ends.  Within the modelled parts: the pieces'
contents and the prefetcher (external), the wording of headers and errors, and
the reuse of a client by `Reinit` beyond the store to `LastUsed`.
