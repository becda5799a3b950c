# my-block-explorer: TLA+ specifications and proofs

A block explorer that one person runs next to a chain: a Node server (Hono API, DuckDB as the
single-writer store, viem clients for the RPC endpoints) and a React client. Most of the code
reads a chain or a table and shapes an answer. What is hard to test is the rest: background jobs
that walk block windows for minutes, keep a checkpoint in a row, and share that row with admin
requests, with each other and with the next start of the process.

These modules model that part, check it with TLC on small instances and prove their safety
properties with TLAPS for every instance.

Paths below are relative to the directory that holds `src/` and `tla/`: the services are
`src/src/services/*`.

## 1. Inventory

| Component | State it keeps | Operations | Hard behaviour | What makes it correct |
|---|---|---|---|---|
| **Event range jobs** (`EventIndexingService.ts`, range routes in `routes/events.ts`) | rows of `indexing_ranges` (window, direction, checkpoint, status, `updatedAt`); `activeJobs` (key to abort flag) per process; stored events | start, resume, pause, add, patch, delete, pause-route flip, status report, startup reconciliation | reads and writes of one row separated by awaits; loop writes guarded by `onlyIfIndexing`; abort read only at close-out; duplicate ids; crash in a walk | what the status reports as indexed is stored; a settled row is not resurrected; no walked block is forgotten; a start settles |
| **Reorg reconciliation** (same file, `reconcileReorgedEvents`) | `contract_events` with their `finalized` stamp | insert, select a backlog, ask for receipts, delete, promote | the finalized head is read once, or estimated as the latest block less 64; receipts are asked before a delete by key; an RPC call without an answer | a final row is on the chain; no good row is deleted; the backlog drains |
| **Log fetch ladder** (`fetchLogsWithRetry`) | locals of one call: cursor, span, attempt, logs | fetch a window as consecutive sub-spans | provider caps and transient errors share messages; attempt resets | the whole window once, or an error; terminates |
| **Provider ceilings** (`providerCeilings.ts`) | in-memory map, load-once promise, `provider_limits` row, writes in flight | get (load once), record (memory now, table later) | writes in flight may land in any order; several walks share it | a span is never 0; a ceiling never makes a fetch skip |
| **Startup reconciliation** (`api-app.ts`, `server.ts`) | none | flip stranded rows before listening | a quick restart; another process on the same database | an interrupted row becomes startable, a walked one is left alone |
| **Address deep scan** (`AddressScanService.ts`) | `address_scan_jobs`, the findings and internal transactions, the registry of walks, a queue with two slots | create, force-replace, pause, resume, catch up, delete, queue pump, walks, reconcile | awaits outside the `try`; replacing a job while its walk runs; compare-and-set on the status only | at most two run; a freed slot is refilled; a row that runs has a walk; what a cursor claims is found |
| **Watch sweeps** (`WatchService.ts`) | subscriptions with cursors, event ring, memory of delivered ids, sweep timer | put, remove, tick, sweep, webhook post | publish before the cursor moves; a gap cap of 200 blocks; remove and put again in a sweep | at least once, in order, nothing skipped unless a gap is reported |
| **RPC manager** (`RpcManager.ts`) | `user_rpc_configs`, the configuration, the client cache, the reload readers wait for | getClient, save, delete, reload, probe | a reload overlapping another one or a getClient; a load that fails | no stream opens on an endpoint that was replaced |
| **Block stream** (`routes/stream.ts`) | per connection: last block, error count, queue of watch events | poll head, emit, catch up (10), give up (10 errors) | slow poll, reorganisation and disconnect at any await | blocks in order, none left out unsaid, none from before the connection |
| **Live chain client** (`services/liveChain.ts`, in the browser) | one entry per chain: subscribers, EventSource, mode | acquire, release, base change, give up | the stream ends or breaks while the page opens or closes it, and each end hears of it later, or never | a page that says live has a stream, and the server's end or its way out |
| **Token transfer and approval scans** (`TokenTransferService.ts`, `ApprovalScanService.ts`) | locals: chunk, ceiling, call budget; two caches | adaptive chunk ladder over a window; pages of a cached list | budget ends in the middle; a rejected second query; a list scanned anew between two pages | the reported coverage is what was scanned; a page skips nothing |
| **Rate limiter** (`middleware/rate-limit.ts`) | token buckets | take, evict | eviction at the limit | never more than the burst in a window |
| **DuckDB adapter** (`duckdb-postgres-adapter.ts`, `chain-database-manager.ts`) | a connection per query | rewrite and run a statement | no order between statements of different awaits | one statement is atomic |
| **Contract sources** (`ContractSourceService.ts`, `routes/verify.ts`, `routes/contracts.ts`) | rows of `contract_sources`: nothing found, a mark made by hand, a local or remote match, with its source or without; the implementation of a proxy | look up, mark, unmark, save a local match, Force Refresh | a row is read, verifiers and the chain are asked for seconds, and the row is written whatever it has become; proxies may point in circles | a failure is never a verdict; a mark gives way to a match only; a publication surfaces |
| **Local compile verification** (`CompileVerifyService.ts`) | one worker thread per version, in order of use; builds in `data/solc-cache` | download, load, compile, evict, dispose | eviction while a worker loads or compiles; timeouts; workers that die; two writers of one file | every request is answered; no worker is left over or ended under a compile; a version recovers |
| **Sourcify submission** (`ContractVerifyService.ts`) | none | one HTTP exchange | | |
| **Signature, price and metadata caches** | TTL maps, in-flight maps | get or fetch | concurrent misses | one request per key |
| **Read-only services, views, command line** | none, or React state | shape answers | | |

How they interact. A walk calls the log fetch ladder, which calls the RPC manager for a client and
the provider ceilings for a first span; walks and routes meet only in the database row and in
`activeJobs`. Every walk ends with a reconciliation pass over its contract, and so does the start
of the process. Startup reconciliation writes the rows of every walk before the process listens;
`server.ts` awaits it, the Vite development bridge never runs it, and both may be open on the same
database. The watch sweeps publish into an in-memory ring whose listeners are the block streams; a
block stream takes its client from the RPC manager, and its end is what makes the live chain client
fall back to polling. A compile that matches ends in a row of the contract sources.

## 2. Modules

| Module | Models |
|---|---|
| `EventRanges` | range rows, walks, admin requests in flight, processes, crashes and restarts |
| `EventRangesInv` | its inductive invariant, as state predicates TLC checks as well |
| `EventRanges_proofs` | type correctness; `IInv` with `ClaimsStored`; `SettledStays`, `AddsDoNotReset`, `NoRewind` |
| `EventReorg`, `EventReorg_proofs` | stored events, finality and reconciliation over a chain whose tip is replaced |
| `WindowFetch` | abstract: a fetch answers its whole window or fails |
| `LogFetch`, `LogFetch_proofs` | the span ladder and the provider ceilings for the walks of a process on one chain; implements `WindowFetch` |
| `AddressScan`, `AddressScan_proofs` | deep-scan jobs, their findings, slots, queue and requests |
| `Feed` | abstract: every block is told before a cursor passes it |
| `WatchSweeps`, `WatchSweeps_proofs` | ticks, sweeps, webhooks and requests; implements `Feed` |
| `RpcManager` | the endpoint of a chain, its client and its reloads |
| `BlockStream` | extends it: the connections of the live tail |
| `LiveChain`, `LiveChain_proofs` | extends that: the page, its EventSource and its mode; the complete system of the three |
| `ChunkScan`, `ChunkScan_proofs` | the transfer and approval scans, their caches and a reader that pages |
| `ContractSources`, `ContractSources_proofs` | lookups of contracts with their proxies, and the requests that write the same rows |
| `Compilers` | the resident compilers, their files and the requests that share them; proofs in `ContractSources_proofs` |

Every specification `X` that is checked has a module `XMC` with the values of its constants, and
what is proved about it is in `X_proofs`. Every
`await` of the code is a boundary between actions, so that any other actor may act there; code
between two awaits is one action. `Faults` is the set of things that may go wrong in an instance
(`rpc`: a provider call, `db`: a statement, `hook`: a webhook post, `net`: the page's connection or
a call to another server, `time`: a time budget or a hung call, `cap`: a provider's range limit,
`worker`: a compiler's thread, `crash`: the process).

### EventRanges

One contract on one chain. `rows` is the table, `job[p][r]` is process `p`'s `activeJobs` entry
for range `r` together with the local variables of its walk, `req[h]` is an admin request that
has read something and not yet written, `up[p]` says that a process serves, `head` is the chain,
`indexed` the set of blocks whose events are all stored.

| Code | Actions |
|---|---|
| `startIndexingRange` | `Start` (reservation), `ReadRow` or `ReadFails` (SELECT), `ClaimRow` (UPDATE to `indexing`), `IndexBatch` (getLogs, decode, insert), `Checkpoint` (guarded by `onlyIfIndexing`; the cursor then steps), `CloseOut` (paused or completed), `Throw` (catch and finally) |
| `resumeIndexingRange`, `pauseIndexingRange` | `Resume`, `Pause` |
| `addIndexingRange` | `AddBegin` (clamp to the head, mint `max + 1`), `AddInsert` (INSERT; a duplicate key mints once more) |
| `updateIndexingRange` | `PatchBegin`, `PatchWrite` |
| `deleteIndexingRange` | `DeleteBegin`, `DeleteWrite` |
| pause route when no walk is active | `FlipBegin` (reads the row, decides complete or paused), `FlipCheck`, `FlipWrite` |
| `reconcileInterruptedRanges`, boot | `Boot`, `BootUnreconciled`, `Age` (two minutes without a write) |
| the process, the chain | `Crash`, `NewBlock` |

Abstractions. Blocks are small numbers and a batch stores a block's events all at once: which
events a block has does not matter to any property. A failing batch has stored a prefix of its
blocks (`insertEvents` commits its chunks in order). `updatedAt` is one bit, written within the
last two minutes or not. A node answers `getLogs` completely up to its head. The chain only
grows here; `EventReorg` lets it reorganise. Two fields are history and no code reads them: a job
or request is `stale` when the row it has read was edited or deleted since, and a row is `tainted`
when a stale walk or flip has written it, or when an edit made it claim blocks it did not claim
before. They let the properties say exactly where the code's promise ends (section 4, the first two
of what was seen).

### EventReorg

One contract whose transactions have one log each. `at[t]` is where the chain has transaction `t`
(block and log index, or nowhere), `rows` the table by its key (transaction, log index), `walk` the
walk with its locals, `pass` a reconciliation, `boot` that the process has started and not yet swept. A
reorganisation orphans blocks above the finalized head; their transactions wait and may be mined again
elsewhere, in another order within their block.

Every finalized head the code goes by comes from `fetchFinalizedBlockNumber` (lines 368-377): what the
node says, or, on any error, the latest block less 64. `FinalHeads` is the choice between the two, with
`Lag` for 64; the estimate may lie above the finalized head, and a walk or pass remembers in `by` which
of the two it has.

| Code | Actions |
|---|---|
| the walk in `startIndexingRange` | `Begin` (finalized head read once, before the loop), `Fetch`, `Insert` (`insertEvents`: a row that is there stays), `Mark` (checkpoint, end of the range), `Pause` (`job.abort`), `WalkFails` |
| `reconcileReorgedEvents` | `EndPass` (at the end of a walk), `BootPass` (from `reconcileAllReorgedEvents`), both with `ReadFinal`; `Select` (the oldest `RowCap` rows), `Receipt`, `NoReceipt`, `Delete`, `Promote`, `PassFails` |
| the process | `Restart` |
| the chain | `Mine`, `Finalize`, `Reorg` |

Abstractions. A walk goes forward, from any block: it stamps a batch by its upper end in both
directions. A transaction's receipt answers all its rows at once (the code groups by hash). Three
things are history: `fin` also records who finalized a row, and by which head; `top` is the highest head
there was; `deep` says that a reorganisation went further below `top` than `Lag` allows for, which is
when an estimate may have been wrong.

### LogFetch and WindowFetch

`call[w]` holds the locals of the `fetchLogsWithRetry` that walk `w` awaits; `ceiling`, `loaded`,
`stored` and `writes` are the state of `providerCeilings.ts`. The provider has a cap
(`ProviderCap`) and noise (`Noise`): an error within the cap that looks like a cap, or one that
does not. `Shrink` is the whole catch branch, the new span, the memory write and the write on its way
to the table together. `writes` is a set because the adapter opens a connection per statement,
so the order in which they land is not theirs. `Persist` may also drop a write: the code logs
and goes on.

`WindowFetch` has three variables per walk and says what the caller relies on.
`EventRanges!IndexBatch` and `Throw` take a fetch to be that; `LogFetch` is shown to implement it
(run `ladder_shared` and theorem `Implementation`), with the mapping `Phases`, `Windows`,
`Answers`.

### AddressScan

`rows` is `address_scan_jobs`, `findings` and `internals` the blocks whose transactions and
internal transactions are stored, `walk[a]` an entry of `runningScanJobs` together with the locals
of its walk, `queue` is `scanQueue`, `req` the requests in flight.

| Code | Actions |
|---|---|
| `ensureScanRunning`, the pump | operators `Ensure`, `End` inside the actions that call them |
| the walk, before its `try` | `ReadRow`, `Flip` (compare-and-set to `running`), `Verify` (bounds), `Client` (client and baseline balance) |
| the loop | `Test`, `Skip` (equal balances), `Change` (`findFirstBalanceChange` and its block), `Own` (`stillOwnsJobRow`), `Insert` (`persistFindings`), `Trace`, `Checkpoint`, `Capped` (smaller batch or another try), `Fails` |
| its ends | `FailJob`, `PauseJob`, `Finish`, `Throws` (an await outside the `try` rejects) |
| `createOrReplaceScanJob` | `Post` (SELECT), `Decide`, `Wipe`, `WipeInternals`, `Upsert`, `Start` |
| pause, resume, catch-up, delete | `Ask` (SELECT), `Pause`; `Resume`, `Requeue`; `Catchup`, `Extend`, `Extended`; `Delete`, `DeleteRow`; `Drop` (any statement rejects) |
| process, `reconcileInterruptedAddressScans`, chain | `Restart`, `NewBlock` |

Abstractions. Balances are numbers and nonces are left out: the file's header assumes that a
transaction of the address changes its balance (`HonestBalances`). The reads of one segment are one
action: they are of blocks that do not change. `wiped` is history: the findings were deleted and
the row not yet reset.

### Feed and WatchSweeps

`subs` is `watch_subscriptions`, `tick` the `ticking` flag and the head the tick has read,
`sweep[a]` where the sweep of `a` stands and what its tick has read of the row, `posted`
`deliveredWebhookIds` with its cap.

| Code | Actions |
|---|---|
| the interval's tick | `Tick` (SELECT of all rows), `ReadHead`, `HeadFails`, `EndTick` |
| `planSubscriptionScan` and the sweep | `Take` (a worker is free), `Publish` (logs read, gap marker and events into the ring), `Post` (with its retry), `SkipPosted`, `PostsDone`, `WriteStatus`, `WriteCursor`, `Fails` |
| `upsertSubscription`, `removeSubscription` | `Put`, `Insert`; `Unsubscribe`, `Delete`; `Drop` |
| process, chain | `Restart`, `NewBlock`, `Shrink` (the head moves back) |

`Feed` has a cursor, the block at which watching began and the blocks told since then; it says
that a cursor passes only told blocks. The history variables `since` and `told` are its other two,
so the mapping only projects the cursor. `acked` is history: what the webhook has acknowledged.
A block is told when its logs were published or the gap marker has covered it. The ring and its
listeners end at the publication; `BlockStream` has them.

### RpcManager, BlockStream, LiveChain

`table`, `config`, `client` and `ready` are the row of the chain, `userConfigs`, `clients` and
`configsReady`; `save[h]` is a request that has written the row and reloads. `conn[c]` is the
handler of a connection with its locals, `queue[c]` its `pendingWatch`, `page` the entry of the
chain in the browser together with whether a backend base is known. `wire[c]` is what is on its way
between the two ends of a connection: the request, the page's leaving, blocks, the end of the stream. The
ends learn of each other through it only. Once it is `mute` nothing the server sends arrives: a
connection that broke at the server's side, and that the page, which has no timeout of its own, may
take for open for as long as the browser says nothing.

| Code | Actions |
|---|---|
| save or delete the row, `reload` | `Save`, `Load` or `LoadFails` (an empty map goes live), `Swap`, with any number of requests at once |
| `getClient` | `Touch`, inside `GetClient` |
| the handler of `/stream` | `Accepted` (`Accept`), `GetClient`, `Loop`, `WriteEvent`, `Flushed`, `Baseline`, `CatchUp`, `PollFails`, `Emit` (`Read`) or `ReadFails`, `CaughtUp`; the request's abort signal `Leaves` (`HangUp`); the ways out `NoClient`, `Stops`, `GivesUp`, all in `End` |
| publication of a watch event | `Publish` |
| `liveChain.ts` | `Acquire`, `Release`, `BaseLost`, `BaseFound` (a base appears, or replaces another, which leaves an open stream), `Deliver` (a block), `Hear` (`onerror`, `giveUp`); operators `Opens`, `Closes` |
| the network | `Refused`, `Break` |
| the chain | `NewBlock`, `Reorg` |

`HangUp` only marks a connection: the handler sees it at its next check. `hist` is history: where
the tail started from, which blocks it has passed and which a wide gap left out. `loaded` and the `kind` of
a save are history too: whether the load that went live had read the row, failed, or read it before a
later save wrote it (`late`). A client is one value, its endpoint. Heartbeats and the shape of a block are left out.

### ChunkScan

`scan[h]` is a request with the locals of its sweep, `cache[k]` one of the two caches in order of
use, `view` a reader that pages through the transfers.

| Code | Actions |
|---|---|
| `getTokenTransfers`, `getApprovals` | `Ask`, `Turn` (the reader's next page): from the cache, or a scan |
| the sweep | `ReadHead` or `NoHead`, `Clean` (all queries of a chunk answered), `Rejected` (half the chunk, a ceiling below it), `Aborted` (any other error), `StopsShort` (budget of calls or of time), `Hung` (the outer timeout wins) |
| current values of the approvals | `ReadValues` |
| the cache's minute, the chain | `Expire`, `NewBlock` |

Abstractions. A log is its place, the query that brings it and the pair it is of; the chain does
not reorganise. The two loops are one because `ApprovalScanService` restates the other's; where
they differ (queries one after the other, a failure that keeps what it has, the cap of the history)
the actions differ by `kind`. `view` is history.

### ContractSources

`rows` is `contract_sources`, `req[h]` a request; a lookup is a stack of frames, one for each
`getContractSource` on the path to an implementation, each with the row it has read. `code`,
`points` and `listed` are what the chain and the remote verifiers say, and change under a lookup.

| Code | Actions |
|---|---|
| `getContractSource` | `Lookup`, `ReadRow` or `ReadFails` (`getFromDatabase`), `SourcifyHits` (with the lookup of the implementation), `SourcifyMisses`, `BlockscanHits`, `BlockscanMisses`, `AskCode`, `Clear`, `Cache` (`cacheSource`), `Refresh` (`refreshManualMark`) |
| `enhanceWithProxyInfo` | `Enhance` (`detectProxy`), `Save` (`saveProxyInfo`, then the lookup of the implementation), `Enhanced` |
| `saveManualVerification`, clear-cache route | `Mark`, `ForceRefresh` |
| `deleteManualVerification`, compile route | `Unmark` or `CompileClears` (first await), `RequestEnds` (the second) |
| chain, verifiers, clock | `World`, `Age` |

Abstractions. A row is what it says of its source, and the implementation; names, files and ABIs are
left out, but for whether there is a source at all, since a verified row without one is probed again
(`ContractSourceService.ts:887`): `bare` is a local match whose first file is empty
(`CompileVerifyService.ts:1312`), `partial` a remote match that is partial or has no source. Both
verifiers know the same contracts, Blockscan without naming an implementation. How `detectProxy` finds an
implementation (storage slots, beacon, bytecode, ABI) is one read of the chain; what is not detected may
still be called a proxy by its name, and is then saved as one whose implementation is `Hidden`, to be
detected again at every read. `live` and `denied` are history: had the address code when its lookup began, and was it
answered that it is no contract.

### Compilers

`cache` is `compilerCache`, `worker[w]` a `WorkerSolcRunner` or the load that is to become one,
`compile[h]` the request `h`, `disk` and `tmp` the build of each version under its name and under
the name it is written to first. `ContractSources_proofs` extends this module and `ContractSources`,
so its specification is `PoolSpec`, of `PoolInit` and `PoolNext`, its requests are the `Callers`, and
its faults `PoolFaults`.

| Code | Actions |
|---|---|
| `loadCompiler`, `evictLeastRecentlyUsed` | `Shares` (resident or loading), `Loads` (with the eviction) |
| `downloadAndLoad` | `ReadFile`, `Download`, `DownloadFails`, `Written`, `Rename` |
| `WorkerSolcRunner.start` | `Ready`, `BootFails` |
| `compile`, and the catch around it | `Begin`, `Compiled`, `Throws`, `TimesOut`, `GivenUp` (a timeout on a thread that has ended); operators `Disposed`, `Idle`, `Drops` |
| the thread, the process | `Crash`, `Exit`, `Restart` |

Abstractions. A file is absent, partial or whole. A worker nothing refers to any more is forgotten
(`Settled`), so three names serve any number of loads; one whose thread goes on is kept, unless it is
`lost`. `ended` and `lost` are history: what ended a thread, and that a request of another worker
deleted its entry. The proofs show that a cap's worth of names and one for each request suffice
(`FreshExists`).

## 3. Runs

| Run | Question | Bounds, and why they are enough |
|---|---|---|
| `ranges_solo` | Is everything claimed stored, does nothing forget walked blocks, does every start settle, whatever pauses, fails, crashes, resumes or is edited? Does the inductive invariant hold? | one process, one request, windows of five blocks in batches of two: three batches, the last partial, both directions, block 0 included; edits that shrink, grow and turn |
| `ranges_peers` | Two processes on one database, two requests at once: is a settled row left settled, is what is claimed stored, does the loser of two adds leave the winner alone? | a standalone server and a bridge that does not reconcile, two batches of one block, two symmetric handlers |
| `ladder_shared` | Whole window or failure, every block once, types; does every fetch end, and does the walk that meets only a cap never fail? | two walks on one ceiling, one noisy; windows of up to six blocks, floor two, cap two: every way the halving can go (odd, cut at the floor, at the floor) |
| `scan_walk` | Is what the cursor of a job claims found; does a draining walk leave the job that replaced its own alone; does every walk end? | one address, all requests one at a time, three blocks, a batch of two that halves to one, a job that ends past the head |
| `scan_slots` | Is a slot freed on every path, and does the queue drain? | two addresses for one slot, a job of one block each: what matters is how walks end, not how long they are |
| `scan_stranded` | the finding | `scan_walk` without faults |
| `watch` | Do the sweeps implement `Feed`; does a webhook miss nothing in silence; do cursors catch up? | one subscription removed and put again, heads 0 to 3 with a gap cap of 2 (a gap of three blocks), a memory of one id for two events |
| `live` | No hole, nothing old, events in order, a live page has a stream that is served or ending, a new stream polls the saved endpoint, the tail reaches the head | one connection opened again and again, four blocks, one reorganisation, a catch-up of two (gaps of three), three events for a queue of two, two errors to give up; two requests that save, two endpoints besides the default: every overlap of two reloads, and every replacement of one endpoint by another |
| `reorg` | Is a final row final, is no good row deleted, does the backlog drain? | one transaction that two reorganisations at any point may move, also within its block, so that it leaves rows of two keys; three blocks in batches of two; an estimate one block below the head, which reorganisations of two blocks pass; restarts; a pass of one row at a time |
| `chunks` | Does a complete answer miss nothing, is there no hole, does paging skip nothing, do scans end? | windows of two and five blocks, chunks of two to four (one below the floor after a rejection), six calls, logs of both queries in one block, caches of one entry, a history of three events for five, pages of two |
| `sources` | Are paths bounded, is a failure never a verdict, are marks and local matches kept, does a mark that was removed stay away, does a publication surface? | two requests on one contract that is no proxy, one of itself, or of a second one that points on beyond a cap of two; one change of the world at any point |
| `compilers` | Is no worker left over, spared or dead where it must not be; is every request answered, and does a version recover? | two requests, two versions for one place: every eviction meets a load, a compile or an idle worker, and two loads of one version meet on its file |

The violating run aside, the smallest has two hundred thousand states (`compilers`) and the largest
about two and a half million (`reorg`); with two workers that one is the slowest and takes about three and
a half minutes, `sources` three. Two runs have a constraint. `chunks` has `OneCache`, that only one of the two
caches is in use: they share nothing. `live` has `Apart`: the endpoint changes only while the chain and the
events are at rest, and they move only while the endpoint is the default one and at rest. The tail reads
the chain by whichever client it has, so the two share only the moment at which a connection gets its
client, and every way through that is left in; the theorems about the module are for every
interleaving. `reorg` does not check for deadlock: its chain is bounded, and a walk at
the end of it with nothing left to do rightly stops. All other runs check it.

Each property of a passing run has a faulty variant of one operator beside the operator it
replaces (`FirstCursorFalsy`, `CheckpointBare`, `DropNewest`, ...): a bug of a plausible kind that
the property detects. No action uses them.

### Properties

The types of a module are checked with its first invariant, of which `TypeOK` is a conjunct, or as
part of its `IInv`.

- Ranges. `IInv`: what a walk or a request in flight knows of its row still holds of the row (section
  5). `ClaimsStored`: what `getIndexingStatus` reports is stored, on every untainted row.
  `NoRewind`: with one process, no step makes an unedited row forget walked blocks.
  `SettledStays`: a paused, failed or completed row changes status only by a claim, by the pause
  route, or by its deletion. `AddsDoNotReset`: the loser of two racing adds leaves the winner's
  row alone. `JobsSettle`: liveness.
- Ladder. `IInv`: no span is ever 0, and what was pushed is exactly the window up to the cursor.
  `ImplementsWindow`, `NeverGivesUp`, `FetchSettles`.
- Deep scan. `CursorFound`: what a job claims as walked is found. `DrainingHarmless`: a walk writes
  only to a row with its own bounds. `WalksEnd`. `Slotted`: at most the slots run, and nothing
  waits for a free one. `QueueDrains`.
- Watch. `ImplementsFeed`; `HookTried`: a cursor passes a log only if the endpoint has acknowledged
  it or this very sweep has tried; `CatchesUp`: once nothing fails, cursors reach a head that
  stays, so no tick can be stuck; `IInv`: a cursor never passes a block that was not told.
- Live. `NoHoles`: what a connection has passed it has emitted or left to the feed, and it has emitted
  nothing from before it opened. `EventsInOrder`: the queue holds the newest events, in their order, after
  those written. `LiveIsServed`: a live page has a stream open, and an open stream has asked for a
  handler, has one that does not take the page for gone, or its end is on its way or lost.
  `NoReplacedEndpoint`: a stream that opens while no save is under way polls the saved endpoint, or the
  default one if the last load had failed; only an overtaken load is excepted. `Reaches`: once
  nothing fails, handlers of pages that are gone end, and the tail of any other reaches the head.
- Reorg. `WalkedFinal`: what the walk stores as final by the node's word is on the chain for good, and what
  it stores by the estimate too, unless a reorganisation went deeper than that. `GoodRowsStay`: no
  pass deletes a row whose log is in a finalized block, with the same exception for a pass by the
  estimate. `Drains`: if passes keep coming, every row below both heads is finalized or gone.
- Scans. `Honest`, `NoHoles`, `NoSkips`, `ScansEnd`.
- Sources. `Bounded`: a path looks no address up twice and stays within the cap. `VerdictHonest`:
  "not a contract" is said only of an address without code. `MarksKept`: only requests, remote
  matches and lookups that had read the row before replace a mark, and only requests and such lookups
  a local match that has its source. `NoRevival`: a mark that was removed does not come back.
  `Surfaces`: what is published elsewhere shows here in the end, over a mark too; a local match with its
  source stays.
- Compilers. `Owned`: every live worker is resident, or on its way out, or one whose entry another
  request deleted, and none known to be dead is resident. `InFlightSpared`: no eviction ends a
  thread that compiles. `RequestsEnd`; `Recovers`: a version whose worker died or timed out compiles
  again.

### Fairness

Only steps the code takes by itself are fair, and weakly: `JobStep`, `FetchStep`, `WalkStep` of
`AddressScan`, `SweepStep`, `ServerStep`, `Reloads`, `Arrives`, `Returns`, `PassStep`, `ScanStep`,
`LookupStep`, `RequestEnds`, `LoadStep`, `CompileStep`; and `Age`, because time passes. Every RPC and
database call resolves or rejects in the end (viem requests and webhook posts have timeouts, the scans a
budget, the load of a compiler and a compile a timer), and the event loop runs the continuation.
`TickStep` is fair because the interval fires for ever. `Arrives` and `Returns` are the network: what is
on its way arrives, but a broken connection has lost it. `PassStep` is the steps of a pass that has begun;
no pass is assumed to begin, since none has a timer: one runs at the end of a walk and at a start, so
`Drains` has as its hypothesis that passes come again and again (`PassesCome`). Nothing is assumed of
operators, pages, crashes, boots, the chain or the outcome of a call: a fair step may always be a failure.
Where a property needs that failures stop, it says so itself: `CatchesUp`, `Reaches`, `Drains`, `Surfaces`
and `Recovers` are implications from `<>[][~Faulty]_vars`, and the last two from requests that keep
coming.

## 4. Findings

1. **A deep scan that runs without a walk** (`scan_stranded`, `RunningWalks`). A catch-up between the
   SELECT of a walk and its flip extends the job; the flip compares the status only, the bounds
   then differ, and the walk leaves the row `running` with nothing walking it.

Seen while modelling, and left without a run of their own:

- `updateIndexingRange` refuses only `indexing` rows and keeps status and checkpoint
  (`EventIndexingService.ts:1209`): a completed range that is widened is reported as 100 % indexed
  and can be neither started nor resumed. Without `tainted`, TLC refutes `ClaimsStored` by it.
- A range id minted again: a start has read a row; it is deleted and another range added under the
  same `max + 1` id before the claim. Every write matches by id, so the new range takes the
  checkpoint of a walk over the old window. Without `tainted`, TLC refutes `ClaimsStored` by it too.
- A start whose SELECT rejects keeps its reservation until the process ends
  (`EventIndexingService.ts:1288`): the SELECT stands between the reservation and the `try`.
  `JobsSettle` excepts this path.
- A provider ceiling may rise (`providerCeilings.ts:80`): recording does not compare, against the
  comment in line 18. `ladder_shared` shows that it costs no block.
- Two saves of an endpoint at once may leave the older one configured (`RpcManager.ts:57`): a load that
  read the row before the later save wrote it may end after the load of that save, and `getClient`
  waits for the newest reload only. `NoReplacedEndpoint` excepts such a load; stated for it too, TLC
  refutes it with two savers.
- Finality is an estimate whenever the node answers `getBlock('finalized')` with an error
  (`EventIndexingService.ts:368-377`), also a passing one: the latest block less 64 may lie above the
  finalized head. The comment above it (lines 363-367) says that "an approximate head only changes which
  rows get checked". The walk stamps rows as final by it and nothing checks them again
  (line 1405), and a pass by it may delete a row for a branch that is orphaned later. Both need a
  reorganisation of more than 64 blocks; `WalkedFinal` and `GoodRowsStay` except exactly that, and
  without the exception TLC refutes both.
- No timer runs a reconciliation pass: rows of a contract that nobody indexes any more stay
  unfinalized until the process starts again.
- A page whose connection broke at the server's side only stays `live` without being served until its
  browser reports the loss: the server's heartbeat is a comment, and `liveChain.ts` has no timeout.
- Two reconciliation passes at once may delete a good row (`EventIndexingService.ts:467`): the
  delete is by key, and the row may have been stored again. `reorg` has one pass.
- A row promoted by a receipt keeps its old block number when its transaction was mined again, and
  logs of a new branch in blocks a walk has passed are never read.
- Two scans of one list at once may put an older list under a reader's offset, which then skips a
  row. `chunks` has one handler.
- `lastBlock` of a pair is its oldest sighting within a chunk, against
  `ApprovalScanService.ts:318-320`.
- A hung scan caches an empty answer for a minute.
- A crash between the wipe and the upsert of a replaced deep scan leaves a row that claims findings
  that are gone (`wiped` in `CursorFound`). An await outside the `try` that rejects leaves a row
  `running` until it is paused or the process starts again. A resume that races a force-replace sets
  the new row to `pending` again, and the queue pump drops the start of an address that has a walk.
- Two requests at once may make a deep scan claim findings that are gone: a force-replace wipes
  them while a resume starts a walk that reads the old cursor; the upsert with the same bounds lands
  between that walk's SELECT and its flip, the status and the bounds agree, and the walk checkpoints
  the old cursor (`AddressScanService.ts:1014`, against the comment in line 1007). `scan_walk` has one
  request at a time, and `CursorFoundHolds` names it.
- A provider that rejects even ranges of one block, again and again, sinks the ceiling of a chunk below
  one (`TokenTransferService.ts:483`). The sweep then climbs, may pass its head while a block arrives, and
  records newer logs behind older ones, against "disjoint descending ranges"
  (`ApprovalScanService.ts:500`). With a floor and chunks of one block and twelve calls TLC refutes
  `NoHoles` by it; with the code's floor of 10 and 40 calls it takes 22 calls. `NoHolesHolds` names it.
- Two PUTs at once may exceed the subscription cap (`WatchService.ts`: the count and the insert are
  two statements). A failed delivery is shown until the next sweep that
  delivers: within a sweep a later `ok` does not paint it over, between sweeps it does. An event
  forgotten by the memory of delivered ids is posted again.
- Two processes on one database split the watch feed: the cursor is in the row, the ring in memory.
- The live page passes over block numbers it has seen (`liveChain.ts:155`), those of a new branch
  included, and a base that changes from one backend to another keeps the open stream (`BaseFound`).
- A node behind a load balancer that answers `getLogs` for blocks it has not seen with an empty
  list is believed.
- The TTL of a verified proxy (`ContractSourceService.ts:43-46`, "keep them short-lived even when the
  proxy itself is verified") is never looked at: `isCacheValid` is asked of marks only, so a cached
  proxy keeps its implementation after an upgrade until a Force Refresh.
- A lookup that has read a row before it was marked or locally verified writes `unverified` over it,
  or deletes it when it sees no code (`ContractSourceService.ts:921, 940`), against "sticky local
  annotation" (`verify.ts`); `MarksKept` excepts such a lookup.
  A local match whose first file is empty is saved with `''` (`CompileVerifyService.ts:1312`), is probed
  again by every lookup (`ContractSourceService.ts:887`), and a miss writes `unverified` over it:
  `MarksKept` is stated for local matches that have their source. `deleteManualVerification` may delete
  a row that became a remote match between its read and its delete, against the comment in line 1026,
  and Force Refresh, "non-destructive" in `routes/contracts.ts`, deletes marks and local matches.
- A compiler's worker that ends by itself does not count as dead (`CompileVerifyService.ts:697`,
  against line 1207): requests that reach it wait for the hard timeout before the version recovers.
- A request deletes the entry of its version, whichever worker it holds by then
  (`CompileVerifyService.ts:1067, 1210`): a live worker may stay outside the cap (`lost`).
- Two loads of one version share a temporary file (`CompileVerifyService.ts:1140`): one may rename what
  the other is still writing, and a partial build is then taken as it is, against line 1102.
- A request whose load was evicted finds its worker disposed and fails; when more versions are
  asked for than there are places, loads may evict each other for ever. `Recovers` has one version.

One behaviour is deliberate and only noted: reconciliation leaves a row written within the last two
minutes alone (it may belong to another process), so after a quick restart a range stays `indexing`;
it can be started all the same.

## 5. Proofs

Assumptions on the constants, each named in the module that declares them: sizes are naturals and
those the code has positive are positive (a batch, a chunk, a cap); handlers have a home and requests
are frames (`ActorsAssumption`); the transactions of `EventReorg`, the addresses of `AddressScan` and
the logs of `ChunkScan` are finitely many, the latter with at most one at a place of a block; so are
the requests of `Compilers`, whose names for workers are at least as many as its cap and them; balances
are honest (`HonestBalances`, the code's own assumption); `None` is no address, connection or endpoint.
Processes, handlers, walks, windows, caps, addresses, graphs of proxies, depths and faults are
arbitrary.

Five theorems need a hypothesis that is not one of these, and it stands in their statement. Each is
there because TLC refutes the property without it (section 4):

| Hypothesis | Theorems | Without it |
|---|---|---|
| `OneProcess` | `NoRewindHolds` | two walks of one range, the slower one writes the older checkpoint |
| `OnePass` | `GoodRowsStayHolds` | a second pass deletes by key a row that was stored again |
| `OneRequest` | `CursorFoundHolds`, `NoSkipsHolds` | a resume during a force-replace; a scan that puts an older list under a reader's offset |
| `OneBlockTaken` | `NoHolesHolds` (ChunkScan), `NoSkipsHolds` | the provider rejects ranges of one block until the chunk is negative |

All but the last say that a set of actors has one member. `OneBlockTaken` is an action formula: a
range is rejected only when it has more than one block. A provider that enforces a cap on ranges, the
reason for the ladder, meets it. It is tighter than what the code with its floor of 10 and its 40 calls
needs; see section 4 for how many rejections it takes.

### EventRanges

**`TypeCorrect`.** `TypeOK` is not inductive: `StepCursor` moves the cursor by a batch, so its range
needs `CursorOK`, that a cursor is within one batch of its window on the side it comes from and a
batch is stored only before exhaustion; and `AddInsert` puts a request's direction into a row, so
`AddsHaveDirection`. `TypeInv` is the three together.

**`ClaimsStoredAlways`.** `ClaimsStored` talks of rows and says nothing of the walk about to write
one. `Sound` adds it. `RowSound`: a row is within the chain and its checkpoint, or its whole window
when completed, is stored. `JobSound`: a walk that is not stale has its row's frame, and everything it
may still write is stored: the checkpoint it read, the last covered block, and all blocks behind its
cursor (`Behind`), which at exhaustion is the whole window. `ReqSound`: an add is within the chain,
which is why the clamp matters, and a flip that is not stale completes a stored window. One lemma per
action shows that `IInv` is preserved; edits and deletions re-establish it by making others stale.

**`SettledStaysHolds`, `AddsDoNotResetHolds`.** Both are read off one lemma, `RowStep`: a step leaves a
row alone, claims it, moves its checkpoint while it is `indexing`, settles it, or is an edit, an add
that found the row absent, or a delete.

**`NoRewindHolds`.** A walk compares no checkpoint when it writes one, so the invariant `AllAhead` says
what every walk would leave: its blocks cover what its row has walked (`Reach`), and the cursor has left
the checkpoint it would write (`Past`), in both directions and at block 0. It is kept because the
process has one walk per range.

### LogFetch

`IInv`, which its run checks too, is `TypeOK`, `Prefix` and `Narrow` (a window is at most a batch, so
its length is a span). `StepInv` preserves it by an argument on one walk's record (`FetchInv`). From
it: `TypeCorrect`; `Implementation`, where `StepMaps` maps `Begin`, `Finish`, `NoClient` and `GiveUp`,
`Return` and `Restart` to the abstract steps and everything else to a stutter; and `ServedUnderCap`,
that when `MinSpan <= ProviderCap` and there is no noise no fetch with a client gives up, from
`FloorServed`.

### WatchSweeps

`TypeCorrect` first: `TypeOK` is inductive, and the memory of delivered ids is a sequence that never
grows past its cap (`RememberTyped`). `Implementation` needs to know what a sweep in flight may write.
`IInv`, which its run checks too, adds `Quiet`, no sweep is under way outside a tick, and `RowInv`: a
row with a cursor is there and told up to it (`KeptOf`); its cursor is the one its sweep has read,
unless the row is new and has none (`CurrentOf`), which is why putting a subscription again under a
sweep is harmless; and what a sweep is about to pass has been told, while a baseline only moves the
cursor back (`AheadOf`). One lemma per kind of step preserves it (`OwnSweep`, `Others`, `RequestRow`),
and `SweepFeeds` and `RequestFeeds` map `Publish` to `Tell`, `WriteCursor` to `Begin` or `Pass`,
`Delete` to `End` and everything else to a stutter.

**`HookTriedHolds`.** `HookInv`: everything in the memory of delivered ids was acknowledged, so
skipping it is harmless, and the logs a sweep has scanned are acknowledged, tried or left to be tried,
with none left once its cursor is due.

### EventReorg

**`WalkedFinalHolds`.** `Heard` is what finality was when a block was taken for final: at or below the
finalized head, or the estimate from the highest head there was; an estimate `Counts` until a
reorganisation goes deeper. `WalkInv`: the head a walk goes by is heard, so while it counts the logs of
a batch at or below it are where the chain has them, and every row the walk stamped was heard final and,
while that counts, is on the chain. `SettledPlaces` is the chain's part: what is at or below the
finalized head, or below every estimate that counts, does not move. Had the head been read after the
logs, `BatchHolds` would not be kept by `Reorg`.

**`GoodRowsStayHolds`.** `Doomed`: the rows a pass is still to ask about are stored at or below its
head, and a row it is about to delete is, while that head counts, nowhere at or below it, where no
reorganisation can put it back.

### AddressScan

**`SlottedHolds`, `DrainingHarmlessHolds`.** `ScanInv` adds to `Slotted` that a walk which has seen its
bounds in a running row still has them while the row runs (`WalkOK`). The pump is one step that starts
any number of walks; `PumpEndIs` says that it ends, with the slots full or the queue empty, which takes
finite addresses and the lemmas on queues without repetition.

**`CursorFoundHolds`.** `FoundInv` must say what a walk that lost its row may still store. `RowFound` is
the property. `WalkFound`: a walk that may still write a cursor (`Stores`; an aborted one that has not
begun a segment writes none) has stored what lies behind it, and between its cursor and the change it
has found there is nothing. `RequestFound`: a request about to wipe or to write the row has stopped the
walk and withdrawn a queued start. The search for the first change is a function by recursion on the
width of a segment; `SearchIs` shows that it exists and `FirstChangeIs` what it finds, by a least
counterexample.

### LiveChain

**`NoHolesHolds`, `EventsInOrderHolds`, `LiveIsServedHolds`.** `TailOK`: all blocks from where the tail
started up to the last one, and, in a catch-up, up to the one it is at, are done or left to the feed, and
all are above the lowest head since the connection opened. `QueueOK`: the queue of a connection that
listens is the end of what was published, after what was written. `PageInv` relates the two ends: a
server that has heard of the page's leaving has heard it from the page, or the connection broke; and a
page whose stream is open has a request on the way, a handler that serves it, an end on the way, or a
connection that broke.

**`NoReplacedEndpointHolds`.** `Stands` says what a load of each kind leaves: one that read, the table's
endpoint; one that failed, the default; one that was overtaken, anything. `Current`: a load under way has
read accordingly; while no save is under way the configuration is what the last load left; and a client was
created from it. It holds for any number of savers, as each save turns the loads it overtakes `late`.

### ContractSources

`SourcesInv` describes the stack of frames of each lookup: no address twice and no more than the cap
(`StackOK`, for `BoundedHolds`); a frame on the path of a miss has read neither a mark nor a local match
with its source (`Probed`, `FrameOK`, for `MarksKeptHolds` and `NoRevivalHolds`); a lookup of an address
with code is not about to say that it has none (`ReqOK`, for `VerdictHonestHolds`). The recursion is a
sequence, so a proxy may point anywhere, itself included.

### Compilers

The theorems are the second half of `ContractSources_proofs`. `PoolInv` relates the four views of a runner: the
cache holds a version once, and only runners that load or are ready and nobody has given up (`Sound`);
a request waits on a load or is on a runner that is ready, one that compiles on none that was disposed
(`CompileOK`); a load has a request that waits for it, and a load or a live runner is resident, given
up by an eviction that waits, or lost (`Held`); and a worker that was not forgotten is resident or has
a request (`Needed`). The last is a claim about the code too, that no load is orphaned. A step that
makes a resident runner dead breaks `Sound` until its entry is deleted within the same step
(`Nearly`, `DeletesKeeps`). **`OwnedHolds`** and **`InFlightSparedHolds`** follow.

### ChunkScan

The model sorts by rank (`Rank`, how many logs come before one), which says the same as the code's
comparison and can be reasoned about: `SortedIs` and its neighbours give order, members and length.

**`HonestHolds`.** `HonestInv`: a sweep has all logs of its window above the blocks it has still to
visit (`Collected`), unless it has cut or failed; every answer and every cache entry is `Truthful`.

**`NoHolesHolds`.** `OrderInv`: a sweep descends (`Steady`: chunk and ceiling are at least 1, it has
not left its window by more than a block); the transfers it has found reach up to its head without a
hole (`Heap`); the history of approvals is in order, has no hole, lies above what is still to be swept,
and is cut only when it is full (`Tidy`, over the flush of a step with two merged queries).

**`NoSkipsHolds`.** `PageInv`: a reader has seen, of the list it last got a page of, everything up to
the head of its first page that ranks before the next offset (`Pages`); no cached list and no scan is
older than the reader's last. A later head only moves a log to a higher rank (`RankGrows`), so the next
page repeats rows and skips none.

### Only model-checked

Liveness everywhere (`JobsSettle`, `FetchSettles`, `WalksEnd`, `QueueDrains`, `CatchesUp`, `Reaches`,
`Drains`, `ScansEnd`, `Surfaces`, `RequestsEnd`, `Recovers`): it rests on fairness and `ENABLED`, out of
the prover's reach. Every safety property and action property of a run is a theorem.

## 6. Plan

Done: the range jobs; the ladder and the watch sweeps with their refinements; the deep scan; the
reorganisations; the endpoint, stream and page; the two chunk scans; contract sources; all with proofs
of their safety properties; the compilers of local verification, proved too. What is left, in this order:

1. A promise of the chunk scans, in the way of `Feed`, and that `ChunkScan` implements it.
2. The rate limiter and the caches with in-flight deduplication.

## 7. Not modelled

Event queries and statistics read and shape. The quick-create modes compute bounds and then call the
add that is modelled. Response bodies, argument parsing and ABI resolution are left out. The DuckDB
adapter rewrites statements for a third-party engine; the modules take one statement to be atomic
and assume no order between two. The submission to Sourcify is one HTTP exchange; of the local
verification, the list of versions and the comparison of bytecode are left out, of the sources the
search for a contract's creation. The views of the browser client, most of the repository's lines,
shape answers and keep React state; the command line and packaging are sequential file and process
I/O. The deep scan is modelled for one process: the development bridge may run a second one on the
same database. Custom chain registration, the label seeds and the endpoint probe of the RPC manager
are left out, as is the row cap of the approvals' current values. `PROJECT.json` lists every
component with its reason.
