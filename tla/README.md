# aztec-butler in TLA+

aztec-butler watches the attesters, publishers and staking rewards of an Aztec
node operator. It is a TypeScript program with three long-running services
(server, agent, sheets exporter) and a set of one-shot commands. This
directory holds TLA+ models of its stateful parts, TLC configurations that
check them on small instances, and TLAPS proofs of theorems that hold for
every value of the constants. Paths below are relative to `src/src/` of the
repository unless they name another directory.

    tlc -workers 2 -config SafeRuns.cfg MCSafeProposals    # one run
    tlapm SafeProposals_proofs.tla                         # one proof module

`PROJECT.json` lists every run with its module and configuration, maps every
definition to the lines it models, and gives, for each property, a plausible
mistake in the code that breaks it.

## 1. Inventory

### The parts and how they interact

The **server** (`server/`) runs, per network, a set of scrapers on timers under
one `ScraperManager`. The scrapers write a shared in-memory state
(`server/state/index.ts`); metrics read it, handlers are called back when it
changes, and debounced timers write parts of it to JSON files that the next
process loads. A file watcher makes a reloader replace the keys of a running
server. Everything runs on one JavaScript thread: code between two awaits is
atomic, and every await lets any other actor run.

The **sheets exporter** (`sheets-exporter/`) is a service of its own: a timer
starts a catch-up run that reads historical balances, writes two tabs of a
spreadsheet and moves a cursor file forward. An operator can stop it and run a
backfill.

The **agent** (`agent/`) runs next to a validator: it loads the keys files of its
host, derives each key's stage from the chain of the moment and exports gauges.
It writes one file, the coinbase cache, which commands write too. The
**command line** (`cli/`) is a collection of sequential programs that hand files
to each other and to the services.

Two modules belong to no component. `Selection` has the one operator that
several components share, a sequence without what is not wanted (`Kept`).
`Prefixes` has the lemmas about it and about recursion over the prefixes of a
sequence, which most of the proofs below rest on.

| component | state | operations | what is hard | module |
|---|---|---|---|---|
| attester tracking: `rollup-scraper`, `staking-provider-scraper`, `state/transitions`, `state/index` | per attester a stage and an on-chain view; the provider's queue; a file | read a view per attester, read the queue, one transition per attester, reload, debounced save, load | two scrapers and the reloader interleave at every await; a failed read looks like "unknown"; the file lags memory by five seconds | `AttesterTracking` |
| Safe proposals: `SafeGlobalClient`, `publisher-top-up-handler`, `publisher-scraper` | promise chain of proposals, list of pending transactions | scrape balances, propose, check for a duplicate, poll the list | the list is stale by design; fetches overlap; the nonce is read before the proposal is sent; answers get lost | `SafeProposals` |
| staking rewards history: `staking-rewards-scraper`, `state/index` | hourly snapshots, their file, a split cache | live scrape, backfill, purge, save, load | the backfill is not awaited and runs beside the live scrape; the purge and the refill are separate | `RewardsHistory` |
| sheets ledger: `sheets-exporter/*`, `rewards-ledger` | two tabs, cursor file | catch up day by day, splice, overwrite, backfill | no transaction spans tabs and cursor; requests fail after taking effect; balance reads fail as zero | `SheetsLedger`, `DailyLedger` |
| keys watcher and reloader: `file-watcher`, `config-reloader`, `keysFileOperations` | lists of attesters and publishers, a busy flag, timers | watch, read and merge the files, apply | a reload that comes while one runs is dropped; files change between two reads of one reload | `KeysReload` |
| scraper manager and server lifecycle: `scraper-manager`, `server/index` | busy, enabled and interval of every scraper, what the shutdown must stop | load, initialise, init, start, tick, shutdown | failed networks and inits; runs that hang; runs in flight at shutdown | `ServerLifecycle` |
| agent: `agent/*` | one entry per key and per publisher, shared by five scrapers | refresh, status, balances, arrival, global figures | entries are dropped and re-added while another scraper waits with a reference to one | `AgentScrapers` |
| coinbase scraper: `CoinbaseScraper` | cache of mappings with its last block | incremental, full and ranged scrape, merge | several processes on one file; a cache built for another attester list | `CoinbaseCache` |
| operators' commands: `cli/commands/*` | files, secrets, proposals they leave behind | store, generate and add keys, prepare files, fill coinbases, claim | a command dies between two requests and is run again; two operators at once | `SecretUpload`, `CoinbaseCache`, `OperatorWorkflow` |
| RPC retry and limiter: `rpc-retry` | next free slot, attempts | run with backoff | callers that wait for the same slot | none |
| host scraper, entry-queue figures, metrics, configuration, clients, printing commands | none that outlives a call, or the last result | | wording, I/O, parsing | none |

### What makes each part correct

* Attester tracking: no recorded stage was never reached; a failed or late
  read never ends an ACTIVE attester; memory and file differ only for a reason;
  once the chain is quiet the record becomes right.
* Safe proposals: pending top-ups never conflict and never leave a nonce gap; a
  known one is not proposed again; a low publisher does get one.
* Rewards history: a snapshot names the split of its own block; every hour has
  one; the backfill's cache never outlives it.
* Sheets ledger: a ledger that only grows, by one row per day in both tabs,
  whatever fails and wherever the process dies; the accrued amounts add up to the
  balance and the claims; it catches up.
* Keys reloader: the lists in use are what the directory means, and a failed
  reload does not block the next.
* Server: a scraper never runs twice at once and keeps running when others
  hang; one network's errors stay with it; a signal ends the process and nothing
  starts after it; statistics reach their file.
* Agent: a run leaves no entry behind although entries come and go under it; a
  scan of the entry queue finds everybody; the gauges become right.
* Commands: keys are stored before anything relies on them; a rerun completes
  what a dead command began and adds nothing else; cache and keys files stay sound;
  the search for split contracts misses none it promises to find.

`hazards` in `PROJECT.json` lists, line by line, where each of these could go
wrong and which property watches it, or that none does.

## 2. The models

### AttesterLifecycle and AttesterTracking

`AttesterLifecycle` holds the pure decisions: the transition table of
`server/state/transitions.ts` and the agent's `deriveLifecycleState`. A view is
one of five values, the ones the decisions tell apart.

`AttesterTracking` is one network. The chain moves each attester through
registration, the provider's queue, the entry queue, validation and exit, and
may take it back. The actors:

| actor | actions | code |
|---|---|---|
| rollup scraper | `RollupStart`, `RollupRead`, `RollupReadFails`, `RollupApply` | `scrape`, one `getAttesterView` per await, `updateAttesterOnChainView` |
| provider scraper | `ProviderRead`, `ProviderReadSkips`, `ProviderApply`, `ProcessAttester` | `getProviderQueue`, `updateStakingProviderData`, `manageAttesterStates` |
| reloader | `Reload` | `ConfigReloader.reload` as far as attesters go |
| file | `SaveSucceeds`, `SaveFails`, `Die`, `Start` | the save timer, `initializeNetwork` |

A value read and not yet applied is a variable of its own (`fetched`,
`providerRead`), so the chain, the configuration and the other scraper move
between the read and the use. A JavaScript `Map` iteration visits keys added
during it: `AlsoProcess`. `reached` is a history variable used by the
properties only.

Simplifications: `getProviderQueue` is one read although it is a call per
index; reading is not the hazard, the answer's age and its missing entries are,
and both are there. The write of the file is one step with three results: done,
failed, or torn.

### SheetsLedger and DailyLedger

One coinbase stands for all; days count from genesis; a tab is the sequence of its
rows. A run of the service is a small program counter in `runs[r]`: compute a day and
mark it in the cursor, put the ledger tab, put the totals tab, commit. An overwrite is
two requests (`Put`, `ClearTail`), as in `sheet-writer.ts`, and a splice reads, merges
and overwrites; its read and its put are one step because only overlapping runs could
tell them apart. A failed balance read counts as zero, as `rewards-ledger.ts` has it.
Both tabs exist: that `readSheet` takes an answer of 400 or 404 for an empty tab
(`sheet-writer.ts:108`) is left out. `RunFails` stops a run before or, seen from the
step after, after a request took effect.

Every run estimates its boundaries anew (`EndBlock`, the code's `estimateBlock`):
it counts back from its newest block as if every slot since had had one, and stops
at the floor block, block 0. The chain (`NewBlock`, external) leaves out slots, as
many as `MaxMissed` in all, and a run keeps in `lost` how many had been missed when
it began. An estimate is therefore off by the slots missed since the boundary, which
differs from boundary to boundary and from run to run. On a cold start the first
days may all end at the floor block, and after missed slots an estimate may lie
before the block the cursor ends at; `Claims` then is zero, as `scanClaims` returns
nothing. The upper clamp never applies, since a complete day ends before the newest
block.

Two observers restrict the claims: `intact` (no backfill has died between its
writes, which `ledger_duplicate` shows to matter) and `seamless` (every committed
period starts where the last one ended, and none ends before it starts). A ranged
backfill opens at a re-read balance and ends being `seamless`; so does an estimate
behind the cursor, after which `NoDrift` does not hold: the claims between the two
blocks are counted twice. An
operator's ranged backfill is assumed to correct days already in both tabs
(`Correcting`), which is what `docs/sheets-exporter.md` offers it for.

`DailyLedger` is what all this promises, in one step a day: `Record` appends the next
day, whose accrued amount is the difference of two recorded balances and the claims
between their blocks, none if the period ends before it starts. A ledger is `settled`
while its owner vouches for it; `Unsettle` and `Settle` begin and end a time in which
nothing is promised. `SheetsLedger` maps to it once per tab (`LedgerTab`,
`TotalsTab`): the abstract rows are those of days up to the cursor's boundary
(`SettledRows`), so that a mark, a request that took effect without an answer, a
splice, a tail not yet cleared and a repair are stutters and only the commit of the
cursor is `Record`. Unsettled are a cold start, a running backfill, one that died
half-way and a torn cursor. `ImplementsDailyLedger` is the refinement for both tabs;
it is a safety property, the progress it does not give is `CatchesUp`.

### SafeProposals

The scrape (`ScrapeStart`, `ScrapeRead`, `ScrapeUpdate`), the proposal queue
(`Check`, `ReadNonce`, `Submit`), the poller (`FetchStart`, `FetchApply`) and the
owners (`Execute`, `Reject`) interleave freely; the transaction service and the
chain are external and modelled by what the client relies on: the service's next
nonce is above every pending one and not used on chain. Only addresses spelled
as the service spells them are recognised as pending: `Checksummed`.
`MaxUnfinished` bounds, publisher by publisher, how many unfinished requests there
are; the guard sits where a balance is classified, so that a full queue postpones
a proposal and never loses one.

### RewardsHistory

The chain adds blocks and may change splits; `LiveStart` to `LiveRecord` are one
live scrape, coinbase by coinbase; `BackfillBegin`, `Prefetch`, `Purge`,
`FillHour`, `BackfillEnd` are the backfill; both read splits through
`SplitSeen`, which is the shared `splitHistoryCache`. One hour of the backfill is
one step: nothing it reads changes while it runs. The initial file is empty or what the version
before this one wrote (all hours attributed with the latest split known then), which
is what the purge is there for.

Only split events from the start block on are read, and a contract may be older than
that: `split` has an index -1 for what was before, `Changes` is the blocks of the events
that are read (its creation, if that is one of them, and each update), and `Known` is
what they tell: no split (`NoSplit`) for an older
contract that has not changed since. The purge (`Outdated`) needs two events. Before
a contract exists its coinbase may be left out of a scrape (`MayLeaveOut`): the test is
`getCode` against `"0x"`, and a client that answers `undefined` passes it. An update
to the allocation that is already in force is not among the model's events.

### KeysReload

One network's keys files and the lists a running server derives from them.

| actor | actions | code |
|---|---|---|
| operator | `Write` (replace, remove, break a file) | outside the program |
| loading, at boot and on reload | `List`, `ReadFile`, `ReadUnusable`, `ReadFails` | `discoverKeysFiles`, `loadAndMergeKeysFiles`, one file per await |
| boot | `BootLoaded`, `NodeInfoAnswers`, `NodeInfoThrows`, `Restart` | `initializeNetwork` |
| watcher | `FirstScan`, `Notice` and the timers | `file-watcher.ts`: polling, a one-second delay per event |
| reloader | `ReloadStarts`, `ReloadRefused`, `ReloadEmpty`, `ReloadApplies` | `ConfigReloader.reload` with its `isReloading` flag |

The merge (`MergeFile`) is the code's: the last file wins for an attester's coinbase,
the first one names a publisher's server, every mention counts. Its two loops are
recursive functions over the validators of a file and the publishers of a validator
(`MergeFile`, `AddPublishers`), and `Put` is `Map.set`: an entry of that key is
replaced. `Meaning` says the same of a directory without reading anything in order,
place by place and naming by naming (a publisher that a validator names twice counts
twice), and is the reference for runs and proofs. Two observers say which changes the
code gives up on: `dropped` collects files whose change was refused by a running
reload, came before the watcher's first look, or was lost with a failed load, until a
later load reads them (`covers`). `FollowsDirectory` and `CatchesUp` promise nothing
while `dropped` is not empty; that such changes exist is the code's choice and listed
among the hazards.

### ServerLifecycle

The whole process: `LoadConfigs`, then for each network in turn
`NetworkReadsFail` or `NetworkRegisters` and, if Safe proposals are on,
`SafeReady` or `SafeFails`; `StartInit`, `InitScraper`, `InitScraperFails`,
`StartScrapers`; `Tick`, `RunFails`, `RunSucceeds` for every scraper;
`EntryQueueScraped`, `SaveStarts`, `SaveEnds` and `SaveFails` for the one file kept
here; `SignalKills` (before the handlers are there), `Signal`, `StopScrapers`, `Exit`,
`Crash`, `Restart`.

The timer of a save starts a write that nobody awaits (`SaveStarts`) and is free at
once for the next scrape's statistics. The write ends well or fails, is then logged
and not tried again, and may have torn the file; a process that ends or dies during
it leaves the old file or a torn one (`LeaveFiles`), which loads as nothing. Two writes
of one network do not overlap: the scrapes that lead to them are ten minutes apart.

`MaxScrapes` bounds, network by network, how often statistics are taken; it is a
bound of the guard of `EntryQueueScraped` and of nothing else. The networks still
to be initialised are those of the configured order whose configuration could be
loaded (`Kept`).

A run is abstracted to its span and to whether it ends well; what runs do to
shared state is the subject of the other modules, which rely on
`OneRunAtATime`. Runs may hang for ever. Signals arrive at any step, a second one
included.

### AgentScrapers

Five scrapers on one state: `local_keys` alone adds and drops entries;
`local_status`, `publisher_balances` and `entry_queue_eta` enrich those they find;
`global_stats` reads the chain-wide queues. Each is a run record that is `None`
while idle and one action per await; `Edit` and `Move` change files and chain
in between. The code keeps JavaScript references to entries across awaits, so an
entry has an identity (`object`): a run that took an entry before `local_keys`
dropped and re-added it writes into an object nobody reads. `Attached` says whether
a reference is still in the map. The observer `stale` in a run collects the entries
it has still to reach.

Simplifications: a few adjacent reads of one run are one step, here and in
`KeysReload`, so that files and chain change before or after them but not between
them; `readdir` answers in one order; `ScraperSets` says which
scrapers are scheduled together, and `--once` has all of them in their order; the
rewards scraper meets the others only in the coinbase cache and is in
`CoinbaseCache`.

### OperatorWorld, SecretUpload, CoinbaseCache and OperatorWorkflow

`OperatorWorld` has what the commands share: provider queues, staking events, the
files one command leaves to another, whether the signers' URLs are configured (`urls`,
from the optional `WEB3SIGNER_URLS`), the bounds. On it stand two components that do
not see each other's variables, and `OperatorWorkflow` composes them:

* `SecretUpload`: `process-private-keys`, `new-publisher-keys` and `get-add-keys`,
  request by request (looking for a secret, creating it, adding a version, telling the
  signers to reload, checking the queues, writing the file, proposing chunk by chunk).
  Without URLs no signer is told and the command goes on. A command may die at each
  request and be given again, and two operators may run two commands at once;
  `overlapped` remembers that they did.
* `CoinbaseCache`: the scrape (load, events of a range, merge, save) by
  `scrape-coinbases` in its modes and by the agent, the update of a keys file,
  `fill-coinbases`, and `evaluate-claim-rewards` with its search for split
  contracts in ranges of blocks and its decision which calls to propose.
  `TearCache` is a process that dies while it writes the cache. `covered` is an
  observer: the attesters every scrape behind this cache asked for.
* `OperatorWorkflow`: `prepare-deployment` (`PrepareStarts`, `PrepareWrites`),
  `Deploy`, the Safe's owners (`Execute`) and staking (`Stake`).

Simplifications: listing the secrets is one answer; a write of the cache is atomic
except for `TearCache`; the keys files of `UpdateFile`, `FillWrites` and `PrepareWrites`
are atomic too, although the code writes them in place: a torn one is no JSON, names
nobody, and the command that reads it next refuses it, so that no property tells it from
a file that was not written. `PrepareStarts` asks for publishers that `new-publisher-keys`
has written down where the code asks for those with a balance
(`prepare-deployment.ts:207-215`), it has its awaited reads in one step, and its
`--registry olla` (34-42, 301-302), which gives every attester one configured
coinbase, is left out. In `ProposeClaims` and `Gas` the gas estimates of the calls for
one coinbase succeed or fail together. The agent's start block is not later than the first
staking, which is how it is configured; Safe proposals are enabled; the reads of
`getLatestSplits` are one step per search; addresses are compared without case,
as the commands do. `Situations` gives what a behaviour starts from and which
commands are given in it, so that commands meet the ones they share files with;
unrelated commands do not multiply the states.

## 3. Runs

| run | bounds | shows |
|---|---|---|
| `tracking_runs` | 1 attester, key files with and without it, 3 chain moves, 1 failure, 1 death | `Provenance`, `NoLostSave`, `ActiveLostOnlyIfLeft`, `SettlesActive`, `SettlesExited` hold |
| `ledger_runs` | 3 days, 2 slots a day, up to 3 slots without a block, 3 faults, 2 backfills | one row per day, no drift, the refinement of `DailyLedger`, it catches up |
| `ledger_duplicate` | 3 days, 2 faults, 1 backfill | violated: a day twice after an interrupted backfill |
| `safe_runs` | 2 publishers (one not spelled as the service spells it), up to 2 unfinished requests, 2 overlapping fetches, 1 further low spell, 1 fault | `NoNonceConflict`, `Executable`, `KnownIsNotRepeated`, `LowReachesOwners` hold |
| `safe_burst` | 1 publisher, no fault | violated: two pending top-ups for one publisher |
| `rewards_runs` | 3 blocks, 2 splits, a split contract that exists before the start block or is created since, or not at all, 2 faults, giving up after 2 unavailable hours (3 in the code) | attribution, the file and the cache's end hold |
| `rewards_gaps` | 4 blocks, no fault | violated: an hour without a snapshot |
| `keys_runs` | 2 files that disagree, 3 writes, 1 failed read, 1 restart | `FollowsDirectory`, `CatchesUp` hold |
| `server_runs` | 2 networks under every combination of Safe settings, 2 kinds of scraper, 2 faults, 2 statistics of one network and none of the other, 1 restart, after a crash or a shutdown | no overlap, progress beside hanging runs, isolation, shutdown, statistics saved |
| `server_skipped` | 2 networks, 1 kind, no fault | violated: a skipped network is scraped |
| `agent_runs` | 2 own attesters and a foreign one, 1 publisher, 2 registries, 1 edit, 1 move, 1 failed read | `EveryEntryIsReached`, `ScanIsExact`, `Converges` hold |
| `operator_runs` | 2 operators, 2 attesters, 2 publishers, 2 servers, with and without URLs of the signers, 3 commands, 3 staking events, 1 fault | stored before used, reruns add nothing, cache and files sound, claims find splits |

Each passing run except `agent_runs` checks its module's type invariant too.

### Why these bounds are enough

*Tracking*: attesters meet only through the order in which one scraper serves
them and through the file, which is written whole; one attester sees every
interleaving of its own reads and transitions, and the proofs cover any set of
attesters. Three moves reach an exit from any of the three starting phases; one
death with a torn or lagging file puts each of them behind an old answer.

*Ledger*: three days let a run work on a backlog, repair its first day, and have a
committed day before it. Three faults let a crash follow a lost answer and hit the
repair; two backfills let one follow one that died. With the floor
block in the second of two slots, one missed slot puts the boundary of day 1 at the
floor, and three put that of day 2 there too, or behind the block of a cursor that an
earlier run has left.

*Safe*: two overlapping fetches give an older answer applied after a newer one;
two publishers give a queue in which one waits for the other's nonce.

*Rewards*: three blocks may hold up to three events of one contract, so that there are
contracts with none, one and more than one, and a purge with an hour before, an hour
between and an hour after; `MAX_CONSECUTIVE_ERRORS` is set to 2, so that two faults reach
the give-up. The gap needs a fourth block.

*Keys*: three writes give one change before the watcher looks, one while a file
is being read and one after it was read; two files disagree on a coinbase and share
a publisher.

*Server*: a network before and one after the one that fails; two scrapers, one of
which may hang. Two statistics give one that comes in while the other is being
written; two faults a failed write beside a failed boot step, or two failed writes.
Scrapers share nothing here but the manager's loop.

*Agent*: the two writers of one entry (`local_keys` and one other) meet in
every order; the other scrapers write other fields of it. Three entries in the queue
are enough for a scan that stops early and one that must go on.

*Operators*: two commands under way and a third that finds what they left; the
sharing of files is pairwise. Three staking events are an event before a scrape, one
during and one after.

### Fairness and deadlock

Fairness says only that timers fire again and calls return: `setInterval` repeats
every scraper and poll, every client call has a timeout or an error path, and
the service manager restarts a process that ended. It never says that a call
succeeds: failures are bounded by a constant instead. Owners and operators
(executing, rejecting, writing keys files, giving commands) are under no fairness.
In `ServerLifecycle` neither a run nor a write is assumed to end: that a scraper's own runs end
is the premise of `KeepsScraping` for that scraper only. In `AgentScrapers` each
scraper goes on by itself, world and operators never have to. The operator modules
have no fairness and no liveness: nobody has to run a command.

Deadlock is checked in the ledger, Safe and rewards runs. It is off where the
model may really stop because its bounds or its actors allow it: the chain out of
moves and the process dead for good, a network skipped at boot, a server that
exited, commands used up.

### Findings

1. `ledger_duplicate`: a backfill writes its cursor last; interrupted, it leaves
   rows that the older cursor does not know, and the service appends them again.
2. `safe_burst`: `inFlightKeys`, the burst protection, is never filled, so two
   scrapes between two polls propose the same top-up twice.
3. `rewards_gaps`: an hour is filled from a block that is dated in the hour before;
   the index of filled hours is rebuilt from those dates, so a purge reopens the
   wrong hour and one hour stays empty.
4. `server_skipped`: a network is "skipped" after an error with its Safe settings,
   but by then its scrapers are registered, and they run.

Where code and prose disagree without a run of its own:

* The top-level `README.md:79` calls NO_LONGER_ACTIVE a terminal state of a
  "withdrawn or slashed" attester. The table takes it back to ACTIVE on a VALIDATING
  view, and it is also recorded for an attester that was never registered, because a
  view of zeros is taken for an exit.
* The comment at `server/scrapers/staking-rewards-scraper.ts:60` keeps the split
  cache to the backfill; a live scrape that runs beside it reads it too. The theorem
  `OutdatedSplitsAreGone` shows why this does no lasting harm.
* The comment at `core/components/rewards-ledger.ts:68` calls the accrued amounts
  "exact regardless of claim timing or migration". They are not when an estimate falls
  behind the cursor's block: without `seamless`, `NoDrift` is violated.
* The comment at `server/scrapers/staking-rewards-scraper.ts:514` has coinbases "with a
  single (or zero) split version" as correct from the start. For a contract older than the
  start block one event in range is its second version; the hours before it are not
  purged, and a new snapshot of such an hour would name no split (`Known`).
* `isCoinbaseDeployed` (`server/scrapers/staking-rewards-scraper.ts:718`) compares code
  with `"0x"`, but viem answers `undefined` for an address without any.
* `plan-multi-network/kb-butler-architecture.md:162` (in the repository's root) calls
  keys files hot-reloaded; publishers of a reload are reported and not scraped until a
  restart (`server/state/index.ts:1333`).
* A fallback coinbase that `prepare-deployment` fills in is an existing one for
  `fill-coinbases`, which never replaces it (top-level `README.md:271` speaks of
  filling in the real ones); `prepare-deployment` (`cli/commands/prepare-deployment.ts:439`)
  suggests `fill-coinbases` for a file that `cli/commands/fill-coinbases.ts:36` refuses.
* `cli/commands/scrape-coinbases.ts:331` reports an updated cache after a ranged
  scrape, which does not save one.
* `core/components/EthereumClient.ts:1410`: an entry-queue scan passes over an attester
  that moves to an index already read when the queue flushes; its position is then
  cleared until the next run.
* `LedgerDuplicate.cfg` with two `Runs`, no fault and no backfill also violates
  `OneRowPerDayAlways`: a tick that starts during a long run repairs the day that
  run has marked but not written yet.

## 4. Proofs

| module | theorems | assumptions |
|---|---|---|
| `AttesterTracking_proofs` | `TypeCorrect`, `SaveNotLost`, `ProvenanceHolds`, `ActiveIsKept` | bounds are naturals, key files are sets of attesters, the null values are no data |
| `SheetsLedger_proofs` | `LedgerTypeCorrect`, `MarkIsNextDay`; for one run at a time `LedgerHasOneRowPerDay`, `LedgerDoesNotDrift`, `LedgerImplementsDaily` | `LedgerAssumption` |
| `SafeProposals_proofs` | `SafeTypeCorrect`, `NoncesAreUnique`, `TopUpsStayExecutable`, `KnownTopUpsAreNotRepeated` | bounds are naturals, checksummed addresses are publishers, the null value is no set of publishers |
| `RewardsHistory_proofs` | `RewardsTypeCorrect`, `HistoryIsSaved`, `OutdatedSplitsAreGone` | `RewardsAssumption` |
| `KeysReload_proofs` | `KeysTypeCorrect`, `ListsFollowDirectory` | the sort of the paths names each file once, `Absent` and `Broken` are no content, bounds are naturals |
| `ServerLifecycle_proofs` | `ServerTypeCorrect`, `RunsNeverOverlap`, `NothingStartsAfterStop`, `StatsAreSaved` | networks and kinds are listed once each, bounds are naturals, a torn file is no statistics |
| `OperatorWorkflow_proofs` | `WorkflowTypeCorrect`, `KeysAreStored`, `KeysAreStoredOnce`, `CacheStaysExact`, `FilesStaySound`, `ClaimsAlwaysFindSplits` | `WorldAssumption`, `UploadAssumption`, `CacheAssumption`, `WorkflowAssumption` |
| `Prefixes` | lemmas only | none |

With these, every invariant that a passing run checks is a theorem for all values
of the constants, and so are the action properties and the refinement but for the
two of `AgentScrapers`.

**Recursion.** What a recursive function computes for every input needs an
induction over the input, and the library's induction theorems take an operator,
which the installed provers cannot instantiate. `Prefixes` states the induction
with a *set* of good prefix lengths instead (`PrefixInduction`, from the
well-foundedness of < on the naturals), and shows that a recursion over prefixes
defines a function (`PrefixRecursion`). On these rest the lemmas about a ledger's
`Sum`, the merge of keys files, and `Kept`: that it keeps exactly the wanted
elements, in their order, each as often as it was there (`KeptPlaces`,
`KeptElements`). `SelectSeq`, `:>` and `@@` stay out of the prover's reach, which is
why the models use `Kept` and function constructors where a proof needs them.

**Tracking.** `Provenance` is not inductive: a state is derived from a view and a
queue that were read earlier, so whatever is in transit must claim nothing
false either. `HonestInv` therefore says of every view in memory, fetched or on
disk, of every queue read or stored, and of every state on disk that the attester
has been where it says. Since `reached` only grows, an old answer stays true,
which is the argument for applying late answers at all. `ActiveIsKept` needs a
second invariant, `FreshInv`: as long as an attester has not begun to leave, it
keeps validating once it does; an ACTIVE entry, in memory or on disk, carries a
VALIDATING view or none; and once an entry is ACTIVE or has a VALIDATING view,
so does whatever was fetched for it after. That holds because one scraper reads
and applies the views of an attester in the same order and never overlaps itself.

**Ledger.** `LedgerTypeCorrect` and `MarkIsNextDay` hold for any number of
overlapping runs. Besides the cursor they need what each run in flight is about to
write to it (`RunAhead`): the day it works on follows the boundary it opened at, and
once the day is computed, the boundary that closes it is that day's.

The other three theorems are about the rows, and are stated under `OneRun`: one
run in flight at a time. Neither `setInterval` nor the backfill enforces it; it is
what a timer much longer than a run and an operator who stops the service first
amount to, and with two runs TLC finds each of the three violated, without any
fault. The invariant `LInv` says, for every point at which a request can fail or
the process can die, which days each tab has:

* `LedgerDays`: an intact ledger has the days 1 to n, in order, in each tab, though
  not the same n in both;
* `CursorDays`: what the cursor vouches for is in both tabs, and at most the day it
  has marked besides;
* `CursorSums`: the rows up to the committed day add up to its balance and claims;
* `RunSound`: what a run in flight holds agrees with the cursor it read and with how
  far it got: tabs it is done with have the new day, tabs it has still to write have
  it only if the run will splice it, and a half-cleared overwrite has the new rows
  in front and the number of rows there were before in `top`.

Appending keeps this because a day that may be in a tab already is marked, and a
marked day is spliced. `NoDrift` is an instance of `CursorSums`: a row accrues the
difference of the balances at its own two boundaries and the claims between them,
so that a sum of consecutive rows telescopes; a balance that was read as zero
cancels out. Claims telescope only over blocks that ascend (`ClaimsBetween`). Within
one run they do: its estimates are all off by the same missed slots, and the floor
keeps their order (`EndBlocksAscend`). Where a run takes over from a cursor they need not, and
`seamless` says that they did. At genesis nothing has been claimed (`ClaimedBy[0] = 0`), the one
assumption on the rewards that the sum needs. `LedgerImplementsDaily` is the
refinement, step by step: only the commit moves `SettledRows`, by the row the
invariant says is there; a write, a clear or a repair changes no row up to the
cursor (`CommittedStay`).

**Safe.** Uniqueness of nonces holds because only the head of the queue ever
acts: a request that has read its nonce is the first one, nothing else submits
before it, and owners only use up nonces of pending transactions, from below; so
the nonce it holds still fits when it is used. The invariant (`NonceInv`) says this
together with "the pending nonces are an interval that starts at the executed
nonce". `KnownTopUpsAreNotRepeated` is an action property proved from the type
invariant and the fact that the duplicate test stands between a waiting request and
its nonce.

**Rewards.** `OutdatedSplitsAreGone` says that after the purge no snapshot of a
compared coinbase with two events or more, from before the last of them, names another
split than the events tell for its block, although a live scrape records later what it
read through the stale cache. For a contract that was created since the start block
that is the split in force (`KnownIsInForce`). A second event makes the code compare
at all; that two different blocks in a set of events give it cardinality two
(`TwoEvents`) is the library's theorem on finite sets. `PhaseInv` fixes when there is
a cache (from the first prefetch to the end of the backfill) and that, while hours are
filled, what was compared is what the cache says. `LiveInv` is the point: whatever a
live scrape holds either names the split known for its block or comes from a block
after the latest one the backfill knows of, so that recording it after the purge adds
nothing the purge should have removed. That the latest change is the last element of
the known history needs a maximum of a set of blocks, which comes from the
well-foundedness of < on the naturals.

**Keys.** `ListsFollowDirectory` is about two things. That merging file after file
and validator after validator gives what `Meaning` says of the directory at once is
the lemma `SaysAll`, from a step for one publisher, one validator and one file
(`PublisherStep`, `AttesterStep`, `MergeStep`, `FileStep`): a merge that "says" the
places read so far says one place more, because that place comes after all of them.
That the directory does not move under a load is false, and the invariant
`KeysInv` says what is true instead. `ReadInv`: `merged` says what the files read so
far said when each was read, and every one of them still says it or is pending,
that is, seen as changed, under a timer, or dropped; a file that is still to be read
exists or is pending. `UseInv`: the lists in use are what the directory means, or a
load is under way, or the directory is not usable, or some file is pending. The
rest (`ControlInv`, `WatchInv`, `LoadInv`) ties the reloader's flag, the phase of
boot, the timers and the order of the files left to each other. With nothing
pending and no load, only `config = Meaning` is left.

**Server.** `RunsNeverOverlap` relates the closure's flag to the number of runs in
flight (`FlagInv`): the flag is set exactly while a run is. `NothingStartsAfterStop`
adds that no scraper is armed once the manager is shut down (`StopInv`), and
`StatsAreSaved` that statistics the file lacks have an armed timer, are being
written, or were in the last write, which failed (`SaveInv`). Its second part is what makes
this inductive: while older statistics are being written, the timer is armed for newer
ones. At boot there is neither timer nor write (`BootInv`), and a torn file loads as
no statistics. `ServerTypeCorrect` includes that no scraper is registered twice, that
only registered ones are enabled and only enabled ones have an interval. Its point is
in `QueueInv`: no network still waiting has a scraper, but the one whose Safe client
is being made, which is the network `server_skipped` is about: what an error leaves
behind is registered once all the same. Any number of networks and kinds, runs that
never end included.

**Operators.** One invariant of four parts carries all six theorems, for any
number of operators, servers, registries and commands.

* `WInv`: secrets, runs and proposals are well formed. A run that has come to
  creating a secret or adding its version holds the name of the entry it has come to.
* `PInv`: whatever a run has not stored is still on its list, and so what it writes
  names only stored keys; once it has told the signers, its keys are loaded if their
  URLs are configured and no request failed (`Told`). Secrets are never removed, so
  another command or a death in between takes nothing back: `KeysAreStored` needs no
  assumption on overlaps.
* `RInv`: unless two commands have overlapped, what a run listed is what there is,
  and the number it will give is above all that were given. It holds nothing once
  `overlapped` is set; two commands at once do store a key twice, and
  `KeysAreStoredOnce` says so by its premise.
* `XInv`: a cache, a scrape under way, a file, a fill, a preparation and a search
  hold nothing that did not happen, and a cache or a scrape misses nobody it covers
  up to its last block. It is stated with sets that depend on the log of stakings
  and grow with it (`Caches`, `Scrapes`, `Files`, `Found`), so that everything held
  by a process while the chain moves on stays sound (`Begin`). The cache file
  may be overtaken by an older scrape; the sets do not say which scrape is latest,
  and the properties do not need it.

`ClaimsAlwaysFindSplits` says that ranges of blocks of whatever width leave no gap
before the last block. Its premise is the property's: a contract that was first
mapped when it was created, or is younger than the configured block.

Only model-checked: what is stated with <> or ~> under fairness, since liveness and
ENABLED are out of the prover's reach (`SettlesActive`, `SettlesExited`, both
`CatchesUp`, `LowReachesOwners`, `CacheIsCleared`, `KeepsScraping`, `IsolatesErrors`,
`ShutdownEnds`, `Converges`); the two action properties of `AgentScrapers`, which has
no proofs yet; and the violated properties, which TLC's traces show.

## 5. Not modelled, and the plan

Left out for good:

* RPC retry and limiter (`core/components/rpc-retry.ts`): a bounded loop, and a
  limiter that spaces calls in time. What it promises is about a clock, which no
  module has; the other modules take a retried call as one that succeeds or fails.
* Host probes: each result replaces the last, nothing is carried between runs.
* Metrics and exporters: views of the state. Configuration, authentication,
  ABIs and calldata encoding: parsing, declarations and formats.
* Commands that print what they read, or encode one call of fixed arguments.
* The amounts of the rewards scrapers, the per-provider statistics of the entry
  queue, and the arrival times computed from a position in it: the models keep the
  position, and whether the queue flushes at all.

Left for later, in this order: the proof of `EveryEntryIsReached` of `AgentScrapers`
(what a run has not reached is unvisited or is the entry it holds, still attached)
with a type invariant of that module, and of `ScanIsExact`; action properties that
follow from the invariants proved here, such as that a committed row is never
rewritten while one run is in flight. Worth stating as refinements next: a top-up
desk with at most one numbered request, implemented by `SafeProposals`; a map with
atomic save, implemented by the debounced files of `AttesterTracking`,
`RewardsHistory` and `ServerLifecycle`.
