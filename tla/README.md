# TLA+ models of cardano-tools

This directory holds a specification of the *cardano-tools* services: a gRPC
service in front of a cardano-db-sync database, a client library, and a web
application with live data. It models the parts whose correctness depends on
orders of events that no test of the repository exercises (there are none), checks them with
TLC on small instances, and proves the main safety properties with TLAPS for
every value of the constants.

## The system

| Component | State | Operations | Talks to |
|---|---|---|---|
| **Chain database** (Postgres, written by cardano-db-sync; external) | rows of `public.block`, `public.epoch`, pools, transactions | blocks are added, epoch rows written, blocks deleted in a rollback | queried by DbSyncAPI |
| **DbSyncAPI** (`Silvestre.Cardano.Integration.DbSyncAPI`) | none but the one of a running call; the `BlockUpdates` stream keeps `lastBlockSent` | `GetLatestBlock`, `BlockUpdates`, `GetBlocks`, epochs and their statistics, stake pools, transactions; database set-up at start | queries; gRPC |
| **CardanoAPI** (`Silvestre.Cardano.Integration.CardanoAPI`) | gRPC channels | one method per page's need, some with several calls; stake pool metadata over HTTP; a wallet client that nothing uses | gRPC; HTTP |
| **EpochWatchWorker and blocks hub** (web application) | `currentEpoch`; the connected pages | reads the stream, broadcasts `NewEpoch` and `NewBlock` | gRPC stream in, SignalR out |
| **REST controllers** | none | `/api/v1/epoch`, `/stakepool`, `/block`, `/transaction` | CardanoAPI |
| **Epoch preview** (`epoch-preview.js`, header of every page) | epoch shown, error flag, connection | fetches at load and at `NewEpoch`; takes the slot of each `NewBlock` | REST, SignalR |
| **Stake pool list** (`stakePools.js`) and **Pagination** (`pagination.js`) | rows, page, total; window and buttons | fetch a page; clicks | REST |
| **Epoch viewer**, **transaction viewer**, **featured pool** | data, error flags | fetches with callbacks | REST |
| **Database setup** (start of DbSyncAPI) | table of versions, one index | check the version, upgrade | queries |
| **Metadata of pools** (`MetadataAPI`, the list's rows, the featured pool) | ticker and flags of each row | HTTP to servers of the pools' owners | HTTP; REST |

What is hard in it:

* *Concurrency.* The database, the stream's handler, the worker, and each page
  run on their own. A page has any number of fetches under way, answered in any
  order; the data changes between the queries of one answer.
* *Failure.* The stream may break, which stops the web application and drops all
  connections without reconnecting them. A fetch may be answered with an error
  or not at all. `docker-compose.yml` restarts neither of the two services.
* *Rollbacks.* The chain's tip may go back, also to an earlier epoch, while
  blocks of the abandoned fork are still on their way.
* *Concurrent starts.* Nothing but Postgres' own locks keeps two upgrades of the database apart.
* *Others' servers.* Metadata comes from servers that may refuse, be silent or send nonsense,
  to lambdas that nothing waits for.
* *Back-pressure.* The stream's window and each connection's buffer are bounded;
  `WriteAsync` and the broadcasts wait.

What makes each component correct:

* push path: a page never receives a block of an epoch it was not told of, nor, without a rollback,
  anything older than what it was sent before; the worker comes to the chain's epoch; a block is sent once (it is not, see below);
* epoch preview: an error is not covered up by answers of other fetches; the
  answer to an announcement is not older than it; the slot shown catches up;
* stake pool list: the rows are those that the page says they are, and with their page and total
  of one answer however calls overlap; the buttons
  lead to pages that exist; a page asked for arrives;
* epoch viewer: what is shown is of an epoch that exists, and a statistic that is read and not there
  has failed or is on its way; no part waits for ever; the links lead somewhere; the heatmap counts each
  block once (but for some when the clock changes, see below);
* stake pool service: an answer put together from several queries, of a list or a single
  pool, is what the tables say of the epoch it is for;
* transactions: every output is listed, once; "not found" is said of no transaction
  that was there (but for one without outputs, see below);
* database setup: one version in the table, true of the index, whatever starts at once or ends
  half-way; no two upgrades wait for each other; a start serves calls only on an upgraded database;
* metadata: a row shows what its own fetch has brought, and no pool's server or address can stop the web
  application (under a list with metadata some can: see below).

## Modules

| Module | What it models |
|---|---|
| `ChainDb` | The tables `block` and `epoch` and the three queries of the live data. cardano-db-sync is not part of the repository: its steps are an environment. |
| `EpochAnnouncements` | *Abstract.* What a connected page may count on: a session of messages in which the epoch never changes unannounced. |
| `BlockFeed` | `BlockService.BlockUpdates`, the gRPC stream, `EpochWatchWorker`, the hub and the pages' connections. Shown to implement `EpochAnnouncements`. |
| `EpochPreview` | `epoch-preview.js` on top of `BlockFeed`, with the two calls that answer `/api/v1/epoch`. |
| `Pagination` | `pagination.js`: its methods as operators from one state to the next. |
| `PagedList` | *Abstract.* What the screen may show of a list while calls overlap: always one page as it was at one moment since it was asked for. |
| `StakePoolList` | `listStakePools` of `stakePools.js`, the buttons of `StakePools/Index.cshtml`, and the service's answer. Shown to implement `PagedList`. |
| `EpochViewer` | The page of one epoch, `epochs.js` with `Epochs/Viewer.cshtml`, on top of `ChainDb`: four fetches, the services' answers, what the templates show, the heatmap. |
| `StakePools` | `StakePoolService` and `StakePoolQueries`: the several queries of one answer over certificates that come and go. |
| `Transactions` | The join of `TransactionQueries`, what `TransactionService` makes of it, and the page of `transactions.js`. |
| `UpgradedDatabase` | *Abstract.* What a start of the service may count on: version and index change together, are never undone, and whoever serves has them. |
| `DatabaseSetup` | `SetupQueries` and `SetupDatabase` by several starts at once, with what Postgres does of the upgrade's transaction. Shown to implement `UpgradedDatabase`. |
| `PoolMetadata` | `MetadataAPI` under its three callers: the rows of `listStakePools`, `featuredPool`, and a list with `includeMetadata`. |
| `MCBlockFeed`, `MCEpochPreview`, `MCStakePoolList`, `MCEpochViewer`, `MCStakePools`, `MCTransactions`, `MCDatabaseSetup`, `MCPoolMetadata` | Instances for TLC. |
| `ChainDb_proofs`, `EpochPreview_proofs` (also of `BlockFeed`), `EpochViewer_proofs`, `StakePoolList_proofs` (also of `Pagination`), `StakePools_proofs`, `Transactions_proofs`, `DatabaseSetup_proofs`, `PoolMetadata_proofs` | Theorems and proofs. |

### How state and actions correspond to the code

*BlockFeed.* `server` is the local state of the handler: `pc = "poll"` before
`await GetLatestBlock`, `"write"` before `await WriteAsync`. One action is the
code from one `await` to the next, so that everything else may happen in between.
`Poll` reads the tip and tests the guard; when the guard fails the loop goes
round and changes nothing, which is stuttering. The delay is the time between two
steps. `wire` holds what the stream has buffered, `inbox` what a connection has.
`worker` has `pc = "read"` at the `await foreach` and `"publish"` between the two
broadcasts; it sends `NewBlock` right away (`PublishBlock`) if the epoch is the
same. A broadcast is enabled when every connected page has room: the code awaits it.
`StopHost` is the exception of a broken stream, which surfaces when what was
buffered has been read. `heard` is history: the last message a page has handled.

*EpochPreview.* A fetch goes through the stages `sent`, `epochRead` (the first
query has answered), `ok` or `failed` (the reply is on its way) and `body` (its
JSON is being parsed). A reply that is not ok runs both callbacks in one turn of
the event loop and is one action; a reply that is ok takes two, since `json()` is
another promise, and `errors.fetching` may be set in between. `knew` is history: the
announcement that a fetch was sent for.

*Pagination and StakePoolList.* `pager` is the pagination component, `list` the
list. Their two `currentPage`s are different state: the pagination's changes with a click,
the list's with an answer. `rows` are positions in the list of all pools. A click
may come at any time; a call is answered from the database as it is at that time,
fails, or is lost. `overlapped` and `broken` are history. For `PagedList` the screen is `list.rows` and `list.currentPage` with the
pagination's total, which one callback sets together. The answer of the service is one
action because total and rows come from one query; the queries after it can
make the call fail, which is `ListFails`.

*EpochViewer.* `panel[k]` holds `isLoading`, `errors.fetching` and the data of a part
of the page (the epoch, its delegation and supply statistics, its blocks);
`request[k]` how far the fetch of that part has come. What runs from one `await` to the
next is one action: `EpochArrives` sets the epoch's flags, marks the statistics as
loading, sends their fetches, and lets the template appear whose `x-init` asks for the
blocks. The `Answer...` actions read the database as it is then. A lost fetch is
a rejected promise: none of its callbacks runs. `PreviewStores` stands for the header, which
stores the number of an epoch that the database has or had as the newest; `EpochPreview` has the details.
The address may name any epoch, one that does not exist included. `ShowsStatistics` is the template of the statistics:
it looks at the delegation's flag alone and reads both statistics.
`Clock` is the reader's: the second of the day at which the epoch starts, and a change (summer time) before some slot.
A block's date and half hour are those of `LocalTime`, and the series are the six dates from the epoch's first.

*StakePools.* One request `q` at a time (requests share nothing), one action for each of
its queries, and the environment between them: registrations, retirements, new epochs, rollbacks.
`certs` is in chain order. Of an update only what the answer depends on is kept: when it
counts, whether it came with a metadata reference, and its transaction; `terms` and
`url` of an answer name the update they were taken from. `began` and `rolled` are history:
the epoch and the number of rollbacks when the request's first query had run.

*Transactions.* `Rows` is the join as a set of tuples, null being the empty set: rows differ in
what was joined, so that a set counts them right. The service's list is how often each
output occurs in it. `known` and `alone` in a reply are history. A transaction may have no outputs, since nothing in
the schema asks for one; the join with `tx_out` then has no row, which the service takes for no transaction.

*DatabaseSetup.* `start[s]` is how far the process has come in `Startup.Configure`; `CheckTable`,
`CreateTable` and `ReadVersion` are its queries, `SendUpgrade` and `Finish` the two ends of the awaited batch.
In between `txn[s]` runs in Postgres: Npgsql sends the four statements as one batch, which
is one transaction, at READ COMMITTED. Each statement is an action, with what keeps it waiting: `DROP INDEX` locks `tx_in`
exclusively when there is an index; `CREATE INDEX` shares the lock but waits for an uncommitted index of its
name, and fails if that is committed; `DELETE` takes a snapshot and waits for rows that another has
deleted. `Awaits(s, t)` is who waits for whom. `CREATE TABLE IF NOT EXISTS` is two steps, as in Postgres: two starts that both find no
table make one of them fail. A row is named by the start that inserted it.
`EndProcess` leaves the transaction running, as a killed process or the command's timeout may;
`Abort` is its cancellation. That Postgres' deadlock detection has nothing to do is not assumed but
checked (`NoUpgradeDeadlock`).
`disturbed` is history.

*PoolMetadata.* An address is a `site`, of the web or of another scheme, and whether it goes on after an `&` or a `#`.
`Parameter` is what `encodeURI` makes of it: both are left as they are, so that what follows is no part of the parameter.
`Meets(u)` is what a request for an address may meet, and `GetMetadata` what becomes of it: metadata, null, or an exception
that is not caught (`Uncaught`: without an address there is no request, a scheme other than http and https is
refused by `HttpClient`, and its timeout is a `TaskCanceledException`). `lookups[g][i]` is the fetch of row `i` of the `g`-th
page that was shown, with its address and its answer; it holds on to its own
row object, which is one of `rows` only while page `g` is shown (`IsShown`). The address of a row is the one that the list gives,
be it another pool's; what a row shows is named by the address that it was found under. `bulk` are the
lambdas of `Parallel.ForEach`; an exception in one is held by no task and ends the process (`host`).
`StakePoolList` and `PoolMetadata` share no state but the rows, of which the first has the positions and the second the metadata.

Abstracted: a block is its number, epoch and slot; an epoch its number; a pool its
position in the list. Hashes, amounts, names and wording play no part in any property.

## What the runs check

| Run | Instance | Shows |
|---|---|---|
| `feed` | 2 pages, epochs 0..2, 3 blocks, 1 rollback, 1 restart, wire 1, inbox 2 | no block of an unannounced epoch (`InboxInOrder`, `FeedInv`), refinement of `EpochAnnouncements` (`KeepsAnnouncements`), the worker comes to the tip's epoch (`FeedCatchesUp`) |
| `feed_resends` | 1 page, wire 2 | *violated:* a block is sent once (`SendsOnlyNewer`) |
| `preview` | 1 page, 2 fetches at once, epochs 0..1, 2 slots, 3 blocks | `ErrorHidesPreview`, `AnswersItsAnnouncement`, no page is told of anything older after something newer (`NeverGoesBack`), and the slot shown catches up (`SlotSelfHeals`) |
| `pool_list` | pages of 2; 0, 1 or 11 pools, which change once; 2 calls at once | `NeverBeyondEnd`, `PagerFits` while the number is steady; a user who waits sees what the page says (`ShowsWhatItSays`); refinement of `PagedList` (`KeepsSnapshots`); a page asked for arrives (`PageArrives`) |
| `pool_list_showing` | pages of 1, 7 pools | *violated:* the line under the table names the rows (`ShowingIsTrue`) |
| `epoch_viewer` | epochs 0..1 of one day, which is two "half hours" of 2 seconds; slots of 2 seconds, clocks changed by up to 3; 2 blocks, 1 rollback, late epoch rows | `MissingStatisticIsDue`, `NotFoundIsFinal`, `DataOfExistingEpoch`, `ViewerInv`, `LinksLead`, `HeatmapCountsBlocks`, and all but the heatmap settle (`PartsSettle`) |
| `stake_pools` | 2 pools, epochs 0..2, 2 certificates, 1 rollback | the answer, of a list, of a single pool or that there is none, is that of the epoch (`AnswersAsOfEpoch`), and the exception for a pool without updates needs a rollback (`FoundStaysFound`) |
| `stake_pools_delegation` | the same without rollback | *violated:* the delegation of a pool that has stake in the epoch asked for is its stake of that epoch (`DelegationOfEpoch`) |
| `transactions` | 2 transactions of 0 to 2 outputs, labels 0 and 1, 1 account, 1 rollback | every output is listed once for each combination of a label and a withdrawal, and no more often when nothing else is joined (`ListsEveryOutput`); not found is only what is not there or has no outputs (`NotFoundIsOfNoOutput`); `PageSettles` |
| `outputs_add_up` | the same | *violated:* the outputs listed add up to the total (`OutputsAddUp`) |
| `database_setup` | 3 starts, any state that an older version or none has left | `OneVersionRow`, whoever is waited for waits for no one (`NoUpgradeDeadlock`), refinement of `UpgradedDatabase` (`KeepsPromise`); each start comes to serve or to end, and undisturbed they do not all end each other (`SetupSettles`) |
| `pool_metadata` | addresses of the web, of another scheme and none; 2 pages of a row, a list of 1 pool | a row shows just what its own fetch has brought (`RowsShowTheirAnswers`), only a list with metadata ends the web application, by three causes (`SurvivesServers`), and what is not lost stops loading (`MetadataSettles`) |

Each passing property is also checked to fail for a plausible bug: the modules hold
these variants next to the definitions they change, each marked as a mutant.

### Bounds and why they are enough

`MaxBlocks`, `MaxRollbacks` and `MaxRestarts` bound the environment: three blocks
are two epoch changes, or one and a rollback across it while blocks of the
abandoned fork are on the wire, with the worker and in the inboxes. `WireCap` and `InboxCap` are
buffer sizes of gRPC and SignalR; small ones let the waiting happen, and an inbox
of 2 holds a `NewEpoch` and its `NewBlock`. Two pages are one that is connected and
one that comes late or is slow. `MaxFetches` and `MaxRequests` of 2 are
enough for two answers to change places. The window of the pagination has five
pages: the numbers of pools are those of no page, of one, and of six, with which the window moves
(`WindowIsRight` is for every number). `MaxPage`
bounds the page asked for: when the pools shrink to none while "Next" is
shown, that button stays and counts up without end. `MaxChanges` bounds how often
the number of pools changes.

In `epoch_viewer` the epoch starts at any second of the day, aligned with a half hour or not, so that it touches up to
two calendar days, as an epoch of five touches six; a change of the clock by less than a day carries a
block past the second date, or before the first. One epoch exists and the other may not; two
blocks are one before and one after the epoch begins, or two in different cells. In
`stake_pools` a registration is active two epochs later or, as an update, three, so
that three epochs hold the request's epoch, the next one, and one after; two certificates
are an update over another, a retirement after its registration, or two pools on a page. Two
transactions with two outputs each are enough for an output's id to be that
of a transaction, by which the query joins the wrong inputs; label 0 is the one that the service drops.

In `database_setup` three starts are two that upgrade at once and one that comes when they are done or have
ended half-way; or three in a row. In `pool_metadata` rows share nothing, nor do lambdas but for the process that
one of them ends, so that one for each page is enough, with
an earlier page whose answers may come late. `preview` has no rollbacks and no late epoch rows, with which
its state space is beyond five minutes; `feed` has the rollbacks, and the theorems about the preview hold with both.

One transaction may register several pools. Each may then be answered with the metadata of
another, since the reference is joined by transaction (`StakePoolQueries.cs:38`):
`AnswersAsOfEpoch` says of the metadata's url only what holds of the others. A pool that registers
again after it retired is left out of `AnswersAsOfEpoch` (`NobodyReturned`, see below).
The theorems below hold for all values of the constants.

`CHECK_DEADLOCK FALSE` stands in all configurations: with the environment's bounds
used up and nothing asked for, the system rests.

### Fairness

`FeedFairness`: the handler's loop and the worker's loop run for as long as their
process does, and a page's event loop handles what it has received; each is weak
fairness of the step that the loop takes next. Nothing is assumed of the chain, of
failures, of operators or of users. In `EpochPreview`, and for `FairSpec` of
`StakePoolList`, `EpochViewer` and `Transactions`, a call that is not lost is answered by something: gRPC calls have a timeout
of five minutes and the controllers answer an exception with an error. In `PoolMetadata` the time of `HttpClient`
bounds every lookup. In `DatabaseSetup` a process goes on with its start, and Postgres with a transaction
that waits for no other; nobody need start the service. The liveness
properties name what else they need: the host stays up, the page stays connected,
no call is lost.

## Findings

* `feed_resends`: `lastBlockSent` (`BlockService.cs:41`) is never assigned, so that the
  latest block is written, broadcast and handled again at every poll. `SlotSelfHeals` depends on it,
  and assigning it alone would break `FeedCatchesUp`: after a rollback the guard
  compares with a block that is gone.
* `pool_list_showing`: two clicks whose answers change places leave the rows of one page
  under a line that names another, with nothing under way.
* `stake_pools_delegation`: the stake of all epochs up to the one asked for is summed
  (`StakePoolQueries.cs:44`), where `epoch_stake` has the whole stake once for each: in the run a pool has stake
  in epochs 1 and 2, both have begun, and asked for epoch 2 it is answered with both.
* `outputs_add_up`: the query has a row for each combination of an output with labels,
  withdrawals and wrongly joined inputs, and the service lists an output for each of them.

Seen while modelling, and modelled as they are (no line of the repository says otherwise,
so that there is no property to violate):

* the block of statistics appears with the delegation (`Epochs/Viewer.cshtml:101`) but reads the supply too (lines 132
  and 142): while the supply is on its way, or after an error of either, the expressions read a field of
  `undefined` and throw, and placeholders stay until the data comes, if it does. `MissingStatisticIsDue` says that it is one
  of the two, and `PartsSettle` that the first ends; after an error of the blocks `setupChart` throws and the
  heatmap loads for ever (`epochs.js:221`);
* the heatmap has six dates (`epochs.js:292`). When the clock is put forward during an epoch that starts late in the
  day, its last blocks fall on a seventh and are in no cell; when it is put back just after an epoch's start
  at midnight, its first blocks fall before the first. `HeatmapCountsBlocks` excepts those and no others;
* a transaction without outputs is said not to be there, since `tx_out` is joined by an inner join
  (`TransactionQueries.cs:20`), which `NotFoundIsOfNoOutput` names as the only case;
* with an old epoch in the header's preview, the link to the next epoch is missing at that one and shown at the newest,
  where it leads to none; `LinksLead` is about a header that knows the newest;
* the link to the previous epoch is hidden at epoch 1 and shown at epoch 0, where it leads to -1;
* `EpochQueries.cs:55` joins retirements by the update's id, so that the number of pools
  differs from that of the list;
* a single pool without metadata makes the client throw (`new Uri("")`);
* a rollback between the queries of one answer makes `StakePoolQueries.cs:59` throw;
* Back counts from the page of the rows, not the page asked for (`StakePools/Index.cshtml:128`), and can ask for
  page 0, whose negative offset is answered with status 400;
* a pool that registers again after a retirement is missing from every list, since the search
  takes only pools without a retirement or with one that is not over (`StakePoolQueries.cs:24`);
* a list with `includeMetadata` is answered before its metadata is there (`CardanoAPI.cs:90`). A pool's server that keeps
  silent, a pool without an address, or an address of a scheme that `HttpClient` does not ask (`MetadataAPI.cs:13`) then
  ends the web application. `SurvivesServers` says that nothing else that a server answers or a page asks for does;
* `encodeURI` (`stakePools.js:72`) leaves `&` and `#` as they are, so that the metadata of such an address is asked for,
  and shown, under what comes before them; with the url of another pool (`StakePoolQueries.cs:38`) a row shows
  that pool's metadata. `RowsShowTheirAnswers` says what a row shows in either case;
* the featured pool loads for ever when its pool is unknown (status 204, `stakePools.js:116`);
* two starts on a database without the table of versions may end one of them (`SetupQueries.cs:28`), and neither
  is restarted by `docker-compose.yml`, whose `depends_on` does not wait for the database either;
* `stakePools.js:79` reads `homepage`, which the API sends as `websiteUrl` (`StakePoolMetadata.cs:18`), so that the row's link
  loses its address (layout, and not in the model);
* an address that is no absolute Uri makes `ToUrl` throw (`CardanoAPI.cs:203`), and with it the whole list fails, which
  is one of the ways of `ListFails`.

## What is proved

All theorems are for every value of the constants (any set of pages, any bounds, any
buffer sizes, any size of a page and set of pool counts), from the assumptions that
the modules state of their constants: `ChainAssumption`, `FeedAssumption`,
`PreviewAssumption`, `ViewerAssumption`, `PerPageAssumption`, `ListAssumption`, `PoolsAssumption`,
`TransactionsAssumption`, `StartsAssumption`, `MetadataAssumption`. Every invariant that a passing run
checks, and all three refinements, are theorems.

* **`ChainDb_proofs`.** Lemmas that the next two share: the tables keep to their types,
  rows of `epoch` stay, and the current epoch's row is the newest.

* **`EpochPreview_proofs`, the push path.** `FeedTypeCorrect`; `FeedInvariant`; `InboxAlwaysInOrder`;
  `FeedKeepsAnnouncements`. That an inbox is in order is not inductive: a message
  appended must be known to follow the last one. `FeedInv` adds what the last message sent to
  each connected page is: what the worker has sent last, according to its `pc`, or nothing if
  the page came late. The refinement then maps each step to `Join`, `Receive`,
  `Leave` or a stutter; `Receive` is allowed because the head of an inbox follows what was heard.
* **`EpochPreview_proofs`, the order of blocks.** `OrderInvariant`; `FeedNeverGoesBack`. That an inbox ascends says
  nothing of what comes next, so `OrderInv` follows a block along its way: the tip of the chain, the
  handler, the wire, the worker, the inboxes. At each place it is not older than what is ahead of it (`PathInOrder`), and no page has
  heard anything after what is still to come (`PageAscends`). A block read and sent again and again
  stays in order because the tip only moves on; a rollback is what ends that, so the theorem is about none.
* **`EpochPreview_proofs`, the preview.** `PreviewUsesFeed` (a page with its preview is a
  `BlockFeed`, which carries its theorems over: `PreviewKeepsAnnouncements`, `PreviewNeverGoesBack`); `TypeCorrect`; `EpochsUnderWayHaveRows`;
  `PreviewInvariant`, with `ErrorAlwaysHides` and `AnnouncementsAreAnswered` from it. The
  strengthening follows an epoch from the chain through the handler, the wire, the worker and the inboxes
  to the fetch it causes: rows of `epoch` are never deleted, so its row is there all the
  way, and the query's maximum is at least that.
* **`EpochViewer_proofs`.** `TypeCorrect`; `ViewerInvariant`, with `NotFoundIsAlwaysFinal`,
  `DataAreOfExistingEpoch` and `MissingStatisticIsAlwaysDue` from it. None of the three is inductive:
  that data is of an existing epoch needs that a reply on its way is, and that a page that found nothing
  has nothing under way needs that only the epoch is asked for before it is answered; `ViewerInv` says both.
  `HeatmapAlwaysCounts` is arithmetic: with the assumption that `MaxSlot` is the last slot
  of `EpochDays` days, the local time of a block has one date and one column, and the date is one of the six unless the
  change of the clock has carried the block out. `LinksAlwaysLead` needs of the invariant only that the epoch
  that is shown exists.
* **`StakePoolList_proofs`.** `WindowIsRight`: for every number of pages and every one of
  them. The lemmas on `PageCount` (rounding up) say that every page has a first item; `PagesPartition` that
  every pool is on exactly one page. `TypeCorrect`; `AloneInvariant` and from it
  `AlwaysShowsWhatItSays`; `SteadyInvariant` and from it `NeverAsksBeyondEnd` and
  `PagerAlwaysFits`. `SteadyInv` is needed because a click's page comes from buttons that an earlier
  answer left: it says which buttons the pagination holds at each page, page 0 included.
  `ListKeepsSnapshots` is the refinement of `PagedList`, with overlapping, failing and lost calls and pools that change:
  a click maps to `Ask`, the service's answer to `Answer`, the callback to `Show`, and a failure to `Lose` or a stutter.

* **`StakePools_proofs`.** `TypeCorrect`; `FoundAlwaysStays`; `AlwaysAnswersAsOfEpoch`. An answer takes
  any number of queries, and certificates come between them. The invariant `AnswerInv` says what holds of an answer
  half-way, for an epoch that had begun when the request came and without rollback: every pool that
  was found has an update of that epoch (`AllHaveUpdates`, which excludes the exception), the rows read so far are as the
  tables say (`RowsRead`, `StakesRead`), and the page found is still the one that the search would find (`PageFound`). It is kept
  because a certificate that comes is active in a later epoch (`CertsGrow`, `PastStays`). For a single pool `PoolInv` adds what `GetStakePool` has read so far: the
  epoch it fell back to, whether the pool has updates, its row (`PoolReadEpoch`, `PoolUpdates`, `PoolStake`). `RowIsRight` says
  that folding the updates in the order of their epochs gives the terms, the url and the first epoch that the tables give. That the page
  is in order and without a gap is `PageIs`, about `Page(Ascending(S))` of any finite set.
* **`Transactions_proofs`.** `TypeCorrect`; `NotFoundIsAlwaysOfNoOutput`; `AlwaysListsEveryOutput`. `RowsOfTx`
  says that left joins lose no output and no label, and that only a transaction without outputs has no rows; `PageInv` that a reply on its way is true of the
  transaction it is about, from when it was answered, rolled back or not. When an output is listed once needs
  that an input joins outputs of one transaction only (`AloneJoinsOne`). `ListedOncePerCombination` counts: an output is
  listed as often as the product of its labels, inputs joined and withdrawals says, by a bijection with their Cartesian product.
* **`DatabaseSetup_proofs`.** `TypeCorrect`; `SetupInvariant`; `AlwaysOneVersionRow`;
  `NeverUpgradeDeadlock`; `SetupKeepsPromise`. That there is one row is not inductive: a transaction could delete too few. `SetupInv` says that one that has built
  its index is alone in that until it ends (`Apart`), so that from its `DELETE` to its commit the rows
  are those it has deleted. It is kept by the order of the statements: the index comes first.
  The same order makes waiting end: who holds rows has all its locks of `tx_in` already.
* **`PoolMetadata_proofs`.** `TypeCorrect`; `RowsAlwaysShowTheirAnswers`; `AlwaysSurvivesServers`. The invariant
  relates each row of the page that is shown to the fetch that was sent for it (`RowIs`): its address is the parameter made of
  the row's, and the flags and the metadata are those of its answer; fetches of earlier pages reach none of them.

The inductive invariants `FeedInv` and `ViewerInv` are also checked by runs; `PreviewInv`, `AloneInv`, `SteadyInv`, `SetupInv` and
those that the proof modules define are not, since the properties that follow from them are.

Only model-checked: the liveness properties (`FeedCatchesUp`, `SlotSelfHeals`, `PageArrives`, `PartsSettle`,
`PageSettles`, `SetupSettles`, `MetadataSettles`), since fairness and `ENABLED` are out of the proof system's reach; and the
violated properties, which have counterexamples. `OutSum` and `OutId` of `Transactions` are sums over sets:
what they compute for every input would need induction over data, which is out of the
prover's reach too. No module has a `RECURSIVE` operator.

## Not modelled, and why

* The libraries in `wwwroot/lib` (ApexCharts, Moment, Lodash, SignalR, Alpine): third-party code, which makes up
  nearly all lines of the tree. What the pages use of them is in the models of the pages.
* What the statistics of an epoch add up to: plain SQL sums, of which the page
  only tells whether they are there.
* A `+` of a metadata address, which the parameter turns into a blank: for a row it is as with an `&`, an
  address other than the pool's.
* The small-screen buttons "Previous" and "Next" of the list call a method that does not exist
  and change nothing.
* The wallet client (unused; it has no state and no caller), value types and mappings (copies of fields), the search
  box and layout.
* A crash of the web application other than by the worker's exception: for the
  pages it is the same step.

## Plan

Done, in this order: `ChainDb`, `BlockFeed` with `EpochAnnouncements`, `EpochPreview`,
`Pagination`, `StakePoolList`, the proofs of each; `EpochViewer` with its proofs; `StakePools`; `Transactions`;
`DatabaseSetup` with `UpgradedDatabase` and their proofs; `PoolMetadata` with its proofs; the proofs of
`StakePools` and `Transactions`; `PagedList` and its refinement; the order of blocks on the push path; single pools,
multiplicities and the absence of deadlock in the theorems of `StakePools`, `Transactions` and `DatabaseSetup`.

Worth adding when the code changes:

1. The step from `SteadyInv` to pools that change.
2. A proof that `chain` ascends in epochs and slots, so that the last row of an epoch by id is its newest slot
   (`LatestBlockForEpoch`); the queries rely on it, and cardano-db-sync sees to it.
3. A `lastBlockSent` that is assigned, together with a guard that survives a rollback: `SendsOnlyNewer` and
   `FeedCatchesUp` say what such a change must do; `FeedNeverGoesBack` would hold of it as it is.
