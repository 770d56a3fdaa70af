# The explorer indexer, specified

TLA+ specifications of the Sygma explorer indexer (`src/`): a Node process that
follows the bridge's events on several chains and writes them, as *transfers*,
to a MongoDB database (through Prisma) that an HTTP API reads.  TLC checks small
instances, TLAPS proves what matters most for all of them.

Paths below are relative to `src/`.  "Row" means a row (document) of the database.

## 1. The system

A **transfer** is identified by `(depositNonce, fromDomainId, toDomainId)`.  Its
*deposit* is emitted on the chain it leaves, its *executions* (failed ones, then
at most one that succeeds) on the chain it goes to.  The two chains are indexed by two
listeners that know nothing of each other and meet in the same rows.

| Component | State it keeps | Operations | What makes it correct |
|---|---|---|---|
| **EVM listener loop** `src/indexer/services/evmIndexer/evmIndexer.ts` | local `currentBlock`, the domain row's `lastIndexedBlock`, `stopped` | resume, wait, choose a range, save it, `updateBlock` | no block skipped, none read that is not mined, cursor never back, all deep blocks saved in the end |
| **EVM event saving** `evmEventParser.ts`, `evmfilter.ts`, `src/indexer/utils/evm/index.ts` | rows of Account, Transfer, Deposit, Fee, Execution; local results of lookups | `getLogs`, `decodeLogs`, `saveDepositLogs`, `saveFailedHandlerExecutionLogs`, `saveProposalExecutionLogs` | what the cursor has passed is recorded in all tables and stays so |
| **Substrate indexer** `substrateIndexer.ts`, `substrateEventParser.ts`, `src/indexer/utils/substrate/index.ts` | `currentBlock`, `lastIndexedBlock`, a `transferMap` per block, callbacks that run on | block loop; sequential saving of deposits and fees; `forEach(async ...)` for executions and failures | rows agree with each other; whatever was saved without an error stays |
| **Repositories and schema** `src/indexer/repository/`, `prisma/schema.prisma` | the tables and their unique keys | `upsertDepositTransfer`, `insertExecutionTransfer`, `insertFailedTransfer`, `updateStatus`, `insertDeposit`, ... | status only forward, executed is final, one row for each transfer |
| **Start-up, shutdown** `src/indexer/index.ts`, `docker-compose.yml` | the listeners, the cron job | `init`, `insertDomains`, signal handler, container restart | a restart loses nothing |
| **Shared configuration** `src/indexer/config/index.ts` | none | fetch and filter the domains | (I/O) |
| **Monitoring** `src/indexer/services/monitoringService/` | none; cron job (`CRON_TIME`) | warn of transfers pending for too long | every overdue transfer is warned of |
| **Price service** `coinmarketcap.service.ts`, `src/utils/helpers.ts` (`fetchRetry`) | the memory cache of prices; of each ask its attempts and its back-off | `getValueConvertion`, `fetchRetry` | no price older than the time to live and one request; a cached price spares the request; nobody waits for ever |
| **OFAC check** `src/indexer/services/ofac/` | none | one HTTP request | (I/O) |
| **Health check** `src/indexer/healthcheck.ts` | none | one query | (I/O) |
| **API** `src/app.ts`, `src/controllers/`, `src/services/` | none; a client has the number of the page it is at | page through transfers by six filters, look one up by id or transaction, metadata, routes | a walk misses no row although rows are added ahead of it; every request is answered |
| **Fix script for prices** `src/scripts/classes/PriceCalculation.ts` | the page in hand, `usdValue` | page through all transfers and value those without a value | comes by every transfer, takes no value the indexers wrote, ends |
| **Fix script for duplicates** `src/scripts/classes/DuplicateRemover.ts` | snapshots of rows to delete or to date | scan, `deleteMany`, add timestamps | deletes no transfer's last row, leaves no duplicate, and no row of a transfer that has a document without a timestamp, ends |
| **Seeder, mocks, metadata** `src/seed/`, `src/utils/` | none | example data | - |

How they interact: all listeners of one process run on one event loop, so they
interleave at every `await`, and only there.  They share the database, the
`resourceMap`, and the price cache; the domain rows are each one listener's own.
The API and the fix scripts are processes of their own that share only the
database: the API reads, the scripts read and write beside the indexers.
A restart (`restart: always`) ends all of them at once and leaves the database.

Hard behaviours: the find-then-insert on a transfer both listeners create; a
range or block indexed twice after a crash, with part of its rows there; errors
that are swallowed in one place (`updateBlock`, `decodeLogs`, every
`save...ToDb`) and retried for ever in another (the EVM loop's `catch`);
callbacks that outlive the block they belong to; status writes that rest on a
status read before; a check that nobody awaits, whose error ends the process;
price requests that overtake each other; pages cut by position out of a table
that grows at its front; rows deleted by a snapshot.  `PROJECT.json` lists each at its line, under `hazards`,
with the properties that watch it.

## 2. Modules

| Module | Models |
|---|---|
| `BlockRange` | the arithmetic of the loops as operators: where to resume, when to wait, where a query ends |
| `BlockCursor` | abstract: a cursor that only moves up and vouches for what is saved below it |
| `EvmListener` | one EVM listener against a growing chain, with start-up, failed starts, signals, crashes, thrown and swallowed errors; implements `BlockCursor` |
| `TransferStore` | the tables and the repository methods that write them; no behaviour of its own |
| `TransferLifecycle` | abstract: what the database promises its readers about each transfer |
| `EvmIndexer` | all EVM listeners at once over `TransferStore`, await by await; implements `TransferLifecycle` |
| `SubstrateIndexer` | all Substrate listeners and their callbacks over `TransferStore`; implements `TransferLifecycle` for transfers without a failed execution |
| `Indexers` | the process: `EvmIndexer` and `SubstrateIndexer` instantiated over the same tables |
| `Monitoring` | the cron job that warns of overdue transfers: overlapping checks, unawaited promises; the tables it reads change as `TransferLifecycle` allows, and no other way is assumed of the indexers |
| `PriceService` | the price cache, asks that hit or miss it, fetches with retries and a doubling back-off, several at once for a symbol; time in ticks |
| `TransferRows` | the tables as readers see them; `TransferLifecycle` is their environment |
| `TransferQueries` | the queries of `TransfersService`: filters, order, pages; no behaviour of its own |
| `TransfersApi` | one client of the API and the handlers that answer it |
| `PriceCalculation` | the script that values transfers, beside indexers that value them too |
| `DuplicateRemover` | the script that removes duplicates, over tables from before the unique index |
| `Readers` | the three processes above, one of them at a time |
| `MCEvmIndexer`, `MCSubstrateIndexer`, `MCIndexers`, `MCReaders` | contents of the chains and of the tables for TLC |
| `TransferStore_proofs` | lemmas: what each write of the transfer table does to its columns |
| `EvmListener_proofs`, `EvmIndexer_proofs`, `SubstrateIndexer_proofs`, `Indexers_proofs`, `Monitoring_proofs`, `PriceService_proofs`, `Readers_proofs` | theorems and proofs, the last about the API and both scripts |

How they build on each other: `EvmIndexer` and `SubstrateIndexer` write through
the operators of `TransferStore` and implement `TransferLifecycle`; `Indexers`
instantiates both over the same tables; `Monitoring` and `TransferRows` take
`TransferLifecycle` as their environment, so what is shown of readers holds
beside any indexer that implements it.  (The Substrate listeners do so for
transfers without a failed execution, see section 3.)

**State and code.**  A listener's program counter `pc[d]` names the call it is
about to make: `"findTransfer"` is `await transferRepository.findTransfer(...)`
in either execution handler, `"markTransfer"` the `insert...Transfer` or
`updateStatus` that follows, `"upsertExecution"` the last one.  `seen[d]` is what
the lookups returned (`transfer`, `depositExists`, `feeExists`), `todo[d]` the
decoded logs not reached, `event[d]` the loop variable.  In `SubstrateIndexer`
`running[e]` is the program counter of the callback of event `e`, and
`transferMap` the map of the block.  Tables are functions of the transfer's key,
or sets of keys; `@@unique(transferId)` and the unique `transferId` columns are
the preconditions of the inserts.  History variables (`saved`, `lost`,
`dropped`, `warned`, `pended`, `waited`, `answer`, `missing`, `unseen`, `owned`,
`late`) appear in properties only: no guard reads them.

In `PriceService` `pc[c]` says whether the ask of listener `c` has a request
under way or sleeps, `retries` and `backoff` are `fetchRetry`'s locals, and a
cached price is known by the ticks since it was stored and since it was the
market's.  In `TransfersApi` `asked` is the request under way and `walk` the
client's query with the number of the next page; an `Orders` value is one order
the database may return, a page is the set of rows at its positions (their order
within the page is left out).  In `PriceCalculation` `batch` is the page in hand,
`worthless` and `nameless` what its rows said when it was read, `current` and
`newValue` the locals of the loop.  In `DuplicateRemover` `doomed` and `undated`
are the arrays the script computes before it writes, and `documents` the transfers
`findRaw` finds: a row of one it does not find is passed over (`PassOver`).

**Granularity.**  One await on the database is one step.  Calls that only reach
the chain are merged with what follows, for nothing else sees them.  The
upserts are one step each; where Prisma runs one as a read and a create, the
create may be refused, which is the same as the call throwing, and throwing is a
fault every such step has.  `findDeposit` and `findFee` are one step: no other
listener writes these rows of this transfer.  In the API a query is one step; in
the scripts each query and each write is.

**Abstraction.**  An event is a record of its kind, its transfer's key, its
block and its transaction; amounts, addresses, prices, time stamps and fee
values are left out.  Of the details a deposit fills in, one flag (`filled`) says
whether they are there; of the message, whether it is empty.  The price and the compliance
lookups change only left-out columns, and their failures are caught.  Readers
see a little more: the columns filters name, the deposit's timestamp, and whether
`usdValue` is null, zero or a value.  A price is its age and whether it is zero.

**One reader at a time.**  `Readers` checks the API and the scripts by themselves
beside the indexers (`reader` says which): the price script writes only
`usdValue`, which no query of the API asks for, and the duplicate remover works on
tables of the old schema.  `Readers` adds one behaviour to another rather than
multiplying them, and one run then checks all three.  One client stands for all of
them, since requests only read.

**Assumptions on the chains**: a proposal is executed at most once, in a
transaction other than those it failed in (`ChainAssumption`), and a fee is
collected in the extrinsic of its deposit (`FeeAssumption`).  This is the
bridge contract's and the pallet's business and not checked here.

## 3. Runs

| Run | What it checks and shows |
|---|---|
| `evm_listener` | `EvmListener`, one domain, heads 0..11, ranges of 3+1 and 1+1 blocks, delay 1, unbounded crashes, signals and errors. `NoBlockSkipped`, `QueriesMinedBlocks`, `CursorNeverRegresses`, `ImplementsBlockCursor`, and under fairness `DeepBlocksAreSaved`. |
| `evm_listeners` | `EvmIndexer`, two domains with transfers both ways, so that each listener has deposits and executions in one range and races with the other on both transfers; one transfer fails and then executes, one deposit goes to a domain that is not configured, two events may not be decodable; all faults. `IndexedEventsAreRecorded`, `TablesAgree`, `ImplementsLifecycle`, `Convergence`. |
| `evm_blacklist` | violation, see findings. |
| `substrate_batch` | `SubstrateIndexer`, two deposits in one extrinsic with their fees, an execution of one of them, and a blacklisted deposit ahead of an ordinary one; all faults. `PassedEventsAreAccountedFor`, `TablesAgree`, `ImplementsLifecycle`. |
| `substrate_contest` | `SubstrateIndexer`, a deposit from before the fee event, and a failure and an execution of its transfer in consecutive blocks, whose callbacks overlap. `PassedEventsAreAccountedFor`, `TablesAgree`, `Convergence`. |
| `substrate_fee_after_crash` | violation, see findings. |
| `indexers_both` | `Indexers`, one EVM and one Substrate domain, a transfer each way, all faults of both kinds: what each kind's row vouches for survives the other kind's writes (`EvmEventsAreRecorded`, `SubstrateEventsAreAccountedFor`, `TablesAgree`), and uncontested transfers live as `TransferLifecycle` says (`ImplementsLifecycle`). |
| `indexers_race` | violation, see findings; no fault is needed. |
| `monitoring_overlap` | `Monitoring`, two transfers, two checks at a time, all faults. `WarningsAreJustified`, and under fairness `OverdueAreWarned`. |
| `monitoring_bare` | violation, see findings; no fault is needed. |
| `price_service` | `PriceService`, two listeners that ask for one symbol, a time to live of two ticks, three attempts with back-offs 1, 2 and 4, requests of up to two ticks, restarts. `AnswersAreFresh`, `PricesSpareRequests`, `ListenersAreNotHeldUp`, and under fairness `AsksAreSettled`. |
| `readers` | `Readers`, three transfers and pages of two beside indexers that go on; every query of the API once, walks from page one and page zero, lookups of ids that exist and do not; any old table of three rows for two transfers, with or without a document and a timestamp of their own. `WalksMissNothing`, `RequestsAreAnswered`, `RunsMissNothing`, `ValuesAreLostToZeroPricesOnly`, `LastRowsAreKept`, `DuplicatesAreGone`, `RowsAreDated`, and under fairness `RunsEnd`. |

**The properties.**  `IndexedEventsAreRecorded` relates the persisted cursor to
all tables: an event at or below its domain's `lastIndexedBlock` is in the
database with every row its handler writes, unless its decoding failed
(`lost`, the code logs and passes over it).  For Substrate the code gives less,
and `PassedEventsAreAccountedFor` says what is left: unless its callback is still running or one
of its database calls failed (`dropped`), a passed event is recorded.  It exempts
fees of extrinsics with two deposits, whose map entry the second deposit
overwrites, and for a transfer that has a failure it does not say which of the
two executions the row ends up with: the failure's callback may write
last.  `TablesAgree` relates the tables to each other at every step of every
handler.  `TransferLifecycle` says what readers see over time: a status never
goes back to pending and never leaves executed, details do not disappear, and the
execution row, once it names the executing transaction, keeps naming it.

`AnswersAreFresh` allows for one request beyond the time to live, because an
older price may be stored over a newer one and begins to live anew.
`WalksMissNothing` and `RunsMissNothing` are about rows whose timestamp no other
deposit has, and under filters whose rows stay (`Stable`): rows of one timestamp
may change places between two queries, and rows that leave a listing of pending
transfers move up the ones behind them; neither is guaranteed anything by the
code.  `ValuesAreLostToZeroPricesOnly` says what the price script's stale snapshot may do at worst.
`DuplicatesAreGone` leaves aside what was inserted since the table was scanned,
and `LastRowsAreKept` holds over aborted and repeated runs.  `RowsAreDated` is about
rows whose transfer has a document: the script passes over the others without a word
(`DuplicateRemover.ts:93`, `:111`).  It says that a run that comes to its end has dated
them all, so one that throws at a document without a timestamp is none, and that from
then on none of them is ever without a timestamp, whatever is inserted and however
later runs end.

**Bounds.**  `MaxHead` bounds the chains, `Flaky` the events whose decoding may
fail, and the `MC` modules fix the chains' contents.  In
`evm_listener` heads are long enough for two catch-up ranges, several short ones
and a resume after each; in the larger models for one catch-up range and the
short ones after it.  Faults are unbounded everywhere.  Two transfers are
enough for a race on one transfer while the other is half saved; handlers touch
only the rows of their own event's transfer, so a third would add no new kind of
interaction.  Blocks are placed so that an execution may be indexed before, with
or after its deposit.  In `price_service` a price expires while a request is on
its way, and two fetches overtake each other; the latency bound (`MaxLatency`) is
the only one, time itself is unbounded.  In `readers` three rows and pages of two
make a page's edge a row can cross, and three row ids a duplicate beside a single row.  No symmetry is used: domains differ by their events.

**Deadlock** is checked in every run: some fault is always possible, or, in the
run without faults, the violation comes first.

**Fairness.**  `EvmListener!FairSpec` assumes weak fairness of what the event
loop does on its own (waking up, waiting) and strong fairness of calls that are
tried again for ever (the node, the database).  `DeepBlocksAreSaved` is further
conditional on the loop being alive again and again: the code does not restart
a listener that failed to start.  `EvmIndexer` and `SubstrateIndexer` assume
only that the event loop runs every ready callback (weak fairness of each
listener and of each callback), and `Convergence` is conditional on faults
ceasing; without that a permanently failing database makes it false, rightly.
`Monitoring` assumes that the container restarts the process, that the job fires
and that a check in progress goes on, and nothing of the listeners.
`PriceService` assumes that time passes (`Tick`) and that a request settles and a
sleeper wakes (`Go`): timers go off and requests time out.  `Readers` assumes that
a request that has arrived is answered (`Answer`) and that a script that was
started goes on (`PriceScript`, `RemoverScript`); nobody has to ask or to start
one, and nothing is assumed of the indexers.
`OverdueAreWarned` is conditional on faults ceasing and on no transfer staying
pending without a deposit row for good, which a swallowed error of the Substrate
indexer can cause: every check may then end before it warns of anything.

"Faults cease" is written `~[]<><<Fault /\ ~Step>>_vars`: a fault may change the
state as an ordinary step does (a lookup that fails and one that finds nothing,
say), and a step that is possible either way must not count as a fault.

## 4. Proofs

`EvmListener_proofs`: for all start blocks, intervals, delays and bounds,
`TypeCorrect`, `BlocksNotSkipped`, `QueriesWithinChain`, `CursorMonotone`,
`RefinesBlockCursor`.  The inductive invariant adds to the properties what the
row and the loop each know of `saved`, that the row is never ahead of the loop,
and that the range in hand lies within the chain.

`EvmIndexer_proofs`: for all sets of domains, transfers and events, any content
of the chains that satisfies the two assumptions, and any head the node
answers with, `TypeCorrect`, `TablesAlwaysAgree`, `IndexedIsRecorded`,
`RefinesLifecycle`.  The inductive invariant is
`IInv == TypeOK /\ HandlerSound /\ TablesAgree /\ RangesSound`:

* *One executor* (`OneExecutor`): only the listener of the domain a transfer goes
  to writes its status and its execution row, apart from creating the row.
* Hence *what a handler read still holds when it writes* (`HandlerSound`): a
  failure that was not overtaken at the lookup is not overtaken at the update.  This
  is what the Substrate callbacks do not have, and why the module's properties are weaker.
* Hence *what is recorded stays recorded* (`RecordedStable`), and a handler that
  returns has recorded its event (`HandlerRecords`).
* `RangesSound`: below the row and below the loop's cursor every event is done;
  in the range in progress each is done, in hand or still to do.
  `IndexedEventsAreRecorded` alone is not inductive: it says nothing of the
  local cursor that the next `updateBlock` will vouch for.

`Monitoring_proofs`: for all sets of transfers and any number of checks,
`TypeCorrect` and `WarningsJustified`.  The invariant adds that what is pending
has been recorded as such and that only deposits with a row age.

`SubstrateIndexer_proofs`: for all sets of domains, transfers and events,
`TypeCorrect`, `TablesAlwaysAgree`, `PassedAreAccountedFor`, `RefinesLifecycle`.
There is no `OneExecutor` to lean on: callbacks of one transfer overlap.  Instead

* no step takes back what is recorded (`Keeps`, `RecordedStable`), whoever writes;
* a callback that is about to write the execution's row finds a status that knows
  of an execution, not necessarily the one it wrote (`CallbacksSound`);
* an entry of the map is a transfer whose deposit is in that extrinsic and has
  its row (`MapSound`), so a fee never comes before a deposit;
* of each block every event is settled, dropped, in hand or still to do
  (`BlocksSound`), which callbacks that outlive the block do not disturb.

`Indexers_proofs`: for any domains of both kinds and any content of their chains,
`TablesAlwaysAgree`, `EvmEventsRecorded`, `SubstrateEventsAccountedFor`,
`RefinesLifecycle`, `ReadersAreServed`.  The invariant is the conjunction of
the two kinds' invariants, and neither proof is done again: each kind is shown once
(in its own proof module) what it needs of its surroundings, and what it is to others:

* `Environment`: rows and details are only added, deposit rows come with details,
  and nobody else writes executions of the transfers this kind executes (`TriedHere`).
  Any such step keeps the kind's invariant (`EnvironmentStep`).
* `Guarantee`: a step of the kind adds only, and writes executions only of its own.
* The executions of a transfer are on one chain, and a chain is of one kind
  (`ChainsAssumption`), so each kind's guarantee is the other's environment (`TriedApart`).

`EvmP` and `SubP` are the instances of `Indexers` with their theorems; the lemmas
that end in `Names` identify their definitions with `Evm`'s and `Substrate`'s.
`RefinesLifecycle` then follows for transfers no failure was emitted for on a
Substrate domain, and `ReadersAreServed` closes the chain from the handlers to
the readers: the tables as `TransferRows` has them start as it says and change by its
`Index` only, which is what `TransfersApi`, `PriceCalculation` and `Monitoring` assume.

`PriceService_proofs`: for any time to live, latency, back-off and number of
attempts and callers, `TypeCorrect`, `FreshAnswers`, `RequestsSpared`, `WaitsEnd`.  The
invariants say how the age of what is cached relates to the time since it was stored,
and that who is after a live price asked before that.  For `WaitsEnd` an ask has
waited at most for the requests behind it, the sleeps between them and its timer
(`Waits`), each back-off being `Backoff * 2 ^ n` after `n` attempts; that powers of two
double is proved by counting the subsets of `1 .. n`, since the provers do not compute with them.

`Readers_proofs`: of the API, the price script and the duplicate remover, each by
itself and as `Readers` starts them.

* Paging, for any number of transfers, any page size and any order the database may
  choose: `WalksAreComplete`, `RunsAreComplete`, `ValuesAreKept` and the types.  A row
  with a timestamp of its own stands right behind those that come before it
  (`Position`); their number only grows; so a row not seen yet always has at least
  as many before it as the pages read have skipped, which is the invariant.
* Duplicates, for any table and any order of its rows: `LastRowsKept` (whatever is
  doomed has an heir that is not), `DuplicatesGone` (a table gone through is single
  but for late rows), `AllRowsDated` (a row without a timestamp whose transfer has
  a document is listed until it has one, and no step takes one away) and the types.
* Together, `TypeCorrect`, `ReadersHold` and `ReadersKeepValues`: a step of one of them
  is to the API and the remover a step of their own specification (`StepOfApi`,
  `StepOfRemover`), and to the price script that or a listener's write.

The assumptions used are those named in the modules: `RangeAssumption`,
`HeadAssumption`, `StoreAssumption`, `LogAssumption`, `ChainAssumption`,
`FeeAssumption`, `PriceAssumption`, `QuoteAssumption`, `RowsAssumption`,
`QueryAssumption`, `ApiAssumption`, `ScriptAssumption`, `RemoverAssumption`; and for
`Indexers` `LogsAssumption`, `ProposalsAssumption`, `FeesAssumption`, which are
`LogAssumption`, `ChainAssumption` and `FeeAssumption` of both kinds' chains together,
and `ChainsAssumption`: no chain is indexed by both kinds of listeners (a domain of
the shared configuration has one type).

Every invariant and every action property of the passing runs is proved, and so are the
refinements.  Model-checked only is liveness (`DeepBlocksAreSaved`, both `Convergence`,
`OverdueAreWarned`, `AsksAreSettled`, `RequestsAreAnswered`, `RunsEnd`): it rests on
fairness, and so on ENABLED, which is beyond the prover.  The inductive invariants were
checked by TLC on the runs' instances before they were proved.

## 5. Findings

* **An execution is lost without any fault** (`indexers_race`).  The Substrate callback
  finds no transfer (`utils/substrate/index.ts:43`), the EVM listener upserts
  it for the deposit, the callback's insert is refused (`:45`) and the error
  only logged (`:355`).  The transfer stays pending for good; the end-to-end
  test waits for every transfer to have both (`tests/e2e/indexing.spec.ts:52`).
  On the EVM side the same refusal repeats the range.
* **A deposit without its fee after a crash** (`substrate_fee_after_crash`).
  `insertDeposit` (`utils/substrate/index.ts:176`) is not preceded by a lookup,
  so on the second try it throws before `transferMap.set`, and the fee is
  refused too.  The end-to-end test expects the fee (`:287-294`).
* **The EVM blacklist never matches** (`evm_blacklist`).  `utils/evm/index.ts:68`
  looks for a bigint in a list of texts; the type assertion at `:67` hides it.
* **A check can end the process** (`monitoring_bare`).  A pending transfer may
  have no deposit row yet; `transfer.deposit!` (`monitoringService/index.ts:35`)
  is then null, and the check's promise, which the job does not await, is
  rejected outside the `try` that was to log the error (`:51-52`).

Observed while modelling, and not checked by a run:

* A price lives for a second where a minute is configured: the minutes are
  multiplied by 1000 (`src/indexer/index.ts:87`) and the cache takes
  milliseconds; `README.md` gives `CACHE_TTL_IN_MINS=5`.  Modelled as it is.
* For an `ENVIRONMENT` without metadata (`README.md:38` names `devnet`) the
  synchronous handlers of `DomainController` set status 404 and send nothing, so
  the request stays open.  `RequestsAreAnswered` is checked for environments
  that are described.
* `findTransfersByTxHash` throws `NotFound` if a list is falsy, which none is: an
  unknown transaction is answered with an empty list.
* The price script asks for the price of tokens whose amount is the id of an NFT;
  the indexers leave these without a value.
* The duplicate remover logs `Timestamps updated completed successfully`
  (`DuplicateRemover.ts:123`) also when it has passed over rows whose transfer has no
  document; a document without a timestamp makes it throw, in every run anew, and
  leaves the rows behind it as they are (`:99`, `:117`).
* Of two execution rows the duplicate remover keeps the first, which may be that of a failed attempt.
* A walk through pending or failed transfers, or through deposits of one timestamp, may miss some (section 3).
* `CRON_TIME="* */10 * * * *"` (`README.md:44`) has six fields, the first of them
  seconds: the job runs every second of each tenth minute, and checks that overlap
  are the rule.  `Monitoring` makes no assumption on when they start.
* `routes.testnet.ts` has under the key `"11"` routes whose `fromDomainId` is `"10"`.

## 6. Not modelled, and why

Closing the server and the database connection at shutdown, the health check, the OFAC
request, fetching the configuration: I/O with no state of the system.  Decoding
of amounts and destinations: pure conversions whose values no property
here tells apart.  Resource rows: written at start-up for every resource of the
configuration, before a listener runs; an EVM deposit of another resource throws while it
is decoded and is dropped.  WebSocket connections that nothing closes, and calls that are
never answered: an await of a model ends in a result or an error.  The
text and transport of a notification: the job ignores both.  The schemas of requests and
answers, and negative limits or pages: Fastify and Prisma refuse or reinterpret
them.  The constant tables of metadata and routes, the seeder and the mocks: data.
Resources' decimals and the symbols of fees: left out with the values.

## 7. Plan

1. *Done*: the indexers (`BlockRange`, `BlockCursor`, `EvmListener`,
   `TransferStore`, `TransferLifecycle`, `EvmIndexer`, `SubstrateIndexer`,
   `Indexers`), `Monitoring`, `PriceService`, the readers (`TransferRows`,
   `TransferQueries`, `TransfersApi`, `PriceCalculation`, `DuplicateRemover`,
   `Readers`), and the proofs of section 4, which join the handlers of both kinds
   to what the readers assume.
2. The hazards that no property covers (see `hazards`, each with its reason), first
   the resource map that legacy blocks write to.
