# Verification of ethstaker.tax

ethstaker.tax computes the income of Ethereum validators for tax purposes. Indexers
copy what they need from a beacon node, an execution node, MEV relays, Infura and
CoinGecko into a PostgreSQL database; a FastAPI application answers requests from
that database; a Vue page asks it. This directory holds TLA+ modules of those parts,
TLC configurations that check them on small instances, and TLAPS proofs of the most
important invariants for every instance.

All line numbers below are those of the files under `src/` of the repository.

## 1. The system

| part | code | state it keeps | modelled by |
|---|---|---|---|
| balance indexer | `indexer/balances.py` | table `balance`; `ALREADY_INDEXED_SLOTS` (process) | `BalanceIndexer` |
| withdrawal indexer | `indexer/withdrawals.py` | tables `withdrawal`, `withdrawal_address` | `WithdrawalIndexer` |
| block reward indexer | `indexer/block_rewards/main.py` | table `block_reward`; `ALREADY_INDEXED_SLOTS`; a semaphore and its tasks | `BlockRewardIndexer` |
| value of a block | `indexer/block_rewards/block_rewards_mev_simple.py`, `providers/mev_relay.py` | relay tasks | `RewardValue` |
| Rocket Pool indexer | `indexer/rocket_pool/main.py`, `providers/rocket_pool.py` | four tables; `LAST_BLOCK_NUMBER_INDEXED` (process) | `RocketPoolIndexer` |
| logs of a range | `providers/execution_node.py` | the recursion of `_get_logs` | `LogRange` |
| validator indexer | `indexer/validators.py` | table `validator` | `IndexValidators` in `RocketPoolRequest` |
| price indexer, prices endpoint | `indexer/prices.py`, `providers/coin_gecko.py`, `api_v2/endpoints/prices.py` | table `price` | `PriceIndexer` |
| rewards endpoint v2, full | `api_v2/endpoints/rewards.py` | the request's local variables | `RewardsRequest`, `RewardsEndpoints` |
| rewards endpoint v2, Rocket Pool | `api_v2/endpoints/rewards.py` | the request's local variables | `RocketPoolRequest` |
| rewards endpoint v1 | `api_v1/endpoints/rewards.py` | the request's local variables | `RewardsRequestV1`, `RewardsEndpoints` |
| page | `frontend_vue/src/views/TheMainView.vue`, `components/outputs/IncomeChart.vue` | refs of the component; the drawn chart | `MainView`, `EntryPage` |
| field for the validators | `frontend_vue/src/components/inputs/ValidatorAdder.vue` | the set entered; look-ups under way | `ValidatorAdder`, `EntryPage` |
| HTTP client | `providers/http_client_w_backoff.py` | three nested retry loops | `HttpRetry` |
| database access | `db/db_helpers.py`, `db/tables.py`, `providers/db_provider.py` | sessions | inside each of the above |
| beacon node client | `providers/beacon_node.py` | Redis caches | inside the indexers, `Days`; the caches are not modelled |

**How they interact.** The parts share nothing but the tables. An indexer is a
process `while True: run a round; sleep`: whatever a round raises is logged and
the next round starts with the globals the process has. `session_scope` commits
when its block ends and rolls back when the block raises. A killed container is
restarted with empty globals. The API reads the tables at any moment, each query
in a transaction of its own. The block reward indexer also *reads* the table the
withdrawal indexer fills. The page asks the API; its parts share a set of validators
that the field emits and the page copies.

**What is hard.** (a) Two memories of the same fact, a process global and the
table, that are updated at different moments and lose different things when an
exception or a restart comes between. (b) "Resume after the largest row", which
is right only if nothing is ever missing below it. (c) Answers assembled from
tables other processes are writing, and dictionaries made by one query indexed with
the keys of another. (d) Slots at the boundary of two days, the first and the last
element of a range, periods numbered from 0. (e) Concurrent tasks of which one fails;
concurrent relays; answers that reach the page after the fields have changed.
(f) "404" and "error" taken for facts: no block, no such function. (g) Retry loops
inside retry loops, on an event loop that a `time.sleep` stops.

**What makes each part correct.**

- An indexer's table is an *archive*: it only grows, only by final slots
  (`SlotArchive`), a slot is there with all its rows or not at all, each thing
  once, and everything final gets there.
- The withdrawals of the table are a *prefix* of the chain's (`WithdrawalLog`), so
  that a sum over a range below its last slot misses and repeats nothing.
- A block's stored value is the proposer's income, or the row says it is unknown.
- The prices of a token have no hole and are close prices.
- An answer attributes every amount to the days in which it was earned, splits it by
  the terms of its time, and leaves nothing of its days out; two endpoints that do not
  share a line of the calculation agree.
- The page shows what was asked for, and asks for what was entered.
- A call ends, within a time its budgets bound.

## 2. Modules

`SlotArchive` and `WithdrawalLog` are abstract specifications. `Days` and `DayLedger`
hold what the rewards endpoints have in common. Every other module is one component, or
a composition of two: its VARIABLES are the component's state, an action is what the
code does between two awaits or transactions, with every change it makes. `MC<Module>`
gives the constants of the small instance. `<Module>Proofs` holds the theorems:
`EntryPageProofs` those of the page, its field and both together,
`RewardsEndpointsProofs` those of both versions, `BlockRewardIndexerProofs` also those
of `RewardValue`, `RocketPoolIndexerProofs` that of `LogRange` and `PriceIndexerProofs`
that of `HttpRetry`, the helpers these indexers call. A name with an underscore,
`<definition>_<bug>`, is not part of a model: it is the definition with one plausible
mistake, kept to show which property would notice it.

### BalanceIndexer

A row is a pair <<validator, slot>>. `StartRound` is lines 33-111: load
`ALREADY_INDEXED_SLOTS` from the table if it is empty, compute the end-of-day slots
before now and the activation slots the head state shows, take the remembered ones
away. `IndexSlot` is one iteration of the loop: `Skip` for the two `continue`s (not
final, no data), `Store` for the insert. `Commit` is line 153, `FinishRound` the end
of the round, `Raise` an exception (rollback; the globals live on), `Restart` a killed
container (the globals are lost). The node's view is `final`, which is what
`head_finalized` *returns*, and `unsynced`, slots it answers 404 for.

### WithdrawalIndexer

The table is a count per block of how often the block's withdrawals are in it: there
is no unique constraint. `AddAddress` is committed at once by a second session inside
`withdrawals_for_slot`; `InsertWithdrawals` puts the block in the open session.
`Gaps` are blocks the node may not have for a while; it answers 404 and the code takes
that for a slot without a block. `RaiseUnbound` is the round on an empty table.

### BlockRewardIndexer, RewardValue

One task per slot, at most `Permits` inside the semaphore; `task[s]` is the await the
task stands at. An exception of one task (`Raise`, `CommitFails`) makes `gather` raise
and `Cancel` ends the others, some time later, during which they may go on. `Late` are
slots whose block the node may answer 404 for, which the task stores as a missed slot.
`RewardValue` is what happens inside one call of `get_block_reward_value`: the race of
the relays, then the comparison of balance change and fees, as a function of a record
that says what really happened to the accounts.

### RocketPoolIndexer, LogRange

A round is four stages, each with its commit; `last` moves after the fourth.
`MinipoolTwice` and `PeriodTwice` are the two stages failing on a key violation: a
minipool or a reward snapshot that appears twice in the logs, and reward period 0 added
again. `LogRange` is why a log may come twice: a stack of calls `_get_logs` still has to
make, cut where the provider suggests or in the middle, both parts including the cut.
`ProviderFails` is every other way out of it: an error code it does not know, and the
assertions a call begins with.

### PriceIndexer

Indexer and endpoint in one module because their interleaving is the point. The
indexer commits date by date, token after token; the endpoint caps the range and looks
its dates up in separate sessions.

### Days, DayLedger

Days are `DayLen` slots. Midnight falls inside a slot, so the slot of 23:59:59 is the
slot of the next 00:00:00, as it is on mainnet, and that slot is dated on the day that
ends. `ledger` is what really happened to one validator, slot by slot (earned,
deposited, withdrawn, proposed, to whom); `balance`, `withdrawal` and `reward` are what
the indexers have stored of it. `BalanceAt` is the raw balance, deposits included: the
handlers subtract such balances and never see a deposit. `Index` is any of the three
storing something more.

### RewardsRequest, RewardsRequestV1, RewardsEndpoints

`RewardsRequest` is `POST /api/v2/rewards/full`. The handler sees the tables only, reads
them with four queries (`ReadInitial`, `ReadEods`, `ReadWithdrawals`, `ReadRewards`)
between which the indexers write, and walks over the end-of-day rows.
`RewardsRequestV1` is `GET /api/v1/rewards`: other range rules, withdrawals read again
for every day, prices needed day by day, 32 ETH for the balance at an activation in
the range, and its own sums. The handlers treat
validators independently, so the models follow one.

`RewardsEndpoints` puts both over the same tables: a request to either while the
indexers write, then the same request to the other once the tables miss nothing. What
is earned and deposited is `EarnedBy` and `DepositedBy`, from the ledger; what the
handlers answer is computed from
rows. They meet only in the properties.

### RocketPoolRequest

`POST /api/v2/rewards/rocket_pool`: five queries in five transactions over the tables of
four indexers, then one call of the contracts per node and per proposal. A validator of
Rocket Pool has one minipool and the model names it by the validator. A withdrawal is
split by the bond and the fee at its time (`NodePart`); a proposal to a fee distributor
is shared by the balances before and after its block (`get_node_fee_distributor_share`),
by half when the contract has no `getNodeShare`, which is also what an error of the
provider is taken for (`Glitches`). Rounding is modelled: shares are integers in wei.

### MainView, ValidatorAdder, EntryPage

`MainView` is the page: fields, one rewards request, any number of price requests under
way, what they write into, and the chart, which is drawn when it appears and again only
for new rewards. It is there while there is at least one price (`ShowOutputs`): a range
of days that are not over has none. A user is patient (touches no field while something
loads) or not, for a whole behaviour.

`ValidatorAdder` is the field: indexes are added at once, keys and addresses are asked
for one after the other by a look-up, any number of look-ups overlap, Reset empties the
set and stops none of them. `wanted` and `hasty` remember what was entered since the
last Reset and whether that Reset came during a look-up.

`EntryPage` composes them: what changes the field's set also runs the page's watcher,
in the same step. A patient user waits for look-ups too, though nothing shows that one
is under way.

### HttpRetry

One call: a request that takes up to `Timeout`, three decorators each with a start time
and a budget, sleeps never longer than the budget leaves. `OtherBlocks` is `time.sleep`
in another task. The `backoff` library is external and described in the module's head.

## 3. Runs

| run | shows | bounds |
|---|---|---|
| `balance_table` | `StoredSlotsComplete`, `IndexedIsStored`, `ImplementsArchive`, `EverySlotStored` | 3 validators, 4 wanted slots, clock to 10, 2 faults, epochs of 2 |
| `balance_rollback` (violation) | `IndexedIsStored` fails once an exception may hit a session with rows | same |
| `withdrawal_table` | `AtMostOnce`, `AddressesExist`, `NothingSkipped`, `ImplementsLog`, `EventuallyStored` | 6 paying blocks of 12 slots, 4 addresses, 2 gaps, 2 interruptions |
| `block_reward_rows` | `RowsSettled`, `EventuallySettled` | 5 slots, one missed, one late, 2 permits, 2 faults |
| `reward_value` | `OkMeansIncome`, `NeverCalledVanilla` | 3 relays, every combination of block fields, withdrawals stored or not |
| `rewards_endpoints` | `IncomeIsExplained`, `SettledAnswerComplete`, `IncomeIsExplainedV1`, `SettledRequestAnsweredV1`, `VersionsAgree` | 3 days of 2 slots, 10 histories with deposits and exits, every range, 2 requests |
| `rocket_pool_shares` | `LookupsSucceed`, `SplitAtItsTime`, `ProposalsPaid`, `SettledAnswerComplete` | 3 validators, 2 minipools, 1 node, 2 days of 3 slots, 2 reductions, 3 withdrawals, 3 proposals, provider errors |
| `rocket_pool_tables` | `PeriodsHaveNoHoles`, `ScannedIsStored`, `EventuallyStored` | 2 nodes, 3 minipools, 2 reductions, 4 periods, a cut at one minipool and at one snapshot, 2 faults |
| `price_rows` | `NoHoles`, `NoPriceOfToday`, `AnswerIsComplete`, `EventuallyPriced` | 2 tokens, 2 currencies, 4 dates, 2 faults |
| `view_page` | `ShownForEntered`, `PricedInSelected`, `ChartIsCurrent`, `NothingLost`, `NothingUnwanted`, `LoadingEnds` | 2 validators, 2 keys, 2 currencies, 3 ranges, one of them without prices, 3 acts on the page, 2 on the field |
| `log_range` | `NothingMissed`, `Ends` | 7 blocks, chunks of 4, at most 2 logs a query, depth 4 |
| `http_call` | `TimeBounded`, `Ends` | budgets 1, 2, 2 (for 30, 300, 300 s), request of 1, one block of 2 |

Types are not checked as runs: `TypeOK` is a theorem of each module that has a proof
module (section 5).

**Why the bounds are enough.** In each instance the interesting case happens at least
twice: two slots that activate validators or end a day in one round, with a fault
between them and a fault after; two gaps, one before and one after a stored block; more
tasks than permits; a chunk that is cut and a part that is cut again; two dates per
round with midnight in between; two reductions of one minipool with a withdrawal on each
side; two look-ups, one of which fails half way, around a calculation. Two faults give
the sequences fault-recover-fault that a single fault would not. The safety invariants
of the modules with proofs hold for every bound.

**Amounts.** In `MCRewardValue` the amounts are distinct powers of two, so that no two
different histories of an account end in the same balance by coincidence; the code
compares balances and cannot tell such histories apart on chain either. In
`MCRewardsEndpoints` a validator earns 1 per slot, and withdrawals and proposals stand
on each side of each boundary; validators are activated with 32, 33 and 34 ETH, are paid
for in two deposits around a midnight, topped up while active, slashed, and exit with
more than they came with.

**Deadlock.** `CHECK_DEADLOCK FALSE` is set where the system stops: one or two requests
(`RewardsEndpoints`, `RocketPoolRequest`, `RewardValue`, `LogRange`, `HttpRetry`), the
last date (`PriceIndexer`), a user who has done everything (`EntryPage`). The indexers
never stop and are checked for it.

**Fairness.** An indexer's loop runs for ever and each await returns or raises
(requests have timeouts), so weak fairness of its steps is what the code gives; the
chain finalizes and a node that lags catches up (weak fairness of `Finalize` and
`NodeSync`). Faults are never fair and bounded by `MaxFaults`. `RocketPoolIndexer` and
`PriceIndexer` need no fairness of the chain: what is there already must be stored. A
user need do nothing; only answers and the redrawing of the chart are fair in
`EntryPage`. In `HttpRetry` time passes, requests end and sleepers wake. No strong
fairness is used.

## 4. What the code does not keep

One run ends with a counterexample, and PROJECT.json lists it as a finding:

**`balance_rollback`.** `balances.py:150` appends a slot to
`ALREADY_INDEXED_SLOTS` before its rows are committed. If the commit, or a later
request of the same session, raises, the rows are rolled back and the slot stays in
the list: this process never indexes it again.

The passing runs assume away, explicitly, these further cases. Each is an escape named
in the property, an action of the model, or a constant of the instance.

*Indexers*

- `LateFaults = FALSE` in `balance_table` (the case of the finding). Completeness of
  stored slots and the archive are proved without it.
- `balances.py:152` compares `current_tx == commit_every` although skipped slots count
  too: after a skip nothing is committed before the end of the round. No property
  depends on it; it makes the finding worse.
- `beacon_node.py:269` returns the last slot of the finalized epoch; the checkpoint is
  its first slot. "Final" in the models is what the function returns.
- `withdrawals.py:34` assigns `START_SLOT` inside the function, which makes it local; on
  an empty table it is unassigned and every round raises `UnboundLocalError`
  (`RaiseUnbound`). `EventuallyStored` is stated for a table that has a row.
- A block the node lacks when it is asked (`Gaps`, `Late`) may never be stored:
  `withdrawals_for_slot` (`beacon_node.py:316`) and `get_slot_proposer_data` (`:166`)
  take 404 for a missed slot: the withdrawals are lost and the slot stays a missed one.
  The log of withdrawals is stated for `Served` blocks.
- `EventuallySettled` accepts a slot that is remembered: `main.py:67` and `:110` of the
  block reward indexer remember it before a commit that may fail.
- One relay that is down makes a block a failed one even if another relay delivered it:
  `mev_relay.py:35` wraps every error in a plain `Exception`, so the `except
  NonOkStatusCode: continue` of `block_rewards_mev_simple.py:242` is never entered.
  `NeverCalledVanilla` says what is kept: the row is failed, not wrong.
- `OkMeansIncome` is stated for slots whose withdrawals are stored; otherwise a
  withdrawal to the proposer counts as income (`block_rewards_mev_simple.py:118`). Blocks
  of forwarder contracts are excluded: the code takes the relay's word for them.
- `CutForEver`: a minipool created in a block where `_get_logs` cuts its range, or a
  reward period with its snapshot in such a block, comes twice (`execution_node.py:256`)
  and its duplicate key fails every round.
  `PeriodZeroForEver`: `rocket_pool/main.py:120` takes period 0 for no period, so with
  it alone in the table every round adds it again and fails.
- `Swallows`, `MaxLag`: a swallowed error about one minipool (`rocket_pool.py:383`) and a
  log provider behind the node lose what `last` then moves past.
- A token that has no row at all never gets one: `None.date()` (`prices.py:37`).

*Endpoints*

- The handlers subtract balances and know no deposits: a top-up of an active validator
  is reported as income by both versions (`rewards.py:527` of v2, `:335` of v1).
  `IncomeIsExplained` and `IncomeIsExplainedV1` have `DepositedBy` in them. What is
  deposited before the activation is in the first balance and is not reported.
- v1 does not read the balance at an activation in the range: it takes it to be 32 ETH
  ("In 99.999% of time", `rewards.py:184-192`), and a validator activated with 33 has 1
  ETH of income too much on its first day. v2 reads the row (`:445`).
  `IncomeIsExplainedV1` and `VersionsAgree` have the difference in them (`Misjudged`).
- A withdrawal that is not stored when the request reads makes the income of its day too
  low by its amount, in v2 by `UnseenBy`; the handler cannot know. Over tables that
  missed nothing it is 0. In v1 `IncomeIsExplainedV1` is stated for the days whose
  withdrawals were all stored at the query. A day without a stored balance is merged
  into the next (`PreviousBalance`).
- An exit is reported as a loss of its capital: `rewards.py:533-540` of v2 adds back
  only `amount % 32 ETH` of a full withdrawal while the balance falls by all of it.
  `IncomeIsExplained` has the capital in it (`CapitalBy`).
- v1 takes the withdrawals between two balances with both ends (`rewards.py:328`): one
  in the slot of the earlier balance, which that balance already lacks, is added again.
  `IncomeIsExplainedV1` has that amount in it.
- So the versions differ, for the same days of the same tables, by these things and no
  other: `VersionsAgree` states the difference exactly.
- A block proposed in the slot of the midnight that starts the range is dated on the day
  before. v2 reports it there (`rewards.py:487`), and `SettledAnswerComplete` says
  nothing in the range is lost; v1 has no price for that day and raises `KeyError`
  (`rewards.py:374`), the exception `SettledRequestAnsweredV1` makes.
- An error of the provider is taken for a contract from before Atlas and the node gets
  half (`rewards.py:189`); `ProposalsPaid` allows half for the proposals an error hits.
- A share is the difference of two balances of the fee distributor; a distribution in
  the proposal's own block makes it negative (`rewards.py:183`). Days with such a block
  are excluded from `ProposalsPaid`.
- A withdrawal is split by the reductions stored when its minipool was read;
  `SplitAtItsTime` is stated for those.
- A block with Relayooor's extra data and a builder as its fee recipient
  (`block_rewards_mev_simple.py:274`): the builder's change would be taken for the
  proposer's. The instance of `RewardValue` has Relayooor blocks of proposers only.
- `int(None)` for a latest block reward without a value (`latest_block_rewards.py:49`),
  and a cache of activation slots that never hits because its keys are strings and the
  indexes asked for integers (`beacon_node.py:200`), are outside the models.

*Page*

- A user who is not patient can have the page show the rewards of the validators chosen
  before (`TheMainView.vue:140`), prices in the currency chosen before (`:81`), and a
  chart of other prices than the table's. So can one who waits for what the page shows
  but not for a look-up, which shows nothing: its answer changes the validators during
  the calculation.
- New dates followed by a new currency fetch prices for the new dates while the rewards
  are still those of the old ones (`TheMainView.vue:44`, `:69`): `PricedInSelected`
  speaks of the currency only.
- A failed look-up is reported only for a 2xx status that is not 200
  (`ValidatorAdder.vue:63`): axios rejects the others, the loop ends, and the keys after
  the failed one are not asked for either. `NothingLost` counts them as `failed`.
- Reset does not stop a look-up (`ValidatorAdder.vue:132`): `NothingUnwanted` excepts a
  hasty one. `filter(Number)` also drops the validator with index 0.

## 5. Proofs

| module | theorem | for every |
|---|---|---|
| `BalanceIndexerProofs` | `TypeCorrect`, `NoHalfSlots`, `BalancesImplementArchive` | constants with `ConstantsAssumption`, late faults included |
| | `IndexedIsRight` | constants with `~LateFaults` |
| `WithdrawalIndexerProofs` | `TypeCorrect`, `CountedOnce`, `ReferencesHold`, `NoneSkipped`, `WithdrawalsImplementLog` | constants with `ConstantsAssumption`, any `Gaps` |
| `RewardsEndpointsProofs` | `IncomeExplained`, `AnswerComplete` (v2); `IncomeExplainedV1`, `RequestAnsweredV1` (v1); `EndpointsAgree` | number and length of days with `DaysAssumption`, ledgers with `LedgersAssumption` |
| `BlockRewardIndexerProofs` | `TypeCorrect`, `RowsNeverChange`, `RewardsImplementArchive` | constants with `ConstantsAssumption`, any `Late` |
| | `IndexedIsRight` | constants with `~CommitFaults` |
| | `ValueIsIncome` | blocks with `BlocksAssumption`, any relays |
| | `DeliveredIsNotVanilla` | any blocks and relays |
| `RocketPoolIndexerProofs` | `TypeCorrect` (with the foreign keys) | constants with `ConstantsAssumption` |
| | `PeriodsContiguous` | constants with `ConstantsAssumption`, faults, lag and swallowed errors included |
| | `ScanComplete` | constants with `~Swallows`, `MaxLag = 0` |
| | `NoBlockMissed` | range, chunk size, provider and depth with `RangeAssumption` |
| `PriceIndexerProofs` | `TypeCorrect`, `TablesHaveNoHoles`, `OnlyClosePrices`, `AnswersAreComplete` | constants with `ConstantsAssumption`, any seed |
| | `CallBounded` | budgets, time limit and blocking tasks with `BudgetsAssumption` |
| `RocketPoolRequestProofs` | `TypeCorrect` (with the foreign keys), `LookupsNeverMiss`, `SplitsAreRight`, `SharesArePaid`, `NothingIsLeftOut` | chain with `ChainAssumption`, any request |
| `EntryPageProofs` | `TypeCorrect`, `NoOldResults`, `ShownIsSelected`, `PricedIsSelected`, `ChartAgrees` | constants with `ConstantsAssumption`, any number of acts |
| | `FieldTypeCorrect`, `LookupsLoseNothing`, `LookupsAddNothing` | `AdderAssumption`, any number of look-ups |
| | `PageImplementsView`, `PageImplementsField`, `ShownIsEntered`, `PageIsConsistent`, `FieldIsConsistent` | both assumptions and `EntryAssumption` |

**Balances.** `StoredSlotsComplete` is not inductive: a commit moves the session into
the table. `IInv` says the same of the session (`SessionComplete`), and of each slot
still to do that what this round will ask for is what the slot needs
(`WorkIsRight`). That holds when the round starts because an activation slot is known
only together with every validator it activates, and because an activation slot is
never also the end of a day, genesis apart (an assumption on the constants, true of
mainnet: days end in the fifteenth slot of an epoch).

**Withdrawals.** `Done` is the last slot a round has dealt with. `NothingAhead` (nothing
beyond it is in table or session) gives `AtMostOnce`; it holds because the round resumes
after the largest stored slot. `NothingBehind` (everything served up to it is there) makes
a write the prefix `Done`. Between rounds the link is `NothingSkipped`: the largest stored
slot may be one of a gap, and what it says is that the served ones before it are stored.

**Block rewards.** A task exists only for a slot that has no row (`TasksAreFresh`),
because a round leaves out what is remembered and memory, unless empty, covers the table
(`MemoryCovers`); so a row is written once.

**Rocket Pool tables.** Everything up to `last` is stored, and a running round has stored
everything up to `current` in the stages it has passed. The reward periods
depend on neither: `Contiguous` says that they are the first ones without a hole, because
a round adds every period Infura has after the largest one stored, or none (with
only period 0 stored it adds period 0 again, which fails, as does a snapshot that comes
twice).

**Prices.** `Horizons` says that the table of a token is everything there is for the days
before one day, its horizon: a round resumes at it, stores date after date, stops at a
day's end, and never reaches today. `Asks` says that what the running request found, and
what it asks for if all of that was stored when it came, stays there: rows only grow.

**Rocket Pool request.** `Keyed` is the foreign keys, `Read` says that what a query
returned is part of the tables, which only grow, and `Found` that after each query the
next one finds a partner for each of its rows. The look-ups then succeed however many
rows arrive between the queries. `Split` carries the amounts: a withdrawal is split by
the most recent reduction read before it, and there is one (or none before it) because
the slots of a set of reductions have a largest below any slot. `Complete` says that
tables which missed nothing when the request came miss nothing later, and that each query
returned all its range asks for; that the days of the range cover it whatever the length
of a day is `RangeIsDays`, a lemma about `\div`.

`SharesArePaid` is about amounts. `BalanceMoves`: a block that does not empty its fee
distributor raises the balance by its reward, because the distributor was last emptied at
the same slot before and after it, and no other proposal has its slot. `ShareAdds`: what
the contract takes for the node of a balance plus a reward is what it takes of each,
up to 2 wei, for any ratio and any fee in percent (two divisions that round down, and the
second divides what the first left). `HalfAgrees`: the endpoint's own formula is the
contract's for a half, up to 1. So each share is within 2 wei of the one that is due
(`ShareNear`), a sum over a day's proposals within 2 wei for each (`SumNear`), and
`PaidInv` says that the answer is this sum for some set of calls the provider failed.
The ratio of a node is a whole number in the model.

**Rewards endpoints.** Sums come first: `SumOver` is a fold over a finite set, and its
meaning (`SumStep`, `SumTake`, `SumUnion`) is shown by induction over the subsets of the
set, a minimal counterexample in the order of strict inclusion (`SetInduction`). `V2Inv`
and `V1Inv` say for each query what it has read: rows that are still stored, and all that
its range asks for if the tables missed nothing when the request came; tables that are
complete stay so (`TablesGrow`). `ChangeMeans`: the balance of one slot less that of an
earlier one, plus what was withdrawn in between, is what was earned and deposited in
between, so a day of the answer is `EarnedBy` and `DepositedBy` of its slots but for the
capital of exits and for what the query did not see (`LedgerMeans`, `IncomeMeans`) once
the walk adds the right withdrawals to the right difference (`WalkedMeans`).
`VersionsAgree` follows from both invariants: complete answers walk over the same
end-of-day rows from the same slots, and each day of each is a known difference away
from what the ledger has for it. `LedgersAssumption` is about types only: any slot of
activation, deposits and withdrawals of any amount at any time, income of either sign.

**Value of a block.** `RaceInv` follows the relays: one that is not waited for any more has
said that it knows no payload, and the chain is looked at when none is left; nothing else
calls a block one without MEV. `AdjustedIsIncome`: although the code offsets distributions
and transactions only while the change of the balance differs from the fees, what remains
is the income. `BlocksAssumption` keeps amounts from cancelling out by coincidence: the
code compares numbers only.

**HTTP calls.** `CallInv`: no decorator is called later than the budget of the one outside
of it and one more call of the target allow, plus what the loop was blocked for meanwhile.
How long it had been blocked when each decorator was called is existentially quantified
(`Histories`); the three bounds add up to `TotalBound` and the whole of `blocked`.

**Logs.** `NothingMissed` is inductive with the types: a call leaves the stack when a
query has returned its blocks, and the two parts of a call cover it wherever it is cut,
because the block of the cut is in both.

**Page.** For a patient user at most one calculation and one chain of price requests is
under way (`OneAtATime`) and it was asked for what the fields show (`ForFields`); the
chart's inputs change only while it is off the page (`Drawn`). In the composition
`Joined` says that the page's set is the field's and that nobody calculates during a
look-up when patient; from it each step of the page with its field is a step of both
parts or leaves them alone, and the invariants of both carry over.

The assumptions are the `ASSUME`s of the component modules, evaluated by TLC on each
instance. Every safety property a run checks, and both refinements, are theorems. Only
model-checked is what must eventually happen: `EverySlotStored`, both `EventuallyStored`,
`EventuallySettled`, `EventuallyPriced`, `LoadingEnds` and both `Ends`. They rest on
fairness, and so on `ENABLED`, which the prover does not support.

## 6. Not modelled

- The Redis caches (`activation_slots_for_validators`, `latest_block_rewards`,
  currencies) and index look-ups: each is one call and an expiry. What is wrong with two
  of them is wrong in a single line (section 4).
- `HttpRetry` follows `get_w_backoff`; `post_w_backoff` differs in its budgets only. A
  server that asks for a retry later names the time to sleep (`retry-after`), and the
  code sleeps that long whatever it is; the model counts this sleep as part of the
  request and so assumes that `Timeout` bounds it. `TimeBounded` is no bound for a server
  that names more.
- The loop of the balance indexer over timezones (one is configured), `INDEX_ALL` of the
  block reward indexer, the list of single withdrawals in v1's answer.
- The decoding of single eth_calls and of beacon API answers; what each known contract
  distributes, and the lists of addresses, in `RewardValue`.
- Rate limiting (a library's), CSV, tables and the sums of the charts, the legacy
  frontend, migrations and deployment. The Rocket Pool switch of the page is disabled in
  its template.

## 7. What could follow

1. A composition of withdrawal indexer, block reward indexer and `RewardValue`: when is
   a slot's withdrawal stored relative to the value's computation.
2. A module for a value computed at one time and read at another, for the caches, and
   its effect on the balance indexer's round.
3. What follows from a bounded call for the rounds of the indexers: how late a table can
   be when every call of a round takes the longest that `CallBounded` allows.
