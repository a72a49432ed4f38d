# Verification of the BTC-USD paper-trading runtime

TLA+ models of the order path of this repository, the TLC runs that check them on
small instances, and theorems that TLAPS proves for every instance. The reference is
the code: `PROJECT.json` maps every definition to the lines it models. In this
document paths are those of the repository, whose Python package is itself called
`src`; `PROJECT.json` prefixes them with the directory the repository is in.

## 1. The system

A Lambda function (`src/agent/lambda_handler.py`) runs one of four actions: `analyze`,
`health`, `paper_order` (a submitted proposal) and `auto_dip_evaluate` (the strategy,
scheduled every five minutes). It keeps nothing between invocations: all state is in
one DynamoDB table and, for the report, one S3 object. Any number of invocations may
be in progress; no concurrency limit is configured, and each may be stopped by the
30-second timeout (`cdk/lambda_stack.py`).

| Component | State | Operations | Interacts with |
|---|---|---|---|
| Handler (`agent/lambda_handler.py`) | none | `_load_state`, `_paper_order`, `_auto_dip`, `_analysis` | builds store, portfolio and broker for one invocation |
| Order service (`agent/tools.py`) | none | `submit_paper_order`: validate, resolve a retry by its key, read or initialise the risk state, size, simulate the fill, commit, report, apply | store, risk engine, broker, reporter |
| Store (`agent/dynamo_store.py`) | the items RISK_STATE, SNAPSHOT, IDEMPOTENCY, RISK, ORDER, FILL, STRATEGY | reads, conditional put, six- or seven-item transaction with bounded retries, unconditional put of the strategy state | DynamoDB |
| Risk engine (`risk/risk_engine.py`) | none | `calculate_position_size` | called by the service |
| Broker and portfolio (`broker/`, `portfolio/`) | cash, quantity, entry price, realized profit | `_execute_order`, `apply_fill`, `snapshot`, `from_snapshot` | persisted as snapshots |
| Dip-buy strategy (`strategies/dip_buy.py`) | one item: positions, signal activity, last signal, last buy | `evaluate_and_maybe_execute` | market adapter, order service; its new state is committed with the order, or put after a rejection |
| Market adapter (`market_data/adapter.py`) | none | `get_market_data` | Coinbase over HTTP |
| Reporter (`reporter/s3_reporter.py`) | `latest.json` | best-effort put | S3, dashboard |
| Agents (`agent/bedrock_client.py`, `tool_registry.py`, `orchestrator.py`) | a portfolio each, as long as the agent lives | bounded model and tool loop, orchestrated rounds, submission through the registry; only analysis when deployed | Bedrock, order service |
| In-memory store (`agent/store.py`) | the same items under a lock | the same interface | agents, tests |
| Backtester, EMA strategy, indicators (`backtesting/`, `strategies/ema_cross_v1.py`, `indicators/`) | a ledger for one call | `ema`, `rsi`, `atr`, `generate_signals`, `run_backtest` | broker, portfolio, risk engine |
| Dashboard (`public_dashboard/`, `streamlit_app.py`) | none | load, validate and render a published document | a file or URL |

What is hard here is what happens **between** the calls: two reads and a conditional
write that are not one step, retries of a write whose outcome is unknown, eventually
consistent reads (`ConsistentRead` is never set), stops anywhere, a whole-item
overwrite after a rejection, and accounts that only go wrong after several trades and
days. `PROJECT.json` lists each such hazard with its line and the properties about it.
What each component owes, and where that is stated:

* store: a key buys once; a version is consumed once; the newest snapshot is that of
  the last commit (`ImplementsLedger`, `VersionCountsCommits`, `LatestSnapshotIsLastCommit`);
* order service: its answer is true (`ReturnedOrderIsStored`, `RejectedNeverCommits`,
  `NamedConflictIsFinal`), it ends (`Termination`), and trades build on each other
  (`ImplementsAccount`);
* handler: the portfolio can be loaded (`SnapshotAlwaysLoadable`);
* risk engine, broker, portfolio: no overdraft, no short position, books that balance,
  a correct peak and day baseline (section 3.2);
* strategy: what it watches is what is held, each dip is bought once, exits settle
  (section 3.3);
* reporter: its failure changes nothing, its report is of a real trade
  (`ReportIsOfCommittedTrade`);
* in-memory store and the service over it: the same ledger, and an agent's own
  portfolio holds exactly its stored orders (`ImplementsLedger`,
  `PortfolioAppliesOwnCommits`, section 3.4);
* agents: a run ends whatever the model answers, and its answer is what it stored, which
  for an analysis is nothing (`RunEnds`, `AnswerMatchesLedger`);
* indicators, strategy, backtester: averages of what they have seen, no signal from the
  future and none lost, a ledger that explains the result (section 3.5);
* market adapter and dashboard: reject what is malformed (not modelled, section 5).

## 2. Modules

| Module | Role |
|---|---|
| `TradeLedger` | abstract: a growing log of trades in which a key occurs once |
| `PaperAccount` | abstract, extends it: each trade is applied to the result of those before it |
| `TradeCommit` | the submission of orders by concurrent invocations over the table |
| `MemoryTrade` | the submission of orders by agents over one in-memory store |
| `AgentSession` | extends it: the runs of the agents that make these submissions |
| `PaperAccounting` | the money of one portfolio over a sequence of submissions |
| `Indicators` | `ema`, `rsi` and `atr` as functions of a history |
| `Backtest` | signals over a history, executed with the operators of `PaperAccounting` |
| `DipBuy` | the strategy and its state item, over a reduced order service |
| `MC...` | constants, histories and symmetry for TLC |
| `TradeCommitProofs`, `TradeAnswerProofs` | theorems about TradeCommit; the second, about its answers and the account, extends the first |
| `IndicatorProofs` | what the recursive functions of Indicators compute, for any history and period |
| `BacktestProofs` | extends it: theorems about Backtest |
| `PaperAccountingProofs`, `MemoryTradeProofs`, `AgentSessionProofs`, `DipBuyProofs` | theorems about the other modules |

Operators commented `defect:` are not part of the model. Each is the form a definition
would have after a plausible programming error; substituted for the definition that
follows, it makes the property named in `PROJECT.json` (`mutants`) fail.

### 2.1 TradeCommit

An action is the code between two calls that leave the process; `pc[i]` names the next
call of invocation `i`. In the order of the code: `LoadRisk`, `LoadSnapshot`
(`_load_state`); `PreValidationFails`, `LookupIdempotency`, `ReadRisk`, `InitRisk`,
`SizeAndBuild` or `RiskRejects` (`submit_paper_order` up to the commit); the
`Transact...` actions, one per outcome of `transact_write_items`; `CheckIdempotency`
(the handler of a transient error, with its retries); `ReportAndAnswer`.
`CallFails` is a failing read. `Crash` is the timeout, `Replicate` and `DeliverLate`
are DynamoDB, `Tick` the wall clock that dates snapshots.

Faults are a CONSTANT, so that each property is claimed for the faults it holds under:
`overlap`, `stale` (a read answered from an older copy, per item), `unavailable` (a
call without effect), `lostReply` (an effect without an answer), `late` (an effect
after the caller gave up), `crash`.

Abstractions: an order is named by the invocation that builds it (`uuid4`); a
fingerprint is the proposal; a portfolio is the set of fills in it; every order is of
one lot; a BUY that is not refused for its position limit may or may not be refused by
the sizing; the strategy's own orders are known by their proposals (`Automatic`),
since theirs is the transaction of seven items; ORDER, FILL and RISK items of a transaction are written with the
idempotency item and read by nobody, so `commits` and `decisions` stand for them. The
wall clock never goes back and hosts agree on it.

A transaction that is cancelled carries a reason per item (`CancellationReason`). The
code tells IDEMPOTENCY_CONFLICT or RISK_STATE_CONFLICT only for a complete list of six
with that one failed condition. Everything else is told as `TRANSACTION_CANCELED`: both
conditions, seven items, a missing, malformed or incomplete list, or a reason that is
no condition (throttling, another transaction on an item), also when no key is taken
and no version has moved. All other reason codes of a failed commit are `REJECTED`.

`BROKER_APPLY_FAILED` has no step: the local `apply_fill` repeats, with the same side,
quantity, price and fee, what the broker has just done on a copy of the same portfolio,
so it raises nothing that the copy has not raised before the commit.

### 2.2 PaperAccounting

`Buy`, `BuyRejected`, `Sell`, `SellRejected` are whole submissions: sizing against the
loaded risk state, initialisation of a new portfolio's state, fill with slippage and
fees, and the derived risk state. `PriceMoves` and `DayPasses` come from outside.
Rates are numerators over `Denominator` and money is counted in `1/Unit` of a price,
so that integers are exact; rounding of floats is abstracted from. A price is always
positive, so INVALID_PRICE cannot occur. A quantity requested beside a notional
(`allow_risk_resizing`, used by the tool registry only) is not modelled, and neither
is a commit that fails, which changes nothing here.

### 2.3 DipBuy

An evaluation loads the portfolio, reads the strategy state, decides (`DecideExit`,
`DecideBuy`, `DecideNothing`, from the positions and the market), submits, commits and
saves. The order service is reduced to its interface: an order is refused at once
(claimed key, holdings), refused at the commit (key, version) or takes effect together
with the new strategy state. Two results of the service need no action of their own: a
commit that finds another run's order under its key and answers COMMITTED ends the
evaluation without an effect, as `Crash` does, and so does an evaluation that finds
its state or the market unreadable.

`ManualOrder` composes the strategy with orders of action `paper_order`: one may
commit between any two steps of an evaluation, uses a version, writes the portfolio
from whatever its run had loaded, and leaves the strategy's state alone.
`ManualOrders` counts them.

Abstractions: a BUY is of one lot and an exit sells it, so PARTIAL exits do not occur
(the service fills a SELL wholly or refuses it); the trailing stop is on, its default;
the risk state exists; a signal id is its candle and reference price; of a manual
order only the commit is here, its own steps are in TradeCommit; reads are consistent.

### 2.4 MemoryTrade and AgentSession

`MemoryTrade` is `submit_paper_order` again, in the place the agents run it: over
`InMemoryTradeEventStore`, whose methods each hold a lock, so that an action is the
code up to one of them (`Lookup`, `ReadRisk`, `InitRisk`, `Commit` or `CommitRefused`)
or up to the answer (`ReturnExisting`, `Apply`). It differs from the table in what the
service does with its answers: a lost initialisation and a refused commit come back as
dictionaries, and a commit that finds the order of the same request returns that order.
Every agent has a registry with its own portfolio. An order is named by its agent and
number, a proposal without a key gets one of its own, a fill is of one lot (so a
position is not sold in parts here; that is in PaperAccounting).

`AgentSession` extends it with the runs: `LoadContext` (the analysis only), the tool
loop of `get_decision` (`ToolAnswers`, `ConverseFails`, `LimitReached`, `Decides`),
then `Advise`, or the orchestrator's `Malformed`, `Conclude`, `MarketUnavailable`,
`Submit`, `Finish`. The model may answer anything. What the source makes true of the
tools is kept: those of the loop only read, and `submit_paper_order`, which the
orchestrator's registry also holds, is offered to the model with an argument
`proposal` that the method does not take, so calling it fails. The same decision at
another price or time is another proposal, hence another fingerprint, under the same
key: a retry by an agent is answered IDEMPOTENCY_CONFLICT (`tool_registry.py:117`).

### 2.5 Indicators and Backtest

Numbers are exact: an average is a fraction that is never reduced, so that two averages
of one period and index have one denominator. `ema` is a plain average that moves on by
2/(p+1) of each distance, `rsi` and `atr` share one that moves on by 1/p; both are
`Averages`, a recursive function on the indices. `Backtest` executes the signal of a
candle at the open of the next one with the sizing, fill and profit of
`PaperAccounting`. Two peculiarities of the code are kept and show in its instances:
the sizing is given no risk state and falls back to the starting capital of its own
configuration, so another `starting_cash` is taken for a loss or a gain of the day; and
the stake is fixed at 1000 USD, which exceeds the default risk per trade of 0.5% of
10000, so that with the defaults every BUY is refused as NOTIONAL_TOO_LARGE
(`backtester.py:29-32`).

## 3. Runs

Bounds are constants in each `.cfg`. `MaxClock`, `MaxDay` and `MaxVersion` cap the
clock, the calendar and the commits; `MaxAttempts` is a parameter of the code (4).

### 3.1 TradeCommit

| Run | Expect | Faults | Shows |
|---|---|---|---|
| `commit_faults` | pass | all | `TypeOK`, `VersionCountsCommits`, `LatestSnapshotIsLastCommit`, `NamedConflictIsFinal`, `ImplementsLedger` |
| `commit_overlap` | pass | overlap, unavailable, crash | `RejectedNeverCommits`, `SnapshotAlwaysLoadable`, `Termination` |
| `commit_serial` | pass | unavailable, lostReply, crash | `ReturnedOrderIsStored`, `ReportIsOfCommittedTrade`, `ImplementsAccount` |
| `lost_update` | violation | overlap | `SnapshotReflectsLedger` |
| `lost_result` | violation | overlap, unavailable | `ReturnedOrderIsStored` |
| `rejected_yet_committed` | violation | unavailable, lostReply | `RejectedNeverCommits` |

Two invocations are enough for every conflict over one key or one version; the serial
run has three, so that a BUY, a SELL and a retry follow each other. Four proposals
cover the same key with the same and with another fingerprint, another key, and the
other side. Two attempts (three in `commit_overlap`) exercise the first, a middle and
the last iteration of the retry loop. Two clock values give equal and increasing
snapshot keys. `NamedConflictIsFinal` is checked under all faults, because its content
is what may have become of earlier attempts: a transaction whose reply was lost, or
that is still on its way, while a retry is told a conflict. In that run both names are
told, also to orders with a transaction on its way, and `TRANSACTION_CANCELED` is told
to an order that is stored, which is why the property says nothing of that reason. One
of the four proposals there is the strategy's. Deadlock is not checked: a finite set of invocations may all have ended.

`Termination` assumes weak fairness of each invocation's code (`FairSpec`): a running
Lambda executes, and no step of it waits for another invocation. Errors are steps
of the code too, so nothing is assumed about the service recovering.

### 3.2 PaperAccounting

| Run | Expect | Shows |
|---|---|---|
| `account` | pass | `TypeOK`, `CashNeverNegative`, `BooksBalance`, `PeakIsHighest`, `DayStartsFromEarlierDay` |
| `daily_cutoff` | violation | `DailyLossIsOfToday` |

Rates over 10 and prices 2, 3, 5 make each limit bind within five commits and three
days: loss and drawdown cutoffs, cash, exposure, position limit, partial and excessive
sales. The rates satisfy the same inequality as the code's (`BufferAssumption`:
1.0005 * 1.001 <= 1.002); the theorems hold for the code's own.

### 3.3 DipBuy

| Run | Expect | Faults | Shows |
|---|---|---|---|
| `dip_serial` | pass | unavailable, crash | `PositionsMatchHoldings`, `CooldownBetweenBuys`, `ClosedStaysClosed`, `HighWaterMarkNeverFalls`, `TriggeredExitSettles` |
| `dip_concurrent` | pass | overlap, ambiguous, crash, a manual order | `TypeOK`, `EntersOncePerSignal` |

The rates are those of `DipBuyConfig` over 2000. A position entered at 97 (a dip below
100) can take its profit at 100, stop its loss at 95 and trail its stop at 97 after
99; the cooldown is two candles of a clock of three. The concurrent run keeps two
prices and two candles, which admit an entry and its replay, and one manual order,
which may come before, between or after the steps of two evaluations.

`TriggeredExitSettles` assumes strong fairness of the steps of an evaluation: the
schedule starts one every five minutes for ever, and a call that is tried again and
again does not fail for ever. Weak fairness would not do, because failures and stops
disable a step again and again. The market may move at any time; the property is that
a trigger does not stay unserved while it lasts. It excepts, as
`PositionsMatchHoldings` does, what somebody else has traded: when the lot of a
position is sold by hand, its exit is refused for ever.

### 3.4 MemoryTrade and AgentSession

| Run | Expect | Shows |
|---|---|---|
| `agent_session` | pass | `TypeOK`, `VersionCountsCommits`, `ReturnedOrderIsStored`, `PortfolioAppliesOwnCommits`, `ConflictNamesItsCause`, `ImplementsLedger`, `AnswerMatchesLedger`, `RunEnds` |

Two agents in three runs (`MaxRuns`) of at most two orders each (`MaxOrders`): enough
for two initialisations at once, for one agent to overtake the other between lookup
and commit, and for an agent to submit again. One BUY decision comes at two prices
under one key, a SELL has its own, and a BUY has none. Two iterations, tool calls and
rounds exercise the first and the last of each.

`RunEnds` assumes weak fairness of each agent's run: it is one thread, and no step of
it waits for another agent. Nothing is assumed of the model or of the market.

### 3.5 Backtest

| Run | Expect | Shows |
|---|---|---|
| `backtest` | pass | `TypeOK`, `SignalsNeverLookAhead`, `SignalsFollowOrder`, `AveragesStayInRange`, `RsiMirrors`, `FillsAlternate`, `LedgerExplainsResult`, `CashNeverNegative` |

All histories of eight candles over three closes, with and without gaps between a
close and the next open. Averages over one and three candles leave five candles with a
signal, in which they cross, meet without crossing, meet and cross later, and cross
back. The capital of 1220 admits a purchase, refuses one after a loss, and meets the
daily cutoff. The integers stay below TLC's 32 bits.

### 3.6 What the violations show

Four runs expect a violation. They are disagreements between the code and what the
repository says of it, found while modelling, and are described under `findings` in
`PROJECT.json`: a portfolio read before the version that guards it (`lost_update`); an
existing order that is found and then discarded (`lost_result`); a rejection of an
order that is stored (`rejected_yet_committed`); and a day baseline that only a commit
rolls over (`daily_cutoff`). The first and the third reach the strategy too, whose
state saved after a rejection may overwrite a committed one; the findings say how. The
passing runs state the same properties under the faults they do hold for.

## 4. Proofs

All theorems are for arbitrary constants that satisfy the named assumptions of each
module (`ProposalAssumption`, `BoundAssumption`, `RateAssumption`, ...), with no bound
on the number of invocations, agents or evaluations, and for every set of faults
unless stated.

TradeCommit:

* `TypeCorrect`, for `TypeOK`. Strengthened by `TypeInv`: a running invocation has
  attempts left, and a non-empty snapshot table has a newest key.
* `Invariance`, of `IInv`, and from it `VersionSafety`, `SnapshotSafety` and
  `LedgerRefinement` (`VersionCountsCommits`, `LatestSnapshotIsLastCommit`,
  `ImplementsLedger`). None of the three is inductive alone. Counting commits needs
  that no invocation, and no replica, expects a version above the current one.
  The newest snapshot being the last commit's needs `TimeInv`: of the transactions
  that can still take effect, those that expect the current version have a snapshot
  key at least as late as every stored one, because the version they read is younger
  than the last commit. Refinement needs that the key of a committed order stays
  claimed by it. Every step is either quiet for these variables, builds a transaction,
  makes one take effect, or initialises the risk state (`StepEffect`); each part of
  the invariant is then preserved separately.
* `RejectionSafety`: `RejectedNeverCommits` if the faults exclude `lostReply` and
  `late`. The run `rejected_yet_committed` shows that the premise is needed.
* `ConflictSafety`: `NamedConflictIsFinal`, from `CauseInv`. Keys are claimed for good
  and versions only grow, so a cause once met stays (`ClaimInv`, `ReplicaInv`) and keeps
  every transaction of the order from taking effect (`NamedStays`). That the order was
  not stored before needs that a stored order has used up its version too: its retry
  meets two failed conditions, and two are not told by name (`NamedCancelled`).
* `LoadSafety`: `SnapshotAlwaysLoadable` without stale reads.
* `AnswerSafety`, `ReportSafety` (`ReturnedOrderIsStored`, `ReportIsOfCommittedTrade`)
  without overlap, stale reads and late effects, from `SerialInv`: between its lookup
  and its answer, the key of the one running invocation is free or its own.
* `AccountRefinement`: `ImplementsAccount` under the same premise, from `BookInv`: the
  portfolio the running invocation has loaded is still the persisted one, its order
  was checked against what that holds, and the persisted portfolio holds no lot or
  one. The run `lost_update` shows that "without overlap" is needed.

PaperAccounting:

* `Solvency` and `Balance` (`CashNeverNegative`, `BooksBalance`), from the invariant
  `Money`. The arithmetic is in `BufferCovers`: a size that fits the cash with the
  buffer pays for slippage and fees whenever `BufferAssumption` holds.
* `AccountTypeCorrect` and `PeakSafety` (`TypeOK`, `PeakIsHighest`), from `Money` and
  `RiskInv`: a portfolio without a risk state is a new one, and the peak is one of the
  committed equities and none exceeds it.
* `DaySafety` (`DayStartsFromEarlierDay`), from `DayInv`: what the risk state calls
  current is the last committed equity, dated by its own day.

MemoryTrade and AgentSession:

* `VersionSafety`, `StoredOrderSafety`, `PortfolioSafety`, `MemoryImplementsLedger`
  (`VersionCountsCommits`, `ReturnedOrderIsStored`, `PortfolioAppliesOwnCommits`,
  `ImplementsLedger`), and `ConflictNamesItsCause` likewise, from the conjunction
  of `VersionInv`, `LedgerInv` (an index entry is in the log, an order in the log is
  the agent's earlier or current one), `AnswerInv` and `PortfolioInv`.
* `SessionSafety`: every step of AgentSession is a step of MemoryTrade or leaves its
  variables alone, so what is proved of the one holds of the other.
* `SessionTypes`, `SessionAnswers` (`TypeOK`, `AnswerMatchesLedger`): the counters stay within their limits, a run orders only in
  the places that follow a decision to trade, and at most once (`OrderInv`).

DipBuy:

* `TypeCorrect` and `EntrySafety` (`TypeOK`, `EntersOncePerSignal`), under every fault
  and any number of manual orders. The first needs that an evaluation about to commit
  was checked against the holdings it loaded; the second that committed orders have
  claimed their keys (`ClaimInv`).
* `HoldingSafety`, `CooldownSafety`, `ClosureSafety`, `HighWaterSafety`
  (`PositionsMatchHoldings`, `CooldownBetweenBuys`, `ClosedStaysClosed`,
  `HighWaterMarkNeverFalls`), if the faults exclude `overlap` and `ambiguous`, from
  `SerialInv`: the state of the running evaluation is the stored one with its marks
  raised, its request fits it, and of the recorded positions at most one is open, the
  one that is held. Manual orders may come at any time; the part about holdings is
  conditional on there having been none, and the rest does not need it.

Indicators and Backtest:

* `IndicatorProofs` is about series of any length. A recursive function stands for the
  choice of a function that satisfies its equation, so each proof first needs that one
  exists. Both this and what the function computes take an induction over the indices.
  The library's induction theorems have an operator as a parameter and cannot be
  applied here; instead the set of indices at which a claim fails is shown to be empty,
  because its least member (`LeastNatural`, from the well-foundedness of < on the
  natural numbers) would have a predecessor at which the claim holds
  (`IntervalInduction`, `RecursionExists`). On this rest the equations of `Total` and
  `Averages` (`TotalStep`, `AveragesAt`), that they depend on the values so far only
  (`TotalSame`, `AveragesSame`), that they are means of them (`TotalMean`, `MixMean`,
  `AveragesMean`), and that a smoothed average which has seen a change keeps a part of
  it (`SmoothedPositive`, which needs a period above 1).
* `NoLookAhead` (`SignalsNeverLookAhead`), from `EmaNeverLooksAhead`.
* `FollowsOrder` (`SignalsFollowOrder`): from the order of the averages at one index to
  the opposite order at another there is a last index at which it changes
  (`LastEntry`); the signal of this index names it, and all after it are HOLD.
* `AverageRange` and `RsiSymmetry` (`AveragesStayInRange`, `RsiMirrors`). For the
  second, a mirrored history exchanges gains and losses (`MirrorTurns`).
* `BacktestTypeCorrect`, `FillsSafety`, `LedgerSafety` (`TypeOK`, `FillsAlternate`,
  `LedgerExplainsResult`), from the invariant `Books`: the three together, with the
  signals those of the history and every entry older than the next signal. None is
  inductive alone: that a sale is of all that was bought needs that the lots held are
  the sum of the ledger, and that a purchase leaves one entry price needs that the
  sizing refuses it while lots are held. `SumsExtend` says what an entry adds to the
  sums, `Recorded` that an entry which fits keeps the books in order.
* `BacktestSolvency` (`CashNeverNegative`), from `Books` and the buffer of the sizing.

Only model-checked: the liveness properties (`Termination`, `TriggeredExitSettles`,
`RunEnds`), since fairness is out of the prover's reach. Every safety property and
every refinement of a passing run is stated by a theorem.

## 5. Not modelled

* Configuration checks and dispatch of the handler: stateless comparisons of strings,
  before anything is read.
* Market adapter: callers' view only (a price, or a failure); its validation of candles
  is a stateless filter of one response. Neither it nor its callers look at the age of
  the newest candle, which is listed as a hazard.
* Dashboard: it validates and renders a document that nothing in this repository
  produces; there is no step to interleave with.
* Infrastructure beyond timeout, schedule and concurrency.
* Store methods that no caller in `src` uses (`save_signal`, `save_order`, ... and
  `ToolRegistry.save_risk_decision`'s result, which nobody reads).

Within the modelled parts: rounding of floats, clock skew, the content of reports and
logs, corrupt items, growth of the strategy item.

## 6. Plan

Done: TradeCommit with its abstract specifications, and every safety property and
refinement of it proved; PaperAccounting and DipBuy, likewise; the second
implementation of the ledger (MemoryTrade) and the agents over it, proved; indicators
and backtester, proved; the strategy composed with manual orders.

Left, in this order:

1. The steps of a manual order (load, version, commit) inside DipBuy, so that a run
   that overlaps an evaluation is followed from its load on.
2. The order in which the reports of two runs arrive, if the code comes to promise one.
3. The quantities of orders in TradeCommit: partial sales over concurrent runs.
4. Validation of candles, as a function over the responses of the exchange.
