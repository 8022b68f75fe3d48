# NiftyMind in TLA+

A specification of the trading backend of NiftyMind (`src/backend`): how its
coroutines, its message bus, its books and its brokers interact, model-checked
with TLC on small instances and, for the properties that matter most, proved
with TLAPS for every value of the constants.

Paths below are relative to `src/backend/` unless they start with `docs/`.

## 1. The system

NiftyMind trades index options on the Indian market. One Python process runs
everything as coroutines of one asyncio event loop (`main.py`): feeds publish
ticks and option chains, twelve agents turn them into signals, a consensus
turns signals into trade proposals, a risk manager approves or vetoes them, an
executor (paper or live) enters and exits the trades, and a position tracker
watches the open ones. Components never call each other for this; they talk
through a publish/subscribe bus (Redis). A PostgreSQL table of trades is written
along the way, and an HTTP API and websockets serve the mobile app.

| Component | State it keeps | Operations | Interacts with |
| --- | --- | --- | --- |
| Message bus, `data_pipeline/redis_publisher.py` | subscribers by channel, one bounded queue (256) each, one shared connection, one dispatcher | publish, subscribe, dispatch | everybody |
| Consensus, `agents/consensus_orchestrator.py` | fresh signals by agent, cooldown by trade type | vote, propose | signals in, PROPOSAL out, trade row PENDING |
| Risk manager, `agents/risk_manager.py` | open positions and daily P&L as heard of, drawdown | validate a proposal, book entries and exits | PROPOSAL, ENTRY, exits in; RISK_APPROVED or veto out; row APPROVED or CANCELLED |
| Paper executor, `execution/paper_executor.py` | positions, trailing-stop positions, partial and daily P&L | enter, exit, partial exit, trailing update per tick, recover at start | RISK_APPROVED and EXIT_ORDER in; ENTRY and exits out; row OPEN or CLOSED |
| Trailing stop, `execution/trailing_stop.py` | stop price, targets hit, remaining quantity | update per tick, time exit | called by the paper executor |
| Position tracker, `execution/position_tracker.py` | tracked positions, `exit_pending` flags | track, forget, two-second monitor | ENTRY and exits in; EXIT_ORDER out |
| Live executor, `execution/kite_executor.py` | positions, the stop and target orders of each | enter with retries, exit, poll orders every 5 s | as the paper executor, and the broker |
| Trade store, `agents/db_logger.py` | trade rows, a write-ahead log of failed writes | upsert, replay | written by all the above |
| Broker manager, `execution/broker_manager.py` | adapters, health records, circuit breakers, active broker | place an order with retries and failover, health checks, manual switch | three brokers' libraries |
| Position reconciler, `execution/position_reconciler.py` | last report | compare internal and broker positions, resolve | executor, broker manager |
| Drawdown manager, `risk/drawdown_manager.py` | equity peak, losing streak | after each trade; size and pause | risk manager |
| HTTP API, websockets, limits, `api/*` | rate-limit windows, connection registry | close or exit a trade; read everything else | bus, database |
| Database pool, `database/async_pool.py` | one lazily created pool | connect, query, close | API |
| Analysts without a model, `agents/order_flow_agent.py`, `volume_profile_agent.py`, `technical_agent.py` | windows of ticks, the volume profile, a chart per timeframe | analyse every so many ticks or bars | ticks and bars in, signals out |
| Analysts with a language model, `agents/options_chain_agent.py`, `sentiment_agent.py`, `news_agent.py`, `macro_agent.py`, `llm_utils.py` | the last data of each feed | ask, fall back to a second model, parse, signal | feeds in, signals out |
| Decision agents, `agents/scalping_agent.py`, `intraday_agent.py`, `btst_agent.py`, `strike_selector.py` | fresh signals, cooldown, last trade day | decide by rule or by a language model | signals in, PROPOSAL out |
| Slippage and expiry, `execution/slippage_model.py`, `expiry_calculator.py` | premiums seen, holidays | price a fill, find an expiry | paper executor |
| Learning, `learning/*` | lessons, accuracy by analyst, cached trust | backtest a day, count, answer | database, consensus |
| Feeds, option pricer, performance | connections, nothing, nothing | publish; price an option; reports | bus, database |

The brokers, Redis and PostgreSQL are outside. The broker manager and the
reconciler are library code: `main.py` does not wire them in (the consensus and
the executors take a reconciler, and get `None`).

Reading the code for the models showed some of it to be unreachable. Nothing in
production calls `square_off_all_intraday`, the manual order book
(`place_order`, `cancel_order`, `get_positions`), `_close_position_fully`,
`drawdown_manager.reset_weekly` or `database/async_pool.py`; the paper
executor's `_execute_exit` calls `publisher.publish`, which does not exist; the
analysis of live trades is registered by passing a handler to a bus that takes
channels, so it never runs; the advice from past trades is only logged. These
parts are left out of the models or, where they can be reached, modelled as the
failure they are.

### What is hard in it

* **Interleaving without locks.** Handlers run to their next `await`. Two
  watchers, the tick handler and the API may all ask for the end of one
  position; the live executor's message loop and its poller share the records of
  a trade across every broker call; any number of `place_order` calls share the
  circuit breakers.
* **Views fed by messages.** The risk manager and the tracker know positions
  only from messages. Their guards (daily loss, open slots, correlation) are
  evaluated on what they have read so far.
* **Loss.** A full queue or a Redis error drops one subscriber's copy silently.
* **Restart.** The paper executor rebuilds its positions from the rows; nobody
  else rebuilds anything.
* **Failing writes.** A row that cannot be written goes to a log, which a restart
  replays over whatever the rows say by then; the query that recovers positions
  may fail as well.
* **Books kept in pieces.** Partial exits realise P&L and reduce quantities in
  three records of two objects, and in a row that is not always told.
* **Brokers.** Fills race with cancellations, a status poll gives up after a
  minute, a call may raise after the broker has accepted it.
* **Windows and ages.** Signals expire after fixed times, agents are silent for
  other fixed times, and an agent that waits for a language model reads nothing
  meanwhile. Ticks come late, days roll over at the first tick after the close.
* **Arithmetic with meaning.** Sizing, votes, profiles, expiry dates and fills
  go through many roundings, minima and special cases, each harmless alone.

The complete list, line by line, with the properties that cover each, is
`hazards` in `PROJECT.json`.

## 2. The modules

| Module | Models | Checked by |
| --- | --- | --- |
| `TradePipeline` | consensus's proposals, risk manager, paper executor, tracker, trade rows with failing writes and their log, the API's two exit endpoints, restart, over one lossy queue per subscriber | `MCTradePipeline` |
| `TradeLifecycle` | what the pipeline promises of one trade: the abstract specification that `TradePipeline` implements | through `TradePipeline` |
| `TrailingStop` | `TrailingStopManager` and what the executor does with its decisions, with prices: the detail of `TrailFirst`, `TrailSecond`, `TrailClose` | `MCExecution`, `MCTrailingStop` |
| `KiteExecutor` | the live executor, one trade, both coroutines, the broker's order book | itself |
| `BrokerOrders`, `BrokerHealth` | two views of the broker manager | `MCExecution` |
| `OrderFlow`, `VolumeProfile`, `Technical` | the analysts that compute | `MCAgents` |
| `Candles` | the feed's bars, which the technical analyst reads | `MCServices` |
| `Strikes`, `Consensus`, `Deciders` | the choice of an option, the vote, the three decision agents | `MCAgents` |
| `Analysts` | the four analysts that ask a language model, with the chain of models | `MCAgents` |
| `RiskSizing` | every check and the sizing of a proposal, the drawdown manager | `MCServices` |
| `PaperFills` | premiums, slippage and P&L of the paper executor | `MCServices` |
| `TradeStore` | rows, failed writes, write-ahead log, replay and recovery | `MCServices` |
| `Reconciler` | comparison, resolution and the check before a trade | `MCServices` |
| `RateLimiter`, `WsConnections` | limits and websocket registry of the API | `MCServices` |
| `RedisBus` | subscription, publication, dispatcher and their failures | `MCServices` |
| `Mailboxes` | what the bus promises each subscriber: the abstract specification that `RedisBus` implements | TLAPS, through `RedisBus` |
| `Expiry` | the expiry calendar with holidays | `MCServices` |
| `Backtest`, `Learning` | simulated days; lessons, accuracy counts, trust | `MCServices` |
| `TradePipeline_proofs`, `TradeLifecycle_proofs`, `TrailingStop_proofs`, `KiteExecutor_proofs` | theorems about one component each | TLAPS |
| `Brokers_proofs` | theorems about `BrokerOrders` and `BrokerHealth` | TLAPS |
| `Services_proofs`, `Agents_proofs` | theorems about `WsConnections`, `RateLimiter`, `RiskSizing`, `PaperFills`, `RedisBus`, `Reconciler`, `Expiry`, `Learning`; about `Candles`, `Deciders`, `OrderFlow`, `VolumeProfile`, `Technical`, `Consensus` | TLAPS |
| `Numbers_proofs` | facts that several of these proofs need: maxima, division, products, and sums over finite sets and sequences | TLAPS |

`MC*` modules give the constants values for TLC, extending a module whose
properties are theorems and instantiating the others. `MCAgents`, `MCServices` and
`MCExecution` hold components that share no state: a behaviour picks one of them at
the start (`part`) and runs it, and the others stay as they started, so
that one run checks each of them and no product of their states is explored.

`PROJECT.json` maps every definition to the lines it stands for. Operators
commented *Mutant* are deliberate mistakes: substituted for the operator that
follows them, each makes a property fail, which shows that the property depends
on that code. Every property of a passing run has one.

### TradePipeline

*State.* One queue per subscriber (`queue`), the risk manager's `riskOpen` and
`riskPnl`, the executor's `pos`, `trailed`, `hits`, `partialPnl`, `execPnl`, the
tracker's `tracked` and `pending`, the trade rows `db`, `dbPnl` and the write-ahead log `wal`.
`booked`, `missed` and `lost` are history: they are never read by an action. `life`
is what the process believes of a trade, which the rows need not say.

*Granularity.* Everything runs on one event loop and these handlers await only
while they publish, so handling a message is one action, publications included. The one
place where an await splits a handler in a way others can see is a tick that
gaps over both targets: T1 is sold and announced, then T2 (`gapped` remembers
that the executor still has to sell it and is busy until then).

*The bus.* Redis, the dispatcher and the subscribers' queues are one queue per
subscriber; a publication reaches all receivers in the same order. With
`BusDrops` each copy may be lost, as a full queue or an error loses it
(`RedisBus` has the mechanism, and a proof that it is one box per subscriber, which
a message enters when it is published and may leave unread: `Mailboxes`. Losing
it at publication is the earliest, and to a reader the same). Ticks are not messages of the model: any tick
may come at any time.

*Rows.* Each write (`WriteRow`) reaches the table, or after its attempts goes to
the log, or is lost with the log. A restart replays the log, where each entry may
fail again and an old one may overwrite a newer row, and recovers the OPEN rows,
or none when the query fails (`RecoverOpenPositions`). `MaxDbFails = 0` turns all
of this off.

*Data.* A trade has an underlying, a direction, a type and is an option or an
index position (the fallback when no strike is found). P&L is a small integer
per sale. What VIX, drawdown, sizing and capital checks say is one free Boolean
of the decision (`RiskSizing` has the checks).

*Left out.* Statistics, day rollover, mock trades fed in by the API and the
manual order book. The session ends before 15:30, when the agents stop reading.

*Fairness.* Each coroutine keeps taking messages; once it is 15:15 a tick
reaches each trailed intraday position and the monitor reaches each tracked one
(both are loops with a timeout). No proposal, tick before 15:15, API call or
restart is promised.

*Abstraction.* `stage` and `pos` map the pipeline to `TradeLifecycle`: idle,
proposed, approved or vetoed, open with the whole quantity, reduced any number
of times, closed, and never back.

### TrailingStop

One position over any sequence of ticks. Prices are whole rupees; rounding to
paise and slippage are left out, so a stop or a target is sold at the tick's
price. `Atrs` includes 0 and a value, though the present callers pass no ATR.
`inHand` (the executor's record) and `remaining` (the stop's) are separate, as in
the code, and their agreement is a property. Fairness: once a time limit is
over, ticks keep coming, at whatever price.

### KiteExecutor

One trade and its orders in the broker's book. Every broker call is an await, so
the message loop (`loop`) and the poller (`poller`) are two program counters and
every call is a step. The broker may fill or reject a live order at any
time; an order fills completely or not at all. Calls may raise (`CallsFail`), and
the order of a call that raised is remembered as `stray`; `givenUp` are orders
the one-minute poll gave up on. The branch for bracket orders is dead
(`use_bracket` is a constant `False`) and is left out, with symbol resolution and
token refresh. Fairness: both coroutines go on; nothing is asked of the broker.

### BrokerOrders and BrokerHealth

Two views of one class. In `BrokerOrders` any number of callers run
`place_order`, sharing the breakers; the health checks appear as adapters that become
ready and as an active broker that may be any. In `BrokerHealth` the rounds of
checks await the brokers one by one while orders (as updates of the failure
counts) and manual switches come in between. A breaker's recovery timeout is one
flag, set some time after its last failure. An attempt that raises looks to the
manager like one that was refused, whether or not the broker took the order: that
an order is placed once is not promised by this code and is no property here.
Fairness: a broker's answer or timeout comes; the health loop goes on.

### The analysts that compute

`OrderFlow` keeps the window of ticks, lots and footprint of
`order_flow_agent.py`, one action per message; every `FlowInterval` messages the
whole cascade of `_analyze` (delta, absorption, icebergs, sweeps, imbalance,
expiry) is evaluated. `VolumeProfile` keeps the profile, averages, initial
balance and the memory of the day before and resets them as the first tick after
the close does. `Candles` is the feed's aggregator with late ticks;
`Technical` reads its bars and weighs the verdicts of three charts. Confidence
is in hundredths of a percent and prices are integers, so thresholds of the code
are compared exactly; windows and intervals are constants, smaller than the
code's.

### Consensus, Strikes, Deciders

`Consensus` receives signals (with an age, since they wait in queues and behind
language models), forgets the old, weighs them for three kinds of trade by
volatility regime and proposes. The age limits are as in the code: the technical
analyst speaks at most every 15 minutes and is heard for 300 seconds. The regime
comes from VIX with limits of its own: the backtester's differ. `Strikes` is the
choice of an option out of a chain. `Deciders` has the scalper (a rule) and the
two agents that ask a language model, with their interval, window and once-a-day
limits and a restart. They compare a channel with a name no message carries and
never know an option chain; so they never propose, in the model as in the
code (`decisions_options_channel`).

### Analysts

One reader, its bounded queue (`mail`), the facts it gathers and the question
under way (`call`): attempts at the first model, then at the second, each of
which may fail, time out or answer with something that cannot be parsed. An object
that parses may still hold a field that cannot be converted: that raises, the
loop of the base agent keeps the error, and the question ends with no signal
(`Unusable`).
Meanwhile the reader's queue fills. The option analyst's backlog is read in order
with fresh time stamps, and macro asks every 600 seconds though it is heard for
300. Fairness: every request to a model ends, since it has a timeout.

### The services

`RiskSizing` takes the checks of a proposal in order (the one of correlation is in
the pipeline) and then sizes it;
trades end with gains or losses that feed the drawdown manager. `PaperFills`
follows one position from its premium and slipped entry to its exit; slippage is
decided by the side the executor derives from the direction, as in the code.
`TradeStore` writes rows with retries, logs what failed, and replays the log
when the process starts. `Reconciler` compares an answer of the broker with a
book that may have changed since; the answer is empty, too, without a fetcher and when
an adapter fails to list. `RateLimiter` has windows that start with a
request and a cleanup that runs from time to time. `WsConnections` is a coroutine
per client (limit, authentication, registration, service, removal) against a
relay that sends to a copy of the list. `RedisBus` has subscription in two steps,
a dispatcher that may die and is started again by the next subscription, and
bounded handles; `Mailboxes` says the same without any of these: a message is in
the box of everyone who wants it from when it is sent. `Expiry` moves dates before holidays and lists the coming ones, a
round of its loop at a time. `Learning` runs a backtest
over the days of `Backtest`, whose writes may fail one by one or be cut by a kill,
while the trading process reads and caches trust.

## 3. The runs

All are described in `PROJECT.json`; the cfg files and the MC modules name the
constants.

| Run | Instance | Shows |
| --- | --- | --- |
| `pipeline_reliable` | two intraday trades of opposite sides, one option and one index, one exit through the API, no loss | the books of P&L agree up to unread messages; every trade follows `TradeLifecycle`; after 15:15 all is closed; exit orders are answered |
| `pipeline_faults` | one trade, two API exits, any reason, one restart, any loss, two failing writes, a recovery that may fail | a watcher keeps a closed position only if its exit was lost or unlisted; a pending exit has an order on its way; OPEN rows are the executor's positions, or the log says what they should be, or log and table both failed |
| `kite` | one attempt before the market order, one exit order, calls may raise | an exit is booked once; what is booked was filled (or given up on); nothing is forgotten at the broker; protection is kept; fills and approvals are answered |
| `execution` | two callers and two brokers, three attempts, threshold 2, two half-open calls; or three brokers under health checks, failures counted to 4, one manual switch; or a position entered at 40 with 8 at risk, prices on, between and beyond all thresholds, both directions, three strategies, ATR 0 or 8 | breakers never wedge and close only on proof; every call returns; the active broker is replaced when, and only when, it is not available; a runner is left and both records agree, the stop never loosens, the end of the day closes |
| `agents` | each agent on every short sequence of its messages | order flow has no bias; the profile's books agree across days; the fast chart never decides without a slow one; an intraday trade needs two analysts, as long as none is trusted more than 1.4 times as much as another; models are asked sparingly and every question ends |
| `services` | each service with its failures | bars nest; risk fits the budget and a losing streak halves it; gains need a move; a reconciliation hides nothing it is told of and makes progress, but for what it has given up; never more than twice the limit; websocket places are exact; the bus delivers in order; expiries are the exchange's; the score card matches the lessons; the backtest is not too lucky |

The other six runs each exhibit a place where the code and what its documents or
comments say part (`findings`):

| Run | Disagreement |
| --- | --- |
| `pipeline_squareoff_restart` | a position recovered after a restart is watched by nobody and stays open after 15:15 |
| `trailing_index_long` | an index position's LONG or SHORT is no direction the stop knows: a loss is sold as a target |
| `kite_never_short` | a fill that races with a cancellation makes the executor sell (or buy) twice |
| `decisions_options_channel` | the decision agents never know an option chain |
| `drawdown_pause` | past a drawdown of 15 % trading is not paused for a day, as the design says, but for good |
| `store_wal_lost` | an entry of the write-ahead log that fails again while the log is replayed is lost |

Further disagreements have no run of their own; most are hazards with a note:

* same-direction positions are held together because proposals are decided before
  the first ENTRY is read (`risk_manager.py:323`);
* units sold at a target come back with a restart (`paper_executor.py:1298`), and the
  first target turns the second off (`trailing_stop.py:122`);
* a replay of the log may reopen a trade that was sold, when its OPEN write failed and
  its CLOSED write did not (`db_logger.py:155-185`);
* an attempt that raises after the broker took the order is placed again
  (`broker_manager.py:1019-1028`);
* after one empty answer every entry of the book is CLOSED for good, while later
  passes call it healthy (`position_reconciler.py:199-205, 331`);
* after a losing streak the size is halved until two trades have won, not for the
  "next 2 trades" of the design (4.3) and of the code's own message
  (`drawdown_manager.py:79-82`); `StreakHalves` states the two as the least;
* the time-price counts of the volume profile are of ticks, not of the "30-min periods"
  their comment and the design (1.3) speak of (`volume_profile_agent.py:115`);
* bars of fifteen minutes are added to the five-minute chart, since "5m" is found in
  their channel's name first (`technical_agent.py:215-220`), so the third timeframe
  of the design (1.4) never has a chart;
* the accuracy counts are of all time, not of the "rolling 30-day window" of
  `daily_retrainer.py:5`;
* a bought put is filled below its price, as a sale would be, though
  `test_paper_executor_pnl.py:84-85` expects it above: the executor takes its side
  from the direction (`paper_executor.py:977`). `GainNeedsMove` leaves puts out.

**Bounds.** Two trades are what a race between decisions needs, and every
property of the pipeline relates at most two; with a single trade the faults run
can afford losses, a restart and two API exits. `MaxManual`, `MaxCrashes`,
`MaxDbFails`, `MaxExits`, `MaxSwitches` bound events of the environment that would otherwise
make the state space infinite or very large; quantities of 10 give 6, 3 and 1 for T1, T2 and the
runner. Two failing writes are what it takes to lose an OPEN and a CLOSED row of one trade,
or one to the log and one to nowhere. `Attempts = 1` in `kite` still has a limit order, its cancellation and
the market order; `kite_never_short` uses the code's 3. `MaxFails = 4` is one beyond the
threshold of 3 that the code compares with. A threshold of 2 opens a breaker
after a recovered failure as well as directly.

For the agents and services the bounds are in the two MC modules. Their windows
are shortened with everything that is compared with them: order flow analyses every 2
of at most 5 messages over windows of 3 and 4, the profile's day has 4 slots and
the run 9 of them (two closes), bars run over 6 minutes with ticks a minute late,
the charts over 150 minutes of four markets so that every indicator is warm, the
consensus trusts one of four analysts at 1.3 and the others at 1.0, decision agents over two or three days with a restart. The risk manager sees five trades, so
that three losses, two wins and the pause all happen; the store two trades and two
starts; the reconciler three contracts, two of one expiry, and three deals
between question and answer; the limiter six seconds with a cleanup after three
requests; the websockets four clients, three of one address and one of none, and two places; the bus two handles of
capacity 1 and three messages; the calendar two weeks with up to three holidays in
any six days, which around a weekend is as far as an expiry is ever moved; the backtest every shape of
the two bars after the entry.

`CHECK_DEADLOCK FALSE` is set where the day, the trade, the manager or the
bounded input really ends.

**Fairness** is stated only where the code has a loop with a timeout or a request
with one: the pipeline's coroutines and its ticks after 15:15, both coroutines of
the live executor, the broker manager's answers and health loop, and requests to
language models. The services and the other agents have safety properties only.

## 4. The proofs

Eight modules hold theorems. Each shows an invariant inductive: one lemma per
action (or per operator that several actions share), then the theorem by PTL.
Two hypotheses stand in the theorems: `OptionDirections` (option
positions only: the theorems are false of index positions, see
`trailing_index_long`) and `MaxCrashes = 0` and `MaxDbFails = 0` in the refinement (a restart brings
back sold units, so a reduced trade can grow, and a row that is not written does not
move). All other assumptions are the
named ASSUMEs on the constants, which TLC evaluates on every run. Those that say
more than a type:

* `CandlesAssumption`: a timeframe is a multiple of every shorter one (the feed's
  are 1, 5 and 15 minutes, `truedata_feed.py:26`). Without it bars do not nest.
* `DecidersAssumption`: the intraday agent listens to the technical analyst.
* `SizingAssumption`, `LimiterAssumption`, `FillsAssumption`: capital, lots,
  thresholds and limits are positive, confidences are percentages, prices are not
  negative. A stop distance may be any integer.
* `ProfileAssumption`: no tick has a negative volume.
* `BacktestAssumption`, `LearningAssumption`: a day of fewer than five bars is not
  traded within, a scalp is held for a bar or more, and no bar's low is above its high.
* `HealthAssumption`: the list of priorities names every broker.
* `BusAssumption`, `ReconcilerAssumption`, `TradesAssumption`: there are finitely
  many channels, contracts and trades; the rest says what is a number.
* `ConsensusAssumption`: trust lies between 0.5 and 1.5 (`agent_accuracy_tracker.py:41`
  clamps it), confidences are percentages. `IntradayNeedsTwo` itself asks for a
  threshold of 65 % or more and for trust within a factor of 1.4: beyond that it
  is false, an order flow trusted 1.5 in high volatility carries a trade alone.
* `TechnicalAssumption`: bars of one, five and fifteen minutes, and no others.
* `FlowAssumption`: volumes and sizes are not negative, windows are not empty. The
  property itself asks for ticks with a bid below the ask, for no icebergs on both
  sides and for no flow that starts from a delta of zero: there the code prefers buyers.
* `ExpiryAssumption`: weeklies expire from Monday to Friday, months are four weeks
  or longer, and of any six days at most three are declared holidays, which with a
  weekend leaves one to trade on: `_adjust_for_holiday` gives up after five steps.
  The days that pass end a month before the months modelled do.
* `ConstantsAssumption`: a position has at least 4 units, so that its targets
  leave something to sell.

| Module | Theorems | Why an invariant stronger than the property |
| --- | --- | --- |
| `TradePipeline_proofs` | `TypeCorrect`, `NoGhostEver`, over any trades, quantities, losses, restarts | `TypeOK` needs `StockInv`: selling T1 and T2 stays within the position only if what is gone is what the targets hit account for. `NoGhost` needs `GhostInv`: an ENTRY still queued must have the exit queued behind it, or reading it would bring the position back |
| `TradeLifecycle_proofs` | `RowsAlwaysMatch`; `PipelineImplementsLifecycle` (without restarts and failing writes) | `LifeInv`: a queued proposal or approval is of a trade that is PENDING or APPROVED in the process, whatever its row says, and of one only, so that reading it moves the trade forward and never opens it twice; a row that says otherwise has its last write in the log, or is counted as lost. The refinement then takes one step of `TradeLifecycle`, or a stutter, for each action |
| | `PendingAlwaysOrdered` | `PendingInv`: what the tracker tracks was entered, and what was entered is never entered again, so a closed position stays closed after its order is read |
| | `BooksAlwaysAgree` | `BooksInv`: a trade carries a final P&L only once its row is CLOSED, so that closing it moves its partial P&L and never adds to an old one, as long as no write fails; and in the risk manager's mail only exits carry P&L, while an exit it does not list is counted as missed. The sums are over all trades and over a queue of any length |
| `TrailingStop_proofs` | `TypeCorrect`, `RunnerAlwaysLeft`, `BreakevenForever`, `StopIsMonotonic`, over all prices, quantities and risks | `StopInv`: quantities are a function of the targets hit, and the stop is where it started until the first |
| `KiteExecutor_proofs` | `BookedOnce`, `TypeCorrect`, `BookedMeansFilled`, over any number of attempts and exits | `BookingInv`: the approval is read once, while nothing else runs, and only a task of kind exit reaches the booking. `FillInv` adds which orders each coroutine holds at each of its awaits, of which side, and that the one it is about to book is filled |
| | `NoneLeftBehind`, `ProtectionStays` | `OwnerInv`: every live order is a child, or the one the loop holds at that await, or one the executor has lost (`stray`, `givenUp`); and a child is cancelled only on the way to the close, by an exit or by the poller, so that whoever books has dealt with both |
| `Brokers_proofs` | `BreakersNeverWedge`, `ProvedBeforeClosing`, over any brokers, callers and settings | `CountedSuccesses`: a half-open breaker's counter never exceeds its successes since the last failure |
| | `HealthInvariant`, `ActiveAlwaysAvailable` | `HealthInv`: a broker that is available is initialised, and no round is under way before the manager runs; the first candidate in the order of priorities exists because numbers are well-founded |
| `Services_proofs` | `PlacesAlwaysExact` | `PlacesInv`: `_connection_ips` holds exactly the clients that are served, whatever the relay did to the list, so a place is given back once |
| | `NeverMoreThanTwice` | `LimiterInv`: a window covers all that was let through since it started, and the requests less than its length before it belong to the one before, which let through no more than the limit; a cleanup with the longest window removes only what has ended |
| | `StreakShrinks`, `RiskWithinBudget` | `SizingInv`: `losses` counts the trades at the end of the log that lost, so that a streak in the log is one the manager has seen; and since then the reduction is at least as long as the trades the design counts. The budget follows from the minima and truncations of the sizing, in products that the prover is led through by `Numbers_proofs` |
| | `NoGainWithoutMove` | `FillsInv`: what was paid lies a tick or more above the market's price (below it for an index position sold), whatever slippage, volume and volatility gave, and the exit adds a slippage of the same sign |
| | `AlwaysInOrder` | `BusInv`: what was delivered to a handle, or lost by it, was published before all that is still on its way, in the dispatcher's hands or in its connection; and no channel of a handle that is registered is ever new to Redis, so nothing is added behind its back |
| | `BusImplementsMailboxes` | `QueueInv`: a queue holds messages its handle was given, in order, and a handle has none before it subscribes. A box is the queue and what is on its way to it, which `BusInv` puts behind it, so that the oldest of the box is the head of the queue. Moving a message from the connection to queues is then a stutter, or for the handles whose queue is full a `Drop` behind as many older messages as a queue holds; the death of a dispatcher is a `Fail`, which takes the latest from every box |
| | `PassesProgress` | none beyond the types: a pass lists every contract either book names (`SetToSeq`); an open entry of the answer's side takes its quantity or is imported, and an entry marked CLOSED or of the other side stays as it is: these are what a pass may leave hidden (`GivenUp`) |
| | `AlwaysNearestExpiry` | `ExpiryInv`: a listing begun on a trading day holds the expiries of that week and of the following ones, and goes on a day after the last. An expiry moved before a holiday is found again from there, not listed again, and so the next round stays where it is; one on its weekday leads to the next week. Nothing is left out because expiries of weeks rise: days six or more apart keep their order when each is moved by five at most |
| | `ScoresAgree`, `NeverLuckier` | `LearningInv`: what waits for a lesson is a trade of the bars that were downloaded, entered with a bar left to exit on, and what waits to be counted took a side in the lesson stored last, for or against it. The walk over a day's bars is then compared with every order of their extremes: the first bar that touches an order decides for both |
| `Agents_proofs` | `BarsAlwaysNest` | `BarsInv`: the bars of a symbol open together, at multiples of their lengths, so that a tick that closes a longer bar closes every shorter one |
| | `ProfileAlwaysAgrees` | `ProfileInv`: a price has one level, so that what is put at a price is added once; the maps are finite, so that their sums can be taken apart; and a close empties all books together |
| | `AlwaysAskedSparingly` | `DecidersInv`: the questions of the intraday agent are spaced within the life of one technical signal, and the flag of the overnight agent accounts for its question |
| | `SlowChartAlwaysDecides` | `TechnicalInv` adds only that the charts stay those of the feed. The rest is arithmetic over any set of charts: a verdict is never more than 90 % sure, so the one-minute chart, which weighs 2 of 6 or more, never reaches the 40 % it needs alone |
| | `IntradayAlwaysNeedsTwo` | `ConsensusInv`: what is collected are voices of the analysts, with their confidences. The weight of one analyst, even trusted 1.4 times as much as another, stays below what a threshold of 65 % asks; the best tally exists because fractions are totally ordered |
| | `FlowAlwaysUnbiased` | `FlowInv`: windows and lots hold ticks. `Reflects` relates a sequence of ticks to its image and passes to its parts; purchases then are the image's sales, the signed measurements change sign, icebergs change places, and each of the nine adjustments of the cascade takes verdicts that are opposed to verdicts that are opposed |

Every invariant and every action property of the passing runs is a theorem.
`ImplementsMailboxes` is proved and in no run.
Only model-checked is liveness, which needs fairness and ENABLED:
`IntradaySquaredOff`, `ExitOrderSettles`, `ClosedByEndOfDay`,
`ChildFillBooked`, `ApprovalAnswered`, `CallReturns`, `ActiveRecovers`,
`AlwaysAnswers`. That a listing of expiries ends is no property, for it is not so:
when an expiry of its weeks is moved by one day, `get_all_upcoming_expiries` asks
for it again and again until 15:30, and moved by more, as over a weekend, without end.

Sums over sets and sequences are within reach although the library's induction
is not: `Numbers_proofs` derives what a sum is from the smallest set for which it
would be wrong, since a finite set has no endless descent of subsets, and
`BooksAlwaysAgree`, `ProfileAlwaysAgrees`, `IntradayAlwaysNeedsTwo` and
`FlowAlwaysUnbiased` rest on that.

## 5. The plan

The modules were written in the order of what depends on them: the path of a trade
and of its money, the stop, the live executor, the broker manager, then bus, store,
risk, consensus and analysts, and last pricing, expiry and learning. All are
written. What a continuation would take up, most useful first:

1. `Consensus`, `RiskSizing` and `TradePipeline` in one instance, with ages of
   signals and the cooldown.
2. Orders of the live executor that fill in parts.

## 6. Not modelled

* `database/async_pool.py`: nothing imports it.
* `execution/options_pricer.py`: Black-Scholes and implied volatility in floating
  point; `PaperFills` takes the theoretical price as an operator.
* Feeds, apart from their bars: adapters that poll or listen to a service and
  publish what it says.
* Performance reports, the paper-trading gate, the second backtester and the
  bootstrap training, the gradient-boosted outcome model, prompts and their
  wording: computation on finished data, without protocol state.
* The greeks and premium estimates of the tracker; the statistics of the risk
  manager; votes and audit rows of the store; histories, ages and reports of the
  reconciler; quantiles of the slippage model.
* The API's endpoints that only read, authentication and secrets; the mobile app, the
  mock-up sandbox, the API server stub, generated client libraries and scripts.

`components` in `PROJECT.json` says of each part what is and what is not modelled.
