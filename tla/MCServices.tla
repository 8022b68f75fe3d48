------------------------------ MODULE MCServices ------------------------------
(***************************************************************************)
(* The services around the agents for TLC: tick feed, risk, pricing of     *)
(* fills, store, reconciliation, API and bus.  They share no state: each   *)
(* behaviour runs one of them, its part, and the others stay as they       *)
(* started.  The variables of the services that have theorems are those of *)
(* the modules it extends.                                                 *)
(***************************************************************************)
EXTENDS Candles, WsConnections, RateLimiter, RiskSizing, PaperFills, RedisBus, Reconciler, Expiry, Learning, TLC

VARIABLES
    part,                                                   \* the service that runs
    rows, held, wal, reading, replaying, starts             \* TradeStore

store == <<rows, held, wal, reading, replaying, starts>>
money == <<sizingVars, fillVars>>
api == <<limiterVars, wsVars>>
vars == <<part, candleVars, money, store, reconcilerVars, api, busVars, expiryVars, learningVars>>

-----------------------------------------------------------------------------
\* Bars of three lengths, with ticks up to a minute late.
ThreeFrames == [m1 |-> 1, m2 |-> 2, m4 |-> 4]
ByLength == <<"m1", "m2", "m4">>

\* Trades that lose or gain their risk, few enough to pause trading.
Results == {-1, 1}

\* The value at expiry and half a rupee.
AtExpiry(kind, s) == (IF kind = "CE" /\ s > 10000 THEN s - 10000
                      ELSE IF kind = "PE" /\ s < 10000 THEN 10000 - s ELSE 0) + 50

Store == INSTANCE TradeStore WITH Trades <- {"t1", "t2"}, MaxLog <- 4, MaxStarts <- 2

\* Two contracts of one expiry, which get one id on import, and one of another.
TwoIndices == [call |-> "NIFTY", put |-> "NIFTY", bank |-> "BANKNIFTY"]
TwoIds == [call |-> "R-NIFTY", put |-> "R-NIFTY", bank |-> "R-BANK"]

TwoTiers == [auth |-> [requests |-> 2, window |-> 2],
             general |-> [requests |-> 1, window |-> 1]]

\* The websocket clients, which are the module's own, share an address, but for
\* one that has none.
Stranger == CHOOSE c \in Clients : TRUE
OneAddress == [c \in Clients |-> IF c = Stranger THEN Unknown ELSE "a"]

\* A subscriber of one channel and one of two.
TwoHandles == [h1 |-> {"signals"}, h2 |-> {"signals", "ticks"}]

\* Two weeks with up to three holidays in a row around a weekend, which with the
\* weekend is as far as an expiry is moved; the first month ends in the second week.
ThreeIndices == [BANKNIFTY |-> 0, NIFTY |-> 1, SENSEX |-> 4]
ThreeMonths == <<18, 46, 77>>

\* Days of seven bars that go on rising, turn and stall after the entries, for
\* analysts that are sure of a rise, in a quiet and in a nervous market.
Bars(closes) == [i \in DOMAIN closes |->
    [close |-> closes[i], high |-> closes[i] + 1, low |-> closes[i] - 1, atr |-> 4, stack |-> 1,
     zone |-> 1, above |-> TRUE, squeeze |-> FALSE, vwap |-> closes[i] - 2, volume |-> 10]]
Climbing == Bars(<<100, 102, 104, 106, 108, 110, 112>>)
Turning == Bars(<<100, 102, 104, 106, 102, 98, 94>>)
Stalling == Bars(<<100, 101, 102, 103, 103, 103, 103>>)

FiveOrSix == [INTRADAY |-> 5, SCALP |-> 6]
ThreeMarkets == {[days |-> Climbing, day |-> Turning, vix |-> 13],
                 [days |-> Stalling, day |-> Climbing, vix |-> 13],
                 [days |-> Turning, day |-> Stalling, vix |-> 20]}
QuietScalps == {<<"SCALP", "LOW">>}

\* A rise or a fall up to the entry, then bars of every shape, some of which
\* reach both the stop and the target.
Shapes == {[close |-> c, high |-> c + h, low |-> c - l] : c \in {97, 103}, h \in {1, 12}, l \in {1, 9}}
Look(side) == [atr |-> 4, stack |-> side, zone |-> side, above |-> side = 1, squeeze |-> FALSE,
               vwap |-> 100 - 10 * side, volume |-> 10]
Walk(side, tail) ==
    [i \in 1 .. 6 |-> Look(side) @@ IF i <= 4
        THEN LET c == 100 - 2 * side * (4 - i) IN [close |-> c, high |-> c + 1, low |-> c - 1]
        ELSE tail[i - 4]]

Backtests == INSTANCE Learning WITH
    Morning <- {4}, FirstNight <- 9, MinSignals <- 2, MaxRuns <- 1, MaxFailures <- 0,
    Consulted <- {},
    Courses <- {[days |-> <<>>, day |-> Walk(side, <<s5, s6>>), vix |-> IF side = 1 THEN 13 ELSE 25] :
                    side \in {1, -1}, s5 \in Shapes, s6 \in Shapes}

-----------------------------------------------------------------------------
Parts == {"feed", "risk", "fills", "store", "positions", "limiter", "sockets", "bus", "calendar",
          "learning", "backtest"}

Init ==
    /\ part \in Parts
    /\ CandlesInit
    /\ SizingInit
    /\ FillInit
    /\ Store!StoreInit
    /\ ReconcilerInit
    /\ LimiterInit
    /\ WsInit
    /\ BusInit
    /\ ExpiryInit
    /\ LearningInit

FeedRuns == /\ part = "feed" /\ CandlesNext
            /\ UNCHANGED <<part, money, store, reconcilerVars, api, busVars, expiryVars, learningVars>>
RiskRuns == /\ part = "risk" /\ SizingNext
            /\ UNCHANGED <<part, candleVars, fillVars, store, reconcilerVars, api, busVars, expiryVars, learningVars>>
FillsRun == /\ part = "fills" /\ FillNext
            /\ UNCHANGED <<part, candleVars, sizingVars, store, reconcilerVars, api, busVars, expiryVars, learningVars>>
StoreRuns == /\ part = "store" /\ Store!StoreNext
             /\ UNCHANGED <<part, candleVars, money, reconcilerVars, api, busVars, expiryVars, learningVars>>
BooksRun == /\ part = "positions" /\ ReconcilerNext
            /\ UNCHANGED <<part, candleVars, money, store, api, busVars, expiryVars, learningVars>>
LimiterRuns == /\ part = "limiter" /\ LimiterNext
               /\ UNCHANGED <<part, candleVars, money, store, reconcilerVars, wsVars, busVars, expiryVars, learningVars>>
SocketsRun == /\ part = "sockets" /\ WsNext
              /\ UNCHANGED <<part, candleVars, money, store, reconcilerVars, limiterVars, busVars, expiryVars, learningVars>>
BusRuns == /\ part = "bus" /\ BusNext
           /\ UNCHANGED <<part, candleVars, money, store, reconcilerVars, api, expiryVars, learningVars>>

CalendarRuns == /\ part = "calendar" /\ ExpiryNext
                /\ UNCHANGED <<part, candleVars, money, store, reconcilerVars, api, busVars, learningVars>>

LearningRuns == /\ \/ part = "learning" /\ LearningNext
                   \/ part = "backtest" /\ Backtests!LearningNext
                /\ UNCHANGED <<part, candleVars, money, store, reconcilerVars, api, busVars, expiryVars>>

Next == FeedRuns \/ RiskRuns \/ FillsRun \/ StoreRuns \/ BooksRun \/ LimiterRuns \/ SocketsRun \/ BusRuns
        \/ CalendarRuns \/ LearningRuns

Spec == Init /\ [][Next]_vars

-----------------------------------------------------------------------------
\* A trade that failed to be stored is in the log until it is stored
\* (db_logger.py:47, 145).
FailedWritesKept == Store!FailedWritesKept

=============================================================================
