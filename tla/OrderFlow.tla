------------------------------ MODULE OrderFlow ------------------------------
(***************************************************************************)
(* The order flow specialist (agents/order_flow_agent.py): a window of     *)
(* ticks per underlying, the features measured on it every                 *)
(* ANALYSIS_INTERVAL ticks, and the cascade of adjustments that turns them *)
(* into a direction and a confidence.                                      *)
(*                                                                         *)
(* A direction is 1 (BULLISH), 0 (NEUTRAL) or -1 (BEARISH); a confidence   *)
(* is counted in hundredths of a percent, so that 0.95 is 9500.  Reasons   *)
(* and supporting data are left out, with what only they contain (tick     *)
(* momentum, the top levels of the footprint, walls of the book).          *)
(*                                                                         *)
(* A message is [p, v, bid, ask, bq, aq, quoted]: price, volume, the best  *)
(* quotes and their sizes.  A depth snapshot has no quotes of this form,   *)
(* and the handler knows its channel by the bare key "depth".              *)
(***************************************************************************)
EXTENDS Integers, Sequences, SequencesExt, FiniteSetsExt

CONSTANTS
    FlowUnderlyings,    \* NIFTY and BANKNIFTY
    FlowTicks,          \* the ticks the market may send
    Depths,             \* the depth snapshots: price, volume, sizes of the book
    TickWindow,         \* TICK_WINDOW (500 in the code)
    FlowInterval,       \* ANALYSIS_INTERVAL (50)
    MinTicks,           \* ticks an analysis needs (20)
    SweepWindow,        \* SWEEP_WINDOW_TICKS (5)
    SweepLevels,        \* SWEEP_PRICE_LEVELS (3)
    LongWindow,         \* ticks looked at for divergence and acceleration (100)
    ShortWindow,        \* ticks looked at for icebergs and block deals (50)
    LargeLot,           \* LARGE_LOT_THRESHOLD of the underlying
    LotsKept,           \* large lots kept (50)
    LevelsKept,         \* price levels of the footprint kept (200)
    ExpiryDay,          \* is_expiry_day
    Axis,               \* twice the price at which the mirror of FlowUnbiased stands
    MaxTicks            \* bound: ticks of one underlying

TickRecords == [p : Int, v : Nat, bid : Int, ask : Int, bq : Nat, aq : Nat, quoted : BOOLEAN]
DepthRecords == [p : Int, v : Nat, bid : Nat, ask : Nat, near : Nat]

ASSUME FlowAssumption ==
    /\ FlowTicks \subseteq TickRecords /\ Depths \subseteq DepthRecords
    /\ {TickWindow, FlowInterval, SweepWindow, ShortWindow, LongWindow} \subseteq Nat \ {0}
    /\ {MinTicks, SweepLevels, LotsKept} \subseteq Nat /\ Axis \in Int

VARIABLES
    window,     \* _tick_buffer
    count,      \* _tick_count
    lots,       \* _large_lots
    footprint,  \* _volume_delta_at_price
    depth,      \* _latest_depth, or NoDepth
    flowSignal  \* the signal the last message produced, or NoSignal

flowVars == <<window, count, lots, footprint, depth, flowSignal>>

NoDepth == [bid |-> 0, ask |-> 0, near |-> 0]
NoSignal == [dir |-> 0, conf |-> 0]
Cap == 9500

DepthChannel == "niftymind:depth"       \* what the bus calls the key "depth"

Latest(n, s) == SubSeq(s, Len(s) - (IF n < Len(s) THEN n ELSE Len(s)) + 1, Len(s))
Sign(n) == IF n > 0 THEN 1 ELSE IF n < 0 THEN -1 ELSE 0
Total(s, F(_)) == SumFunction([i \in DOMAIN s |-> F(s[i])])
Count(s, P(_)) == Cardinality({i \in DOMAIN s : P(s[i])})

\* A fill at the ask is an aggressive purchase, one at the bid a sale.
Bought(t) == t.ask > 0 /\ t.p >= t.ask
SoldBelow(t) == ~Bought(t) /\ t.bid > 0 /\ t.p < t.bid  \* mutant: not at the bid
Sold(t) == ~Bought(t) /\ t.bid > 0 /\ t.p <= t.bid
Purchases(s) == Total(s, LAMBDA t : IF Bought(t) THEN t.v ELSE 0)
Sales(s) == Total(s, LAMBDA t : IF Sold(t) THEN t.v ELSE 0)
Delta(s) == Purchases(s) - Sales(s)

(***************************************************************************)
(* Features                                                                *)
(***************************************************************************)

\* Runs of SweepWindow ticks through SweepLevels prices: purchases minus sales.
Sweeps(s) ==
    LET starts == 1 .. Len(s) - SweepWindow + 1
        Levels(i) == Cardinality({s[j].p : j \in i .. i + SweepWindow - 1})
        Up(i) == Sign(s[i + SweepWindow - 1].p - s[i].p)
        swept == {i \in starts : Levels(i) >= SweepLevels}
    IN  Cardinality({i \in swept : Up(i) = 1}) - Cardinality({i \in swept : Up(i) = -1})

\* Three or more fills of one size at one price; a size is rounded to tens, a
\* half to the even ten.
Size(t) == (t.v + 5) \div 10 - (IF t.v % 20 = 5 THEN 1 ELSE 0)
Icebergs(s) ==
    LET recent == Latest(ShortWindow, s)
        Repeated(t) == Count(recent, LAMBDA r : r.v > 0 /\ r.p = t.p /\ Size(r) = Size(t)) >= 3
        ice == {i \in DOMAIN recent : recent[i].v > 0 /\ Repeated(recent[i])}
        quote == Last(s)
    IN  [buy |-> Len(s) >= 3 /\ \E i \in ice : recent[i].p >= quote.ask,
         sell |-> Len(s) >= 3 /\ \E i \in ice : recent[i].p < quote.ask /\ recent[i].p <= quote.bid]

\* Price and delta moving apart: the sign of the delta, 0 when they agree.
Divergence(s) ==
    LET recent == Latest(LongWindow, s)
        move == Sign(Last(recent).p - recent[1].p)
    IN  IF Len(s) < LongWindow \/ move * Sign(Delta(recent)) # -1 THEN 0
        ELSE Sign(Delta(recent))

\* Single orders above five times the average size: purchases minus sales.
BlockDeals(s) ==
    LET recent == Latest(ShortWindow, s)
        orders == Count(recent, LAMBDA t : t.v > 0)
        Block(t) == t.v * orders >= 5 * Total(recent, LAMBDA r : r.v)
    IN  IF Len(s) < ShortWindow \/ orders = 0 THEN 0
        ELSE Count(recent, LAMBDA t : Block(t) /\ Bought(t))
             - Count(recent, LAMBDA t : Block(t) /\ Sold(t))

\* The side of the quotes that outweighs the other by the threshold of 30 %.
Imbalance(s) ==
    LET bid == Total(s, LAMBDA t : t.bq)
        ask == Total(s, LAMBDA t : t.aq)
    IN  IF 10 * (bid - ask) > 3 * (bid + ask) THEN 1
        ELSE IF 10 * (ask - bid) > 3 * (bid + ask) THEN -1 ELSE 0

\* The side on which the flow of the last half of the window gains speed, else 0.
\* From a delta of zero the change counts as +100 %, whatever its side.
Half == LongWindow \div 2
Before(s) == Delta(SubSeq(s, Len(s) - 2 * Half + 1, Len(s) - Half))
Lately(s) == Delta(SubSeq(s, Len(s) - Half + 1, Len(s)))
Acceleration(s) ==
    LET prev == Before(s)
        curr == Lately(s)
    IN  IF Len(s) < LongWindow \/ curr = prev THEN 0
        ELSE IF prev = 0 THEN 1
        ELSE IF 5 * Max({curr - prev, prev - curr}) >= Max({prev, -prev})
                /\ Sign(curr) = Sign(curr - prev) THEN Sign(curr) ELSE 0

\* The book of the latest depth snapshot: its heavier side beyond 20 %, and
\* whether the levels near the price hold less than 5 % of it.
BookSide(d) == IF 5 * (d.bid - d.ask) > d.bid + d.ask THEN 1
               ELSE IF 5 * (d.ask - d.bid) > d.bid + d.ask THEN -1 ELSE 0
Thin(d) == 20 * d.near < d.bid + d.ask

\* Large lots at the ask minus those at the bid, among the last ten.
LargeLots(ls) == Count(Latest(10, ls), LAMBDA l : l.p >= l.ask)
                 - Count(Latest(10, ls), LAMBDA l : l.p <= l.bid)

(***************************************************************************)
(* The verdict                                                             *)
(***************************************************************************)

AtMost(c) == Min({Cap, c})

\* A large lot that came without quotes makes the comparison above raise.
Raises(ls) == \E l \in ToSet(Latest(10, ls)) : ~l.quoted

\* Pressure and absorption give the first direction.
Pressure(s) ==
    LET buy == Purchases(s)
        sell == Sales(s)
        Grown(i, f) == 2 * s[i][f] > 3 * s[i - 1][f]
        bidAbs == Cardinality({i \in 2 .. Len(s) : Grown(i, "bq") /\ s[i].p <= s[i].bid})
        askAbs == Cardinality({i \in 2 .. Len(s) : Grown(i, "aq") /\ s[i].p >= s[i].ask})
        Sure(part, abs) == AtMost((10000 * part) \div (buy + sell)
                                  + (2000 * abs) \div (bidAbs + askAbs))
    IN  IF buy + sell = 0 THEN [dir |-> 2, conf |-> 0]
        ELSE IF 10 * buy > 6 * (buy + sell) /\ bidAbs > askAbs
             THEN [dir |-> 1, conf |-> Sure(buy, bidAbs)]
        ELSE IF 10 * sell > 6 * (buy + sell) /\ askAbs > bidAbs
             THEN [dir |-> -1, conf |-> Sure(sell, askAbs)]
        ELSE [dir |-> 0, conf |-> 3000]

\* Evidence for a side confirms it, or decides a neutral verdict at `fresh`.
Push(v, side, gain, fresh) ==
    IF side = 0 \/ v.dir = -side THEN v
    ELSE IF v.dir = side THEN [v EXCEPT !.conf = AtMost(@ + gain)]
    ELSE [dir |-> side, conf |-> fresh]

Beyond(n, limit) == IF n > limit THEN 1 ELSE IF n < -limit THEN -1 ELSE 0

Swept(v, s) == Push(v, Beyond(Sweeps(s), 2), 1000, 5500)
Iced(v, s) == LET ice == Icebergs(s)
              IN  Push(v, IF ice.buy /\ v.dir # -1 THEN 1
                          ELSE IF ice.sell THEN -1 ELSE 0, 800, AtMost(v.conf + 800))
Diverged(v, s) == IF v.dir # 0 /\ Divergence(s) = -v.dir
                  THEN [v EXCEPT !.conf = Max({3000, @ - 1500})] ELSE v
Lotted(v, ls) == Push(v, Beyond(LargeLots(ls), 2), 1000, 5000)
Blocked(v, s) == Push(v, Sign(BlockDeals(s)), 1000, 5000)
Quoted(v, s) == IF Imbalance(s) # 0 /\ v.dir # -Imbalance(s)
                THEN [v EXCEPT !.conf = AtMost(@ + 500)] ELSE v
Booked(v, d) == LET w == Push(v, BookSide(d), 700, AtMost(v.conf + 700))
                IN  IF Thin(d) THEN [w EXCEPT !.conf = Max({2500, @ - 500})] ELSE w
Sped(v, s) == IF v.dir # 0 /\ Acceleration(s) = v.dir
              THEN [v EXCEPT !.conf = AtMost(@ + 500)] ELSE v

Weighted(v) == IF ExpiryDay THEN [v EXCEPT !.conf = AtMost((@ * 115) \div 100)] ELSE v

Analysis(s, ls, d) ==
    IF Len(s) < MinTicks \/ Pressure(s).dir = 2 \/ Raises(ls) THEN NoSignal
    ELSE Weighted(Sped(Booked(Quoted(Blocked(Lotted(Diverged(
             Iced(Swept(Pressure(s), s), s), s), ls), s), s), d), s))

(***************************************************************************)
(* The state machine                                                       *)
(***************************************************************************)

\* Every analysis adds the whole window to the footprint and keeps its
\* highest price levels.
Traced(foot, s) ==
    LET levels == DOMAIN foot \cup {t.p : t \in {r \in ToSet(s) : r.v > 0}}
        Old(p) == IF p \in DOMAIN foot THEN foot[p] ELSE [buy |-> 0, sell |-> 0]
        At(p, P(_)) == Total(s, LAMBDA t : IF t.p = p /\ P(t) THEN t.v ELSE 0)
        kept == {p \in levels : Cardinality({q \in levels : q > p}) < LevelsKept}
    IN  [p \in kept |-> [buy |-> Old(p).buy + At(p, Bought),
                         sell |-> Old(p).sell + At(p, Sold)]]

FlowInit ==
    /\ window = [u \in FlowUnderlyings |-> <<>>]
    /\ count = [u \in FlowUnderlyings |-> 0]
    /\ lots = [u \in FlowUnderlyings |-> <<>>]
    /\ footprint = [u \in FlowUnderlyings |-> <<>>]
    /\ depth = [u \in FlowUnderlyings |-> NoDepth]
    /\ flowSignal = NoSignal

\* A tick: the window slides, and every FlowInterval ticks it is analysed.
Received(u, t) ==
    /\ count[u] < MaxTicks
    /\ window' = [window EXCEPT ![u] = Latest(TickWindow, Append(@, t))]
    /\ count' = [count EXCEPT ![u] = @ + 1]
    /\ lots' = [lots EXCEPT ![u] = IF t.v >= LargeLot THEN Latest(LotsKept, Append(@, t)) ELSE @]
    /\ LET due == count'[u] % FlowInterval = 0
           s == window'[u]
           traces == due /\ Len(s) >= MinTicks /\ Pressure(s).dir # 2
       IN  /\ flowSignal' = IF due THEN Analysis(s, lots'[u], depth[u]) ELSE NoSignal
           /\ footprint' = IF traces THEN [footprint EXCEPT ![u] = Traced(@, s)] ELSE footprint

FlowTick(u, t) == Received(u, t) /\ UNCHANGED depth

\* A depth snapshot is kept for the analyses to come if it is known by its
\* channel; if not, it is one more tick, without quotes.
AsTick(d) == [p |-> d.p, v |-> d.v, bid |-> 0, ask |-> 0, bq |-> 0, aq |-> 0, quoted |-> FALSE]
FlowDepth(u, d) ==
    IF DepthChannel = "depth"
    THEN /\ depth' = [depth EXCEPT ![u] = d]
         /\ flowSignal' = NoSignal
         /\ UNCHANGED <<window, count, lots, footprint>>
    ELSE Received(u, AsTick(d)) /\ UNCHANGED depth

FlowNext == \E u \in FlowUnderlyings :
    \/ \E t \in FlowTicks : FlowTick(u, t)
    \/ \E d \in Depths : FlowDepth(u, d)

(***************************************************************************)
(* Properties                                                              *)
(***************************************************************************)

\* The same market seen in a mirror: prices are negated about Axis, what was
\* bought is sold.
Mirror(t) == [p |-> Axis - t.p, v |-> t.v, bid |-> Axis - t.ask, ask |-> Axis - t.bid,
              bq |-> t.aq, aq |-> t.bq, quoted |-> t.quoted]
Mirrored(s) == [i \in DOMAIN s |-> Mirror(s[i])]
Opposite(v) == [v EXCEPT !.dir = -@]

\* Quotes that the mirror keeps apart and above zero.
Facing(t) == t.quoted /\ 0 < t.bid /\ t.bid < t.ask /\ t.ask < Axis

\* The specialist has no bias: a market of ticks and its mirror image get
\* opposite directions with one confidence.  Two cases are excepted, where the
\* code prefers buyers: icebergs on both sides (order_flow_agent.py:478) and a
\* flow that starts from a delta of zero (order_flow_agent.py:320).
OneSided(s) == /\ \A i \in DOMAIN s : Facing(s[i])
               /\ ~(Icebergs(s).buy /\ Icebergs(s).sell)
               /\ Len(s) >= LongWindow /\ Before(s) = 0 => Lately(s) = 0
Turned(d) == [d EXCEPT !.bid = d.ask, !.ask = d.bid]
FlowUnbiased == \A u \in FlowUnderlyings :
    LET s == window[u]
    IN  (s # <<>> /\ OneSided(s)) =>
            Analysis(Mirrored(s), Mirrored(lots[u]), Turned(depth[u]))
                = Opposite(Analysis(s, lots[u], depth[u]))
=============================================================================
