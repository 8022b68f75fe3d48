------------------------------ MODULE Technical ------------------------------
(***************************************************************************)
(* The technical specialist (agents/technical_agent.py) for one            *)
(* underlying, fed with the bars of Candles: a chart per timeframe, the    *)
(* points that indicators give to buyers and sellers on each chart, and    *)
(* the weighing of the charts.                                             *)
(*                                                                         *)
(* The market follows one of several Courses, a price per minute and       *)
(* symbol, so that charts long enough for every indicator are reached.     *)
(* Points are doubled (1.5 is 3) and confidence is in hundredths of a      *)
(* percent.  An exponential average is kept in thousandths.  Remarks that  *)
(* give no points (moving average of 50, squeeze, width of the pivot       *)
(* range) are left out, and so is expiry day.                              *)
(***************************************************************************)
EXTENDS Candles, SequencesExt

CONSTANTS
    Courses,            \* the courses of the market: [Symbols -> [minute -> price]]
    ChartSize,          \* OHLC_BUFFER_SIZE (200)
    Needed,             \* candles an analysis needs (20)
    Fast, Slow,         \* periods of the averages (9, 21)
    RsiPeriod           \* period of the strength index (14)

ASSUME TechnicalAssumption ==
    DOMAIN Frames \subseteq {"m1", "m5", "m15"} /\ Needed \in Nat \ {0} /\ ChartSize \in Nat

VARIABLES
    course,     \* the course the market takes
    inbox,      \* the bars published and not yet handled
    chart,      \* _ohlc: a sequence of bars per timeframe
    candles,    \* _candle_count
    techSignal, \* the signal of the last message, or NoVerdict
    silence     \* minutes since the last signal

techVars == <<candleVars, course, inbox, chart, candles, techSignal, silence>>

NoVerdict == [dir |-> 2, conf |-> 0]
LastOf(n, s) == SubSeq(s, Len(s) - n + 1, Len(s))
SideOf(up, down) == IF up THEN 1 ELSE IF down THEN -1 ELSE 0

(***************************************************************************)
(* Indicators.  The side of an indicator is 1 (bullish), -1 or 0.          *)
(***************************************************************************)

\* ema(values, period), in thousandths; 0 when there are too few values.
Ema(v, period) ==
    IF Len(v) < period THEN 0
    ELSE FoldSeq(LAMBDA x, r : r + (2 * (1000 * x - r)) \div (period + 1),
                 (1000 * SumFunction(SubSeq(v, 1, period))) \div period,
                 SubSeq(v, period + 1, Len(v)))
Stacked(fast, slow, p) ==
    IF fast = 0 \/ slow = 0 THEN 0
    ELSE SideOf(fast > slow /\ 1000 * p > fast, fast < slow /\ 1000 * p < fast)
Stack(v) == Stacked(Ema(v, Fast), Ema(v, Slow), Last(v))

\* rsi(closes) as a fraction <<num, den>> of 1: gains over gains and losses,
\* 1 when nothing was lost, even if nothing was gained.
Rsi(v) ==
    LET w == LastOf(RsiPeriod + 1, v)
        moves == [i \in 1 .. RsiPeriod |-> w[i + 1] - w[i]]
        gain == SumFunction([i \in DOMAIN moves |-> Max({0, moves[i]})])
        loss == SumFunction([i \in DOMAIN moves |-> Max({0, -moves[i]})])
    IN  IF loss = 0 THEN <<1, 1>> ELSE <<gain, gain + loss>>
Below(q, r) == q[1] * r[2] < r[1] * q[2]
Strength(v) == IF Len(v) <= RsiPeriod THEN 0
               ELSE SideOf(Below(<<6, 10>>, Rsi(v)), Below(Rsi(v), <<4, 10>>))

\* The pivot range and the Camarilla levels, taken from the first candle kept.
Pivoted(c, p) ==
    LET mid2 == c.high + c.low                  \* twice bc
        piv3 == c.high + c.low + c.close        \* thrice pivot
    IN  SideOf(3 * p > piv3 /\ 6 * p > 4 * piv3 - 3 * mid2, 3 * p < piv3 /\ 2 * p < mid2)
Camarilla(c, p) == SideOf(40 * (p - c.close) > 11 * (c.high - c.low),
                        40 * (c.close - p) > 11 * (c.high - c.low))

\* Swing points: above (below) the two candles on either side.
Peaks(v, Beats(_, _)) ==
    LET at == SelectSeq([i \in 1 .. Len(v) |-> i],
                        LAMBDA i : i > 2 /\ i < Len(v) - 1
                            /\ \A j \in {i - 2, i - 1, i + 1, i + 2} : Beats(v[i], v[j]))
    IN  [k \in DOMAIN at |-> v[at[k]]]
Step(s, k) == SideOf(s[Len(s) - k] > s[Len(s) - k - 1], s[Len(s) - k] < s[Len(s) - k - 1])

\* Structure: 3 points for a trend, 2 for its continuation, 3 for a reversal.
Both(a, b) == IF a = b THEN a ELSE 0
Turn(before, hi, lo) == SideOf(before = -1 /\ hi = 1, before = 1 /\ lo = -1)
StructureOf(highs, lows) ==
    LET trend == Both(Step(highs, 0), Step(lows, 0))
    IN  IF Len(highs) < 2 \/ Len(lows) < 2 THEN <<0, 0>>
        ELSE IF Len(highs) < 3 \/ Len(lows) < 3 THEN <<3 * trend, 0>>
        ELSE IF trend # 0 THEN <<3 * trend, 2 * trend>>
        ELSE <<0, 3 * Turn(Both(Step(highs, 1), Step(lows, 1)), Step(highs, 0), Step(lows, 0))>>
Structure(c) == StructureOf(Peaks([i \in DOMAIN c |-> c[i].high], >),
                            Peaks([i \in DOMAIN c |-> c[i].low], <))

\* Divergence of price and strength over the last 20 candles.  The code means
\* to search the second half and always takes its first candle.
FirstMin(w) == CHOOSE i \in 1 .. 10 : /\ \A j \in 1 .. 10 : w[i] <= w[j]
                                      /\ \A j \in 1 .. i - 1 : w[j] > w[i]
Parted(w, r, low, high) == SideOf(w[11] < w[low] /\ Below(r[low], r[11]),
                                w[11] > w[high] /\ Below(r[11], r[high]))
Divergence20(v) ==
    LET w == LastOf(20, v)
    IN  IF Len(v) - RsiPeriod < 20 THEN 0
        ELSE Parted(w, [i \in 1 .. 20 |-> Rsi(SubSeq(v, 1, Len(v) - 20 + i))],
                    FirstMin(w), FirstMin([i \in 1 .. 20 |-> -w[i]]))

\* The last gap between a candle and the one after the next, if still near.
Gap(c) ==
    LET Up(i) == c[i].low > c[i - 2].high
        Down(i) == c[i - 2].low > c[i].high
        gaps == {i \in 3 .. Len(c) : Up(i) \/ Down(i)}
        g == Max(gaps)
        p == Last(c).close
    IN  IF gaps = {} THEN 0
        ELSE SideOf(Up(g) /\ p <= c[g].low, Down(g) /\ p >= c[g].high)

(***************************************************************************)
(* The verdict of a chart and of all charts                                *)
(***************************************************************************)

PointsOf(c, v) ==
    <<4 * Stack(v), 2 * Strength(v), 2 * Pivoted(c[1], Last(v)), 2 * Camarilla(c[1], Last(v)),
      Structure(c)[1], Structure(c)[2], 4 * Divergence20(v), 2 * Gap(c)>>
Points(c) == PointsOf(c, [i \in DOMAIN c |-> c[i].close])

\* 40 % for a side and up to 50 % more for its share of the points.
Confidence(n, all) == Min({9000, 4000 + (5000 * n) \div (all + 4)})
VerdictOf(bull, bear) ==
    IF bull + bear = 0 THEN [dir |-> 0, conf |-> 3000]
    ELSE IF bull > bear THEN [dir |-> 1, conf |-> Confidence(bull, bull + bear)]
    ELSE IF bear > bull THEN [dir |-> -1, conf |-> Confidence(bear, bull + bear)]
    ELSE [dir |-> 0, conf |-> 3500]
Gained(points, side) == SumFunction([i \in DOMAIN points |-> Max({0, side * points[i]})])
Judged(points) == VerdictOf(Gained(points, 1), Gained(points, -1))
ChartVerdict(c) == Judged(Points(c))

SwappedWeights == [m1 |-> 4, m5 |-> 2, m15 |-> 4]  \* mutant
TimeframeWeights == [m1 |-> 2, m5 |-> 4, m15 |-> 4]
Charted(ch) == {tf \in DOMAIN ch : Len(ch[tf]) >= Needed}

\* The charts with enough candles, weighed; the weights are renormalised.
Votes(verdict, side) ==
    SumFunction([tf \in DOMAIN verdict |->
        IF verdict[tf].dir = side THEN TimeframeWeights[tf] * verdict[tf].conf ELSE 0])
Decision(bull, bear, total) ==
    IF bull > bear /\ bull > 4000 * total THEN [dir |-> 1, conf |-> Min({9500, bull \div total})]
    ELSE IF bear > bull /\ bear > 4000 * total THEN [dir |-> -1, conf |-> Min({9500, bear \div total})]
    ELSE [dir |-> 0, conf |-> 3000]
Weigh(verdict) == Decision(Votes(verdict, 1), Votes(verdict, -1),
                           SumFunction([tf \in DOMAIN verdict |-> TimeframeWeights[tf]]))
Combined(ch) == IF Charted(ch) = {} THEN NoVerdict
               ELSE Weigh([tf \in Charted(ch) |-> ChartVerdict(ch[tf])])

(***************************************************************************)
(* The state machine                                                       *)
(***************************************************************************)

\* The name of the channel is searched for "1m", "5m", "15m" in this order,
\* and "ohlc:15m" contains "5m".
ChartOf(tf) == IF tf = "m1" THEN "m1" ELSE "m5"

TechInit ==
    /\ CandlesInit
    /\ course \in Courses
    /\ inbox = <<>>
    /\ chart = [tf \in DOMAIN Frames |-> <<>>]
    /\ candles = 0 /\ techSignal = NoVerdict /\ silence = 0

\* A minute later every symbol trades once; the bars this closes are published.
Market ==
    /\ inbox = <<>> /\ minute < LastMinute
    /\ minute' = minute + 1
    /\ bars' = [s \in Symbols |-> [tf \in DOMAIN Frames |->
                    OnTick(bars[s][tf], minute', tf, course[s][minute'])]]
    /\ closed' = FoldSet(LAMBDA s, q : q \o ClosedBy(bars[s], minute'), <<>>, Symbols)
    /\ inbox' = closed'
    /\ silence' = silence + 1
    /\ UNCHANGED <<course, chart, candles, techSignal>>

\* A candle is added to its chart and counted; a candle of the slow charts
\* leads to an analysis when the count is a multiple of 3.
Candle ==
    /\ inbox # <<>>
    /\ LET tf == ChartOf(Head(inbox).tf)
           grown == Append(chart[tf], Head(inbox).bar)
       IN  /\ chart' = [chart EXCEPT ![tf] = IF Len(grown) > ChartSize THEN Tail(grown) ELSE grown]
           /\ candles' = candles + 1
           /\ techSignal' = IF tf = "m5" /\ candles' % 3 = 0 THEN Combined(chart') ELSE NoVerdict
    /\ silence' = IF techSignal' # NoVerdict THEN 0 ELSE silence
    /\ inbox' = Tail(inbox)
    /\ UNCHANGED <<candleVars, course>>

TechNext == Market \/ Candle

(***************************************************************************)
(* Properties                                                              *)
(***************************************************************************)

\* The one-minute chart, which is the first to have enough candles and counts
\* half of a slow one, never decides alone once a slow chart is there: a
\* directional signal has the side of a slow chart (technical_agent.py:246-274).
\* Of the slow charts only the five-minute chart is ever there, as ChartOf says.
SlowCharts(ch) == Charted(ch) \ {"m1"}
SlowChartDecides ==
    (techSignal # NoVerdict /\ techSignal.dir # 0 /\ SlowCharts(chart) # {})
        => \E tf \in SlowCharts(chart) : ChartVerdict(chart[tf]).dir = techSignal.dir
=============================================================================
