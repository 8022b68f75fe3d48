------------------------------- MODULE Backtest -------------------------------
(***************************************************************************)
(* The backtester's trades (learning/historical_backtester.py): what the   *)
(* analysts would have said at a bar, their consensus, and what a trade    *)
(* entered there would have come to.                                       *)
(*                                                                         *)
(* A day is a sequence of bars.  Its indicators (the order of the averages,*)
(* the zone of the RSI, the width of the Bollinger bands, VWAP, ATR) come  *)
(* with the bars.  Prices are whole, confidences and scores are in percent,*)
(* and P&L is per unit: lot sizes and option deltas only scale it.         *)
(***************************************************************************)
EXTENDS Integers, Sequences, FiniteSets, FiniteSetsExt, Functions, SequencesExt

CONSTANTS
    Morning,        \* positions of the bars between 10:00 and 10:30
    MinBars,        \* bars a day needs, by trade type within the day
    FirstNight,     \* position of the first daily bar with enough history
    ScalpBars,      \* positions of the scalps' entries
    Hold            \* bars a scalp is held

\* No day of fewer than five bars is traded within.
ASSUME BacktestAssumption ==
    /\ Morning \subseteq Nat \ {0}
    /\ MinBars["INTRADAY"] \in Nat /\ MinBars["INTRADAY"] >= 5 /\ MinBars["SCALP"] \in Nat
    /\ FirstNight \in Nat \ {0}
    /\ IsFiniteSet(ScalpBars) /\ ScalpBars \subseteq Nat \ {0}
    /\ Hold \in Nat \ {0}

Agents == {"options", "flow", "profile", "technical", "sentiment", "news", "macro"}
AgentWeight == [options |-> 15, flow |-> 20, profile |-> 15, technical |-> 20,
                sentiment |-> 10, news |-> 10, macro |-> 10]

Gate == [BTST |-> 55, INTRADAY |-> 40, SCALP |-> 35]

\* Distances of stop and target in quarters of the ATR.
Stop == [INTRADAY |-> 6, SCALP |-> 3, BTST |-> 8]
Target == [INTRADAY |-> 9, SCALP |-> 4]

-----------------------------------------------------------------------------
(* What the analysts would have said. *)

AtMost(a, b) == IF a < b THEN a ELSE b
AtLeast(a, b) == IF a > b THEN a ELSE b
Size(n) == IF n < 0 THEN -n ELSE n
Says(score, base, cap) == [dir |-> IF score > 0 THEN 1 ELSE -1, conf |-> AtMost(cap, Size(score) + base)]

TechScore(b) == 30 * b.stack + 20 * b.zone + (IF b.above THEN 15 ELSE -15)

\* Trend of the last three closes in ATRs, and of their volumes against the mean.
FlowScore(b, p1, p2, p3) ==
    LET total == p1.volume + p2.volume + p3.volume
    IN (30 * (p3.close - p1.close)) \div AtLeast(b.atr, 1)
       + (60 * p3.volume) \div AtLeast(total, 3) - 20

Signals(day, i, vix) ==
    LET b == day[i] IN
    [a \in IF i > 3 THEN Agents ELSE Agents \ {"flow"} |->
        CASE a = "technical" -> Says(TechScore(b), 35, 85)
          [] a = "flow" -> Says(FlowScore(b, day[i - 3], day[i - 2], day[i - 1]), 40, 80)
          [] a = "profile" -> Says((30 * (b.close - b.vwap)) \div AtLeast(b.atr, 1), 40, 75)
          [] a = "sentiment" -> IF vix < 14 THEN [dir |-> 1, conf |-> 65]
                                ELSE IF vix < 18 THEN [dir |-> 1, conf |-> 55]
                                ELSE IF vix < 22 THEN [dir |-> 0, conf |-> 45]
                                ELSE [dir |-> -1, conf |-> 60]
          [] a = "options" -> IF b.squeeze THEN [dir |-> 0, conf |-> 45]
                              ELSE [dir |-> IF TechScore(b) > 10 THEN 1 ELSE -1, conf |-> 60]
          [] a = "news" -> [dir |-> 0, conf |-> 45]
          [] a = "macro" -> [dir |-> IF vix < 18 THEN 1 ELSE -1, conf |-> 55]]

\* The weighted mean of the signals and its side.
Consensus(signals) ==
    LET sum == SumFunction([a \in DOMAIN signals |->
                               AgentWeight[a] * signals[a].conf * signals[a].dir])
        weight == SumFunction([a \in DOMAIN signals |-> AgentWeight[a]])
    IN [strength |-> Size(sum) \div weight, dir |-> IF sum > 0 THEN 1 ELSE -1]

VixRegime(vix) == IF vix < 14 THEN "LOW" ELSE IF vix < 18 THEN "NORMAL"
               ELSE IF vix < 22 THEN "ELEVATED" ELSE "HIGH"

-----------------------------------------------------------------------------
(* What a trade entered at a bar would have come to. *)

\* Does the bar reach a price that far against, or for, the trade?
Against(b, dir, entry, gap) == IF dir = 1 THEN b.low <= entry - gap ELSE b.high >= entry + gap
For(b, dir, entry, gap) == IF dir = 1 THEN b.high >= entry + gap ELSE b.low <= entry - gap

Gap(quarters, atr) == (quarters * atr) \div 4

\* Mutant: the target first.
TargetFirst(kind, day, i, last, dir) ==
    LET entry == day[i].close
        stop == Gap(Stop[kind], day[i].atr)
        target == Gap(Target[kind], day[i].atr)
        touching == {k \in i + 1 .. last : \/ Against(day[k], dir, entry, stop)
                                           \/ For(day[k], dir, entry, target)}
    IN IF touching = {} THEN [reason |-> "TIME_EXIT", pnl |-> dir * (day[last].close - entry)]
       ELSE IF For(day[Min(touching)], dir, entry, target)
       THEN [reason |-> "TARGET", pnl |-> target]
       ELSE [reason |-> "STOP_LOSS", pnl |-> -stop]

\* The first bar that reaches stop or target decides, the stop first; else the
\* close of the last bar.
Walked(kind, day, i, last, dir) ==
    LET entry == day[i].close
        stop == Gap(Stop[kind], day[i].atr)
        target == Gap(Target[kind], day[i].atr)
        touching == {k \in i + 1 .. last : \/ Against(day[k], dir, entry, stop)
                                           \/ For(day[k], dir, entry, target)}
    IN IF touching = {} THEN [reason |-> "TIME_EXIT", pnl |-> dir * (day[last].close - entry)]
       ELSE IF Against(day[Min(touching)], dir, entry, stop)
       THEN [reason |-> "STOP_LOSS", pnl |-> -stop]
       ELSE [reason |-> "TARGET", pnl |-> target]

\* Overnight: the next day's close, unless that day went beyond the stop.
Overnight(day, i, dir) ==
    LET entry == day[i].close
        stop == Gap(Stop["BTST"], day[i].atr)
        gain == dir * (day[i + 1].close - entry)
    IN IF Against(day[i + 1], dir, entry, stop + 1) THEN [reason |-> "STOP_LOSS", pnl |-> -stop]
       ELSE [reason |-> IF gain > 0 THEN "TARGET" ELSE "TIME_EXIT", pnl |-> gain]

Result(kind, day, i, dir) ==
    CASE kind = "INTRADAY" -> Walked(kind, day, i, Len(day), dir)
      [] kind = "SCALP" -> Walked(kind, day, i, i + Hold, dir)
      [] kind = "BTST" -> Overnight(day, i, dir)

\* Positions, finitely many, in their order.
InOrder(K) == CHOOSE s \in [1 .. Cardinality(K) -> K] : \A i, j \in DOMAIN s : i < j => s[i] < s[j]

\* The bars at which each strategy tries an entry: BTST every second one, but
\* the last two; intraday at the end of the morning and after 60% of the day,
\* if bars are left then.
MorningBar(n) ==
    LET settled == Morning \cap 1 .. n
        early == (IF n >= 20 THEN 7 .. 12 ELSE 2 .. 3) \cap 1 .. n
    IN IF settled # {} THEN Max(settled) ELSE Max(early)

EntryBars(kind, n) ==
    IF kind = "BTST" THEN InOrder({i \in FirstNight .. n - 2 : i % 2 = 1})
    ELSE IF n < MinBars[kind] THEN <<>>
    ELSE IF kind = "SCALP" THEN InOrder({i \in ScalpBars : i <= n - Hold})
    ELSE LET afternoon == (3 * n) \div 5 + 1
         IN IF MorningBar(n) \in {afternoon, n} THEN <<afternoon>>
            ELSE <<MorningBar(n), afternoon>>

TradeAt(kind, day, i, vix) ==
    LET signals == Signals(day, i, vix)
        consensus == Consensus(signals)
    IN [type |-> kind, at |-> i, regime |-> VixRegime(vix), signals |-> signals, dir |-> consensus.dir,
        strength |-> consensus.strength, pnl |-> Result(kind, day, i, consensus.dir).pnl,
        reason |-> Result(kind, day, i, consensus.dir).reason]

\* The entries whose consensus passes the gate.
TradesOf(kind, day, vix) ==
    LET bars == EntryBars(kind, Len(day))
        tried == [k \in DOMAIN bars |-> TradeAt(kind, day, bars[k], vix)]
        kept == InOrder({k \in DOMAIN bars : tried[k].strength >= Gate[kind]})
    IN [n \in DOMAIN kept |-> tried[kept[n]]]

\* A run of the backtest: daily bars overnight, intraday bars within the day.
Backtested(days, day, vix) ==
    TradesOf("BTST", days, vix) \o TradesOf("INTRADAY", day, vix) \o TradesOf("SCALP", day, vix)

=============================================================================
