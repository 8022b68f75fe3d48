------------------------------- MODULE Candles -------------------------------
(***************************************************************************)
(* The bar aggregator of the tick feeds (OHLCAggregator in                 *)
(* data_pipeline/truedata_feed.py): per symbol and timeframe one bar that  *)
(* is still open, published when a tick of a later bar arrives.            *)
(*                                                                         *)
(* Time is counted in minutes.  A tick that arrives late, with a time      *)
(* before the open bar, is added to the open bar.                          *)
(***************************************************************************)
EXTENDS Integers, Sequences, FiniteSetsExt

CONSTANTS
    Symbols,            \* the index and its future
    Frames,             \* _TIMEFRAMES: a function from names to minutes
    FrameOrder,         \* the names in the order of that dictionary
    Prices,             \* prices of a tick
    MaxLate,            \* bound: minutes by which a tick may be late
    LastMinute          \* bound: the last minute modelled

\* Each timeframe is a multiple of the shorter ones, as 1, 5 and 15 minutes are.
ASSUME CandlesAssumption ==
    /\ \A tf \in DOMAIN Frames : Frames[tf] \in Nat \ {0}
    /\ \A tf, longer \in DOMAIN Frames :
            Frames[tf] < Frames[longer] => \E n \in 1 .. Frames[longer] : Frames[longer] = n * Frames[tf]
    /\ Prices \subseteq Int /\ MaxLate \in Nat /\ LastMinute \in Nat

VARIABLES
    minute,     \* the latest time a tick carried
    bars,       \* _bars: the open bar of each symbol and timeframe
    closed      \* the bars published by the last tick, in order

candleVars == <<minute, bars, closed>>

NoBar == [at |-> -1, open |-> 0, high |-> 0, low |-> 0, close |-> 0]
OpenTime(ts, tf) == Frames[tf] * (ts \div Frames[tf])
NewBar(ts, tf, p) == [at |-> OpenTime(ts, tf), open |-> p, high |-> p, low |-> p, close |-> p]
Updated(b, p) == [b EXCEPT !.high = Max({@, p}), !.low = Min({@, p}), !.close = p]

Closes(b, ts, tf) == b # NoBar /\ OpenTime(ts, tf) > b.at
\* Mutant: a late tick is dropped.
DropsLate(b, ts, tf, p) ==
    IF b = NoBar \/ Closes(b, ts, tf) THEN NewBar(ts, tf, p)
    ELSE IF ts < b.at THEN b ELSE Updated(b, p)
OnTick(b, ts, tf, p) == IF b = NoBar \/ Closes(b, ts, tf) THEN NewBar(ts, tf, p) ELSE Updated(b, p)

\* The bars of one symbol that a tick closes.
ClosedBy(own, ts) ==
    LET done == SelectSeq(FrameOrder, LAMBDA tf : Closes(own[tf], ts, tf))
    IN  [i \in DOMAIN done |-> [tf |-> done[i], bar |-> own[done[i]]]]

CandlesInit ==
    /\ minute = 0
    /\ bars = [s \in Symbols |-> [tf \in DOMAIN Frames |-> NoBar]]
    /\ closed = <<>>

Tick(s, ts, p) ==
    /\ minute' = Max({minute, ts})
    /\ bars' = [bars EXCEPT ![s] = [tf \in DOMAIN Frames |-> OnTick(@[tf], ts, tf, p)]]
    /\ closed' = ClosedBy(bars[s], ts)

CandlesNext == \E s \in Symbols, p \in Prices, ts \in Max({0, minute - MaxLate}) .. LastMinute :
    Tick(s, ts, p)

(***************************************************************************)
(* Properties                                                              *)
(***************************************************************************)

\* The open bars of a symbol tell one story: a shorter bar lies in time and in
\* price within every longer one and both end at the same price, whatever
\* minutes had no tick and whichever ticks came late (truedata_feed.py:94-124).
BarsNest == \A s \in Symbols : \A tf, longer \in DOMAIN Frames :
    LET b == bars[s][tf]
        l == bars[s][longer]
    IN  (Frames[tf] < Frames[longer] /\ b # NoBar) =>
            /\ l.at <= b.at /\ b.at < l.at + Frames[longer]
            /\ l.low <= b.low /\ b.high <= l.high /\ l.close = b.close
=============================================================================
