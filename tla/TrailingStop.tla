---------------------------- MODULE TrailingStop ----------------------------
(***************************************************************************)
(* The multi-target take profit and trailing stop of one paper position:   *)
(* TrailingStopManager.update and check_time_exit decide on each tick, and *)
(* the paper executor carries the decisions out.  Two records describe the *)
(* position: the executor's VirtualPosition (inHand) and the stop's own    *)
(* TradePosition (remaining, sl, hits).                                    *)
(*                                                                         *)
(* Prices are whole rupees; rounding to paise and slippage are left out.   *)
(***************************************************************************)
EXTENDS Integers, Sequences

CONSTANTS
  Directions,  \* directions a TradePosition may carry
  Strategies,  \* trade types
  Atrs,        \* average true ranges passed to the stop, 0 for none
  Entry,       \* entry price
  Risk,        \* distance of the initial stop (sl_points)
  Quantity,    \* units bought
  Prices       \* prices of the ticks

ASSUME TrailingAssumption ==
  /\ Directions \subseteq {"BULLISH", "BEARISH", "LONG", "SHORT"}
  /\ Strategies \subseteq {"SCALP", "INTRADAY", "BTST"}
  /\ Atrs \subseteq Nat
  /\ Entry \in Nat /\ Risk \in Nat /\ 0 < Risk /\ Risk < Entry
  /\ Quantity \in Nat \ {0}
  /\ Prices \subseteq Nat

VARIABLES
  trade,      \* direction, strategy and atr of the position
  sl,         \* TradePosition.sl_price
  remaining,  \* TradePosition.remaining_quantity
  hits,       \* TradePosition.targets_hit
  inHand,     \* VirtualPosition.quantity
  open,       \* is the position in both maps of the executor?
  overdue,    \* have ten minutes passed since the entry?
  eod,        \* is it 15:15 or later?
  sales       \* history: what was sold, why and at what price

stopVars == <<trade, sl, remaining, hits, inHand, open, overdue, eod, sales>>

Lesser(a, b) == IF a < b THEN a ELSE b

Distance(p, q) == IF p < q THEN q - p ELSE p - q

\* _is_long of the executor; the stop itself compares with "BULLISH" only.
IsLong == trade.direction \in {"BULLISH", "LONG"}

InitialStop == IF IsLong THEN Entry - Risk ELSE Entry + Risk

-----------------------------------------------------------------------------
(* TrailingStopManager.update. *)

StopHit(p) ==
  \/ trade.direction = "BULLISH" /\ p <= sl
  \/ trade.direction = "BEARISH" /\ p >= sl

Illiquid(p) == p < 10

RiskPerUnit == Distance(Entry, sl)

\* Is the price beyond target k (1.5 or 2.5 times the risk)?
Reached(k, p) ==
  2 * (IF trade.direction = "BULLISH" THEN p - Entry ELSE Entry - p)
    >= (IF k = 1 THEN 3 ELSE 5) * RiskPerUnit

\* Mutant: the second target sells as much as the first.
ShareOfFirst(k) == (Quantity * 6) \div 10

\* int(quantity * exit_pct): 60% and 30%.
Share(k) == IF k = 1 THEN (Quantity * 6) \div 10 ELSE (Quantity * 3) \div 10

\* What the tick sells at target k when r units remain.
SoldAt(k, p, r) ==
  IF RiskPerUnit > 0 /\ k \notin hits /\ Reached(k, p) THEN Lesser(Share(k), r) ELSE 0

\* The distance of the trailing stop, 0 when it does not follow.
TrailDistance(p) ==
  CASE Distance(p, Entry) >= 2 * RiskPerUnit -> (3 * trade.atr) \div 4
    [] 2 * Distance(p, Entry) >= 3 * RiskPerUnit -> trade.atr
    [] OTHER -> 0

\* Mutant: the stop follows the price both ways.
FollowAlways(base, p, d) ==
  IF d = 0 THEN base ELSE IF trade.direction = "BULLISH" THEN p - d ELSE p + d

\* The trailing stop follows the price at distance d and never turns back.
Follow(base, p, d) ==
  LET candidate == IF trade.direction = "BULLISH" THEN p - d ELSE p + d
      better == IF trade.direction = "BULLISH" THEN candidate > base ELSE candidate < base
  IN  IF d > 0 /\ better THEN candidate ELSE base

-----------------------------------------------------------------------------
(* One tick: update, check_time_exit, and the executor's part of both. *)

Sale(why, n, p) == IF n > 0 THEN <<[why |-> why, quantity |-> n, price |-> p]>> ELSE <<>>

\* Mutant: nobody looks at the clock.
NeverOver == FALSE

\* check_time_exit: ten minutes for a scalp, whatever its profit, and 15:15
\* for a scalp or an intraday trade.
TimeOver ==
  \/ trade.strategy = "SCALP" /\ overdue
  \/ trade.strategy \in {"SCALP", "INTRADAY"} /\ eod

\* The stop, the illiquidity rule: everything is sold and nothing else happens.
CloseAll(p, why, before, n) ==
  /\ open' = FALSE
  /\ inHand' = 0
  /\ remaining' = 0
  /\ sales' = sales \o before \o Sale(why, n, p)

TickStopped(p) ==
  /\ open
  /\ StopHit(p) \/ Illiquid(p)
  /\ CloseAll(p, IF StopHit(p) THEN "stop" ELSE "illiquid", <<>>, inHand)
  /\ UNCHANGED <<trade, sl, hits, overdue, eod>>

\* Targets, then the trailing stop, then the clock.
TickThrough(p) ==
  /\ open
  /\ ~StopHit(p) /\ ~Illiquid(p)
  /\ LET n1 == SoldAt(1, p, remaining)
         n2 == SoldAt(2, p, remaining - n1)
         left == remaining - n1 - n2
         sold == Sale("target", n1, p) \o Sale("target", n2, p)
         base == IF n1 > 0 THEN Entry ELSE sl
     IN  /\ hits' = hits \cup {k \in {1, 2} : (k = 1 /\ n1 > 0) \/ (k = 2 /\ n2 > 0)}
         /\ sl' = IF RiskPerUnit > 0 /\ 1 \in hits' /\ left > 0
                  THEN Follow(base, p, TrailDistance(p)) ELSE base
         /\ IF TimeOver \/ inHand - n1 - n2 <= 0
            THEN CloseAll(p, "time", sold, inHand - n1 - n2)
            ELSE /\ remaining' = left
                 /\ inHand' = inHand - n1 - n2
                 /\ sales' = sales \o sold
                 /\ UNCHANGED open
  /\ UNCHANGED <<trade, overdue, eod>>

Tick(p) == TickStopped(p) \/ TickThrough(p)

\* An exit order closes the position behind the stop's back.
ExitOrder(p) ==
  /\ open
  /\ CloseAll(p, "order", <<>>, inHand)
  /\ UNCHANGED <<trade, sl, hits, overdue, eod>>

TimePasses ==
  /\ overdue' \in {overdue, TRUE}
  /\ eod' \in {eod, TRUE}
  /\ <<overdue, eod>>' # <<overdue, eod>>
  /\ UNCHANGED <<trade, sl, remaining, hits, inHand, open, sales>>

-----------------------------------------------------------------------------
StopInit ==
  /\ trade \in [direction : Directions, strategy : Strategies, atr : Atrs]
  /\ sl = InitialStop
  /\ remaining = Quantity
  /\ hits = {}
  /\ inHand = Quantity
  /\ open = TRUE
  /\ overdue = FALSE
  /\ eod = FALSE
  /\ sales = <<>>

StopNext == (\E p \in Prices : Tick(p) \/ ExitOrder(p)) \/ TimePasses

StopSpec == StopInit /\ [][StopNext]_stopVars

\* Ticks keep coming, at whatever price: when the time is over each of them is
\* a step.  Nothing is promised of the prices.
StopFairSpec == StopSpec /\ WF_stopVars(TimeOver /\ \E p \in Prices : Tick(p))

-----------------------------------------------------------------------------
(* Properties. *)

SaleRecord ==
  [why : {"target", "stop", "illiquid", "time", "order"}, quantity : 1 .. Quantity, price : Nat]

\* The type of the state.
StopTypeOK ==
  /\ trade \in [direction : Directions, strategy : Strategies, atr : Atrs]
  /\ sl \in Int
  /\ remaining \in 0 .. Quantity /\ inHand \in 0 .. Quantity
  /\ hits \subseteq {1, 2}
  /\ open \in BOOLEAN /\ overdue \in BOOLEAN /\ eod \in BOOLEAN
  /\ sales \in Seq(SaleRecord)

\* The two targets leave a runner: while the position is open the executor and
\* the stop agree on what is left of it, and what closes it is the stop, the
\* clock or an order, never a target.  So _close_position_fully is never reached.
RunnerLeft ==
  IF open THEN remaining > 0 /\ inHand = remaining
          ELSE sales[Len(sales)].why # "target"

\* Between a and b, is b the tighter stop?
Tighter(a, b) == IF IsLong THEN a <= b ELSE a >= b

\* The stop never gives ground: it only moves towards the profit.
StopNeverLoosens == [][Tighter(sl, sl')]_stopVars

\* After the first target the trade cannot lose on paper any more: the stop is
\* at the entry price or better.
BreakevenAfterT1 == 1 \in hits => Tighter(Entry, sl)

\* What the targets hit so far have sold.
SoldShare(k) == IF k \in hits THEN Share(k) ELSE 0

\* What makes the three properties above last: the quantities follow from the
\* targets hit, and the stop is where it started until the first of them.
StopInv ==
  /\ open => remaining = Quantity - SoldShare(1) - SoldShare(2) /\ inHand = remaining
  /\ 1 \notin hits => sl = InitialStop
  /\ BreakevenAfterT1
  /\ ~open => sales # <<>> /\ sales[Len(sales)].why # "target"

StopIInv == StopTypeOK /\ StopInv

\* What is sold at a target is sold at a profit.
TargetsTakeProfit ==
  \A i \in DOMAIN sales :
    sales[i].why = "target" => sales[i].price # Entry /\ Tighter(Entry, sales[i].price)

\* After 15:15 scalps and intraday trades are closed by the next ticks.
ClosedByEndOfDay ==
  (eod /\ open /\ trade.strategy # "BTST") ~> ~open

=============================================================================
