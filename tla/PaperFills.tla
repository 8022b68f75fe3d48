------------------------------ MODULE PaperFills ------------------------------
(***************************************************************************)
(* What the paper executor pays and gets (execution/paper_executor.py):    *)
(* the premium of a position and the slippage of its fills                 *)
(* (execution/slippage_model.py).  One position at a time; its course      *)
(* through events is in TradePipeline.                                     *)
(*                                                                         *)
(* Prices are in paise, slippage in tenths of a basis point.  A position   *)
(* is "CE" or "PE", an option bought on a bullish or bearish proposal, or  *)
(* "UP" or "DOWN", the index itself when no option was found.  The theory  *)
(* price of an option and the hour's multiplier, with its noise, are       *)
(* parameters.                                                             *)
(***************************************************************************)
EXTENDS Integers, FiniteSetsExt

CONSTANTS
    Spots,              \* prices of the index
    Premiums,           \* premiums the options chain may report
    Theory(_, _),       \* BlackScholesPricer.price: premium of a kind at a spot
    Strike,
    Quantities,
    ReferenceLot,       \* LOT_SIZES of the slippage model (25)
    Volume,             \* TYPICAL_ADV in lots
    HourPct,            \* TOD_MULTIPLIERS in percent, with noise: a set
    Ivs,                \* implied volatilities in percent, 0 if unknown
    MaxTrades           \* bound on the trades

\* Prices, quantities and multipliers are not negative, and a lot, the volume and
\* a quantity that is ordered are not zero.
ASSUME FillsAssumption ==
    /\ Spots \subseteq Nat /\ Premiums \subseteq Nat /\ Ivs \subseteq Nat /\ HourPct \subseteq Nat
    /\ Strike \in Nat /\ Quantities \subseteq Nat \ {0}
    /\ ReferenceLot \in Nat \ {0} /\ Volume \in Nat \ {0}
    /\ \A kind \in {"CE", "PE"}, price \in Spots : Theory(kind, price) \in Nat

VARIABLES
    spot,       \* _latest_prices of the underlying, 0 before the first tick
    live,       \* _option_premiums of the position's option, 0 if never reported
    iv,         \* _latest_iv
    position,   \* the open position, or NoPosition
    trades,     \* _total_trades
    trade       \* history: the last trade that ended, or NoTrade

fillVars == <<spot, live, iv, position, trades, trade>>

NoPosition == [kind |-> "none", qty |-> 0, entry |-> 0, raw |-> 0, how |-> "none"]
NoTrade == [kind |-> "none", how |-> "none", gained |-> FALSE, moved |-> FALSE]

Options == {"CE", "PE"}
Rising == {"CE", "UP"}          \* _is_long of the direction

(***************************************************************************)
(* The slippage model                                                      *)
(***************************************************************************)

\* classify_instrument and BASE_SLIPPAGE_BPS: how far in the money, in percent.
InTheMoney(kind, pct) == IF kind = "CE" THEN 100 * spot > pct * Strike
                         ELSE 100 * spot < (200 - pct) * Strike
BaseBps(kind) ==
    IF kind \notin Options THEN 5
    ELSE IF InTheMoney(kind, 105) THEN 20
    ELSE IF InTheMoney(kind, 98) THEN 30
    ELSE IF InTheMoney(kind, 95) THEN 50 ELSE 100

OrderBps(kind, type) == IF type = "limit" THEN (3 * BaseBps(kind)) \div 10
                        ELSE IF type = "stop" THEN (3 * BaseBps(kind)) \div 2 ELSE BaseBps(kind)

\* The square root of the participation, at most 50 basis points.
ImpactBps(qty) ==
    LET lots == Max({1, qty \div ReferenceLot})
    IN  Max({n \in 0 .. 500 : n * n <= (1000000 * lots) \div Volume})

VolatilityPct == IF iv = 0 THEN 100 ELSE IF iv < 12 THEN 70 ELSE IF iv < 22 THEN 100
                 ELSE IF iv < 35 THEN 160 ELSE 250

Slippage(kind, type, price, qty, hour) ==
    LET bps == OrderBps(kind, type) + ImpactBps(qty)
    IN  Max({5, (((((price * bps) \div 1000) * VolatilityPct) \div 100) * hour) \div 10000})

\* mutant: slippage in favour of the account
FillFavourable(kind, type, side, price, qty, hour) ==
    Max({5, IF side = "BUY" THEN price - Slippage(kind, type, price, qty, hour)
            ELSE price + Slippage(kind, type, price, qty, hour)})

\* A purchase is filled above the price it is made at, a sale below.
Fill(kind, type, side, price, qty, hour) ==
    IF price <= 0 THEN price
    ELSE Max({5, IF side = "BUY" THEN price + Slippage(kind, type, price, qty, hour)
                 ELSE price - Slippage(kind, type, price, qty, hour)})

\* The side is taken from the direction of the proposal, also for options, which
\* are bought for either direction.
EntrySide(kind) == IF kind \in Rising THEN "BUY" ELSE "SELL"
ExitSide(kind) == IF kind \in Rising THEN "SELL" ELSE "BUY"

(***************************************************************************)
(* Values and results                                                      *)
(***************************************************************************)

\* _estimate_option_premium: what the chain reported, however long ago; then
\* theory, which stands for its last fallback too (the entry price moved by the
\* delta); without an index price the price of entry.
Premium(p) ==
    IF live > 0 THEN live
    ELSE IF spot > 0 THEN Theory(p.kind, spot)
    ELSE p.entry

Value(p) == IF p.kind \in Options THEN Premium(p) ELSE IF spot > 0 THEN spot ELSE p.entry

Gross(p, exit) == IF p.kind = "DOWN" THEN (p.entry - exit) * p.qty ELSE (exit - p.entry) * p.qty

\* Did the market move the way of position p since it was entered?
Moved(p) == IF p.kind = "DOWN" THEN Value(p) < p.raw ELSE Value(p) > p.raw

FillInit ==
    /\ spot = 0 /\ live = 0 /\ iv = 0
    /\ position = NoPosition
    /\ trades = 0 /\ trade = NoTrade

\* _update_price
SpotTick(p, v) ==
    /\ spot' = p
    /\ iv' = IF v > 0 THEN v ELSE iv
    /\ UNCHANGED <<live, position, trades, trade>>

\* _handle_options_update: a premium of zero is not stored, so the last one stays.
Chain(premium) ==
    /\ live' = IF premium > 0 THEN premium ELSE live
    /\ UNCHANGED <<spot, iv, position, trades, trade>>

Opened(kind, how, qty, raw, fill) ==
    position' = [kind |-> kind, qty |-> qty, entry |-> fill, raw |-> raw, how |-> how]

\* _execute_entry: an option at the premium the proposal carries, which may be older
\* or newer than the last one seen here, the index at its price; without a price
\* nothing is entered.
Enter(kind, premium, qty, hour) ==
    /\ position = NoPosition /\ trades < MaxTrades
    /\ LET raw == IF kind \in Options THEN premium ELSE spot
       IN  /\ raw > 0
           /\ Opened(kind, "event", qty, raw, Fill(kind, "market", EntrySide(kind), raw, qty, hour))
    /\ UNCHANGED <<spot, live, iv, trades, trade>>

\* place_order and _create_position_from_order: a purchase of the index, at the
\* limit if that is better, however far the market is from it.  A sale only leaves
\* an order behind.
PlaceOrder(type, limit, qty, hour) ==
    /\ position = NoPosition /\ trades < MaxTrades
    /\ LET raw == IF spot > 0 THEN spot ELSE limit
           fill == Fill("UP", type, "BUY", raw, qty, hour)
       IN  Opened("UP", type, qty, raw,
                  IF type = "limit" /\ limit > 0 THEN Min({fill, limit}) ELSE fill)
    /\ UNCHANGED <<spot, live, iv, trades, trade>>

\* _execute_exit with _exit_price_and_gross.
Exit(hour) ==
    /\ position # NoPosition
    /\ LET p == position
           exit == Fill(p.kind, "market", ExitSide(p.kind), Value(p), p.qty, hour)
       IN  trade' = [kind |-> p.kind, how |-> p.how, gained |-> Gross(p, exit) > 0, moved |-> Moved(p)]
    /\ position' = NoPosition
    /\ trades' = trades + 1
    /\ UNCHANGED <<spot, live, iv>>

FillNext ==
    \/ \E p \in Spots, v \in Ivs : SpotTick(p, v)
    \/ \E premium \in Premiums : Chain(premium)
    \/ \E hour \in HourPct :
        \/ Exit(hour)
        \/ \E qty \in Quantities :
            \/ \E kind \in {"CE", "PE", "UP", "DOWN"}, premium \in Premiums : Enter(kind, premium, qty, hour)
            \/ \E type \in {"market", "limit", "stop"}, limit \in Spots : PlaceOrder(type, limit, qty, hour)

(***************************************************************************)
(* Properties                                                              *)
(***************************************************************************)

\* The paper account is not better than the market: a trade gains before charges
\* only if the market moved its way.  Two cases where it is better are left out:
\* puts, whose slippage has the wrong sign at both ends (paper_executor.py:978,
\* 1139), and limit orders filled away from the market (paper_executor.py:641).
GainNeedsMove ==
    (trade.kind # "PE" /\ trade.how # "limit" /\ trade.gained) => trade.moved

=============================================================================
