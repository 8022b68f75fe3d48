------------------------------- MODULE Strikes -------------------------------
(***************************************************************************)
(* The choice of an option (agents/strike_selector.py), shared by the      *)
(* consensus and by the decision agents.                                   *)
(*                                                                         *)
(* An option is a record: type ("CE" or "PE"), delta in percent, oi in     *)
(* thousands, bid and ask in tenths of a rupee, ltp in rupees, monthly,    *)
(* days to expiry.  Snapshots of the option chain carry no kind of expiry, *)
(* which the code then takes for a weekly one with 0 days left.  No caller *)
(* passes the volatility of the money, so that filter is left out.         *)
(***************************************************************************)
EXTENDS Integers, Sequences, FiniteSets

CONSTANTS Capital, LotSize     \* rupees, and units per lot of each underlying

TradeTypes == {"SCALP", "INTRADAY", "BTST"}

\* STRATEGY_CONFIG; an INTRADAY range depends on the confidence (in percent).
DeltaRange(type, conf) ==
    CASE type = "SCALP" -> 42 .. 58
      [] type = "INTRADAY" /\ conf > 80 -> 42 .. 58
      [] type = "INTRADAY" /\ conf <= 80 -> 28 .. 48
      [] type = "BTST" -> 48 .. 68
MinOi == [SCALP |-> 50, INTRADAY |-> 100, BTST |-> 50]
MaxSpread == [SCALP |-> 30, INTRADAY |-> 50, BTST |-> 50]
MinPremium == [SCALP |-> 10, INTRADAY |-> 10, BTST |-> 15]

OptionType(dir) == IF dir = 1 THEN "CE" ELSE "PE"
Abs(n) == IF n < 0 THEN -n ELSE n
Spread(o) == IF o.ask > 0 /\ o.bid > 0 THEN o.ask - o.bid ELSE 9990

Eligible(o, type, dir, conf, underlying) ==
    /\ o.type = OptionType(dir)
    /\ Abs(o.delta) \in DeltaRange(type, conf)
    /\ o.oi >= MinOi[type]
    /\ Spread(o) <= MaxSpread[type]
    /\ o.ltp >= MinPremium[type]
    /\ 100 * o.ltp * LotSize[underlying] <= 15 * Capital
    /\ type = "BTST" /\ ~o.monthly => o.days >= 2

\* Thirty thousandths of the code's score.
Score(o, type) ==
    12000 - 240 * Abs(Abs(o.delta) - 50)
        + 18 * (IF o.oi < 500 THEN o.oi ELSE 500)
        + 6000 - (6000 * Spread(o)) \div MaxSpread[type]
        + (IF type = "BTST" /\ o.monthly THEN 600 ELSE 0)

NoOption == [type |-> "none"]

\* The first of the options with the best score, or NoOption.
Select(options, type, dir, conf, underlying) ==
    LET valid == {i \in DOMAIN options : Eligible(options[i], type, dir, conf, underlying)}
        Better(i, j) == \/ Score(options[i], type) > Score(options[j], type)
                        \/ Score(options[i], type) = Score(options[j], type) /\ i <= j
    IN  IF valid = {} THEN NoOption
        ELSE options[CHOOSE i \in valid : \A j \in valid : Better(i, j)]
=============================================================================
