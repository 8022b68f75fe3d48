------------------------------ MODULE RiskSizing ------------------------------
(***************************************************************************)
(* How much the risk manager lets a trade risk (agents/risk_manager.py)    *)
(* and what the drawdown manager makes of the trades that ended            *)
(* (risk/drawdown_manager.py).                                             *)
(*                                                                         *)
(* Money is in whole units, a confidence in percent.  Which positions are  *)
(* listed, the correlation check and the events are in TradePipeline; here *)
(* a trade is what it may lose.                                            *)
(***************************************************************************)
EXTENDS Integers, Sequences, FiniteSets, SequencesExt, FiniteSetsExt

CONSTANTS
    Capital,            \* capital
    RiskPct,            \* max_trade_risk_pct
    MaxDailyLoss,       \* max_daily_loss
    MaxOpen,            \* max_open_positions
    VixHalt,            \* vix_halt_threshold
    Lot,                \* the lot size
    LossStreak,         \* CONSECUTIVE_LOSS_THRESHOLD (3)
    RecoveryWins,       \* LOSS_RECOVERY_TRADES (2)
    WinStreak,          \* CONSECUTIVE_WIN_THRESHOLD (5)
    MeanOver,           \* equity values kept for the mean (20)
    MeanFrom,           \* values from which the mean counts (5)
    Stops, Confidences, Kinds, Vixes, Outcomes, \* what proposals and trades may be
    MaxEnded            \* bound: trades that end

\* Amounts, lot and thresholds of the configuration are positive, and two of a
\* streak's lengths are constants of the class.
ASSUME SizingAssumption ==
    /\ Capital \in Nat \ {0} /\ RiskPct \in Nat /\ MaxDailyLoss \in Nat /\ Lot \in Nat \ {0}
    /\ LossStreak \in Nat \ {0} /\ RecoveryWins \in Nat
    /\ MaxOpen \in Nat /\ WinStreak \in Nat /\ MeanOver \in Nat \ {0} /\ MeanFrom \in Nat
    /\ Stops \subseteq Int /\ Confidences \subseteq 0 .. 100 /\ Vixes \subseteq Nat
    /\ Outcomes \subseteq Int

VARIABLES
    dailyPnl,   \* _daily_pnl
    vix,        \* _current_vix, 0 before the first one
    running,    \* trades approved and not ended: a sequence of [sl, qty]
    equity, peak, weekly,   \* _current_equity, _peak_equity, _weekly_pnl
    losses, wins,           \* _consecutive_losses, _consecutive_wins
    reduced,    \* _loss_reduction_remaining
    history,    \* _equity_history
    tradeLog,   \* _trade_log: the result of every trade that ended
    pausedDays  \* history: changes of day since trading is paused, up to 2

moneyVars == <<equity, peak, weekly, losses, wins, reduced, history, tradeLog>>
sizingVars == <<dailyPnl, vix, running, equity, peak, weekly, losses, wins,
                reduced, history, tradeLog, pausedDays>>

Floor(a, b) == IF a < 0 THEN 0 ELSE a \div b

(***************************************************************************)
(* The drawdown manager                                                    *)
(***************************************************************************)

\* size_multiplier in 32nds: never above the whole and never below a quarter.
Multiplier ==
    LET Halved(n, b) == IF b THEN n \div 2 ELSE n
        mean == FoldSeq(LAMBDA e, sum : e + sum, 0, history)
        below == Len(history) >= MeanFrom /\ equity * Len(history) < mean
        halves == Halved(Halved(Halved(32, reduced > 0), 10 * weekly <= -Capital), below)
    IN  Max({8, IF wins >= WinStreak THEN (halves * 3) \div 4 ELSE halves})

Paused == peak > 0 /\ 100 * (peak - equity) > 15 * peak

\* What is left of the reduction after a win.
Ends == 0                                               \* mutant: one win ends it
OneLess == IF reduced > 0 THEN reduced - 1 ELSE 0

RecordTrade(pnl) ==
    /\ equity' = equity + pnl
    /\ weekly' = weekly + pnl
    /\ peak' = Max({peak, equity + pnl})
    /\ history' = LET h == Append(history, equity + pnl)
                  IN  IF Len(h) > MeanOver THEN Tail(h) ELSE h
    /\ tradeLog' = Append(tradeLog, pnl)
    /\ IF pnl < 0
       THEN /\ losses' = losses + 1
            /\ wins' = 0
            /\ reduced' = IF losses + 1 >= LossStreak THEN RecoveryWins ELSE reduced
       ELSE /\ wins' = wins + 1
            /\ losses' = 0
            /\ reduced' = OneLess

(***************************************************************************)
(* The risk manager                                                        *)
(***************************************************************************)

Regime == IF vix > 28 THEN "EXTREME" ELSE IF vix > 22 THEN "HIGH"
          ELSE IF vix > 18 THEN "ELEVATED" ELSE "NORMAL"

\* 13 / max(13, vix), not below a quarter.
MaxLots(sl) ==
    LET stop == IF sl <= 0 THEN 20 ELSE sl
        budget == Min({2 * ((Capital * RiskPct) \div 100), MaxDailyLoss + dailyPnl})
    IN  Floor(13 * budget, 2 * Min({52, Max({13, vix})}) * stop * Lot)

Uncapped(sl, conf) == Max({1, (3 * conf) \div 100})     \* mutant: the budget is not looked at
Lots(sl, conf) == IF MaxLots(sl) = 0 THEN 0
                  ELSE Min({MaxLots(sl), Max({1, (3 * conf) \div 100})})

\* The reductions come after the lots: a whole number of lots remains.
Quantity(sl, conf) ==
    LET sized == (Lots(sl, conf) * Lot * Multiplier) \div 32
        adjusted == IF Regime = "ELEVATED" THEN (3 * sized) \div 4 ELSE sized
    IN  Lot * (adjusted \div Lot)

Approved(kind, sl, conf) ==
    /\ dailyPnl > -MaxDailyLoss
    /\ Len(running) < MaxOpen
    /\ vix < VixHalt
    /\ Regime # "EXTREME"
    /\ Regime = "HIGH" => kind = "SCALP"
    /\ ~Paused
    /\ Quantity(sl, conf) > 0
    /\ 100 * sl * Quantity(sl, conf) <= Capital * RiskPct

SizingInit ==
    /\ dailyPnl = 0 /\ vix = 0 /\ running = <<>>
    /\ equity = Capital /\ peak = Capital /\ weekly = 0
    /\ losses = 0 /\ wins = 0 /\ reduced = 0
    /\ history = <<Capital>> /\ tradeLog = <<>> /\ pausedDays = 0

\* An approved proposal is entered; a vetoed one changes nothing.
Proposal(kind, sl, conf) ==
    /\ Approved(kind, sl, conf)
    /\ running' = Append(running, [sl |-> sl, qty |-> Quantity(sl, conf)])
    /\ UNCHANGED <<dailyPnl, vix, moneyVars, pausedDays>>

\* A trade ends: `gain` is its result in stops.
Ended(i, gain) ==
    /\ Len(tradeLog) < MaxEnded
    /\ LET pnl == gain * running[i].sl * running[i].qty
       IN  RecordTrade(pnl) /\ dailyPnl' = dailyPnl + pnl
    /\ running' = RemoveAt(running, i)
    /\ pausedDays' = IF Paused' THEN pausedDays ELSE 0
    /\ UNCHANGED vix

Breadth(v) == vix' = v /\ UNCHANGED <<dailyPnl, running, moneyVars, pausedDays>>

NewDay == /\ dailyPnl' = 0
          /\ pausedDays' = IF Paused THEN Min({2, pausedDays + 1}) ELSE 0
          /\ UNCHANGED <<vix, running, moneyVars>>

SizingNext ==
    \/ \E kind \in Kinds, sl \in Stops, conf \in Confidences : Proposal(kind, sl, conf)
    \/ \E i \in DOMAIN running, gain \in Outcomes : Ended(i, gain)
    \/ \E v \in Vixes : Breadth(v)
    \/ NewDay

(***************************************************************************)
(* Properties                                                              *)
(***************************************************************************)

\* What a new trade may lose is within the share of the capital and within half
\* of what may still be lost today, after every rounding, minimum and reduction
\* (risk_manager.py:366-397 with 140-170).
RiskFitsBudget ==
    [][Len(running') > Len(running) =>
         LET risk == Last(running').sl * Last(running').qty
         IN  /\ 100 * risk <= Capital * RiskPct
             /\ 2 * risk <= MaxDailyLoss + dailyPnl]_sizingVars

\* Of the two trades after three losses in a row none is more than half the
\* size (design 4.3: "Reduce size by 50% for next 2 trades"), whatever these two
\* end with.  The code goes on until two trades have won, however many lose in
\* between (drawdown_manager.py:75-89): the rule is the least it does.
Streak(i) == i >= LossStreak /\ \A j \in i - LossStreak + 1 .. i : tradeLog[j] < 0
StreakHalves ==
    \A i \in DOMAIN tradeLog :
        Streak(i) /\ Len(tradeLog) - i < RecoveryWins => Multiplier <= 16

\* The drawdown breaker pauses trading for one day (design 6.1): when a second
\* day has begun since, trading is not paused any more (drawdown_manager.py:91-96).
PauseOneDay == pausedDays <= 1
=============================================================================
