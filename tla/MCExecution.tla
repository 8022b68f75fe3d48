----------------------------- MODULE MCExecution -----------------------------
(***************************************************************************)
(* Beside the live executor, for TLC: the orders of the broker manager     *)
(* with two brokers, its health checks with three, and the trailing stop   *)
(* of a paper position: entry at 40 with 8 at risk, targets 52 and 60 or   *)
(* 28 and 20, prices on, between and beyond every threshold.  They share   *)
(* no variable: a behaviour runs one of them, its part, and the others     *)
(* stay as they started.                                                   *)
(***************************************************************************)
EXTENDS BrokerOrders, BrokerHealth, TrailingStop

CONSTANTS zerodha, fyers, dhan

VARIABLE part

execution == <<part, orderVars, healthVars, stopVars>>

\* The order of the brokers as each side of the manager is given it.
PrimaryFirst == <<zerodha, fyers>>
AllThree == <<zerodha, fyers, dhan>>

AllPrices == {9, 15, 20, 24, 28, 31, 32, 36, 40, 44, 48, 49, 52, 56, 60, 70}

-----------------------------------------------------------------------------
\* The stop has one start where it does not run.
ExecutionInit ==
  /\ part \in {"orders", "health", "stop"}
  /\ OrdersInit /\ HealthInit /\ StopInit
  /\ part # "stop" => trade = [direction |-> "BULLISH", strategy |-> "SCALP", atr |-> 0]

OrdersRun == part = "orders" /\ OrdersNext /\ UNCHANGED <<part, healthVars, stopVars>>
HealthRuns == part = "health" /\ HealthNext /\ UNCHANGED <<part, orderVars, stopVars>>
StopRuns == part = "stop" /\ StopNext /\ UNCHANGED <<part, orderVars, healthVars>>

\* Each part with its own fairness: a broker answers or times out, the health
\* checks go on, and ticks keep coming.
ExecutionSpec ==
  /\ ExecutionInit
  /\ [][OrdersRun \/ HealthRuns \/ StopRuns]_execution
  /\ \A c \in Callers : WF_execution(OrdersRun /\ (Accept(c) \/ Fail(c)))
  /\ WF_execution(HealthRuns /\ HealthStep)
  /\ WF_execution(StopRuns /\ TimeOver /\ \E p \in Prices : Tick(p))

=============================================================================
