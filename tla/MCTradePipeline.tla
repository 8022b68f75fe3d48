-------------------------- MODULE MCTradePipeline ---------------------------
(***************************************************************************)
(* Small instances of TradePipeline for TLC.                               *)
(***************************************************************************)
EXTENDS TradePipeline, TLC

CONSTANTS t1, t2

Trade(u, d, k, o) == [underlying |-> u, direction |-> d, type |-> k, option |-> o]

\* Two intraday trades of opposite sides, so that both may be held.
OppositeBook ==
  (t1 :> Trade("NIFTY", "LONG", "INTRADAY", TRUE)) @@
  (t2 :> Trade("BANKNIFTY", "SHORT", "INTRADAY", FALSE))

\* One option trade, for the runs that follow a single trade through more faults.
OneIntraday == t1 :> Trade("NIFTY", "LONG", "INTRADAY", TRUE)

Losing == {-1}

=============================================================================
