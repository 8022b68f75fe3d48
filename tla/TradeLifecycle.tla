--------------------------- MODULE TradeLifecycle ---------------------------
(***************************************************************************)
(* What the trading pipeline promises about each trade, whoever decides,   *)
(* fills or sells it: a trade is proposed once, approved or vetoed once,   *)
(* opened with the whole quantity only if approved, then reduced any       *)
(* number of times and closed once, and it never comes back.               *)
(***************************************************************************)
EXTENDS Integers

CONSTANTS Trades, Qty

VARIABLES
  stage,  \* where each trade is in its life
  held    \* the units of it that are held

vars == <<stage, held>>

Move(t, from, to) ==
  /\ stage[t] = from
  /\ stage' = [stage EXCEPT ![t] = to]

Propose(t) == Move(t, "idle", "proposed") /\ UNCHANGED held

Approve(t) == Move(t, "proposed", "approved") /\ UNCHANGED held

Veto(t) == Move(t, "proposed", "vetoed") /\ UNCHANGED held

Open(t) ==
  /\ Move(t, "approved", "open")
  /\ held' = [held EXCEPT ![t] = Qty]

\* A part is sold: more than nothing, less than what is left.
Reduce(t) ==
  /\ \E from \in {"open", "reduced"} : Move(t, from, "reduced")
  /\ \E rest \in 1 .. held[t] - 1 : held' = [held EXCEPT ![t] = rest]

Close(t) ==
  /\ \E from \in {"open", "reduced"} : Move(t, from, "closed")
  /\ held' = [held EXCEPT ![t] = 0]

Init ==
  /\ stage = [t \in Trades |-> "idle"]
  /\ held = [t \in Trades |-> 0]

Next ==
  \E t \in Trades :
    Propose(t) \/ Approve(t) \/ Veto(t) \/ Open(t) \/ Reduce(t) \/ Close(t)

Spec == Init /\ [][Next]_vars

=============================================================================
