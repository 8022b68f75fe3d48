---------------------------- MODULE BrokerHealth ----------------------------
(***************************************************************************)
(* The broker manager's view of its brokers: initialisation, the health    *)
(* checks every thirty seconds, and which broker is the active one.  The   *)
(* orders (module BrokerOrders) are seen from here through what they leave *)
(* in the health records: a count of failures in a row.  Checks await the  *)
(* brokers one by one, and orders and manual switches come in between.     *)
(***************************************************************************)
EXTENDS Integers, Sequences

CONSTANTS
  Configured,   \* the configured brokers
  Ranking,      \* the same in order, each once: Zerodha, Fyers, Dhan
  MaxFails,     \* bound, at least 3: failures in a row are counted up to it
  MaxSwitches   \* bound on the manual switches

ASSUME HealthAssumption ==
  /\ Ranking \in Seq(Configured) /\ Ranking # <<>>
  /\ \A b \in Configured : \E i \in DOMAIN Ranking : Ranking[i] = b
  /\ MaxFails \in Nat /\ MaxSwitches \in Nat

VARIABLES
  phase,     \* "new", then "running", "off" without any broker, "stopped" by shutdown
  adapters,  \* brokers whose adapter is initialised
  status,    \* BrokerHealth.status
  fails,     \* BrokerHealth.consecutive_failures
  active,    \* _active_broker
  checking,  \* brokers the current round of health checks has still to visit
  chosen,    \* history: was the active broker chosen by hand since the last round?
  switches   \* manual switches so far

healthVars == <<phase, adapters, status, fails, active, checking, chosen, switches>>

Statuses == {"NOT_CONFIGURED", "HEALTHY", "DEGRADED", "UNHEALTHY"}

\* Is b available when the statuses are s?
Available(s, b) == s[b] \in {"HEALTHY", "DEGRADED"}

\* _select_best_broker chooses the first of these in order of priority, and keeps
\* the active one if there is none.
Candidates(r, s) == {b \in r : Available(s, b)}

First(c) == CHOOSE i \in DOMAIN Ranking :
              Ranking[i] \in c /\ \A j \in 1 .. i - 1 : Ranking[j] \notin c

Best(r, s) == IF Candidates(r, s) = {} THEN active ELSE Ranking[First(Candidates(r, s))]

\* One more failure of b.
Failed(b) == [fails EXCEPT ![b] = IF @ < MaxFails THEN @ + 1 ELSE @]

-----------------------------------------------------------------------------
\* initialize; without any broker the loop is not started.  A manual switch
\* while it awaits the brokers is overwritten at its end.
Initialize ==
  /\ phase = "new"
  /\ \E up \in SUBSET Configured :
       /\ adapters' = up
       /\ status' = [b \in Configured |-> IF b \in up THEN "HEALTHY" ELSE "UNHEALTHY"]
       /\ active' = Best(up, status')
       /\ phase' = IF up = {} THEN "off" ELSE "running"
  /\ UNCHANGED <<fails, checking, chosen, switches>>

StartRound ==
  /\ phase = "running"
  /\ checking = <<>>
  /\ checking' = Ranking
  /\ UNCHANGED <<phase, adapters, status, fails, active, chosen, switches>>

\* Mutants: the active broker is looked at before the last broker is checked;
\* nobody is replaced.
StaleActive(r, s) == IF Available(status, active) THEN active ELSE Best(r, s)
StaysActive(r, s) == active

\* An active broker that is no longer available is replaced.
NextActive(r, s) == IF Available(s, active) THEN active ELSE Best(r, s)

\* The first broker of the round has been seen; the last one ends the round.
Checked(r, s) ==
  /\ adapters' = r
  /\ status' = s
  /\ checking' = Tail(checking)
  /\ IF Tail(checking) = <<>>
     THEN active' = NextActive(r, s) /\ chosen' = FALSE
     ELSE UNCHANGED <<active, chosen>>
  /\ UNCHANGED <<phase, switches>>

\* The status of a broker that answers its check.
AnswerStatus(b) == IF b \in adapters /\ fails[b] > 0 THEN "DEGRADED" ELSE "HEALTHY"

\* A check that is answered takes one failure back.
Eased(b) == [fails EXCEPT ![b] = IF @ > 0 THEN @ - 1 ELSE 0]

\* The first broker answers, or its adapter is initialised after all.
CheckPasses ==
  /\ phase = "running" /\ checking # <<>>
  /\ LET b == Head(checking)
     IN  /\ Checked(adapters \cup {b}, [status EXCEPT ![b] = AnswerStatus(b)])
         /\ fails' = IF b \in adapters THEN Eased(b) ELSE fails

\* It does not.  Only the third failure in a row makes it unhealthy.
CheckFails ==
  /\ phase = "running" /\ checking # <<>>
  /\ LET b == Head(checking)
     IN  IF b \in adapters
         THEN /\ fails' = Failed(b)
              /\ Checked(adapters, [status EXCEPT ![b] = IF fails'[b] >= 3 THEN "UNHEALTHY" ELSE @])
         ELSE /\ Checked(adapters, [status EXCEPT ![b] = "UNHEALTHY"])
              /\ UNCHANGED fails

HealthStep == StartRound \/ CheckPasses \/ CheckFails

\* An attempt to place an order on b succeeds, or fails.
OrderAnswered(b) ==
  /\ b \in adapters
  /\ \/ fails' = [fails EXCEPT ![b] = 0]
     \/ fails' = Failed(b)
  /\ UNCHANGED <<phase, adapters, status, active, checking, chosen, switches>>

\* force_broker_switch asks for an initialised adapter, not for its health.
ForceSwitch(b) ==
  /\ switches < MaxSwitches
  /\ b \in adapters
  /\ active' = b
  /\ chosen' = TRUE
  /\ switches' = switches + 1
  /\ UNCHANGED <<phase, adapters, status, fails, checking>>

\* shutdown cancels the loop wherever it is.
Shutdown ==
  /\ phase = "running"
  /\ phase' = "stopped"
  /\ checking' = <<>>
  /\ UNCHANGED <<adapters, status, fails, active, chosen, switches>>

-----------------------------------------------------------------------------
HealthInit ==
  /\ phase = "new"
  /\ adapters = {}
  /\ status = [b \in Configured |-> "NOT_CONFIGURED"]
  /\ fails = [b \in Configured |-> 0]
  /\ active = Ranking[1]
  /\ checking = <<>>
  /\ chosen = FALSE
  /\ switches = 0

HealthNext ==
  \/ Initialize \/ HealthStep \/ Shutdown
  \/ \E b \in Configured : OrderAnswered(b) \/ ForceSwitch(b)

HealthSpec == HealthInit /\ [][HealthNext]_healthVars

\* The loop goes on: the checks are answered or time out.
HealthFairSpec == HealthSpec /\ WF_healthVars(HealthStep)

-----------------------------------------------------------------------------
(* Properties. *)

\* The type of the state.
HealthTypeOK ==
  /\ phase \in {"new", "running", "off", "stopped"}
  /\ adapters \subseteq Configured
  /\ status \in [Configured -> Statuses]
  /\ fails \in [Configured -> 0 .. MaxFails]
  /\ active \in Configured
  /\ checking \in Seq(Configured)
  /\ chosen \in BOOLEAN
  /\ switches \in 0 .. MaxSwitches

\* Between two rounds the active broker is adapters and available if any broker
\* is, unless it was chosen by hand since.
ActiveAvailable ==
  phase = "running" /\ checking = <<>> /\ ~chosen /\ Candidates(adapters, status) # {}
    => active \in adapters /\ Available(status, active)

\* While the loop runs, an active broker that is not available is replaced or
\* recovers, unless no broker is available then.
ActiveRecovers ==
  (phase = "running" /\ ~Available(status, active))
    ~> (phase # "running" \/ Available(status, active) \/ Candidates(adapters, status) = {})

=============================================================================
