---------------------------- MODULE BrokerOrders ----------------------------
(***************************************************************************)
(* BrokerManager.place_order and the circuit breakers: an order is tried   *)
(* on the active broker first and then on the others, several times each,  *)
(* and a breaker per broker keeps new orders away from one that keeps      *)
(* failing.  Any number of calls run at once and share the breakers; they  *)
(* interleave wherever they await a broker or sleep.                       *)
(*                                                                         *)
(* The health checks (module BrokerHealth) are seen from here as adapters  *)
(* that become ready and as an active broker that may be any of them.      *)
(* Time is one flag per breaker: has the recovery timeout passed since the *)
(* last failure?                                                           *)
(***************************************************************************)
EXTENDS Integers, Sequences, FiniteSets

CONSTANTS
  Brokers,      \* the configured brokers
  Priority,     \* the same in order: Zerodha, Fyers, Dhan
  Callers,      \* coroutines that place orders, one after another each
  AttemptsPerBroker,  \* order_retry_attempts
  Threshold,    \* failure_threshold of a breaker
  HalfOpenMax   \* half_open_max_calls of a breaker

ASSUME OrdersAssumption ==
  /\ Priority \in Seq(Brokers)
  /\ AttemptsPerBroker \in Nat \ {0}
  /\ Threshold \in Nat \ {0}
  /\ HalfOpenMax \in Nat \ {0}

VARIABLES
  ready,    \* brokers whose adapter is initialised
  breaker,  \* the circuit breakers
  call,     \* each caller: where its order is, on which broker, what is left to try
  streak    \* history: successes each breaker recorded since its last failure

orderVars == <<ready, breaker, call, streak>>

-----------------------------------------------------------------------------
(* The circuit breaker. *)

Closed == [state |-> "CLOSED", failures |-> 0, calls |-> 0, cooled |-> FALSE]

\* can_execute, and what it leaves behind when it says yes.
Admits(k) ==
  \/ k.state = "CLOSED"
  \/ k.state = "OPEN" /\ k.cooled
  \/ k.state = "HALF_OPEN" /\ k.calls < HalfOpenMax

\* Mutant: the calls of the last half-open time are not forgotten.
StillCounting(k) ==
  IF k.state = "OPEN" THEN [k EXCEPT !.state = "HALF_OPEN", !.cooled = FALSE] ELSE k

Admitted(k) ==
  IF k.state = "OPEN"
  THEN [state |-> "HALF_OPEN", failures |-> k.failures, calls |-> 0, cooled |-> FALSE]
  ELSE k

\* Mutant: a recovered breaker keeps its failures.
KeepsFailures(k) ==
  IF k.state = "HALF_OPEN"
  THEN IF k.calls + 1 >= HalfOpenMax THEN [k EXCEPT !.state = "CLOSED", !.calls = 0]
                                     ELSE [k EXCEPT !.calls = @ + 1]
  ELSE IF k.state = "CLOSED" /\ k.failures > 0 THEN [k EXCEPT !.failures = @ - 1]
                                               ELSE k

\* record_success.
AfterSuccess(k) ==
  IF k.state = "HALF_OPEN"
  THEN IF k.calls + 1 >= HalfOpenMax THEN Closed
                                     ELSE [k EXCEPT !.calls = @ + 1]
  ELSE IF k.state = "CLOSED" /\ k.failures > 0 THEN [k EXCEPT !.failures = @ - 1]
                                               ELSE k

\* record_failure.  The count is only ever compared with the threshold and goes
\* down only from below it: it is kept up to the threshold.
AfterFailure(k) ==
  IF k.failures + 1 >= Threshold
  THEN [state |-> "OPEN", failures |-> Threshold, calls |-> k.calls, cooled |-> FALSE]
  ELSE [k EXCEPT !.state = IF @ = "HALF_OPEN" THEN "OPEN" ELSE @, !.failures = @ + 1]

\* The recovery timeout of b passes.
Cool(b) ==
  /\ breaker[b].state = "OPEN"
  /\ ~breaker[b].cooled
  /\ breaker' = [breaker EXCEPT ![b].cooled = TRUE]
  /\ UNCHANGED <<ready, call, streak>>

-----------------------------------------------------------------------------
(* place_order. *)

\* Mutant: with nobody left to try, the call starts over with the first broker.
StartsOver(place) ==
  [at |-> IF place = "failed" THEN "sent" ELSE place,
   broker |-> Priority[1], rest |-> <<>>, attempt |-> 0]

CallAt(place) == [at |-> place, broker |-> Priority[1], rest |-> <<>>, attempt |-> 0]

\* _get_broker_priority_list: the active broker, then the others in order.
PriorityList(active) == <<active>> \o SelectSeq(Priority, LAMBDA b : b # active)

\* The part of the list that may be tried when the breakers are k.
Usable(list, k) == SelectSeq(list, LAMBDA b : b \in ready /\ Admits(k[b]))

\* What follows b in the list.
After(list, b) ==
  SubSeq(list, 1 + CHOOSE i \in DOMAIN list : list[i] = b, Len(list))

\* The order of c goes to the first usable broker of the list, or fails.
GoOn(c, list, k) ==
  LET usable == Usable(list, k)
      b == Head(usable)
  IN  IF usable = <<>>
      THEN /\ call' = [call EXCEPT ![c] = CallAt("failed")]
           /\ breaker' = k
      ELSE /\ call' = [call EXCEPT ![c] = [at |-> "sent", broker |-> b,
                                           rest |-> After(list, b), attempt |-> 1]]
           /\ breaker' = [k EXCEPT ![b] = Admitted(@)]

\* The caller may force one broker.
Begin(c) ==
  /\ call[c].at # "sent"
  /\ \E b \in Brokers : \E list \in {PriorityList(b), <<b>>} : GoOn(c, list, breaker)
  /\ UNCHANGED <<ready, streak>>

\* The broker accepts the order and its id is returned.
Accept(c) ==
  /\ call[c].at = "sent"
  /\ LET b == call[c].broker
     IN  /\ call' = [call EXCEPT ![c] = CallAt("done")]
         /\ breaker' = [breaker EXCEPT ![b] = AfterSuccess(@)]
         /\ streak' = [streak EXCEPT ![b] = IF @ < HalfOpenMax THEN @ + 1 ELSE @]
  /\ UNCHANGED ready

\* The same order on the same broker once more.
Retried(c) ==
  [at |-> "sent", broker |-> call[c].broker, rest |-> call[c].rest, attempt |-> call[c].attempt + 1]

LastAttempt(c) == call[c].attempt >= AttemptsPerBroker

\* It refuses, or the call raises: then the broker may have accepted the order
\* all the same, which nobody finds out and the next attempt repeats.  A retry,
\* after a sleep, asks neither the breaker nor the health record again.
Fail(c) ==
  /\ call[c].at = "sent"
  /\ LET b == call[c].broker
     IN  IF LastAttempt(c)
         THEN /\ GoOn(c, call[c].rest, [breaker EXCEPT ![b] = AfterFailure(@)])
              /\ streak' = [streak EXCEPT ![b] = 0]
         ELSE /\ call' = [call EXCEPT ![c] = Retried(c)]
              /\ UNCHANGED <<breaker, streak>>
  /\ UNCHANGED ready

\* An adapter is initialised, at the start or by a health check.
AdapterReady(b) ==
  /\ b \notin ready
  /\ ready' = ready \cup {b}
  /\ UNCHANGED <<breaker, call, streak>>

-----------------------------------------------------------------------------
OrdersInit ==
  /\ ready = {}
  /\ breaker = [b \in Brokers |-> Closed]
  /\ call = [c \in Callers |-> CallAt("idle")]
  /\ streak = [b \in Brokers |-> 0]

OrdersNext ==
  \/ \E c \in Callers : Begin(c) \/ Accept(c) \/ Fail(c)
  \/ \E b \in Brokers : Cool(b) \/ AdapterReady(b)

OrdersSpec == OrdersInit /\ [][OrdersNext]_orderVars

\* The brokers' libraries answer or time out, and sleeps end.
OrdersFairSpec == OrdersSpec /\ \A c \in Callers : WF_orderVars(Accept(c) \/ Fail(c))

-----------------------------------------------------------------------------
(* Properties. *)

Breaker ==
  [state : {"CLOSED", "OPEN", "HALF_OPEN"}, failures : Nat, calls : Nat, cooled : BOOLEAN]

\* A breaker never wedges: it is closed exactly while its failures are below
\* the threshold, and half open it still admits calls, whatever the calls that
\* were under way before it opened come back with.
BreakerSound ==
  \A b \in Brokers :
    /\ breaker[b].state = "CLOSED" <=> breaker[b].failures < Threshold
    /\ breaker[b].state = "HALF_OPEN" => breaker[b].calls < HalfOpenMax

\* What a half-open breaker counts has succeeded since its last failure.
CountedSuccesses ==
  \A b \in Brokers : breaker[b].state = "HALF_OPEN" => breaker[b].calls <= streak[b]

\* A breaker closes again only after as many successes as it asks for, with no
\* failure between them.
ClosesOnProof ==
  [][\A b \in Brokers :
       breaker[b].state # "CLOSED" /\ breaker'[b].state = "CLOSED" => streak'[b] >= HalfOpenMax]_orderVars

\* The part of the type that the properties above rest on.
BreakerTypes ==
  /\ breaker \in [Brokers -> Breaker]
  /\ streak \in [Brokers -> Nat]

OrdersInv == BreakerTypes /\ BreakerSound /\ CountedSuccesses

\* Every call returns.
CallReturns == \A c \in Callers : call[c].at = "sent" ~> call[c].at # "sent"

=============================================================================
