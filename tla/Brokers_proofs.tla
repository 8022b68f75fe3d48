---------------------------- MODULE Brokers_proofs ---------------------------
(***************************************************************************)
(* Proofs about the two sides of the broker manager: its orders and        *)
(* breakers, for any brokers, callers, attempts and breaker settings, and  *)
(* its choice of the active broker, for any brokers in any order of        *)
(* priority, whatever the health checks and the orders meet.               *)
(***************************************************************************)
EXTENDS BrokerOrders, BrokerHealth, WellFoundedInduction, TLAPS

(* What BreakerSound says of one breaker. *)
Sound(k) ==
  /\ k \in Breaker
  /\ k.state = "CLOSED" <=> k.failures < Threshold
  /\ k.state = "HALF_OPEN" => k.calls < HalfOpenMax

LEMMA NewBreakerSound == Sound(Closed)
BY OrdersAssumption DEF Sound, Closed, Breaker

LEMMA AdmittedSound ==
  ASSUME NEW k, Sound(k)
  PROVE  /\ Sound(Admitted(k))
         /\ Admitted(k).state = "CLOSED" <=> k.state = "CLOSED"
         /\ Admitted(k).state = "HALF_OPEN" => Admitted(k) = k \/ Admitted(k).calls = 0
<1>1. CASE k.state = "OPEN"
  <2>1. Admitted(k) = [state |-> "HALF_OPEN", failures |-> k.failures, calls |-> 0, cooled |-> FALSE]
    BY <1>1 DEF Admitted
  <2> QED BY <1>1, <2>1, OrdersAssumption DEF Sound, Breaker
<1>2. CASE k.state # "OPEN"
  <2>1. Admitted(k) = k
    BY <1>2 DEF Admitted
  <2> QED BY <2>1
<1> QED BY <1>1, <1>2

LEMMA SuccessSound ==
  ASSUME NEW k, Sound(k)
  PROVE  /\ Sound(AfterSuccess(k))
         /\ AfterSuccess(k).state = "HALF_OPEN" =>
              k.state = "HALF_OPEN" /\ AfterSuccess(k).calls = k.calls + 1
         /\ k.state # "CLOSED" /\ AfterSuccess(k).state = "CLOSED" =>
              k.state = "HALF_OPEN" /\ k.calls + 1 >= HalfOpenMax
<1>1. CASE k.state = "HALF_OPEN" /\ k.calls + 1 >= HalfOpenMax
  <2>1. AfterSuccess(k) = Closed
    BY <1>1 DEF AfterSuccess
  <2> QED BY <1>1, <2>1, NewBreakerSound DEF Closed
<1>2. CASE k.state = "HALF_OPEN" /\ ~(k.calls + 1 >= HalfOpenMax)
  <2>1. AfterSuccess(k) = [k EXCEPT !.calls = @ + 1]
    BY <1>2 DEF AfterSuccess
  <2> QED BY <1>2, <2>1, OrdersAssumption DEF Sound, Breaker
<1>3. CASE k.state = "CLOSED" /\ k.failures > 0
  <2>1. AfterSuccess(k) = [k EXCEPT !.failures = @ - 1]
    BY <1>3 DEF AfterSuccess
  <2> QED BY <1>3, <2>1, OrdersAssumption DEF Sound, Breaker
<1>4. CASE k.state # "HALF_OPEN" /\ ~(k.state = "CLOSED" /\ k.failures > 0)
  <2>1. AfterSuccess(k) = k
    BY <1>4 DEF AfterSuccess
  <2> QED BY <1>4, <2>1 DEF Sound
<1> QED BY <1>1, <1>2, <1>3, <1>4

LEMMA FailureSound ==
  ASSUME NEW k, Sound(k)
  PROVE  /\ Sound(AfterFailure(k))
         /\ AfterFailure(k).state # "HALF_OPEN"
         /\ AfterFailure(k).state = "OPEN" => ~AfterFailure(k).cooled
         /\ k.state # "CLOSED" => AfterFailure(k).state # "CLOSED"
<1>1. CASE k.failures + 1 >= Threshold
  <2>1. AfterFailure(k) = [state |-> "OPEN", failures |-> Threshold, calls |-> k.calls, cooled |-> FALSE]
    BY <1>1 DEF AfterFailure
  <2> QED BY <1>1, <2>1, OrdersAssumption DEF Sound, Breaker
<1>2. CASE ~(k.failures + 1 >= Threshold)
  <2>1. k.state = "CLOSED"
    BY <1>2, OrdersAssumption DEF Sound, Breaker
  <2>2. AfterFailure(k) = [k EXCEPT !.failures = @ + 1]
    BY <1>2, <2>1 DEF AfterFailure, Sound, Breaker
  <2> QED BY <1>2, <2>1, <2>2, OrdersAssumption DEF Sound, Breaker
<1> QED BY <1>1, <1>2

(* Going on with a list, when the breakers are k, closes no breaker.          *)
LEMMA GoesOn ==
  ASSUME NEW c \in Callers, NEW list, NEW k \in [Brokers -> Breaker],
         \A b \in Brokers : Sound(k[b]), GoOn(c, list, k)
  PROVE  /\ breaker' \in [Brokers -> Breaker]
         /\ \A b \in Brokers :
              /\ Sound(breaker'[b])
              /\ breaker'[b].state = "CLOSED" <=> k[b].state = "CLOSED"
              /\ breaker'[b].state = "HALF_OPEN" => breaker'[b] = k[b] \/ breaker'[b].calls = 0
<1> DEFINE usable == Usable(list, k)
           h == Head(usable)
<1>1. CASE usable = <<>>
  <2>1. breaker' = k
    BY <1>1 DEF GoOn
  <2> QED BY <2>1
<1>2. CASE usable # <<>>
  <2>2. breaker' = [k EXCEPT ![h] = Admitted(@)]
    BY <1>2 DEF GoOn
  <2>3. \A b \in Brokers : breaker'[b] = k[b] \/ breaker'[b] = Admitted(k[b])
    BY <2>2
  <2>4. \A b \in Brokers :
          /\ Sound(breaker'[b])
          /\ breaker'[b].state = "CLOSED" <=> k[b].state = "CLOSED"
          /\ breaker'[b].state = "HALF_OPEN" => breaker'[b] = k[b] \/ breaker'[b].calls = 0
    BY <2>3, AdmittedSound
  <2>5. breaker' \in [Brokers -> Breaker]
    BY <2>2, <2>4 DEF Sound
  <2> QED BY <2>4, <2>5
<1> QED BY <1>1, <1>2

LEMMA AllSound ==
  ASSUME OrdersInv
  PROVE  \A b \in Brokers : Sound(breaker[b])
BY DEF OrdersInv, BreakerTypes, BreakerSound, Sound

-----------------------------------------------------------------------------
(* The inductive invariant, action by action.  What a step owes is that every *)
(* breaker stays sound and counts only successes of its streak.               *)

LEMMA InitHolds == OrdersInit => OrdersInv
<1> SUFFICES ASSUME OrdersInit PROVE OrdersInv
  OBVIOUS
<1>1. /\ Closed \in Breaker
      /\ Closed.state = "CLOSED"
      /\ Closed.failures < Threshold
  BY NewBreakerSound DEF Sound, Closed
<1>3. BreakerTypes
  BY <1>1 DEF OrdersInit, BreakerTypes
<1>4. BreakerSound
  BY <1>1 DEF OrdersInit, BreakerSound
<1>5. CountedSuccesses
  BY <1>1 DEF OrdersInit, CountedSuccesses
<1> QED BY <1>3, <1>4, <1>5 DEF OrdersInv

LEMMA BeginKeeps ==
  ASSUME OrdersInv, NEW c \in Callers, Begin(c)
  PROVE  OrdersInv' /\ (\A b \in Brokers : breaker'[b].state = "CLOSED" <=> breaker[b].state = "CLOSED")
<1>1. PICK list : GoOn(c, list, breaker)
  BY DEF Begin
<1>2. /\ breaker \in [Brokers -> Breaker]
      /\ streak \in [Brokers -> Nat]
  BY DEF OrdersInv, BreakerTypes
<1>3. /\ breaker' \in [Brokers -> Breaker]
      /\ \A b \in Brokers :
           /\ Sound(breaker'[b])
           /\ breaker'[b].state = "CLOSED" <=> breaker[b].state = "CLOSED"
           /\ breaker'[b].state = "HALF_OPEN" =>
                breaker'[b] = breaker[b] \/ breaker'[b].calls = 0
  BY <1>1, <1>2, AllSound, GoesOn
<1>4. streak' = streak
  BY DEF Begin
<1>5. BreakerTypes'
  BY <1>2, <1>3, <1>4 DEF BreakerTypes
<1>6. BreakerSound'
  BY <1>3 DEF BreakerSound, Sound
<1>7. CountedSuccesses'
  BY <1>2, <1>3, <1>4 DEF OrdersInv, CountedSuccesses
<1> QED BY <1>3, <1>5, <1>6, <1>7 DEF OrdersInv

LEMMA AcceptKeeps ==
  ASSUME OrdersInv, NEW c \in Callers, Accept(c)
  PROVE  /\ OrdersInv'
         /\ \A b \in Brokers : breaker[b].state # "CLOSED" /\ breaker'[b].state = "CLOSED"
                                 => streak'[b] >= HalfOpenMax
<1> DEFINE a == call[c].broker
<1>1. /\ breaker \in [Brokers -> Breaker]
      /\ streak \in [Brokers -> Nat]
      /\ HalfOpenMax \in Nat \ {0}
  BY OrdersAssumption DEF OrdersInv, BreakerTypes
<1>2. /\ breaker' = [breaker EXCEPT ![a] = AfterSuccess(@)]
      /\ streak' = [streak EXCEPT ![a] = IF @ < HalfOpenMax THEN @ + 1 ELSE @]
  BY DEF Accept
<1>3. \A b \in Brokers : Sound(breaker[b]) /\ Sound(AfterSuccess(breaker[b]))
  BY AllSound, SuccessSound
<1>4. \A b \in Brokers : breaker'[b] = IF b = a THEN AfterSuccess(breaker[b]) ELSE breaker[b]
  BY <1>1, <1>2
<1>5. \A b \in Brokers :
        streak'[b] = IF b = a /\ streak[b] < HalfOpenMax THEN streak[b] + 1 ELSE streak[b]
  BY <1>1, <1>2
<1>6. streak' \in [Brokers -> Nat]
  <2>1. \A b \in Brokers : streak'[b] \in Nat
    BY <1>1, <1>5
  <2> QED BY <2>1, <1>1, <1>2
<1>7. breaker' \in [Brokers -> Breaker]
  BY <1>1, <1>2, <1>3 DEF Sound
<1>8. BreakerTypes'
  BY <1>1, <1>2, <1>6, <1>7 DEF BreakerTypes
<1>9. BreakerSound'
  BY <1>3, <1>4 DEF BreakerSound, Sound
<1>10. CountedSuccesses'
  <2> SUFFICES ASSUME NEW b \in Brokers, breaker'[b].state = "HALF_OPEN"
               PROVE  breaker'[b].calls <= streak'[b]
    BY DEF CountedSuccesses
  <2>1. CASE b = a
    <3>1. /\ breaker[b].state = "HALF_OPEN"
          /\ breaker'[b].calls = breaker[b].calls + 1
      BY <2>1, <1>3, <1>4, SuccessSound
    <3>2. /\ breaker[b].calls \in Nat
          /\ breaker[b].calls < HalfOpenMax
          /\ breaker'[b].calls < HalfOpenMax
      BY <3>1, <1>1, <1>9 DEF OrdersInv, BreakerSound, Breaker
    <3>3. breaker[b].calls <= streak[b]
      BY <3>1 DEF OrdersInv, CountedSuccesses
    <3> QED BY <3>1, <3>2, <3>3, <2>1, <1>1, <1>5
  <2>2. CASE b # a
    BY <2>2, <1>4, <1>5 DEF OrdersInv, CountedSuccesses
  <2> QED BY <2>1, <2>2
<1>12. ASSUME NEW b \in Brokers, breaker[b].state # "CLOSED", breaker'[b].state = "CLOSED"
       PROVE  streak'[b] >= HalfOpenMax
  <2>1. b = a /\ AfterSuccess(breaker[b]).state = "CLOSED"
    BY <1>4, <1>12
  <2>2. breaker[b].state = "HALF_OPEN" /\ breaker[b].calls + 1 >= HalfOpenMax
    BY <2>1, <1>3, <1>12, SuccessSound
  <2>3. breaker[b].calls <= streak[b] /\ breaker[b].calls \in Nat
    BY <2>2, <1>1 DEF OrdersInv, CountedSuccesses, Breaker
  <2> QED BY <2>1, <2>2, <2>3, <1>1, <1>5
<1> QED BY <1>8, <1>9, <1>10, <1>12 DEF OrdersInv

LEMMA FailKeeps ==
  ASSUME OrdersInv, NEW c \in Callers, Fail(c)
  PROVE  /\ OrdersInv'
         /\ \A b \in Brokers : breaker[b].state # "CLOSED" => breaker'[b].state # "CLOSED"
<1> DEFINE a == call[c].broker
           k == [breaker EXCEPT ![a] = AfterFailure(@)]
<1>1. /\ breaker \in [Brokers -> Breaker]
      /\ streak \in [Brokers -> Nat]
  BY DEF OrdersInv, BreakerTypes
<1>4. CASE LastAttempt(c)
  <2>1. /\ GoOn(c, call[c].rest, k)
        /\ streak' = [streak EXCEPT ![a] = 0]
    BY <1>4 DEF Fail
  <2>2. \A b \in Brokers : k[b] = IF b = a THEN AfterFailure(breaker[b]) ELSE breaker[b]
    BY <1>1
  <2>3. \A b \in Brokers : Sound(k[b])
    BY <2>2, AllSound, FailureSound
  <2>4. k \in [Brokers -> Breaker]
    BY <1>1, <2>2, <2>3 DEF Sound
  <2> HIDE DEF k
  <2>5. /\ breaker' \in [Brokers -> Breaker]
        /\ \A b \in Brokers :
             /\ Sound(breaker'[b])
             /\ breaker'[b].state = "CLOSED" <=> k[b].state = "CLOSED"
             /\ breaker'[b].state = "HALF_OPEN" => breaker'[b] = k[b] \/ breaker'[b].calls = 0
    BY <1>1, <2>1, <2>3, <2>4, GoesOn
  <2>6. streak' \in [Brokers -> Nat]
    BY <1>1, <2>1
  <2>7. BreakerTypes'
    BY <1>1, <2>5, <2>6 DEF BreakerTypes
  <2>8. BreakerSound'
    BY <2>5 DEF BreakerSound, Sound
  <2>9. CountedSuccesses'
    <3> SUFFICES ASSUME NEW b \in Brokers, breaker'[b].state = "HALF_OPEN"
                 PROVE  breaker'[b].calls <= streak'[b]
      BY DEF CountedSuccesses
    <3>1. CASE breaker'[b].calls = 0
      BY <3>1, <2>6
    <3>2. CASE breaker'[b] = k[b]
      <4>1. b # a
        BY <3>2, <2>2, AllSound, FailureSound
      <4>2. breaker'[b] = breaker[b] /\ streak'[b] = streak[b]
        BY <4>1, <3>2, <2>1, <2>2, <1>1
      <4> QED BY <4>2 DEF OrdersInv, CountedSuccesses
    <3> QED BY <3>1, <3>2, <2>5
  <2>11. \A b \in Brokers : breaker[b].state # "CLOSED" => k[b].state # "CLOSED"
    BY <2>2, AllSound, FailureSound
  <2> QED BY <2>5, <2>7, <2>8, <2>9, <2>11 DEF OrdersInv
<1>5. CASE ~LastAttempt(c)
  <2>1. breaker' = breaker /\ streak' = streak
    BY <1>5 DEF Fail
  <2> QED BY <1>1, <2>1 DEF OrdersInv, BreakerTypes, BreakerSound, CountedSuccesses
<1> QED BY <1>4, <1>5

LEMMA CoolKeeps ==
  ASSUME OrdersInv, NEW a \in Brokers, Cool(a)
  PROVE  OrdersInv' /\ (\A b \in Brokers : breaker'[b].state = breaker[b].state)
<1>1. breaker \in [Brokers -> Breaker]
  BY DEF OrdersInv, BreakerTypes
<1>2. /\ breaker' = [breaker EXCEPT ![a] = [breaker[a] EXCEPT !.cooled = TRUE]]
      /\ UNCHANGED streak
  BY DEF Cool
<1>3. \A b \in Brokers :
        /\ breaker'[b] \in Breaker
        /\ breaker'[b].state = breaker[b].state
        /\ breaker'[b].failures = breaker[b].failures
        /\ breaker'[b].calls = breaker[b].calls
  <2> SUFFICES ASSUME NEW b \in Brokers
               PROVE  /\ breaker'[b] \in Breaker
                      /\ breaker'[b].state = breaker[b].state
                      /\ breaker'[b].failures = breaker[b].failures
                      /\ breaker'[b].calls = breaker[b].calls
    OBVIOUS
  <2> DEFINE r == breaker[a]
  <2>1. r \in Breaker
    BY <1>1
  <2>2. b = a => breaker'[b] = [r EXCEPT !.cooled = TRUE]
    BY <1>1, <1>2
  <2>3. b # a => breaker'[b] = breaker[b]
    BY <1>1, <1>2
  <2> HIDE DEF r
  <2>4. /\ [r EXCEPT !.cooled = TRUE] \in Breaker
        /\ [r EXCEPT !.cooled = TRUE].state = r.state
        /\ [r EXCEPT !.cooled = TRUE].failures = r.failures
        /\ [r EXCEPT !.cooled = TRUE].calls = r.calls
    BY <2>1, Zenon DEF Breaker
  <2> QED BY <1>1, <2>2, <2>3, <2>4 DEF r
<1>4. breaker' \in [Brokers -> Breaker]
  BY <1>1, <1>2, <1>3
<1> QED BY <1>2, <1>3, <1>4 DEF OrdersInv, BreakerTypes, BreakerSound, CountedSuccesses

-----------------------------------------------------------------------------
(* The theorems. *)

LEMMA StepKeeps ==
  ASSUME OrdersInv, [OrdersNext]_orderVars
  PROVE  /\ OrdersInv'
         /\ \A b \in Brokers : breaker[b].state # "CLOSED" /\ breaker'[b].state = "CLOSED"
                                 => streak'[b] >= HalfOpenMax
<1>1. ASSUME NEW c \in Callers, Begin(c) \/ Accept(c) \/ Fail(c)
      PROVE  /\ OrdersInv'
             /\ \A b \in Brokers : breaker[b].state # "CLOSED" /\ breaker'[b].state = "CLOSED"
                                     => streak'[b] >= HalfOpenMax
  BY <1>1, BeginKeeps, AcceptKeeps, FailKeeps
<1>2. ASSUME NEW a \in Brokers, Cool(a)
      PROVE  /\ OrdersInv'
             /\ \A b \in Brokers : breaker'[b].state = breaker[b].state
  BY <1>2, CoolKeeps
<1>3. CASE (\E a \in Brokers : AdapterReady(a)) \/ UNCHANGED orderVars
  <2>1. UNCHANGED <<breaker, streak>>
    BY <1>3 DEF AdapterReady, orderVars
  <2> QED BY <2>1 DEF OrdersInv, BreakerTypes, BreakerSound, CountedSuccesses
<1> QED BY <1>1, <1>2, <1>3 DEF OrdersNext

\* The records of the breakers and of the orders are consistent in every
\* interleaving of the calls (broker_manager.py, CircuitBreaker and place_order).
THEOREM OrdersInvariant == OrdersSpec => []OrdersInv
<1>1. OrdersInit => OrdersInv
  BY InitHolds
<1>2. OrdersInv /\ [OrdersNext]_orderVars => OrdersInv'
  BY StepKeeps
<1> QED BY <1>1, <1>2, PTL DEF OrdersSpec

\* A breaker is closed exactly while its failures are below the threshold and,
\* half open, still admits calls: no interleaving wedges it (record_success,
\* record_failure, can_execute).
THEOREM BreakersNeverWedge == OrdersSpec => []BreakerSound
<1>1. OrdersInv => BreakerSound
  BY DEF OrdersInv
<1> QED BY <1>1, OrdersInvariant, PTL

\* A breaker closes only after half_open_max_calls successes in a row
\* (record_success), although calls sent before it opened report to it too.
THEOREM ProvedBeforeClosing == OrdersSpec => ClosesOnProof
<1>1. OrdersInv /\ [OrdersNext]_orderVars =>
        [\A b \in Brokers :
           breaker[b].state # "CLOSED" /\ breaker'[b].state = "CLOSED"
             => streak'[b] >= HalfOpenMax]_orderVars
  BY StepKeeps
<1> QED BY <1>1, OrdersInvariant, PTL DEF OrdersSpec, ClosesOnProof

-----------------------------------------------------------------------------
(* The active broker. *)

\* Why the choice lasts: only initialised adapters are ever available, so a
\* broker that is available needs no replacement.
HealthInv ==
  /\ HealthTypeOK
  /\ \A b \in Configured : Available(status, b) => b \in adapters
  /\ adapters # {} => phase # "new"
  /\ phase = "new" => checking = <<>>
  /\ ActiveAvailable

LEMMA LeastNumber ==
  ASSUME NEW T \in SUBSET Nat, T # {}
  PROVE  \E m \in T : \A k \in T : m <= k
<1>1. \E m \in T : \A k \in T : ~(<<k, m>> \in OpToRel(<, Nat))
  BY NatLessThanWellFounded, WFMin
<1>2. PICK m \in T : \A k \in T : ~(<<k, m>> \in OpToRel(<, Nat))
  BY <1>1
<1>3. ASSUME NEW k \in T PROVE m <= k
  <2>1. k \in Nat /\ m \in Nat
    OBVIOUS
  <2>2. ~(<<k, m>> \in OpToRel(<, Nat))
    BY <1>2
  <2>3. <<k, m>> \in Nat \X Nat => ~(k < m)
    BY <2>2 DEF OpToRel
  <2>4. ~(k < m)
    BY <2>1, <2>3
  <2> QED BY <2>1, <2>4
<1> QED BY <1>3

(* The broker that is chosen is one of the candidates. *)
LEMMA FirstIsCandidate ==
  ASSUME NEW c \in SUBSET Configured, c # {}
  PROVE  Ranking[First(c)] \in c
<1> DEFINE T == {i \in DOMAIN Ranking : Ranking[i] \in c}
<1>1. T \in SUBSET Nat /\ T # {}
  BY HealthAssumption
<1>2. PICK m \in T : \A k \in T : m <= k
  BY <1>1, LeastNumber
<1>3. m \in DOMAIN Ranking /\ m \in Nat /\ Ranking[m] \in c
  BY <1>1, <1>2
<1>4. ASSUME NEW j \in 1 .. m - 1 PROVE Ranking[j] \notin c
  <2>1. j \in DOMAIN Ranking
    BY <1>3, <1>4, HealthAssumption
  <2>2. j < m /\ j \in Nat
    BY <1>3, <1>4
  <2>3. j \notin T
    BY <1>2, <1>3, <2>2
  <2> QED BY <2>1, <2>3
<1>5. \E i \in DOMAIN Ranking : Ranking[i] \in c /\ \A j \in 1 .. i - 1 : Ranking[j] \notin c
  BY <1>3, <1>4
<1> QED BY <1>5 DEF First

LEMMA BestIsAvailable ==
  ASSUME HealthTypeOK, NEW r \in SUBSET Configured, NEW s
  PROVE  /\ Best(r, s) \in Configured
         /\ Candidates(r, s) # {} => Best(r, s) \in r /\ Available(s, Best(r, s))
<1>1. CASE Candidates(r, s) = {}
  BY <1>1 DEF Best, HealthTypeOK
<1>2. CASE Candidates(r, s) # {}
  <2>1. Candidates(r, s) \in SUBSET Configured
    BY DEF Candidates
  <2>2. Ranking[First(Candidates(r, s))] \in Candidates(r, s)
    BY <1>2, <2>1, FirstIsCandidate
  <2>3. Best(r, s) \in Candidates(r, s)
    BY <1>2, <2>2 DEF Best
  <2> QED BY <2>1, <2>3 DEF Candidates
<1> QED BY <1>1, <1>2

LEMMA InitHealth == HealthInit => HealthInv
<1> SUFFICES ASSUME HealthInit PROVE HealthInv
  OBVIOUS
<1>1. Ranking[1] \in Configured
  BY HealthAssumption
<1>2. HealthTypeOK
  <2>1. active \in Configured /\ checking \in Seq(Configured)
    BY <1>1 DEF HealthInit
  <2>2. fails \in [Configured -> 0 .. MaxFails] /\ switches \in 0 .. MaxSwitches
    BY HealthAssumption DEF HealthInit
  <2>3. status \in [Configured -> Statuses]
    BY DEF HealthInit, Statuses
  <2> QED BY <2>1, <2>2, <2>3 DEF HealthInit, HealthTypeOK
<1> QED BY <1>2 DEF HealthInit, HealthInv, Available, ActiveAvailable

(* What a check that has been answered leaves: r adapters and s the statuses. *)
LEMMA CheckedKeeps ==
  ASSUME HealthInv, phase = "running", checking # <<>>,
         NEW r \in SUBSET Configured, NEW s \in [Configured -> Statuses],
         \A b \in Configured : Available(s, b) => b \in r,
         fails' \in [Configured -> 0 .. MaxFails], Checked(r, s)
  PROVE  HealthInv'
<1>1. /\ adapters' = r /\ status' = s /\ checking' = Tail(checking)
      /\ phase' = "running" /\ switches' = switches
  BY DEF Checked
<1>2. checking' \in Seq(Configured)
  BY <1>1 DEF HealthInv, HealthTypeOK
<1>3. CASE checking' = <<>>
  <2>1. active' = NextActive(r, s) /\ chosen' = FALSE
    BY <1>1, <1>3 DEF Checked
  <2>2. active' \in Configured /\ (Candidates(r, s) # {} => active' \in r /\ Available(s, active'))
    BY <2>1, BestIsAvailable DEF HealthInv, HealthTypeOK, NextActive
  <2>3. HealthTypeOK'
    BY <1>1, <1>2, <2>1, <2>2 DEF HealthInv, HealthTypeOK
  <2>4. ActiveAvailable'
    BY <1>1, <2>2 DEF ActiveAvailable, Candidates, Available
  <2> QED BY <1>1, <2>3, <2>4 DEF HealthInv, Available
<1>4. CASE checking' # <<>>
  <2>1. active' = active /\ chosen' = chosen
    BY <1>1, <1>4 DEF Checked
  <2>2. HealthTypeOK'
    BY <1>1, <1>2, <2>1 DEF HealthInv, HealthTypeOK
  <2> QED BY <1>1, <1>4, <2>2 DEF HealthInv, ActiveAvailable, Available
<1> QED BY <1>3, <1>4

LEMMA FailedType ==
  ASSUME HealthTypeOK, NEW b \in Configured
  PROVE  Failed(b) \in [Configured -> 0 .. MaxFails] /\ Eased(b) \in [Configured -> 0 .. MaxFails]
BY HealthAssumption DEF HealthTypeOK, Failed, Eased

LEMMA CheckPassesKeeps ==
  ASSUME HealthInv, CheckPasses
  PROVE  HealthInv'
<1> DEFINE b == Head(checking)
           r == adapters \cup {b}
           s == [status EXCEPT ![b] = AnswerStatus(b)]
<1>1. b \in Configured
  BY DEF CheckPasses, HealthInv, HealthTypeOK
<1>2. AnswerStatus(b) \in Statuses
  BY DEF AnswerStatus, Statuses
<1>3. r \in SUBSET Configured /\ s \in [Configured -> Statuses]
  BY <1>1, <1>2 DEF HealthInv, HealthTypeOK
<1>4. \A d \in Configured : Available(s, d) => d \in r
  BY <1>1 DEF HealthInv, HealthTypeOK, Available
<1>5. fails' \in [Configured -> 0 .. MaxFails]
  BY <1>1, FailedType DEF CheckPasses, HealthInv, HealthTypeOK
<1>6. phase = "running" /\ checking # <<>> /\ Checked(r, s)
  BY DEF CheckPasses
<1> HIDE DEF r, s
<1> QED BY <1>3, <1>4, <1>5, <1>6, CheckedKeeps

LEMMA CheckFailsKeeps ==
  ASSUME HealthInv, CheckFails
  PROVE  HealthInv'
<1> DEFINE b == Head(checking)
<1>1. b \in Configured /\ phase = "running" /\ checking # <<>>
  BY DEF CheckFails, HealthInv, HealthTypeOK
<1>2. CASE b \in adapters
  <2> DEFINE s == [status EXCEPT ![b] = IF fails'[b] >= 3 THEN "UNHEALTHY" ELSE @]
  <2>1. fails' = Failed(b) /\ Checked(adapters, s)
    BY <1>2 DEF CheckFails
  <2>2. s \in [Configured -> Statuses] /\ adapters \in SUBSET Configured
    BY <1>1 DEF HealthInv, HealthTypeOK, Statuses
  <2>3. \A d \in Configured : Available(s, d) => d \in adapters
    BY <1>1, <1>2 DEF HealthInv, HealthTypeOK, Available
  <2>4. fails' \in [Configured -> 0 .. MaxFails]
    BY <1>1, <2>1, FailedType DEF HealthInv
  <2> HIDE DEF s
  <2> QED BY <1>1, <2>1, <2>2, <2>3, <2>4, CheckedKeeps
<1>3. CASE b \notin adapters
  <2> DEFINE s == [status EXCEPT ![b] = "UNHEALTHY"]
  <2>1. fails' = fails /\ Checked(adapters, s)
    BY <1>3 DEF CheckFails
  <2>2. s \in [Configured -> Statuses] /\ adapters \in SUBSET Configured
    BY <1>1 DEF HealthInv, HealthTypeOK, Statuses
  <2>3. \A d \in Configured : Available(s, d) => d \in adapters
    BY <1>1 DEF HealthInv, HealthTypeOK, Available
  <2>4. fails' \in [Configured -> 0 .. MaxFails]
    BY <2>1 DEF HealthInv, HealthTypeOK
  <2> HIDE DEF s
  <2> QED BY <1>1, <2>1, <2>2, <2>3, <2>4, CheckedKeeps
<1> QED BY <1>2, <1>3

LEMMA InitializeKeeps ==
  ASSUME HealthInv, Initialize
  PROVE  HealthInv'
<1>1. PICK up \in SUBSET Configured :
        /\ adapters' = up
        /\ status' = [b \in Configured |-> IF b \in up THEN "HEALTHY" ELSE "UNHEALTHY"]
        /\ active' = Best(up, status')
        /\ phase' = IF up = {} THEN "off" ELSE "running"
  BY DEF Initialize
<1>2. UNCHANGED <<fails, checking, chosen, switches>>
  BY DEF Initialize
<1>3. /\ active' \in Configured
      /\ Candidates(up, status') # {} => active' \in up /\ Available(status', active')
  BY <1>1, BestIsAvailable DEF HealthInv
<1>4. HealthTypeOK'
  BY <1>1, <1>2, <1>3 DEF HealthInv, HealthTypeOK, Statuses
<1>5. \A b \in Configured : Available(status, b)' => b \in adapters'
  BY <1>1 DEF Available
<1>6. ActiveAvailable'
  BY <1>1, <1>3 DEF ActiveAvailable, Candidates, Available
<1> QED BY <1>1, <1>4, <1>5, <1>6 DEF HealthInv

LEMMA NextKeepsHealth ==
  ASSUME HealthInv, [HealthNext]_healthVars
  PROVE  HealthInv'
<1>1. CASE StartRound
  <2>1. HealthTypeOK'
    BY <1>1, HealthAssumption DEF StartRound, HealthInv, HealthTypeOK
  <2> QED BY <1>1, <2>1, HealthAssumption DEF StartRound, HealthInv, ActiveAvailable, Available
<1>2. ASSUME NEW b \in Configured, OrderAnswered(b) PROVE HealthInv'
  <2>1. fails' \in [Configured -> 0 .. MaxFails]
    <3>1. Failed(b) \in [Configured -> 0 .. MaxFails]
      BY FailedType DEF HealthInv
    <3>2. [fails EXCEPT ![b] = 0] \in [Configured -> 0 .. MaxFails]
      BY HealthAssumption DEF HealthInv, HealthTypeOK
    <3> QED BY <1>2, <3>1, <3>2 DEF OrderAnswered
  <2>2. UNCHANGED <<phase, adapters, status, active, checking, chosen, switches>>
    BY <1>2 DEF OrderAnswered
  <2>3. HealthTypeOK'
    BY <2>1, <2>2 DEF HealthInv, HealthTypeOK
  <2> QED BY <2>2, <2>3 DEF HealthInv, ActiveAvailable, Available, Candidates
<1>3. ASSUME NEW b \in Configured, ForceSwitch(b) PROVE HealthInv'
  <2>1. HealthTypeOK'
    BY <1>3, HealthAssumption DEF ForceSwitch, HealthInv, HealthTypeOK
  <2> QED BY <1>3, <2>1 DEF ForceSwitch, HealthInv, ActiveAvailable, Available
<1>4. CASE Shutdown
  <2>1. HealthTypeOK'
    BY <1>4 DEF Shutdown, HealthInv, HealthTypeOK
  <2> QED BY <1>4, <2>1 DEF Shutdown, HealthInv, ActiveAvailable, Available
<1>5. CASE UNCHANGED healthVars
  BY <1>5 DEF healthVars, HealthInv, HealthTypeOK, ActiveAvailable, Available, Candidates
<1> QED BY <1>1, <1>2, <1>3, <1>4, <1>5, InitializeKeeps, CheckPassesKeeps, CheckFailsKeeps
        DEF HealthNext, HealthStep

\* The inductive invariant.
THEOREM HealthInvariant == HealthSpec => []HealthInv
<1>1. HealthInit => HealthInv
  BY InitHealth
<1>2. HealthInv /\ [HealthNext]_healthVars => HealthInv'
  BY NextKeepsHealth
<1> QED BY <1>1, <1>2, PTL DEF HealthSpec

\* Between two rounds of checks the active broker is adapters and available if any
\* broker is, unless it was chosen by hand, for any brokers and priorities.
THEOREM ActiveAlwaysAvailable == HealthSpec => []ActiveAvailable
<1>1. HealthInv => ActiveAvailable
  BY DEF HealthInv
<1> QED BY <1>1, HealthInvariant, PTL

=============================================================================
