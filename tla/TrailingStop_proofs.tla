------------------------ MODULE TrailingStop_proofs -------------------------
(***************************************************************************)
(* Proofs about the trailing stop of an option position, for any entry,    *)
(* risk, quantity, average true range and prices.  The stop compares       *)
(* directions with BULLISH and BEARISH, hence the assumption on them.      *)
(***************************************************************************)
EXTENDS TrailingStop, TLAPS

\* What the comment on TradePosition.direction says ("BULLISH or BEARISH").
OptionDirections == Directions \subseteq {"BULLISH", "BEARISH"}

(* The shares of the two targets: neither is more than what the other leaves. *)
LEMMA SharesLeaveRunner ==
  /\ Share(1) \in Nat /\ Share(2) \in Nat
  /\ Share(1) + Share(2) < Quantity
BY TrailingAssumption DEF Share

(* The trailing stop follows the price one way only. *)
LEMMA FollowTightens ==
  ASSUME StopTypeOK, OptionDirections,
         NEW base \in Int, NEW p \in Prices, NEW d \in Int
  PROVE  /\ Follow(base, p, d) \in Int
         /\ Tighter(base, Follow(base, p, d))
<1>1. p \in Int
  BY TrailingAssumption
<1>2. trade.direction \in {"BULLISH", "BEARISH"}
  BY DEF StopTypeOK, OptionDirections
<1> QED BY <1>1, <1>2 DEF Follow, Tighter, IsLong

LEMMA TrailDistanceType ==
  ASSUME StopTypeOK, NEW p \in Prices
  PROVE  TrailDistance(p) \in Int
<1>1. trade.atr \in Nat
  BY TrailingAssumption DEF StopTypeOK
<1>2. (3 * trade.atr) \div 4 \in Int
  BY <1>1
<1> QED BY <1>1, <1>2 DEF TrailDistance

(* The last element of a sequence to which one is appended. *)
LEMMA LastAppended ==
  ASSUME NEW S, NEW s \in Seq(S), NEW r \in S
  PROVE  /\ s \o <<r>> \in Seq(S)
         /\ s \o <<r>> # <<>>
         /\ (s \o <<r>>)[Len(s \o <<r>>)] = r
<1>1. Len(s \o <<r>>) = Len(s) + 1
  OBVIOUS
<1> QED BY <1>1

LEMMA SaleType ==
  ASSUME NEW w \in {"target", "stop", "illiquid", "time", "order"},
         NEW n \in 0 .. Quantity, NEW p \in Prices
  PROVE  /\ Sale(w, n, p) \in Seq(SaleRecord)
         /\ n > 0 => Sale(w, n, p) = <<[why |-> w, quantity |-> n, price |-> p]>>
         /\ n > 0 => [why |-> w, quantity |-> n, price |-> p] \in SaleRecord
<1>1. p \in Nat /\ Quantity \in Nat
  BY TrailingAssumption
<1>2. CASE n > 0
  <2>1. [why |-> w, quantity |-> n, price |-> p] \in SaleRecord
    BY <1>1, <1>2 DEF SaleRecord
  <2> QED BY <2>1, <1>2 DEF Sale
<1>3. CASE ~(n > 0)
  BY <1>3 DEF Sale
<1> QED BY <1>2, <1>3

LEMMA InitIInv == StopInit => StopIInv
<1> SUFFICES ASSUME StopInit PROVE StopIInv
  OBVIOUS
<1>1. sl \in Int /\ Quantity \in Nat \ {0}
  BY TrailingAssumption DEF StopInit, InitialStop
<1>a. remaining \in 0 .. Quantity /\ inHand \in 0 .. Quantity
  BY <1>1 DEF StopInit
<1>b. sales \in Seq(SaleRecord)
  BY DEF StopInit
<1>2. StopTypeOK
  BY <1>1, <1>a, <1>b DEF StopInit, StopTypeOK
<1>3. StopInv
  BY <1>1 DEF StopInit, StopInv, SoldShare, BreakevenAfterT1
<1> QED BY <1>2, <1>3 DEF StopIInv

(* Closing the rest of a position: the last sale is the closing one. *)
LEMMA CloseAllInv ==
  ASSUME StopTypeOK, NEW p \in Prices, NEW w \in {"stop", "illiquid", "time", "order"},
         NEW before \in Seq(SaleRecord), NEW n \in 1 .. Quantity,
         CloseAll(p, w, before, n)
  PROVE  /\ open' = FALSE /\ inHand' = 0 /\ remaining' = 0
         /\ sales' \in Seq(SaleRecord)
         /\ sales' # <<>> /\ sales'[Len(sales')].why # "target"
<1> DEFINE r == [why |-> w, quantity |-> n, price |-> p]
<1> DEFINE s == sales \o before
<1>0. n \in 0 .. Quantity /\ n > 0
  BY TrailingAssumption
<1>1. r \in SaleRecord /\ Sale(w, n, p) = <<r>>
  BY <1>0, SaleType
<1>2. s \in Seq(SaleRecord)
  BY DEF StopTypeOK
<1>3. sales' = s \o <<r>>
  BY <1>1 DEF CloseAll
<1>4. r.why = w
  OBVIOUS
<1> HIDE DEF s, r
<1>5. sales' \in Seq(SaleRecord) /\ sales' # <<>> /\ sales'[Len(sales')] = r
  BY <1>1, <1>2, <1>3, LastAppended
<1> QED BY <1>4, <1>5 DEF CloseAll

-----------------------------------------------------------------------------
(* The steps. *)

LEMMA ClosedType ==
  ASSUME StopTypeOK, open' = FALSE, inHand' = 0, remaining' = 0, sales' \in Seq(SaleRecord),
         trade' = trade, sl' \in Int, hits' \in SUBSET {1, 2}, overdue' = overdue, eod' = eod
  PROVE  StopTypeOK'
<1>1. 0 \in 0 .. Quantity
  BY TrailingAssumption
<1>2. inHand' \in 0 .. Quantity /\ remaining' \in 0 .. Quantity
  BY <1>1
<1>3. open' \in BOOLEAN /\ hits' \subseteq {1, 2}
  OBVIOUS
<1> QED BY <1>2, <1>3 DEF StopTypeOK

LEMMA StoppedKeeps ==
  ASSUME StopIInv, NEW p \in Prices, TickStopped(p)
  PROVE  StopIInv'
<1>1. inHand \in 1 .. Quantity
  BY SharesLeaveRunner, TrailingAssumption
     DEF StopIInv, StopTypeOK, StopInv, SoldShare, TickStopped
<1> DEFINE w == IF StopHit(p) THEN "stop" ELSE "illiquid"
<1>2. w \in {"stop", "illiquid", "time", "order"} /\ <<>> \in Seq(SaleRecord)
  OBVIOUS
<1>3. CloseAll(p, w, <<>>, inHand)
  BY DEF TickStopped
<1> HIDE DEF w
<1>4. /\ open' = FALSE /\ inHand' = 0 /\ remaining' = 0 /\ sales' \in Seq(SaleRecord)
      /\ sales' # <<>> /\ sales'[Len(sales')].why # "target"
  BY <1>1, <1>2, <1>3, CloseAllInv DEF StopIInv
<1>5. trade' = trade /\ sl' = sl /\ hits' = hits /\ overdue' = overdue /\ eod' = eod
  BY DEF TickStopped
<1>6. StopTypeOK'
  <2>1. sl' \in Int /\ hits' \in SUBSET {1, 2}
    BY <1>5 DEF StopIInv, StopTypeOK
  <2> QED BY <1>4, <1>5, <2>1, ClosedType DEF StopIInv
<1>7. StopInv'
  BY <1>4, <1>5 DEF StopIInv, StopInv, BreakevenAfterT1, Tighter, InitialStop, IsLong
<1> QED BY <1>6, <1>7 DEF StopIInv

LEMMA OrderKeeps ==
  ASSUME StopIInv, NEW p \in Prices, ExitOrder(p)
  PROVE  StopIInv'
<1>1. inHand \in 1 .. Quantity
  BY SharesLeaveRunner, TrailingAssumption
     DEF StopIInv, StopTypeOK, StopInv, SoldShare, ExitOrder
<1>2. "order" \in {"stop", "illiquid", "time", "order"} /\ <<>> \in Seq(SaleRecord)
  OBVIOUS
<1>3. CloseAll(p, "order", <<>>, inHand)
  BY DEF ExitOrder
<1>4. /\ open' = FALSE /\ inHand' = 0 /\ remaining' = 0 /\ sales' \in Seq(SaleRecord)
      /\ sales' # <<>> /\ sales'[Len(sales')].why # "target"
  BY <1>1, <1>2, <1>3, CloseAllInv DEF StopIInv
<1>5. trade' = trade /\ sl' = sl /\ hits' = hits /\ overdue' = overdue /\ eod' = eod
  BY DEF ExitOrder
<1>6. StopTypeOK'
  <2>1. sl' \in Int /\ hits' \in SUBSET {1, 2}
    BY <1>5 DEF StopIInv, StopTypeOK
  <2> QED BY <1>4, <1>5, <2>1, ClosedType DEF StopIInv
<1>7. StopInv'
  BY <1>4, <1>5 DEF StopIInv, StopInv, BreakevenAfterT1, Tighter, InitialStop, IsLong
<1> QED BY <1>6, <1>7 DEF StopIInv

LEMMA TimeKeeps ==
  ASSUME StopIInv, TimePasses
  PROVE  StopIInv'
BY DEF TimePasses, StopIInv, StopTypeOK, StopInv, SoldShare, BreakevenAfterT1, Tighter,
       InitialStop, IsLong

(* What one tick sells at a target, and what that leaves. *)
LEMMA SoldAtTarget ==
  ASSUME NEW k \in {1, 2}, NEW p \in Prices, NEW r \in Nat, r >= Share(k)
  PROVE  /\ SoldAt(k, p, r) \in {0, Share(k)}
         /\ SoldAt(k, p, r) > 0 => k \notin hits
BY SharesLeaveRunner DEF SoldAt, Lesser

LEMMA ThroughKeeps ==
  ASSUME StopIInv, OptionDirections, NEW p \in Prices, TickThrough(p)
  PROVE  StopIInv' /\ Tighter(sl, sl')
<1> DEFINE n1 == SoldAt(1, p, remaining)
           n2 == SoldAt(2, p, remaining - n1)
           left == remaining - n1 - n2
           sold == Sale("target", n1, p) \o Sale("target", n2, p)
           base == IF n1 > 0 THEN Entry ELSE sl
           on == RiskPerUnit > 0 /\ 1 \in hits' /\ left > 0
<1> USE DEF StopIInv
<1>a. p \in Nat /\ Entry \in Nat /\ Risk \in Nat /\ Quantity \in Nat
  BY TrailingAssumption
<1>b. remaining = Quantity - SoldShare(1) - SoldShare(2) /\ inHand = remaining /\ open
  BY DEF TickThrough, StopInv
<1>1. /\ n1 \in {0, Share(1)} /\ (n1 > 0 => 1 \notin hits)
      /\ n2 \in {0, Share(2)} /\ (n2 > 0 => 2 \notin hits)
  <2>1. remaining \in Nat
    BY DEF StopTypeOK
  <2>2. CASE 1 \in hits
    <3>1. n1 = 0
      BY <2>2 DEF SoldAt
    <3>2. CASE 2 \in hits
      BY <3>1, <3>2 DEF SoldAt
    <3>3. CASE 2 \notin hits
      <4>1. remaining - n1 \in Nat /\ remaining - n1 >= Share(2)
        BY <1>a, <1>b, <2>1, <2>2, <3>1, <3>3, SharesLeaveRunner DEF SoldShare
      <4>2. n2 \in {0, Share(2)} /\ (n2 > 0 => 2 \notin hits)
        BY <4>1, SoldAtTarget
      <4> QED BY <3>1, <4>2
    <3> QED BY <3>2, <3>3
  <2>3. CASE 1 \notin hits
    <3>1. remaining >= Share(1)
      BY <1>a, <1>b, <2>3, SharesLeaveRunner DEF SoldShare
    <3>2. n1 \in {0, Share(1)} /\ (n1 > 0 => 1 \notin hits)
      BY <2>1, <3>1, SoldAtTarget
    <3>3. CASE 2 \in hits
      BY <3>2, <3>3 DEF SoldAt
    <3>4. CASE 2 \notin hits
      <4>1. remaining - n1 \in Nat /\ remaining - n1 >= Share(2)
        BY <1>a, <1>b, <2>1, <2>3, <3>2, <3>4, SharesLeaveRunner DEF SoldShare
      <4>2. n2 \in {0, Share(2)} /\ (n2 > 0 => 2 \notin hits)
        BY <4>1, SoldAtTarget
      <4> QED BY <3>2, <4>2
    <3> QED BY <3>3, <3>4
  <2> QED BY <2>2, <2>3
<1> HIDE DEF n1, n2
<1>2. /\ hits' = hits \cup {k \in {1, 2} : (k = 1 /\ n1 > 0) \/ (k = 2 /\ n2 > 0)}
      /\ sl' = IF on THEN Follow(base, p, TrailDistance(p)) ELSE base
      /\ IF TimeOver \/ inHand - n1 - n2 <= 0
         THEN CloseAll(p, "time", sold, inHand - n1 - n2)
         ELSE /\ remaining' = left /\ inHand' = inHand - n1 - n2
              /\ sales' = sales \o sold /\ open' = open
      /\ trade' = trade /\ overdue' = overdue /\ eod' = eod
  BY DEF TickThrough, n1, n2
<1>3. n1 \in 0 .. Quantity /\ n2 \in 0 .. Quantity
  BY <1>1, <1>a, SharesLeaveRunner
<1>4. left \in 1 .. Quantity /\ inHand - n1 - n2 = left
  <2>1. /\ n1 + SoldShare(1) \in {0, Share(1)}
        /\ n2 + SoldShare(2) \in {0, Share(2)}
    BY <1>1, SharesLeaveRunner DEF SoldShare
  <2>2. SoldShare(1) \in Nat /\ SoldShare(2) \in Nat
    BY SharesLeaveRunner DEF SoldShare
  <2>3. n1 + SoldShare(1) \in 0 .. Share(1) /\ n2 + SoldShare(2) \in 0 .. Share(2)
    BY <2>1, SharesLeaveRunner
  <2>4. left = Quantity - (n1 + SoldShare(1)) - (n2 + SoldShare(2))
    BY <1>a, <1>b, <1>3, <2>2
  <2>5. left \in Int /\ left > 0 /\ left <= Quantity
    BY <1>a, <1>3, <2>2, <2>3, <2>4, SharesLeaveRunner
  <2>6. inHand - n1 - n2 = left
    BY <1>b
  <2> HIDE DEF left
  <2> QED BY <1>a, <2>5, <2>6
<1>5. sold \in Seq(SaleRecord)
  <2>1. Sale("target", n1, p) \in Seq(SaleRecord) /\ Sale("target", n2, p) \in Seq(SaleRecord)
    BY <1>3, SaleType
  <2> QED BY <2>1
<1>6. base \in Int /\ Tighter(sl, base)
  BY <1>1, <1>a DEF StopTypeOK, StopInv, InitialStop, Tighter, IsLong
<1>7. sl' \in Int /\ Tighter(base, sl')
  <2>1. TrailDistance(p) \in Int
    BY TrailDistanceType
  <2>2. Follow(base, p, TrailDistance(p)) \in Int /\ Tighter(base, Follow(base, p, TrailDistance(p)))
    BY <1>6, <2>1, FollowTightens
  <2>3. Tighter(base, base)
    BY <1>6 DEF Tighter
  <2> HIDE DEF base, on
  <2> QED BY <1>2, <1>6, <2>2, <2>3
<1>8. Tighter(sl, sl')
  BY <1>6, <1>7 DEF Tighter, StopTypeOK
<1>9. hits' \subseteq {1, 2} /\ (1 \in hits' <=> 1 \in hits \/ n1 > 0) /\ (2 \in hits' <=> 2 \in hits \/ n2 > 0)
  <2> HIDE DEF sold, left, base, on
  <2>1. \A k \in {1, 2} : k \in hits' <=> k \in hits \/ (k = 1 /\ n1 > 0) \/ (k = 2 /\ n2 > 0)
    BY <1>2
  <2>2. hits \subseteq {1, 2}
    BY DEF StopTypeOK
  <2>3. hits' = hits \cup {k \in {1, 2} : (k = 1 /\ n1 > 0) \/ (k = 2 /\ n2 > 0)}
    BY <1>2
  <2>4. hits' \subseteq {1, 2}
    BY <2>2, <2>3
  <2>5. 1 \in hits' <=> 1 \in hits \/ n1 > 0
    BY <2>1
  <2>6. 2 \in hits' <=> 2 \in hits \/ n2 > 0
    BY <2>1
  <2> QED BY <2>4, <2>5, <2>6
<1>10. (1 \notin hits' => sl' = InitialStop') /\ BreakevenAfterT1'
  <2>1. InitialStop' = InitialStop /\ (IsLong' <=> IsLong)
    BY <1>2 DEF InitialStop, IsLong
  <2>2. CASE 1 \notin hits'
    <3>1. ~on /\ base = sl
      BY <1>9, <2>2
    <3>2. sl' = sl
      BY <1>2, <3>1
    <3> QED BY <1>9, <2>1, <2>2, <3>2 DEF StopInv, BreakevenAfterT1
  <2>3. CASE 1 \in hits'
    <3>1. Tighter(Entry, base)
      BY <1>a, <1>9, <2>3 DEF StopInv, BreakevenAfterT1, Tighter
    <3>2. Tighter(Entry, sl')
      BY <1>a, <1>6, <1>7, <3>1 DEF Tighter
    <3> QED BY <2>1, <2>3, <3>2 DEF BreakevenAfterT1, Tighter
  <2> QED BY <2>2, <2>3
<1>11. CASE TimeOver
  <2>1. CloseAll(p, "time", sold, left)
    BY <1>2, <1>4, <1>11
  <2>2. /\ open' = FALSE /\ inHand' = 0 /\ remaining' = 0 /\ sales' \in Seq(SaleRecord)
        /\ sales' # <<>> /\ sales'[Len(sales')].why # "target"
    <3> HIDE DEF sold, left
    <3> QED BY <1>4, <1>5, <2>1, CloseAllInv
  <2> HIDE DEF sold, left, base, on
  <2>3. StopTypeOK'
    BY <1>2, <1>7, <1>9, <2>2, ClosedType
  <2>4. StopInv'
    BY <1>10, <2>2 DEF StopInv
  <2> QED BY <1>8, <2>3, <2>4
<1>12. CASE ~TimeOver
  <2>1. remaining' = left /\ inHand' = left /\ sales' = sales \o sold /\ open' = open
    BY <1>2, <1>4, <1>12
  <2>2. sales' \in Seq(SaleRecord)
    <3> HIDE DEF sold
    <3> QED BY <1>5, <2>1 DEF StopTypeOK
  <2>3. StopTypeOK'
    <3> HIDE DEF sold, left, base, on
    <3> QED BY <1>2, <1>4, <1>7, <1>9, <1>a, <2>1, <2>2 DEF StopTypeOK
  <2>4. left = Quantity - SoldShare(1)' - SoldShare(2)'
    <3>1. SoldShare(1)' = SoldShare(1) + n1 /\ SoldShare(2)' = SoldShare(2) + n2
      BY <1>1, <1>9, SharesLeaveRunner DEF SoldShare, Share
    <3> QED BY <1>a, <1>b, <1>3, <3>1, SharesLeaveRunner DEF SoldShare
  <2>5. StopInv'
    <3> HIDE DEF sold, left, base, on
    <3> QED BY <1>b, <1>10, <2>1, <2>4 DEF StopInv
  <2> QED BY <1>8, <2>3, <2>5
<1> QED BY <1>11, <1>12

LEMMA StutterKeeps ==
  ASSUME StopIInv, UNCHANGED stopVars
  PROVE  StopIInv'
BY DEF stopVars, StopIInv, StopTypeOK, StopInv, SoldShare, BreakevenAfterT1, Tighter, InitialStop, IsLong

(* The inductive invariant. *)
THEOREM InductiveInvariant == OptionDirections => (StopSpec => []StopIInv)
<1> SUFFICES ASSUME OptionDirections PROVE StopSpec => []StopIInv
  OBVIOUS
<1>1. StopInit => StopIInv
  BY InitIInv
<1>2. StopIInv /\ [StopNext]_stopVars => StopIInv'
  BY StoppedKeeps, ThroughKeeps, OrderKeeps, TimeKeeps, StutterKeeps DEF StopNext, Tick
<1> QED BY <1>1, <1>2, PTL DEF StopSpec

\* The state keeps its type.
THEOREM TypeCorrect == OptionDirections => (StopSpec => []StopTypeOK)
<1> SUFFICES ASSUME OptionDirections PROVE StopSpec => []StopTypeOK
  OBVIOUS
<1>1. StopIInv => StopTypeOK
  BY DEF StopIInv
<1> QED BY <1>1, InductiveInvariant, PTL

\* The targets never close a position and the two records of it agree.
THEOREM RunnerAlwaysLeft == OptionDirections => (StopSpec => []RunnerLeft)
<1> SUFFICES ASSUME OptionDirections PROVE StopSpec => []RunnerLeft
  OBVIOUS
<1>1. StopIInv => RunnerLeft
  BY SharesLeaveRunner, TrailingAssumption DEF StopIInv, StopTypeOK, StopInv, SoldShare, RunnerLeft
<1> QED BY <1>1, InductiveInvariant, PTL

\* Once the first target is hit the stop is at the entry price or better.
THEOREM BreakevenForever == OptionDirections => (StopSpec => []BreakevenAfterT1)
<1> SUFFICES ASSUME OptionDirections PROVE StopSpec => []BreakevenAfterT1
  OBVIOUS
<1>1. StopIInv => BreakevenAfterT1
  BY DEF StopIInv, StopInv
<1> QED BY <1>1, InductiveInvariant, PTL

\* No step moves the stop away from the profit.
THEOREM StopIsMonotonic == OptionDirections => (StopSpec => StopNeverLoosens)
<1> SUFFICES ASSUME OptionDirections PROVE StopSpec => StopNeverLoosens
  OBVIOUS
<1>1. StopIInv /\ [StopNext]_stopVars => [Tighter(sl, sl')]_stopVars
  <2> SUFFICES ASSUME StopIInv, StopNext PROVE Tighter(sl, sl')
    BY DEF stopVars
  <2>1. sl \in Int
    BY DEF StopIInv, StopTypeOK
  <2>2. sl' = sl => Tighter(sl, sl')
    BY <2>1 DEF Tighter
  <2> QED
    BY <2>2, ThroughKeeps DEF StopNext, Tick, TickStopped, ExitOrder, TimePasses
<1> QED BY <1>1, InductiveInvariant, PTL DEF StopSpec, StopNeverLoosens

=============================================================================
