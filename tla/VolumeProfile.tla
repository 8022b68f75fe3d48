---------------------------- MODULE VolumeProfile ----------------------------
(***************************************************************************)
(* The volume profile specialist (agents/volume_profile_agent.py) for one  *)
(* underlying: the volume traded at each price, the averages, the initial  *)
(* balance and the memory of the day before, all kept tick by tick and     *)
(* reset when the ticks cross the close.                                   *)
(*                                                                         *)
(* Prices are integers, volumes are doubled so that half of one is an      *)
(* integer, times count in slots of which SlotsPerDay make a day, confidence *)
(* is in hundredths of a percent (the scale of OrderFlow).                 *)
(***************************************************************************)
EXTENDS Integers, Sequences, SequencesExt, FiniteSetsExt, Functions

CONSTANTS
    ProfileTicks,       \* the ticks the market may send: price, volume, quotes
    ProfileInterval,    \* ANALYSIS_INTERVAL (100)
    BalanceTicks,       \* ticks after which the initial balance is set (360)
    HistoryKept,        \* POC values kept (5)
    SlotsPerDay, Close, \* slots of a day, and the slot of 15:30
    ProfileExpiry,      \* is_expiry_day
    LastSlot            \* bound: the last slot modelled

\* Ticks are of a volume that is not negative.
ASSUME ProfileAssumption ==
    /\ \A t \in ProfileTicks : t.p \in Int /\ t.v \in Nat /\ t.bid \in Int /\ t.ask \in Int
    /\ ProfileInterval \in Nat \ {0} /\ BalanceTicks \in Nat /\ HistoryKept \in Nat
    /\ SlotsPerDay \in Nat \ {0} /\ Close \in Nat /\ LastSlot \in Nat
    /\ ProfileExpiry \in BOOLEAN

VARIABLES
    now,            \* timestamp of the market
    vap,            \* _volume_at_price: <<price, volume>> in order of insertion
    buyAt, sellAt,  \* _buy_volume_at_price, _sell_volume_at_price
    volume, vwapNum, anchorVolume, anchorNum,   \* the cumulative sums
    tickCount,      \* _tick_count
    tpo,            \* _tpo_counts
    balance,        \* _initial_balance
    pocHistory,     \* _poc_history
    lastTs,         \* _last_tick_ts, 0 when None
    prevPoc,        \* _prev_day_poc, 0 when None
    prevArea,       \* _prev_day_value_area, NoArea when missing
    profileSignal   \* the signal the last tick produced

sums == <<volume, vwapNum, anchorVolume, anchorNum>>
profileVars == <<now, vap, buyAt, sellAt, sums, tickCount, tpo, balance,
                 pocHistory, lastTs, prevPoc, prevArea, profileSignal>>

NoArea == [low |-> 0, high |-> 0]
NoBalance == [high |-> 0, low |-> 0, set |-> FALSE, seen |-> FALSE]
Silent == [dir |-> 0, conf |-> 0]

Bucket(p) == 5 * ((p + 2) \div 5)
Plus(f, p, n) == IF p \in DOMAIN f THEN [f EXCEPT ![p] = @ + n]
                 ELSE [q \in DOMAIN f \cup {p} |-> IF q = p THEN n ELSE f[q]]
PutAt(s, p, n) == IF \E i \in DOMAIN s : s[i][1] = p
                  THEN [i \in DOMAIN s |-> IF s[i][1] = p THEN <<p, s[i][2] + n>> ELSE s[i]]
                  ELSE Append(s, <<p, n>>)
TotalOf(s) == SumFunction([i \in DOMAIN s |-> s[i][2]])
Sorted(s) == SortSeq(s, LAMBDA a, b : a[1] < b[1])

\* The price of the largest volume, the first one entered among equals.
Poc(s) == s[CHOOSE i \in DOMAIN s : /\ \A j \in DOMAIN s : s[j][2] <= s[i][2]
                                    /\ \A j \in 1 .. i - 1 : s[j][2] < s[i][2]][1]

(***************************************************************************)
(* The value area: a walk up the sorted prices.  The lower end is set      *)
(* whenever it still has the value it started with, so it moves past the   *)
(* price at which 30 % is reached when that price is the starting value.   *)
(***************************************************************************)
Area(s, start) ==
    LET sorted == Sorted(s)
        Upto(i) == TotalOf(SubSeq(sorted, 1, i))
        high == CHOOSE i \in DOMAIN sorted : /\ 10 * Upto(i) >= 7 * TotalOf(s)
                                             /\ 10 * Upto(i - 1) < 7 * TotalOf(s)
        reached == {i \in 1 .. high : 10 * Upto(i) >= 3 * TotalOf(s)}
        moved == {i \in reached : sorted[i][1] # start}
        low == IF moved = {} THEN start ELSE sorted[Min(moved)][1]
    IN  [low |-> low, high |-> sorted[high][1]]

(***************************************************************************)
(* The signal                                                              *)
(***************************************************************************)

Capped(c) == Min({9500, c})

Breakout(b, p) == IF ~b.set THEN 0 ELSE IF p > b.high THEN 1 ELSE IF p < b.low THEN -1 ELSE 0
NakedNear(poc, p) == poc # 0 /\ 200 * Max({p - poc, poc - p}) < p

\* Tails of few prints: a rejection at the top (low) end of the profile.
Tail2(counts, prices, i, j) == counts[prices[i]] + counts[prices[j]]
Excess(counts, top) ==
    LET prices == SetToSortSeq(DOMAIN counts, <)
        n == Len(prices)
        most == Max({counts[p] : p \in DOMAIN counts})
        prints == IF top THEN Tail2(counts, prices, n, n - 1) ELSE Tail2(counts, prices, 1, 2)
    IN  n >= 5 /\ (prints <= 2 \/ 10 * prints <= 3 * most)

\* The POC has moved up (down) in 70 % of its last steps.
Migration(h) ==
    LET n == Len(h) - 1
        ups == Cardinality({i \in 2 .. Len(h) : h[i] > h[i - 1]})
        downs == Cardinality({i \in 2 .. Len(h) : h[i] < h[i - 1]})
    IN  IF n < 2 THEN 0 ELSE IF 10 * ups >= 7 * n THEN 1 ELSE IF 10 * downs >= 7 * n THEN -1 ELSE 0

\* P (top heavy) and b (bottom heavy) profiles; B and D are neutral.
Shape(s) ==
    LET sorted == Sorted(s)
        n == Len(s)
        third == Max({n \div 3, 1})
        bottom == TotalOf(SubSeq(sorted, 1, third))
        top == TotalOf(SubSeq(sorted, n - third + 1, n))
        middle == TotalOf(s) - bottom - top
        total == TotalOf(s)
        Double == 10 * bottom > 3 * total /\ 10 * top > 3 * total /\ 100 * middle < 35 * total
    IN  IF n < 4 \/ Double THEN 0
        ELSE IF 2 * top > 3 * bottom /\ top > middle THEN 1
        ELSE IF 2 * bottom > 3 * top /\ bottom > middle THEN -1 ELSE 0

AreaMove(area, prev) == IF prev = NoArea THEN 0
                        ELSE IF area.low > prev.high THEN 1
                        ELSE IF area.high < prev.low THEN -1 ELSE 0

\* The signal at price p: above or below both the POC and the average, then
\* five confirmations of that side and one warning.  On expiry day a price
\* outside the value area counts for more.
Weighed(c, area, p) ==
    IF ProfileExpiry /\ (p < area.low \/ p > area.high) THEN Capped((c * 11) \div 10) ELSE c
Profile(s, num, vol, h, b, counts, naked, prev, p) ==
    LET area == Area(s, p)
        dir == IF p > Poc(s) /\ p * vol > num THEN 1
               ELSE IF p <= Poc(s) /\ p * vol <= num THEN -1 ELSE 0
        outside == (dir = 1 /\ p > area.high) \/ (dir = -1 /\ p < area.low)
        base == IF dir = 0 THEN 4000 ELSE IF outside THEN 7000 ELSE 6000
        Confirm(c, side, gain) == IF dir # 0 /\ side = dir THEN Capped(c + gain) ELSE c
        broken == Confirm(base, Breakout(b, p), 1000)
        warned == IF NakedNear(naked, p) THEN Max({3000, broken - 500}) ELSE broken
        tailed == IF (dir = 1 /\ Excess(counts, FALSE)) \/ (dir = -1 /\ Excess(counts, TRUE))
                  THEN Capped(warned + 500) ELSE warned
    IN  [dir |-> dir,
         conf |-> Weighed(Confirm(Confirm(Confirm(tailed, Migration(h), 500), Shape(s), 500),
                                  AreaMove(area, prev), 500), area, p)]

(***************************************************************************)
(* The state machine                                                       *)
(***************************************************************************)

ProfileInit ==
    /\ now = Close - 2
    /\ vap = <<>> /\ buyAt = <<>> /\ sellAt = <<>> /\ tpo = <<>>
    /\ volume = 0 /\ vwapNum = 0 /\ anchorVolume = 0 /\ anchorNum = 0
    /\ tickCount = 0 /\ balance = NoBalance /\ pocHistory = <<>>
    /\ lastTs = 0 /\ prevPoc = 0 /\ prevArea = NoArea
    /\ profileSignal = Silent

\* The tick is the first one at or after the close of its own day.
Crosses(ts) == LET eod == (ts - (ts % SlotsPerDay)) + Close
               IN  lastTs # 0 /\ lastTs < eod /\ eod <= ts

\* Buys at the ask, sells at the bid, and halves in between or without quotes.
SideShare(t) == IF t.bid > 0 /\ t.ask > 0 /\ t.p >= t.ask THEN <<2 * t.v, 0>>
                ELSE IF t.bid > 0 /\ t.ask > 0 /\ t.p <= t.bid THEN <<0, 2 * t.v>>
                ELSE <<t.v, t.v>>

\* Before the first tick of a session, or right after a rollover, the sums
\* are zero.  The balance of a later session starts from 0, not from a price.
KeptOver(sum, ts) == sum      \* mutant: the sums survive the close
Renewed(sum, ts) == IF Crosses(ts) THEN 0 ELSE sum
RenewedMap(f, ts) == IF Crosses(ts) THEN <<>> ELSE f
Widened(b, p, n) ==
    LET c == IF b.seen THEN b ELSE [high |-> p, low |-> p, set |-> FALSE, seen |-> TRUE]
    IN  IF c.set THEN c
        ELSE [c EXCEPT !.high = Max({@, p}), !.low = Min({@, p}), !.set = n > BalanceTicks]

ProfileTick(ts, t) ==
    LET b == Bucket(t.p)
        share == SideShare(t)
        settled == Crosses(ts) /\ TotalOf(vap) > 0
        h == RenewedMap(pocHistory, ts)
        Grown(f, n) == IF t.v > 0 THEN Plus(f, b, n) ELSE f
    IN  /\ now' = ts /\ lastTs' = ts
        /\ prevPoc' = IF settled THEN Poc(vap) ELSE prevPoc
        /\ prevArea' = IF settled THEN Area(vap, Sorted(vap)[1][1]) ELSE prevArea
        /\ vap' = PutAt(RenewedMap(vap, ts), b, 2 * t.v)
        /\ buyAt' = Grown(RenewedMap(buyAt, ts), share[1])
        /\ sellAt' = Grown(RenewedMap(sellAt, ts), share[2])
        /\ volume' = Renewed(volume, ts) + 2 * t.v
        /\ vwapNum' = Renewed(vwapNum, ts) + 2 * t.v * t.p
        /\ anchorVolume' = Renewed(anchorVolume, ts) + 2 * t.v
        /\ anchorNum' = Renewed(anchorNum, ts) + 2 * t.v * t.p
        /\ tickCount' = Renewed(tickCount, ts) + 1
        /\ tpo' = Plus(RenewedMap(tpo, ts), b, 1)
        /\ balance' = Widened(IF Crosses(ts) THEN [NoBalance EXCEPT !.seen = TRUE] ELSE balance,
                              t.p, tickCount')
        /\ LET due == tickCount' % ProfileInterval = 0 /\ TotalOf(vap') > 0
               moved == due /\ (h = <<>> \/ Last(h) # Poc(vap'))
               grown == Append(h, Poc(vap'))
           IN  /\ pocHistory' = IF ~moved THEN h
                                ELSE IF Len(grown) > HistoryKept THEN Tail(grown) ELSE grown
               /\ profileSignal' = IF due THEN Profile(vap', vwapNum', volume', pocHistory',
                                           balance', tpo', prevPoc', prevArea', t.p)
                                   ELSE Silent

ProfileNext == \E ts \in now .. LastSlot, t \in ProfileTicks :
    /\ ts > now
    /\ ProfileTick(ts, t)

(***************************************************************************)
(* Properties                                                              *)
(***************************************************************************)

\* The books of the profile tell one story across resets: the volume at the
\* prices is the cumulative and the anchored volume, purchases and sales share
\* it between them, the averages have one numerator, and the two tables of
\* prices list the same ones (volume_profile_agent.py:79-103, 219-230).  How
\* much the second counts at a price is not promised: _update_tpo calls it
\* 30-minute periods (line 115) and adds one for each tick.
ProfileBooksAgree ==
    /\ TotalOf(vap) = volume /\ volume = anchorVolume /\ vwapNum = anchorNum
    /\ SumFunction(buyAt) + SumFunction(sellAt) = volume
    /\ {e[1] : e \in ToSet(vap)} = DOMAIN tpo

=============================================================================
