---------------------------- MODULE Agents_proofs ----------------------------
(***************************************************************************)
(* Proofs about what the agents are fed and how they decide: the bars of   *)
(* the tick feed, for any timeframes, prices and late ticks; the decision  *)
(* agents, for any analysts, signals, intervals and restarts; the books of *)
(* the volume profile; the charts of the technical specialist, for any     *)
(* market; the vote of the consensus, for any signals, regimes and trust   *)
(* in the analysts; and the verdicts of the order flow specialist, for any *)
(* ticks, windows and mirror.                                              *)
(***************************************************************************)
EXTENDS Deciders, OrderFlow, VolumeProfile, Technical, Consensus, Numbers_proofs

-----------------------------------------------------------------------------
(* The open bars.                                                              *)

Bar == [at : Nat, open : Int, high : Int, low : Int, close : Int]

\* A shorter bar within a longer one.
Within(b, l, f) == /\ l.at <= b.at /\ b.at < l.at + f
                   /\ l.low <= b.low /\ b.high <= l.high /\ l.close = b.close

\* Why the bars nest: all of a symbol open with its first tick, each at a multiple
\* of its length, so that a tick past the longer bar is past the shorter one too.
BarsInv ==
    \A s \in Symbols :
        /\ DOMAIN bars[s] = DOMAIN Frames
        /\ \/ \A tf \in DOMAIN Frames : bars[s][tf] = NoBar
           \/ /\ \A tf \in DOMAIN Frames : /\ bars[s][tf] \in Bar
                                           /\ \E n \in Nat : bars[s][tf].at = Frames[tf] * n
              /\ \A tf, longer \in DOMAIN Frames :
                    Frames[tf] < Frames[longer] => Within(bars[s][tf], bars[s][longer], Frames[longer])

CandlesInv == minute \in Nat /\ DOMAIN bars = Symbols /\ BarsInv
CandlesSpec == CandlesInit /\ [][CandlesNext]_candleVars

LEMMA OpenTimeType ==
    ASSUME NEW ts \in Nat, NEW tf \in DOMAIN Frames
    PROVE  /\ OpenTime(ts, tf) \in Nat /\ OpenTime(ts, tf) <= ts /\ ts < OpenTime(ts, tf) + Frames[tf]
           /\ \E n \in Nat : OpenTime(ts, tf) = Frames[tf] * n
<1>1. PICK f \in Nat \ {0} : f = Frames[tf]
    BY CandlesAssumption
<1>2. PICK n \in Nat : n = ts \div f
    BY DivBelow
<1>3. f * n <= ts /\ ts < f * n + f
    BY <1>2
<1>4. f * n \in Nat
    BY TimesType
<1> QED BY <1>1, <1>2, <1>3, <1>4 DEF OpenTime

\* Multiples of a length that are apart are at least the length apart.
LEMMA MultiplesApart ==
    ASSUME NEW f \in Nat \ {0}, NEW m \in Nat, NEW n \in Nat, f * m > f * n
    PROVE  f * m >= f * n + f
<1>1. m > n
    <2>1. m <= n => f * m <= f * n
        BY TimesMore
    <2> QED BY <2>1, TimesType
<1>2. f * (n + 1) <= f * m
    BY <1>1, TimesMore
<1>3. f * (n + 1) = f * n + f
    OBVIOUS
<1> QED BY <1>2, <1>3

\* The shorter bar of a tick opens within the longer one.
LEMMA OpenTimesNest ==
    ASSUME NEW ts \in Nat, NEW tf \in DOMAIN Frames, NEW longer \in DOMAIN Frames,
           Frames[tf] < Frames[longer]
    PROVE  /\ OpenTime(ts, longer) <= OpenTime(ts, tf)
           /\ OpenTime(ts, tf) < OpenTime(ts, longer) + Frames[longer]
<1>1. PICK f \in Nat \ {0}, l \in Nat \ {0} : f = Frames[tf] /\ l = Frames[longer]
    BY CandlesAssumption
<1>2. PICK k \in Nat : l = k * f
    BY <1>1, CandlesAssumption
<1>3. PICK q \in Nat : q = ts \div l
    BY DivBelow
<1>4. l * q <= ts /\ ts < l * q + l /\ l * q \in Nat
    BY <1>3, TimesType
<1>5. PICK r \in Nat : r = ts \div f
    BY DivBelow
<1>6. f * r <= ts /\ ts < f * r + f /\ f * r \in Nat
    BY <1>5, TimesType
<1>7. PICK j \in Nat : j = k * q
    BY TimesType
<1>8. l * q = f * j
    BY <1>2, <1>7
<1>9. f * j <= f * r
    <2> SUFFICES ASSUME f * j > f * r PROVE FALSE
        BY <1>4, <1>6, <1>8
    <2>1. f * j >= f * r + f
        BY MultiplesApart
    <2> QED BY <1>4, <1>6, <1>8, <2>1
<1>10. l * q <= f * r /\ f * r < l * q + l
    BY <1>4, <1>6, <1>8, <1>9
<1> QED BY <1>1, <1>3, <1>5, <1>10 DEF OpenTime

LEMMA NewBarType ==
    ASSUME NEW ts \in Nat, NEW tf \in DOMAIN Frames, NEW p \in Int
    PROVE  /\ NewBar(ts, tf, p) \in Bar /\ NewBar(ts, tf, p).at = OpenTime(ts, tf)
           /\ NewBar(ts, tf, p).low = p /\ NewBar(ts, tf, p).high = p /\ NewBar(ts, tf, p).close = p
BY OpenTimeType DEF NewBar, Bar

LEMMA UpdatedType ==
    ASSUME NEW b \in Bar, NEW p \in Int
    PROVE  /\ Updated(b, p) \in Bar /\ Updated(b, p).at = b.at /\ Updated(b, p).close = p
           /\ Updated(b, p).high = IF b.high >= p THEN b.high ELSE p
           /\ Updated(b, p).low = IF b.low <= p THEN b.low ELSE p
<1>1. b.high \in Int /\ b.low \in Int
    BY DEF Bar
<1>2. /\ Max({b.high, p}) = IF b.high >= p THEN b.high ELSE p
      /\ Min({b.low, p}) = IF b.low <= p THEN b.low ELSE p
    BY <1>1, TwoMax
<1>3. Max({b.high, p}) \in Int /\ Min({b.low, p}) \in Int
    BY <1>1, <1>2
<1> QED BY <1>2, <1>3 DEF Updated, Bar

LEMMA TickKeepsBars ==
    ASSUME CandlesInv, NEW s \in Symbols, NEW ts \in Nat, NEW p \in Prices, Tick(s, ts, p)
    PROVE  CandlesInv'
<1> DEFINE own == bars[s]
           New(tf) == OnTick(own[tf], ts, tf, p)
<1>1. /\ minute \in Nat /\ DOMAIN bars = Symbols /\ p \in Int
      /\ minute' = Max({minute, ts})
      /\ bars' = [bars EXCEPT ![s] = [tf \in DOMAIN Frames |-> New(tf)]]
    BY CandlesAssumption DEF CandlesInv, Tick
<1>2. minute' \in Nat
    BY <1>1, TwoMax
<1>3. /\ DOMAIN bars' = Symbols /\ bars'[s] = [tf \in DOMAIN Frames |-> New(tf)]
      /\ \A x \in Symbols : x # s => bars'[x] = bars[x]
    BY <1>1
<1>4. \A tf \in DOMAIN Frames : own[tf] \in Bar => own[tf] # NoBar
    <2>1. \A b \in Bar : b.at \in Nat
        BY DEF Bar
    <2>2. NoBar.at = -1
        BY DEF NoBar
    <2> QED BY <2>1, <2>2
<1>5. ASSUME NEW tf \in DOMAIN Frames
      PROVE  New(tf) = IF own[tf] = NoBar \/ OpenTime(ts, tf) > own[tf].at
                       THEN NewBar(ts, tf, p) ELSE Updated(own[tf], p)
    BY DEF OnTick, Closes
<1>6. ASSUME NEW tf \in DOMAIN Frames
      PROVE  New(tf) \in Bar /\ \E n \in Nat : New(tf).at = Frames[tf] * n
    <2>1. own[tf] = NoBar \/ (own[tf] \in Bar /\ \E n \in Nat : own[tf].at = Frames[tf] * n)
        BY DEF CandlesInv, BarsInv
    <2>2. CASE own[tf] = NoBar \/ OpenTime(ts, tf) > own[tf].at
        <3>1. New(tf) = NewBar(ts, tf, p)
            BY <1>5, <2>2
        <3> HIDE DEF New
        <3> QED BY <1>1, <3>1, NewBarType, OpenTimeType
    <2>3. CASE ~(own[tf] = NoBar \/ OpenTime(ts, tf) > own[tf].at)
        <3>1. New(tf) = Updated(own[tf], p) /\ own[tf] \in Bar /\ \E n \in Nat : own[tf].at = Frames[tf] * n
            BY <1>5, <2>1, <2>3
        <3> HIDE DEF New
        <3> QED BY <1>1, <3>1, UpdatedType
    <2> QED BY <2>2, <2>3
<1>7. ASSUME NEW tf \in DOMAIN Frames, NEW longer \in DOMAIN Frames, Frames[tf] < Frames[longer]
      PROVE  Within(New(tf), New(longer), Frames[longer])
    <2> DEFINE b == own[tf]
               l == own[longer]
               f == Frames[longer]
    <2>1. f \in Nat \ {0} /\ Frames[tf] \in Nat \ {0}
        BY CandlesAssumption
    <2>2. /\ OpenTime(ts, tf) \in Nat /\ OpenTime(ts, longer) \in Nat
          /\ OpenTime(ts, longer) <= OpenTime(ts, tf) /\ OpenTime(ts, tf) < OpenTime(ts, longer) + f
        BY <1>7, OpenTimesNest, OpenTimeType
    <2>3. CASE b = NoBar
        <3>1. l = NoBar
            BY <1>4, <2>3 DEF CandlesInv, BarsInv
        <3>2. New(tf) = NewBar(ts, tf, p) /\ New(longer) = NewBar(ts, longer, p)
            BY <1>5, <2>3, <3>1
        <3> HIDE DEF New
        <3> QED BY <1>1, <2>2, <3>2, NewBarType DEF Within
    <2>4. CASE b # NoBar
        <3>1. b \in Bar /\ l \in Bar /\ Within(b, l, f)
            BY <1>7, <2>4 DEF CandlesInv, BarsInv
        <3>2. /\ b.at \in Nat /\ l.at \in Nat /\ b.low \in Int /\ b.high \in Int
              /\ l.low \in Int /\ l.high \in Int
            BY <3>1 DEF Bar
        <3>3. l # NoBar
            BY <1>4, <3>1
        <3>4. l.at <= b.at /\ b.at < l.at + f /\ l.low <= b.low /\ b.high <= l.high
            BY <3>1 DEF Within
        <3>5. CASE OpenTime(ts, longer) > l.at
            <4>1. OpenTime(ts, longer) >= l.at + f
                <5>1. PICK n \in Nat : l.at = f * n
                    BY <2>4 DEF CandlesInv, BarsInv
                <5>2. PICK m \in Nat : OpenTime(ts, longer) = f * m
                    BY OpenTimeType
                <5> HIDE DEF l, f
                <5> QED BY <2>1, <3>5, <5>1, <5>2, MultiplesApart
            <4>2. OpenTime(ts, tf) > b.at
                BY <2>1, <2>2, <3>2, <3>4, <4>1
            <4>3. New(tf) = NewBar(ts, tf, p) /\ New(longer) = NewBar(ts, longer, p)
                BY <1>5, <3>5, <4>2
            <4> HIDE DEF New
            <4> QED BY <1>1, <2>2, <4>3, NewBarType DEF Within
        <3>6. CASE ~(OpenTime(ts, longer) > l.at)
            <4>1. New(longer) = Updated(l, p)
                BY <1>5, <3>3, <3>6
            <4>2. /\ New(longer).at = l.at /\ New(longer).close = p
                  /\ New(longer).high = IF l.high >= p THEN l.high ELSE p
                  /\ New(longer).low = IF l.low <= p THEN l.low ELSE p
                <5> HIDE DEF New, l
                <5> QED BY <1>1, <3>1, <4>1, UpdatedType
            <4>3. CASE OpenTime(ts, tf) > b.at
                <5>1. New(tf) = NewBar(ts, tf, p)
                    BY <1>5, <4>3
                <5>2. /\ New(tf).at = OpenTime(ts, tf) /\ New(tf).low = p /\ New(tf).high = p
                      /\ New(tf).close = p
                    <6> HIDE DEF New
                    <6> QED BY <1>1, <5>1, NewBarType
                <5>3. l.at <= OpenTime(ts, tf) /\ OpenTime(ts, tf) < l.at + f
                    BY <2>1, <2>2, <3>2, <3>4, <3>6, <4>3
                <5> HIDE DEF New, l, b
                <5> QED BY <1>1, <3>2, <4>2, <5>2, <5>3 DEF Within
            <4>4. CASE ~(OpenTime(ts, tf) > b.at)
                <5>1. New(tf) = Updated(b, p)
                    BY <1>5, <2>4, <4>4
                <5>2. /\ New(tf).at = b.at /\ New(tf).close = p
                      /\ New(tf).high = IF b.high >= p THEN b.high ELSE p
                      /\ New(tf).low = IF b.low <= p THEN b.low ELSE p
                    <6> HIDE DEF New, b
                    <6> QED BY <1>1, <3>1, <5>1, UpdatedType
                <5> HIDE DEF New, l, b
                <5> QED BY <1>1, <3>2, <3>4, <4>2, <5>2 DEF Within
            <4> QED BY <4>3, <4>4
        <3> QED BY <3>5, <3>6
    <2> QED BY <2>3, <2>4
<1>8. BarsInv'
    <2> SUFFICES ASSUME NEW x \in Symbols
        PROVE /\ DOMAIN bars'[x] = DOMAIN Frames
              /\ \/ \A tf \in DOMAIN Frames : bars'[x][tf] = NoBar
                 \/ /\ \A tf \in DOMAIN Frames : /\ bars'[x][tf] \in Bar
                                                 /\ \E n \in Nat : bars'[x][tf].at = Frames[tf] * n
                    /\ \A tf, longer \in DOMAIN Frames :
                        Frames[tf] < Frames[longer] => Within(bars'[x][tf], bars'[x][longer], Frames[longer])
        BY DEF BarsInv
    <2>1. CASE x = s
        <3>1. DOMAIN bars'[s] = DOMAIN Frames /\ \A tf \in DOMAIN Frames : bars'[s][tf] = New(tf)
            BY <1>3
        <3> HIDE DEF New
        <3> QED BY <1>6, <1>7, <2>1, <3>1
    <2>2. CASE x # s
        <3>1. bars'[x] = bars[x]
            BY <1>3, <2>2
        <3> QED BY <3>1 DEF CandlesInv, BarsInv
    <2> QED BY <2>1, <2>2
<1> QED BY <1>2, <1>3, <1>8 DEF CandlesInv

\* All bars of a symbol open with its first tick, at multiples of their lengths, and
\* each lies within the longer ones, late ticks included (truedata_feed.py:98-129).
THEOREM BarsInvariant == CandlesSpec => []CandlesInv
<1>1. CandlesInit => CandlesInv
    BY DEF CandlesInit, CandlesInv, BarsInv
<1>2. CandlesInv /\ [CandlesNext]_candleVars => CandlesInv'
    <2> SUFFICES ASSUME CandlesInv, [CandlesNext]_candleVars PROVE CandlesInv'
        OBVIOUS
    <2>1. CASE UNCHANGED candleVars
        BY <2>1 DEF candleVars, CandlesInv, BarsInv
    <2>2. CASE CandlesNext
        <3>1. PICK s \in Symbols, p \in Prices, ts \in Max({0, minute - MaxLate}) .. LastMinute :
                Tick(s, ts, p)
            BY <2>2 DEF CandlesNext
        <3>2. minute - MaxLate \in Int /\ LastMinute \in Int
            BY CandlesAssumption DEF CandlesInv
        <3>3. Max({0, minute - MaxLate}) \in Nat
            <4>1. PICK e \in Int : e = minute - MaxLate
                BY <3>2
            <4> QED BY <4>1, TwoMax
        <3>4. ts \in Nat
            BY <3>2, <3>3
        <3> QED BY <3>1, <3>4, TickKeepsBars
    <2> QED BY <2>1, <2>2
<1> QED BY <1>1, <1>2, PTL DEF CandlesSpec

\* The open bar of a slower chart covers that of a faster one, so that its bars are
\* those of the faster one together (truedata_feed.py:84-129).
THEOREM BarsAlwaysNest == CandlesSpec => []BarsNest
<1>1. CandlesInv => BarsNest
    BY DEF CandlesInv, BarsInv, BarsNest, Within
<1> QED BY <1>1, BarsInvariant, PTL

-----------------------------------------------------------------------------
(* How often the decision agents ask.                                          *)

\* The values of a function on a finite set are finitely many.
LEMMA FiniteValues ==
    ASSUME NEW f, IsFiniteSet(DOMAIN f)
    PROVE  IsFiniteSet({f[x] : x \in DOMAIN f})
<1> DEFINE S == {f[x] : x \in DOMAIN f}
           g == [x \in DOMAIN f |-> f[x]]
<1>1. g \in Surjection(DOMAIN f, S)
    BY DEF Surjection
<1> HIDE DEF g, S
<1>2. IsFiniteSet(S)
    BY <1>1, FS_Surjection
<1> QED BY <1>2 DEF S

LEMMA VotersFinite == IsFiniteSet(AllVoters)
<1> DEFINE g == [d \in Desks |-> Voters[d]]
           S == {Voters[d] : d \in Desks}
<1>1. DOMAIN g = Desks /\ {g[d] : d \in DOMAIN g} = S
    OBVIOUS
<1>2. IsFiniteSet(S)
    <2> HIDE DEF S
    <2> QED BY <1>1, FiniteValues, DecidersAssumption
<1>3. \A T \in S : IsFiniteSet(T)
    BY DecidersAssumption
<1> QED BY <1>2, <1>3, FS_UNION DEF AllVoters

\* Never is longer than any limit.
LEMMA NeverType == Never \in Nat /\ \A d \in Desks : Ttl[d] < Never
<1> DEFINE g == [d \in Desks |-> Ttl[d]]
           h == [a \in AllVoters |-> Period[a]]
           S == {Ttl[d] : d \in Desks}
           T == {ScalpCooldown, DecisionInterval}
           U == {Period[a] : a \in AllVoters}
           all == S \cup T \cup U
<1>1. IsFiniteSet(S)
    <2>1. DOMAIN g = Desks /\ {g[d] : d \in DOMAIN g} = S
        OBVIOUS
    <2> HIDE DEF S
    <2> QED BY <2>1, FiniteValues, DecidersAssumption
<1>2. IsFiniteSet(U)
    <2>1. DOMAIN h = AllVoters /\ {h[a] : a \in DOMAIN h} = U
        OBVIOUS
    <2> HIDE DEF U
    <2> QED BY <2>1, FiniteValues, VotersFinite
<1>3. IsFiniteSet(T)
    <2>1. IsFiniteSet({ScalpCooldown}) /\ IsFiniteSet({DecisionInterval})
        BY FS_Singleton
    <2>2. T = {ScalpCooldown} \cup {DecisionInterval}
        OBVIOUS
    <2> QED BY <2>1, <2>2, FS_Union
<1>4. S \in SUBSET Nat /\ T \in SUBSET Nat /\ U \in SUBSET Nat /\ ScalpCooldown \in T
    BY DecidersAssumption
<1>5. Never = Max(all) + 1
    BY DEF Never
<1>6. \A d \in Desks : Ttl[d] \in S
    OBVIOUS
<1> HIDE DEF S, T, U
<1>7. IsFiniteSet(S \cup T)
    BY <1>1, <1>3, FS_Union
<1>8. IsFiniteSet(all)
    BY <1>2, <1>7, FS_Union
<1>9. all \in SUBSET Int /\ all \in SUBSET Nat /\ all # {}
    BY <1>4
<1> HIDE DEF all
<1>10. Max(all) \in all /\ \A x \in all : x <= Max(all)
    BY <1>8, <1>9, LargestOf
<1>11. Max(all) \in Nat
    BY <1>9, <1>10
<1>12. \A d \in Desks : Ttl[d] \in Nat /\ Ttl[d] <= Max(all)
    BY <1>6, <1>9, <1>10 DEF all
<1> QED BY <1>5, <1>11, <1>12

DeciderTypes ==
    /\ day \in Nat \ {0} /\ restarts \in Nat
    /\ evaluated \in Nat /\ evaluated <= day
    /\ age \in [AllVoters -> Nat] /\ since \in [Desks -> Nat] /\ asks \in [Desks -> Nat]
    /\ unread \in SUBSET Desks /\ asking \in SUBSET Desks

\* Each question of the intraday agent came an interval after the one before, and
\* all of them after the last technical signal, while it was fresh.
IntradayPaced ==
    "intraday" \in Desks =>
        /\ asks["intraday"] <= Ttl["intraday"] \div DecisionInterval + 1
        /\ asks["intraday"] > 0 /\ age["technical"] < Never =>
            since["intraday"] + DecisionInterval * (asks["intraday"] - 1) <= age["technical"]
BtstOnce == "btst" \in Desks => asks["btst"] <= restarts + (IF evaluated = day THEN 1 ELSE 0)
OthersSilent == \A d \in Desks : d \notin {"intraday", "btst"} => asks[d] = 0

DecidersInv == DeciderTypes /\ IntradayPaced /\ BtstOnce /\ OthersSilent
DecidersSpec == DecidersInit /\ [][DecidersNext]_deciderVars

LEMMA TechnicalVoter ==
    ASSUME "intraday" \in Desks
    PROVE  "technical" \in AllVoters /\ "technical" \in Voters["intraday"]
BY DecidersAssumption DEF AllVoters

LEMMA PaceType ==
    ASSUME "intraday" \in Desks
    PROVE  /\ Ttl["intraday"] \in Nat /\ DecisionInterval \in Nat \ {0}
           /\ Ttl["intraday"] \div DecisionInterval \in Nat
           /\ Ttl["intraday"] < Never /\ Never \in Nat
<1>1. Ttl["intraday"] \in Nat /\ DecisionInterval \in Nat \ {0}
    BY DecidersAssumption
<1>2. PICK t \in Nat, i \in Nat \ {0} : t = Ttl["intraday"] /\ i = DecisionInterval
    BY <1>1
<1>3. t \div i \in Nat
    BY DivBelow
<1> QED BY <1>1, <1>2, <1>3, NeverType

\* As many intervals as fit into a length.
LEMMA FitsInto ==
    ASSUME NEW n \in Nat, NEW i \in Nat \ {0}, NEW t \in Nat, i * n <= t
    PROVE  n <= t \div i
<1>1. PICK q \in Nat : q = t \div i
    BY DivBelow
<1>2. t < i * q + i
    BY <1>1
<1> SUFFICES ASSUME n > q PROVE FALSE
    BY <1>1
<1>3. i * (q + 1) <= i * n
    BY TimesMore
<1>4. i * (q + 1) = i * q + i /\ i * q \in Nat /\ i * n \in Nat
    BY TimesType
<1> QED BY <1>2, <1>3, <1>4

LEMMA OlderType ==
    ASSUME NEW n \in Nat
    PROVE  Older(n) \in Nat /\ Older(n) <= n + 1 /\ (Older(n) < Never => Older(n) = n + 1)
<1>1. PICK m \in Int, v \in Int : m = n + 1 /\ v = Never /\ v \in Nat
    BY NeverType
<1>2. Min({m, v}) = IF m <= v THEN m ELSE v
    BY TwoMax
<1> QED BY <1>1, <1>2 DEF Older

LEMMA DecidersStart == DecidersInit => DecidersInv
<1> SUFFICES ASSUME DecidersInit PROVE DecidersInv
    OBVIOUS
<1>1. DeciderTypes
    BY NeverType DEF DecidersInit, DeciderTypes
<1>2. \A d \in Desks : asks[d] = 0
    BY DEF DecidersInit
<1>3. IntradayPaced
    BY <1>2, PaceType DEF IntradayPaced
<1>4. BtstOnce
    BY <1>1, <1>2 DEF BtstOnce, DeciderTypes
<1> QED BY <1>1, <1>2, <1>3, <1>4 DEF DecidersInv, OthersSilent

LEMMA SpeakKeeps ==
    ASSUME DecidersInv, NEW a \in AllVoters, NEW s \in Signals, Speak(a, s)
    PROVE  DecidersInv'
<1>1. DeciderTypes /\ IntradayPaced /\ BtstOnce /\ OthersSilent
    BY DEF DecidersInv
<1>2. /\ age' = [age EXCEPT ![a] = 0]
      /\ unread' = unread \cup {d \in Desks : a \in Voters[d]}
      /\ asks' = [d \in Desks |-> IF a = "technical" /\ d = "intraday" THEN 0 ELSE asks[d]]
      /\ UNCHANGED <<day, since, evaluated, asking, restarts>>
    BY DEF Speak
<1>3. DeciderTypes'
    BY <1>1, <1>2 DEF DeciderTypes
<1>4. IntradayPaced'
    <2> SUFFICES ASSUME "intraday" \in Desks
        PROVE /\ asks'["intraday"] <= Ttl["intraday"] \div DecisionInterval + 1
              /\ asks'["intraday"] > 0 /\ age'["technical"] < Never =>
                    since'["intraday"] + DecisionInterval * (asks'["intraday"] - 1) <= age'["technical"]
        BY DEF IntradayPaced, Never, AllVoters
    <2>1. CASE a = "technical"
        <3>1. asks'["intraday"] = 0
            BY <1>2, <2>1
        <3> QED BY <3>1, PaceType
    <2>2. CASE a # "technical"
        <3>1. asks'["intraday"] = asks["intraday"] /\ age'["technical"] = age["technical"] /\ since' = since
            BY <1>1, <1>2, <2>2, TechnicalVoter DEF DeciderTypes
        <3> QED BY <1>1, <3>1 DEF IntradayPaced
    <2> QED BY <2>1, <2>2
<1>5. BtstOnce'
    BY <1>1, <1>2 DEF BtstOnce
<1>6. OthersSilent'
    BY <1>1, <1>2 DEF OthersSilent
<1> QED BY <1>3, <1>4, <1>5, <1>6 DEF DecidersInv

\* A step that neither asks nor forgets: the times of decisions may be reset.
LEMMA QuietKeeps ==
    ASSUME DecidersInv, UNCHANGED <<day, age, evaluated, asks, restarts>>,
           unread' \in SUBSET Desks, asking' \in SUBSET Desks,
           since' = since \/ (\E d \in Desks : since' = Decided(d))
    PROVE  DecidersInv'
<1>1. DeciderTypes /\ IntradayPaced /\ BtstOnce /\ OthersSilent
    BY DEF DecidersInv
<1>2. since' \in [Desks -> Nat] /\ \A d \in Desks : since'[d] <= since[d]
    <2>1. CASE since' = since
        BY <1>1, <2>1 DEF DeciderTypes
    <2>2. ASSUME NEW d \in Desks, since' = Decided(d)
          PROVE  since' \in [Desks -> Nat] /\ \A x \in Desks : since'[x] <= since[x]
        <3>1. since' = [since EXCEPT ![d] = 0] /\ since \in [Desks -> Nat]
            BY <1>1, <2>2 DEF DeciderTypes, Decided
        <3>2. \A x \in Desks : since'[x] = 0 \/ since'[x] = since[x]
            BY <3>1
        <3>3. \A x \in Desks : since[x] \in Nat
            BY <3>1
        <3> QED BY <3>1, <3>2, <3>3
    <2> QED BY <2>1, <2>2
<1>3. DeciderTypes'
    BY <1>1, <1>2 DEF DeciderTypes
<1>4. IntradayPaced'
    <2> SUFFICES ASSUME "intraday" \in Desks
        PROVE /\ asks["intraday"] <= Ttl["intraday"] \div DecisionInterval + 1
              /\ asks["intraday"] > 0 /\ age["technical"] < Never =>
                    since'["intraday"] + DecisionInterval * (asks["intraday"] - 1) <= age["technical"]
        BY DEF IntradayPaced, Never, AllVoters
    <2>1. /\ asks["intraday"] \in Nat /\ age["technical"] \in Nat
          /\ since'["intraday"] \in Nat /\ since["intraday"] \in Nat
          /\ since'["intraday"] <= since["intraday"]
        BY <1>1, <1>2, TechnicalVoter DEF DeciderTypes
    <2>2. DecisionInterval * (asks["intraday"] - 1) \in Int
        <3>1. asks["intraday"] - 1 \in Int /\ DecisionInterval \in Int
            BY <2>1, PaceType
        <3> QED BY <3>1, TimesType
    <2> QED BY <1>1, <2>1, <2>2 DEF IntradayPaced
<1>5. BtstOnce'
    BY <1>1 DEF BtstOnce
<1>6. OthersSilent'
    BY <1>1 DEF OthersSilent
<1> QED BY <1>3, <1>4, <1>5, <1>6 DEF DecidersInv

LEMMA IntradayKeeps ==
    ASSUME DecidersInv, Intraday
    PROVE  DecidersInv'
<1>1. DeciderTypes /\ IntradayPaced /\ BtstOnce /\ OthersSilent
    BY DEF DecidersInv
<1>2. "intraday" \in Desks /\ unread' \in SUBSET Desks /\ UNCHANGED <<day, age, evaluated, restarts>>
    BY <1>1 DEF Intraday, DeciderTypes
<1>3. CASE asks' = asks
    <2>1. asking' = asking \/ asking' = asking \cup {"intraday"}
        BY DEF Intraday
    <2>2. since' = since \/ since' = Decided("intraday")
        BY DEF Intraday
    <2>3. asking' \in SUBSET Desks
        BY <1>1, <1>2, <2>1 DEF DeciderTypes
    <2> QED BY <1>2, <1>3, <2>2, <2>3, QuietKeeps
<1>4. CASE asks' # asks
    <2>1. /\ Fresh("intraday") /\ since["intraday"] >= DecisionInterval
          /\ since' = [since EXCEPT !["intraday"] = 0]
          /\ asking' = asking \cup {"intraday"}
          /\ asks' = [asks EXCEPT !["intraday"] = @ + 1]
        BY <1>4 DEF Intraday, Decided
    <2>2. /\ age["technical"] <= Ttl["intraday"] /\ age["technical"] \in Nat
          /\ since["intraday"] \in Nat /\ asks["intraday"] \in Nat
        BY <1>1, <1>2, <2>1, TechnicalVoter DEF Fresh, DeciderTypes
    <2>3. age["technical"] < Never
        BY <1>2, <2>2, PaceType
    <2>4. asks'["intraday"] = asks["intraday"] + 1 /\ since'["intraday"] = 0
        BY <1>1, <1>2, <2>1 DEF DeciderTypes
    <2>5. PICK n \in Nat, i \in Nat \ {0}, t \in Nat, a \in Nat :
            /\ n = asks["intraday"] /\ i = DecisionInterval
            /\ t = Ttl["intraday"] /\ a = age["technical"]
        BY <1>2, <2>2, PaceType
    <2>6. i * n <= a
        <3>1. CASE n = 0
            BY <3>1
        <3>2. CASE n > 0
            <4>1. since["intraday"] + i * (n - 1) <= a
                BY <1>1, <1>2, <2>3, <2>5, <3>2 DEF IntradayPaced
            <4>2. i * (n - 1) = i * n - i /\ i * n \in Nat
                BY TimesType
            <4> QED BY <2>1, <2>2, <2>5, <4>1, <4>2
        <3> QED BY <3>1, <3>2
    <2>7. n <= t \div i /\ t \div i \in Nat
        <3>1. i * n <= t
            <4>1. i * n \in Nat
                BY TimesType
            <4> QED BY <2>2, <2>5, <2>6, <4>1
        <3> QED BY <3>1, FitsInto, DivBelow
    <2>8. DeciderTypes'
        <3>1. asks' \in [Desks -> Nat]
            <4>1. asks["intraday"] + 1 \in Nat /\ asks \in [Desks -> Nat]
                BY <1>1, <2>2 DEF DeciderTypes
            <4> QED BY <2>1, <4>1
        <3>2. since' \in [Desks -> Nat] /\ asking' \in SUBSET Desks
            BY <1>1, <1>2, <2>1 DEF DeciderTypes
        <3> QED BY <1>1, <1>2, <3>1, <3>2 DEF DeciderTypes
    <2>9. IntradayPaced'
        <3>1. asks'["intraday"] <= Ttl["intraday"] \div DecisionInterval + 1
            BY <2>4, <2>5, <2>7
        <3>2. since'["intraday"] + DecisionInterval * (asks'["intraday"] - 1) <= age'["technical"]
            <4>1. asks'["intraday"] - 1 = n
                BY <2>4, <2>5
            <4>2. i * n \in Nat
                BY TimesType
            <4> QED BY <1>2, <2>4, <2>5, <2>6, <4>1, <4>2
        <3> QED BY <3>1, <3>2 DEF IntradayPaced
    <2>10. BtstOnce' /\ OthersSilent'
        <3>1. \A d \in Desks : d # "intraday" => asks'[d] = asks[d]
            BY <1>1, <2>1 DEF DeciderTypes
        <3>2. BtstOnce'
            BY <1>1, <1>2, <3>1 DEF BtstOnce
        <3>3. OthersSilent'
            BY <1>1, <3>1 DEF OthersSilent
        <3> QED BY <3>2, <3>3
    <2> QED BY <2>8, <2>9, <2>10 DEF DecidersInv
<1> QED BY <1>3, <1>4

LEMMA BtstKeeps ==
    ASSUME DecidersInv, Btst
    PROVE  DecidersInv'
<1>1. DeciderTypes /\ IntradayPaced /\ BtstOnce /\ OthersSilent
    BY DEF DecidersInv
<1>2. "btst" \in Desks /\ unread' \in SUBSET Desks /\ UNCHANGED <<day, age, since, restarts>>
    BY <1>1 DEF Btst, DeciderTypes
<1>3. CASE asks' = asks /\ evaluated' = evaluated
    <2>1. asking' = asking \/ asking' = asking \cup {"btst"}
        BY DEF Btst
    <2>2. asking' \in SUBSET Desks
        BY <1>1, <1>2, <2>1 DEF DeciderTypes
    <2> QED BY <1>2, <1>3, <2>2, QuietKeeps
<1>4. CASE ~(asks' = asks /\ evaluated' = evaluated)
    <2>1. /\ evaluated # day /\ evaluated' = day
          /\ asking' = asking \cup {"btst"}
          /\ asks' = [asks EXCEPT !["btst"] = @ + 1]
        BY <1>4 DEF Btst
    <2>2. asks["btst"] \in Nat /\ restarts \in Nat /\ asks["btst"] <= restarts
        BY <1>1, <1>2, <2>1 DEF DeciderTypes, BtstOnce
    <2>3. DeciderTypes'
        <3>1. asks' \in [Desks -> Nat]
            <4>1. asks["btst"] + 1 \in Nat /\ asks \in [Desks -> Nat]
                BY <1>1, <2>2 DEF DeciderTypes
            <4> QED BY <2>1, <4>1
        <3>2. evaluated' \in Nat /\ evaluated' <= day'
            BY <1>1, <1>2, <2>1 DEF DeciderTypes
        <3> QED BY <1>1, <1>2, <2>1, <3>1, <3>2 DEF DeciderTypes
    <2>4. /\ asks'["btst"] = asks["btst"] + 1
          /\ \A d \in Desks : d # "btst" => asks'[d] = asks[d]
        BY <1>1, <1>2, <2>1 DEF DeciderTypes
    <2>5. IntradayPaced'
        BY <1>1, <1>2, <2>4 DEF IntradayPaced, Never, AllVoters
    <2>6. BtstOnce'
        BY <1>2, <2>1, <2>2, <2>4 DEF BtstOnce
    <2>7. OthersSilent'
        BY <1>1, <2>4 DEF OthersSilent
    <2> QED BY <2>3, <2>5, <2>6, <2>7 DEF DecidersInv
<1> QED BY <1>3, <1>4

LEMMA LaterKeeps ==
    ASSUME DecidersInv, Later
    PROVE  DecidersInv'
<1>1. DeciderTypes /\ IntradayPaced /\ BtstOnce /\ OthersSilent
    BY DEF DecidersInv
<1>2. /\ age' = [a \in AllVoters |-> Older(age[a])]
      /\ since' = [d \in Desks |-> Older(since[d])]
      /\ UNCHANGED <<day, unread, evaluated, asking, asks, restarts>>
    BY DEF Later
<1>3. DeciderTypes'
    <2>1. age' \in [AllVoters -> Nat] /\ since' \in [Desks -> Nat]
        BY <1>1, <1>2, OlderType DEF DeciderTypes
    <2> QED BY <1>1, <1>2, <2>1 DEF DeciderTypes
<1>4. IntradayPaced'
    <2> SUFFICES ASSUME "intraday" \in Desks
        PROVE /\ asks["intraday"] <= Ttl["intraday"] \div DecisionInterval + 1
              /\ asks["intraday"] > 0 /\ age'["technical"] < Never =>
                    since'["intraday"] + DecisionInterval * (asks["intraday"] - 1) <= age'["technical"]
        BY <1>2 DEF IntradayPaced, Never, AllVoters
    <2> SUFFICES ASSUME asks["intraday"] > 0, age'["technical"] < Never
        PROVE since'["intraday"] + DecisionInterval * (asks["intraday"] - 1) <= age'["technical"]
        BY <1>1 DEF IntradayPaced
    <2>1. PICK a \in Nat, s \in Nat, n \in Nat, i \in Nat :
            /\ a = age["technical"] /\ s = since["intraday"] /\ n = asks["intraday"]
            /\ i = DecisionInterval
        BY <1>1, TechnicalVoter, PaceType DEF DeciderTypes
    <2>2. age'["technical"] = Older(a) /\ since'["intraday"] = Older(s)
        BY <1>2, <2>1, TechnicalVoter
    <2>3. Older(a) = a + 1 /\ Older(s) <= s + 1 /\ Older(s) \in Nat
        BY <2>2, OlderType
    <2>4. a < Never
        BY <2>2, <2>3, NeverType
    <2>5. s + i * (n - 1) <= a
        BY <1>1, <2>1, <2>4 DEF IntradayPaced
    <2>6. i * (n - 1) \in Int
        BY TimesType
    <2> QED BY <2>1, <2>2, <2>3, <2>5, <2>6
<1>5. BtstOnce' /\ OthersSilent'
    BY <1>1, <1>2 DEF BtstOnce, OthersSilent
<1> QED BY <1>3, <1>4, <1>5 DEF DecidersInv

LEMMA NextDayKeeps ==
    ASSUME DecidersInv, NextDay
    PROVE  DecidersInv'
<1>1. DeciderTypes /\ IntradayPaced /\ BtstOnce /\ OthersSilent
    BY DEF DecidersInv
<1>2. /\ day' = day + 1 /\ age' = [a \in AllVoters |-> Never] /\ since' = [d \in Desks |-> Never]
      /\ asks' = [d \in Desks |-> 0] /\ UNCHANGED <<unread, evaluated, asking, restarts>>
    BY DEF NextDay
<1>3. DeciderTypes'
    <2>1. day' \in Nat \ {0} /\ evaluated' \in Nat /\ evaluated' <= day'
        BY <1>1, <1>2 DEF DeciderTypes
    <2> QED BY <1>1, <1>2, <2>1, NeverType DEF DeciderTypes
<1>4. \A d \in Desks : asks'[d] = 0
    BY <1>2
<1>5. IntradayPaced'
    <2> SUFFICES ASSUME "intraday" \in Desks
        PROVE /\ asks'["intraday"] <= Ttl["intraday"] \div DecisionInterval + 1
              /\ ~(asks'["intraday"] > 0)
        BY DEF IntradayPaced
    <2> QED BY <1>4, PaceType
<1>6. BtstOnce'
    BY <1>3, <1>4 DEF BtstOnce, DeciderTypes
<1>7. OthersSilent'
    BY <1>4 DEF OthersSilent
<1> QED BY <1>3, <1>5, <1>6, <1>7 DEF DecidersInv

LEMMA RestartKeeps ==
    ASSUME DecidersInv, Restart
    PROVE  DecidersInv'
<1>1. DeciderTypes /\ IntradayPaced /\ BtstOnce /\ OthersSilent
    BY DEF DecidersInv
<1>2. /\ age' = [a \in AllVoters |-> Never] /\ since' = [d \in Desks |-> Never]
      /\ unread' = {} /\ asking' = {} /\ evaluated' = 0 /\ restarts' = restarts + 1
      /\ UNCHANGED <<day, asks>>
    BY DEF Restart
<1>3. DeciderTypes'
    <2>1. restarts' \in Nat /\ evaluated' \in Nat /\ evaluated' <= day'
        BY <1>1, <1>2 DEF DeciderTypes
    <2> QED BY <1>1, <1>2, <2>1, NeverType DEF DeciderTypes
<1>4. IntradayPaced'
    <2> SUFFICES ASSUME "intraday" \in Desks
        PROVE /\ asks["intraday"] <= Ttl["intraday"] \div DecisionInterval + 1
              /\ ~(age'["technical"] < Never)
        BY <1>2 DEF IntradayPaced, Never, AllVoters
    <2>1. age'["technical"] = Never
        BY <1>2, TechnicalVoter
    <2> QED BY <1>1, <2>1, NeverType DEF IntradayPaced
<1>5. BtstOnce'
    <2> SUFFICES ASSUME "btst" \in Desks
        PROVE asks["btst"] <= restarts + 1
        <3>1. (IF evaluated' = day' THEN 1 ELSE 0) = 0
            BY <1>1, <1>2 DEF DeciderTypes
        <3> QED BY <1>1, <1>2, <3>1 DEF BtstOnce, DeciderTypes
    <2>1. asks["btst"] \in Nat /\ restarts \in Nat
        BY <1>1 DEF DeciderTypes
    <2> QED BY <1>1, <2>1 DEF BtstOnce
<1>6. OthersSilent'
    BY <1>1, <1>2 DEF OthersSilent
<1> QED BY <1>3, <1>4, <1>5, <1>6 DEF DecidersInv

\* What each agent keeps of the signals and of its questions is consistent, a
\* restart included (intraday_agent.py:65-141, btst_agent.py:65-118).
THEOREM DecidersInvariant == DecidersSpec => []DecidersInv
<1>1. DecidersInv /\ [DecidersNext]_deciderVars => DecidersInv'
    <2> SUFFICES ASSUME DecidersInv, [DecidersNext]_deciderVars PROVE DecidersInv'
        OBVIOUS
    <2>1. DeciderTypes
        BY DEF DecidersInv
    <2>2. CASE UNCHANGED deciderVars
        <3>1. UNCHANGED <<day, age, evaluated, asks, restarts, unread, asking, since>>
            BY <2>2 DEF deciderVars
        <3> QED BY <2>1, <3>1, QuietKeeps DEF DeciderTypes
    <2>3. CASE ChainSnapshot
        <3>1. UNCHANGED <<day, age, evaluated, asks, restarts, unread, asking, since>>
            BY <2>3 DEF ChainSnapshot
        <3> QED BY <2>1, <3>1, QuietKeeps DEF DeciderTypes
    <2>4. CASE Scalp
        <3>1. /\ UNCHANGED <<day, age, evaluated, asks, restarts, asking>>
              /\ "scalping" \in unread /\ unread' = unread \ {"scalping"}
              /\ since' = since \/ since' = Decided("scalping")
            BY <2>4 DEF Scalp
        <3>2. "scalping" \in Desks /\ unread' \in SUBSET Desks /\ asking' \in SUBSET Desks
            BY <2>1, <3>1 DEF DeciderTypes
        <3> QED BY <3>1, <3>2, QuietKeeps
    <2>5. ASSUME NEW d \in asking, NEW trade \in BOOLEAN, Answer(d, trade) PROVE DecidersInv'
        <3>1. /\ UNCHANGED <<day, age, evaluated, asks, restarts, unread, since>>
              /\ asking' = asking \ {d}
            BY <2>5 DEF Answer
        <3>2. unread' \in SUBSET Desks /\ asking' \in SUBSET Desks
            BY <2>1, <3>1 DEF DeciderTypes
        <3> QED BY <3>1, <3>2, QuietKeeps
    <2> QED BY <2>2, <2>3, <2>4, <2>5, SpeakKeeps, IntradayKeeps, BtstKeeps, LaterKeeps,
               NextDayKeeps, RestartKeeps DEF DecidersNext
<1> QED BY <1>1, DecidersStart, PTL DEF DecidersSpec

\* The agents ask their model no more often than interval, life of a signal and
\* once-a-day flag allow (intraday_agent.py:96-141, btst_agent.py:93-138).
THEOREM AlwaysAskedSparingly == DecidersSpec => []AskedSparingly
<1>1. DecidersInv => AskedSparingly
    <2> SUFFICES ASSUME DecidersInv, NEW d \in Desks
        PROVE asks[d] <= restarts + (CASE d = "intraday" -> Ttl["intraday"] \div DecisionInterval + 1
                                       [] d = "btst" -> 1
                                       [] OTHER -> 0)
        BY DEF AskedSparingly, DecidersInv, DeciderTypes
    <2>1. asks[d] \in Nat /\ restarts \in Nat
        BY DEF DecidersInv, DeciderTypes
    <2>2. CASE d = "intraday"
        <3>1. /\ asks[d] <= Ttl["intraday"] \div DecisionInterval + 1
              /\ Ttl["intraday"] \div DecisionInterval \in Nat
            BY <2>2, PaceType DEF DecidersInv, IntradayPaced
        <3> QED BY <2>1, <2>2, <3>1
    <2>3. CASE d = "btst"
        <3>1. asks[d] <= restarts + 1
            BY <2>1, <2>3 DEF DecidersInv, BtstOnce
        <3> QED BY <2>3, <3>1
    <2>4. CASE d \notin {"intraday", "btst"}
        <3>1. asks[d] = 0
            BY <2>4 DEF DecidersInv, OthersSilent
        <3> QED BY <2>1, <2>4, <3>1
    <2> QED BY <2>2, <2>3, <2>4
<1> QED BY <1>1, DecidersInvariant, PTL
-----------------------------------------------------------------------------
(* The books of the volume profile: for any ticks, across any closes.          *)

ProfileSpec == ProfileInit /\ [][ProfileNext]_profileVars

\* What is counted at each of finitely many prices.
Counts(f) == IsFiniteSet(DOMAIN f) /\ f \in [DOMAIN f -> Int]

\* A price has one level.
Levels(s) == /\ s \in Seq(Int \X Int)
             /\ \A i, j \in DOMAIN s : s[i][1] = s[j][1] => i = j

PricesOf(s) == {e[1] : e \in ToSet(s)}

\* Why the books agree: a price has one level, so that what is put at a price is
\* added once; and all books start again at the same ticks.
ProfileInv ==
    /\ Levels(vap) /\ Counts(buyAt) /\ Counts(sellAt) /\ Counts(tpo)
    /\ volume \in Int /\ vwapNum \in Int
    /\ ProfileBooksAgree

LEMMA PlusAdds ==
    ASSUME NEW f, Counts(f), NEW p \in Int, NEW n \in Int
    PROVE  LET g == Plus(f, p, n)
           IN  /\ Counts(g) /\ DOMAIN g = DOMAIN f \cup {p}
               /\ SumFunction(g) = SumFunction(f) + n
<1> DEFINE S == DOMAIN f
           g == Plus(f, p, n)
<1>1. IsFiniteSet(S) /\ f \in [S -> Int]
    BY DEF Counts
<1>2. SumFunction(f) \in Int
    BY <1>1, SumType
<1>3. CASE p \in S
  <2>1. g \in [S -> Int] /\ g[p] = f[p] + n /\ \A q \in S : q # p => g[q] = f[q]
      BY <1>1, <1>3 DEF Plus
  <2>2. f[p] \in Int /\ DOMAIN g = S
      BY <1>1, <1>3, <2>1
  <2> HIDE DEF S, g
  <2>3. SumFunction(g) = SumFunction(f) - f[p] + g[p]
      BY <1>1, <1>3, <2>1, SumChanged
  <2>4. SumFunction(g) = SumFunction(f) + n
      BY <1>2, <2>1, <2>2, <2>3
  <2> QED BY <1>1, <1>3, <2>1, <2>2, <2>4 DEF S, g, Counts
<1>4. CASE p \notin S
  <2>1. g \in [S \cup {p} -> Int] /\ g[p] = n /\ \A q \in S : g[q] = f[q]
      BY <1>1, <1>4 DEF Plus
  <2>2. IsFiniteSet(S \cup {p}) /\ DOMAIN g = S \cup {p}
      BY <1>1, <2>1, FS_AddElement
  <2> HIDE DEF S, g
  <2>3. Extends(g, f, S, p)
      BY <1>1, <1>4, <2>1 DEF Extends
  <2>4. SumFunction(g) = SumFunction(f) + g[p]
      BY <1>1, <2>3, SumOneMore
  <2> QED BY <2>1, <2>2, <2>4 DEF S, g, Counts
<1> QED BY <1>3, <1>4

Sizes(s) == [i \in DOMAIN s |-> s[i][2]]

LEMMA SizesOf ==
    ASSUME NEW s, Levels(s)
    PROVE  /\ Sizes(s) \in Seq(Int) /\ TotalOf(s) = SumFunction(Sizes(s))
           /\ DOMAIN s = 1 .. Len(s) /\ IsFiniteSet(DOMAIN s) /\ Len(s) \in Nat
           /\ Sizes(s) \in [DOMAIN s -> Int]
           /\ \A i \in DOMAIN s : s[i] \in Int \X Int
<1> DEFINE P == Int \X Int
<1>1. s \in Seq(P)
    BY DEF Levels
<1>2. \A x \in P : x[2] \in Int
    OBVIOUS
<1> HIDE DEF P
<1>3. Len(s) \in Nat /\ DOMAIN s = 1 .. Len(s) /\ \A i \in DOMAIN s : s[i] \in P
    BY <1>1
<1>4. IsFiniteSet(1 .. Len(s))
  <2>1. 1 \in Int /\ Len(s) \in Int
      BY <1>3
  <2> QED BY <2>1, FS_Interval
<1>5. Sizes(s) \in [1 .. Len(s) -> Int]
    BY <1>2, <1>3 DEF Sizes
<1>6. Sizes(s) \in Seq(Int)
    BY <1>3, <1>5
<1> QED BY <1>3, <1>4, <1>5, <1>6 DEF TotalOf, Sizes, P

LEMMA PutAtAdds ==
    ASSUME NEW s, Levels(s), NEW p \in Int, NEW n \in Int
    PROVE  LET t == PutAt(s, p, n)
           IN  /\ Levels(t) /\ PricesOf(t) = PricesOf(s) \cup {p}
               /\ TotalOf(t) = TotalOf(s) + n
<1> DEFINE t == PutAt(s, p, n)
           P == Int \X Int
           S == DOMAIN s
<1>1. /\ Sizes(s) \in Seq(Int) /\ TotalOf(s) = SumFunction(Sizes(s))
      /\ S = 1 .. Len(s) /\ IsFiniteSet(S) /\ Len(s) \in Nat /\ Sizes(s) \in [S -> Int]
      /\ \A i \in S : s[i] \in P
    BY SizesOf
<1>2. \A x \in P : x[1] \in Int /\ x[2] \in Int
    OBVIOUS
<1>3. <<p, n>> \in P /\ <<p, n>>[1] = p /\ <<p, n>>[2] = n
    OBVIOUS
<1>4. PricesOf(s) = {s[i][1] : i \in S}
    BY DEF PricesOf, ToSet
<1>5. CASE \E i \in S : s[i][1] = p
  <2>1. PICK k \in S : s[k][1] = p
      BY <1>5
  <2>2. \A i \in S : s[i][1] = p => i = k
      BY <2>1 DEF Levels
  <2>3. t = [i \in S |-> IF s[i][1] = p THEN <<p, s[i][2] + n>> ELSE s[i]]
      BY <1>5 DEF PutAt
  <2>4. /\ DOMAIN t = S /\ t[k] = <<p, s[k][2] + n>>
        /\ \A i \in S : i # k => t[i] = s[i]
      BY <2>1, <2>2, <2>3
  <2>5. s[k][2] + n \in Int /\ t[k] \in P /\ t[k][1] = p /\ t[k][2] = s[k][2] + n
      BY <1>1, <1>2, <2>1, <2>4
  <2> HIDE DEF t, P
  <2>6. t \in [1 .. Len(s) -> P]
    <3>1. \A i \in S : t[i] \in P
        BY <1>1, <2>4, <2>5
    <3>2. t = [i \in S |-> t[i]]
        BY <2>3
    <3> QED BY <1>1, <3>1, <3>2
  <2>7. t \in Seq(P)
      BY <1>1, <2>6
  <2>8. \A i \in S : t[i][1] = s[i][1]
      BY <2>1, <2>4, <2>5
  <2>9. Levels(t)
      BY <2>4, <2>7, <2>8 DEF Levels, P
  <2>10. PricesOf(t) = PricesOf(s) \cup {p}
    <3>1. PricesOf(t) = {t[i][1] : i \in S}
        BY <2>4 DEF PricesOf, ToSet
    <3> QED BY <1>4, <2>1, <2>8, <3>1
  <2>11. SumFunction(Sizes(t)) = SumFunction(Sizes(s)) - Sizes(s)[k] + Sizes(t)[k]
    <3>1. Sizes(t) \in [S -> Int]
        BY <2>4, <2>9, SizesOf
    <3>2. \A i \in S : i # k => Sizes(t)[i] = Sizes(s)[i]
        BY <2>4 DEF Sizes
    <3> HIDE DEF S
    <3> QED BY <1>1, <2>1, <3>1, <3>2, SumChanged
  <2>12. Sizes(s)[k] = s[k][2] /\ Sizes(t)[k] = s[k][2] + n /\ s[k][2] \in Int
      BY <1>1, <1>2, <2>1, <2>4, <2>5 DEF Sizes
  <2>13. TotalOf(t) = SumFunction(Sizes(t))
      BY <2>9, SizesOf
  <2>14. SumFunction(Sizes(s)) \in Int
      BY <1>1, SumType
  <2> QED BY <1>1, <2>9, <2>10, <2>11, <2>12, <2>13, <2>14 DEF t
<1>6. CASE ~\E i \in S : s[i][1] = p
  <2> DEFINE e == <<p, n>>
  <2>1. t = Append(s, e)
      BY <1>6 DEF PutAt
  <2>2. s \in Seq(P) /\ e \in P /\ e[1] = p /\ e[2] = n
      BY <1>3 DEF Levels
  <2> HIDE DEF P, e
  <2>3. /\ t \in Seq(P) /\ DOMAIN t = S \cup {Len(s) + 1} /\ t[Len(s) + 1] = e
        /\ Len(t) = Len(s) + 1 /\ \A i \in S : t[i] = s[i]
      BY <1>1, <2>1, <2>2
  <2>4. Levels(t)
    <3> SUFFICES ASSUME NEW i \in DOMAIN t, NEW j \in DOMAIN t, t[i][1] = t[j][1]
                 PROVE  i = j
        BY <2>3 DEF Levels, P
    <3> QED BY <1>6, <2>2, <2>3 DEF Levels
  <2>5. PricesOf(t) = PricesOf(s) \cup {p}
    <3>1. PricesOf(t) = {t[i][1] : i \in DOMAIN t}
        BY DEF PricesOf, ToSet
    <3> QED BY <1>4, <2>2, <2>3, <3>1
  <2>6. Sizes(t) = Append(Sizes(s), n)
    <3>1. Len(Sizes(s)) = Len(s) /\ DOMAIN Sizes(s) = S
        BY <1>1 DEF Sizes
    <3>2. Sizes(t) \in Seq(Int) /\ Append(Sizes(s), n) \in Seq(Int)
        BY <1>1, <2>4, SizesOf
    <3>3. DOMAIN Sizes(t) = DOMAIN t /\ DOMAIN Append(Sizes(s), n) = 1 .. Len(s) + 1
        BY <1>1, <3>1 DEF Sizes
    <3>4. DOMAIN t = 1 .. Len(s) + 1
        BY <2>3
    <3>5. \A i \in 1 .. Len(s) + 1 : Sizes(t)[i] = Append(Sizes(s), n)[i]
        BY <1>1, <2>2, <2>3, <3>1, <3>4 DEF Sizes
    <3> QED BY <3>2, <3>3, <3>4, <3>5
  <2>7. TotalOf(t) = SumFunction(Append(Sizes(s), n))
      BY <2>4, <2>6, SizesOf
  <2> QED BY <1>1, <2>4, <2>5, <2>7, SumAppend DEF t
<1> QED BY <1>5, <1>6

\* Books that hold nothing.
LEMMA Blank ==
    /\ Counts(<<>>) /\ DOMAIN <<>> = {} /\ SumFunction(<<>>) = 0
    /\ Levels(<<>>) /\ PricesOf(<<>>) = {} /\ TotalOf(<<>>) = 0
<1>1. <<>> \in Seq(Int) /\ <<>> \in Seq(Int \X Int) /\ DOMAIN <<>> = {} /\ <<>> \in [{} -> Int]
    OBVIOUS
<1>2. IsFiniteSet({})
    BY FS_EmptySet
<1>3. Levels(<<>>)
    BY <1>1 DEF Levels
<1>4. Sizes(<<>>) \in [{} -> Int]
    BY <1>1 DEF Sizes
<1>5. TotalOf(<<>>) = 0
    BY <1>3, <1>4, SizesOf, SumEmpty
<1> QED BY <1>1, <1>2, <1>3, <1>5, SumNothing DEF Counts, PricesOf, ToSet

LEMMA InitProfile ==
    ASSUME ProfileInit
    PROVE  ProfileInv
<1>1. /\ vap = <<>> /\ buyAt = <<>> /\ sellAt = <<>> /\ tpo = <<>>
      /\ volume = 0 /\ vwapNum = 0 /\ anchorVolume = 0 /\ anchorNum = 0
    BY DEF ProfileInit
<1>2. Levels(vap) /\ Counts(buyAt) /\ Counts(sellAt) /\ Counts(tpo)
    BY <1>1, Blank
<1>3. TotalOf(vap) = 0 /\ SumFunction(buyAt) = 0 /\ SumFunction(sellAt) = 0
    BY <1>1, Blank
<1>4. {e[1] : e \in ToSet(vap)} = DOMAIN tpo
    BY <1>1, Blank DEF PricesOf
<1>5. SumFunction(buyAt) + SumFunction(sellAt) = volume
    BY <1>1, <1>3
<1>6. TotalOf(vap) = volume
    BY <1>1, <1>3
<1>7. ProfileBooksAgree
    BY <1>1, <1>4, <1>5, <1>6 DEF ProfileBooksAgree
<1> QED BY <1>1, <1>2, <1>7 DEF ProfileInv

\* The books after a close, which all start again or all go on.
LEMMA AfterClose ==
    ASSUME ProfileInv, NEW ts
    PROVE  LET v == RenewedMap(vap, ts)
               b == RenewedMap(buyAt, ts)
               l == RenewedMap(sellAt, ts)
               c == RenewedMap(tpo, ts)
           IN  /\ Levels(v) /\ Counts(b) /\ Counts(l) /\ Counts(c)
               /\ TotalOf(v) = Renewed(volume, ts)
               /\ SumFunction(b) + SumFunction(l) = Renewed(volume, ts)
               /\ PricesOf(v) = DOMAIN c
               /\ Renewed(volume, ts) \in Int
               /\ Renewed(volume, ts) = Renewed(anchorVolume, ts)
               /\ Renewed(vwapNum, ts) = Renewed(anchorNum, ts)
               /\ Renewed(vwapNum, ts) \in Int
<1>1. CASE Crosses(ts)
    BY <1>1, Blank DEF RenewedMap, Renewed
<1>2. CASE ~Crosses(ts)
    BY <1>2 DEF RenewedMap, Renewed, ProfileInv, ProfileBooksAgree, PricesOf
<1> QED BY <1>1, <1>2

\* What a tick trades is bought, sold, or shared between the two.
LEMMA Shared ==
    ASSUME NEW t \in ProfileTicks
    PROVE  /\ t.p \in Int /\ t.v \in Nat /\ Bucket(t.p) \in Int
           /\ SideShare(t)[1] \in Int /\ SideShare(t)[2] \in Int
           /\ SideShare(t)[1] + SideShare(t)[2] = 2 * t.v
<1>1. t.p \in Int /\ t.v \in Nat
    BY ProfileAssumption
<1>2. 5 \in Int /\ t.p + 2 \in Int
    BY <1>1
<1>3. (t.p + 2) \div 5 \in Int
    BY <1>2
<1>4. SideShare(t) \in {<<2 * t.v, 0>>, <<0, 2 * t.v>>, <<t.v, t.v>>}
    BY DEF SideShare
<1>5. /\ SideShare(t)[1] \in Int /\ SideShare(t)[2] \in Int
      /\ SideShare(t)[1] + SideShare(t)[2] = 2 * t.v
    BY <1>1, <1>4
<1> QED BY <1>1, <1>3, <1>5 DEF Bucket

LEMMA TickProfile ==
    ASSUME ProfileInv, NEW ts, NEW t \in ProfileTicks, ProfileTick(ts, t)
    PROVE  ProfileInv'
<1> DEFINE b == Bucket(t.p)
           s1 == SideShare(t)[1]
           s2 == SideShare(t)[2]
           v == RenewedMap(vap, ts)
           f == RenewedMap(buyAt, ts)
           g == RenewedMap(sellAt, ts)
           c == RenewedMap(tpo, ts)
           n == Renewed(volume, ts)
<1>1. /\ t.p \in Int /\ t.v \in Nat /\ b \in Int /\ s1 \in Int /\ s2 \in Int /\ s1 + s2 = 2 * t.v
      /\ 2 * t.v \in Int
    BY Shared
<1>2. /\ Levels(v) /\ Counts(f) /\ Counts(g) /\ Counts(c)
      /\ TotalOf(v) = n /\ SumFunction(f) + SumFunction(g) = n
      /\ PricesOf(v) = DOMAIN c /\ n \in Int
      /\ n = Renewed(anchorVolume, ts)
      /\ Renewed(vwapNum, ts) = Renewed(anchorNum, ts) /\ Renewed(vwapNum, ts) \in Int
    BY AfterClose
<1>3. /\ vap' = PutAt(v, b, 2 * t.v) /\ tpo' = Plus(c, b, 1)
      /\ buyAt' = IF t.v > 0 THEN Plus(f, b, s1) ELSE f
      /\ sellAt' = IF t.v > 0 THEN Plus(g, b, s2) ELSE g
    BY DEF ProfileTick
<1>4. /\ volume' = n + 2 * t.v /\ anchorVolume' = Renewed(anchorVolume, ts) + 2 * t.v
      /\ vwapNum' = Renewed(vwapNum, ts) + 2 * t.v * t.p
      /\ anchorNum' = Renewed(anchorNum, ts) + 2 * t.v * t.p
    BY DEF ProfileTick
<1> HIDE DEF b, s1, s2, v, f, g, c, n
<1>5. /\ Levels(vap') /\ TotalOf(vap') = n + 2 * t.v /\ PricesOf(vap') = PricesOf(v) \cup {b}
    BY <1>1, <1>2, <1>3, PutAtAdds
<1>6. Counts(tpo') /\ DOMAIN tpo' = DOMAIN c \cup {b}
  <2> DEFINE one == 1
  <2>1. one \in Int /\ Counts(c) /\ b \in Int /\ tpo' = Plus(c, b, one)
      BY <1>1, <1>2, <1>3
  <2> HIDE DEF one
  <2>2. Counts(tpo') /\ DOMAIN tpo' = DOMAIN c \cup {b}
      BY <2>1, PlusAdds
  <2> QED BY <2>2 DEF one
<1>7. /\ SumFunction(f) \in Int /\ SumFunction(g) \in Int
    BY <1>2, SumType DEF Counts
<1>8. /\ Counts(buyAt') /\ Counts(sellAt')
      /\ SumFunction(buyAt') + SumFunction(sellAt') = n + 2 * t.v
  <2>1. CASE t.v > 0
    <3>1. Counts(buyAt') /\ SumFunction(buyAt') = SumFunction(f) + s1
        BY <1>1, <1>2, <1>3, <2>1, PlusAdds
    <3>2. Counts(sellAt') /\ SumFunction(sellAt') = SumFunction(g) + s2
        BY <1>1, <1>2, <1>3, <2>1, PlusAdds
    <3> QED BY <1>1, <1>2, <1>7, <3>1, <3>2
  <2>2. CASE ~(t.v > 0)
    <3>1. t.v = 0 /\ buyAt' = f /\ sellAt' = g
        BY <1>1, <1>3, <2>2
    <3> QED BY <1>2, <3>1
  <2> QED BY <2>1, <2>2
<1>9. /\ volume' \in Int /\ volume' = anchorVolume' /\ vwapNum' = anchorNum'
      /\ vwapNum' \in Int
  <2>1. 2 * t.v * t.p \in Int
      BY <1>1
  <2> QED BY <1>1, <1>2, <1>4, <2>1
<1>10. ProfileBooksAgree'
  <2>1. TotalOf(vap)' = volume'
      BY <1>2, <1>4, <1>5
  <2>2. (SumFunction(buyAt) + SumFunction(sellAt) = volume)'
      BY <1>4, <1>8
  <2>3. ({e[1] : e \in ToSet(vap)} = DOMAIN tpo)'
      BY <1>2, <1>5, <1>6 DEF PricesOf
  <2> QED BY <1>9, <2>1, <2>2, <2>3 DEF ProfileBooksAgree
<1> QED BY <1>5, <1>6, <1>8, <1>9, <1>10 DEF ProfileInv

\* The books of the volume profile at every moment
\* (volume_profile_agent.py:79-103, 199-230).
THEOREM ProfileInvariant == ProfileSpec => []ProfileInv
<1>1. ASSUME ProfileInv, [ProfileNext]_profileVars
      PROVE  ProfileInv'
  <2>1. CASE ProfileNext
      BY <1>1, <2>1, TickProfile DEF ProfileNext
  <2>2. CASE UNCHANGED profileVars
      BY <1>1, <2>2 DEF profileVars, sums, ProfileInv, ProfileBooksAgree
  <2> QED BY <1>1, <2>1, <2>2
<1> QED BY <1>1, InitProfile, PTL DEF ProfileSpec

\* The volume at the prices, the cumulative and the anchored volume, purchases and
\* sales tell one story, and both tables list the same prices, across closes
\* (volume_profile_agent.py:79-103, 219-230).
THEOREM ProfileAlwaysAgrees == ProfileSpec => []ProfileBooksAgree
<1>1. ProfileInv => ProfileBooksAgree
    BY DEF ProfileInv
<1> QED BY <1>1, ProfileInvariant, PTL


-----------------------------------------------------------------------------
(* The charts of the technical specialist.                                     *)

Sides == {-1, 0, 1}
LEMMA SideOfType == \A up, down : SideOf(up, down) \in Sides
  BY DEF SideOf, Sides

\* Whatever the prices, every indicator gives a whole number of points.
LEMMA StructureType == \A c : Structure(c)[1] \in Int /\ Structure(c)[2] \in Int
<1> SUFFICES ASSUME NEW hi, NEW lo
             PROVE  StructureOf(hi, lo)[1] \in Int /\ StructureOf(hi, lo)[2] \in Int
    BY DEF Structure
<1>1. \A s, k : Step(s, k) \in Sides
    BY SideOfType DEF Step
<1>2. \A a, b \in Sides : Both(a, b) \in Sides
    BY DEF Both, Sides
<1>3. \A b, x, y : Turn(b, x, y) \in Sides
    BY SideOfType DEF Turn
<1> DEFINE trend == Both(Step(hi, 0), Step(lo, 0))
           turn == Turn(Both(Step(hi, 1), Step(lo, 1)), Step(hi, 0), Step(lo, 0))
<1>4. trend \in Sides /\ turn \in Sides
    BY <1>1, <1>2, <1>3
<1>5. StructureOf(hi, lo) \in {<<0, 0>>, <<3 * trend, 0>>, <<3 * trend, 2 * trend>>, <<0, 3 * turn>>}
    BY DEF StructureOf
<1> HIDE DEF trend, turn
<1>6. trend \in Int /\ turn \in Int
    BY <1>4 DEF Sides
<1> QED BY <1>5, <1>6

LEMMA PointsType == \A c : Points(c) \in [1 .. 8 -> Int]
<1> SUFFICES ASSUME NEW c, NEW v
             PROVE  PointsOf(c, v) \in [1 .. 8 -> Int]
    BY DEF Points
<1>1. Stack(v) \in Int
    BY SideOfType DEF Stack, Stacked, Sides
<1>2. Strength(v) \in Int
    BY SideOfType DEF Strength, Sides
<1>3. Pivoted(c[1], Last(v)) \in Int
    BY SideOfType DEF Pivoted, Sides
<1>4. Camarilla(c[1], Last(v)) \in Int
    BY SideOfType DEF Camarilla, Sides
<1>5. Divergence20(v) \in Int
  <2>1. \A w, r, low, high : Parted(w, r, low, high) \in Sides
      BY SideOfType DEF Parted
  <2>2. Divergence20(v) \in Sides
      BY <2>1 DEF Divergence20, Sides
  <2> QED BY <2>2 DEF Sides
<1>6. Gap(c) \in Int
    BY SideOfType DEF Gap, Sides
<1> DEFINE a == 4 * Stack(v)
           b == 2 * Strength(v)
           p == 2 * Pivoted(c[1], Last(v))
           q == 2 * Camarilla(c[1], Last(v))
           d == 4 * Divergence20(v)
           g == 2 * Gap(c)
<1>7. a \in Int /\ b \in Int /\ p \in Int /\ q \in Int /\ d \in Int /\ g \in Int
    BY <1>1, <1>2, <1>3, <1>4, <1>5, <1>6
<1>8. PointsOf(c, v) = <<a, b, p, q, Structure(c)[1], Structure(c)[2], d, g>>
    BY DEF PointsOf
<1> HIDE DEF a, b, p, q, d, g
<1> QED BY <1>7, <1>8, StructureType

LEMMA GainedType ==
    ASSUME NEW points \in [1 .. 8 -> Int], NEW side \in {-1, 1}
    PROVE  Gained(points, side) \in Nat
<1> DEFINE f == [i \in 1 .. 8 |-> Max({0, side * points[i]})]
<1>1. Gained(points, side) = SumFunction(f)
    BY DEF Gained
<1>2. \A i \in 1 .. 8 : f[i] \in Nat
  <2> SUFFICES ASSUME NEW i \in 1 .. 8 PROVE Max({0, side * points[i]}) \in Nat
      OBVIOUS
  <2>1. side * points[i] \in Int
      OBVIOUS
  <2> QED BY <2>1, TwoMax
<1>3. f \in [1 .. 8 -> Nat]
    BY <1>2
<1>4. IsFiniteSet(1 .. 8)
  <2>1. 1 \in Int /\ 8 \in Int
      OBVIOUS
  <2> QED BY <2>1, FS_Interval
<1> HIDE DEF f
<1> QED BY <1>1, <1>3, <1>4, SumNatural

\* A chart is never more than 90 % sure.
AtMostSure(c) == c \in 0 .. 9000
LEMMA ConfidenceType ==
    ASSUME NEW n, n \in Nat, NEW all, all \in Nat
    PROVE  AtMostSure(Confidence(n, all))
<1> DEFINE more == (5000 * n) \div (all + 4)
           sum == 4000 + more
<1>1. 5000 * n \in Nat /\ all + 4 \in Nat \ {0}
    OBVIOUS
<1>2. more \in Nat
    BY <1>1, DivBelow
<1>3. Confidence(n, all) = Min({9000, sum})
    BY DEF Confidence
<1> HIDE DEF more
<1>4. sum \in Nat
    BY <1>2
<1> HIDE DEF sum
<1>5. 9000 \in Int /\ sum \in Int
    BY <1>4
<1>6. Min({9000, sum}) = IF 9000 <= sum THEN 9000 ELSE sum
    BY <1>5, TwoMax
<1> DEFINE least == Min({9000, sum})
<1>7. Confidence(n, all) = least /\ least = IF 9000 <= sum THEN 9000 ELSE sum
    BY <1>3, <1>6
<1> HIDE DEF least
<1>8. least \in 0 .. 9000
    BY <1>4, <1>7
<1> QED BY <1>7, <1>8 DEF AtMostSure

LEMMA VerdictType ==
    \A c : ChartVerdict(c).dir \in Sides /\ AtMostSure(ChartVerdict(c).conf)
<1> SUFFICES ASSUME NEW bull, bull \in Nat, NEW bear, bear \in Nat
             PROVE  VerdictOf(bull, bear).dir \in Sides /\ AtMostSure(VerdictOf(bull, bear).conf)
  <2>1. \A c : Gained(Points(c), 1) \in Nat /\ Gained(Points(c), -1) \in Nat
      BY PointsType, GainedType
  <2>2. \A c : ChartVerdict(c) = VerdictOf(Gained(Points(c), 1), Gained(Points(c), -1))
      BY DEF ChartVerdict, Judged
  <2> QED BY <2>1, <2>2
<1> DEFINE all == bull + bear
           b == Confidence(bull, all)
           s == Confidence(bear, all)
<1>1. all \in Nat
    OBVIOUS
<1>2. VerdictOf(bull, bear) \in {[dir |-> 0, conf |-> 3000], [dir |-> 0, conf |-> 3500],
                                 [dir |-> 1, conf |-> b], [dir |-> -1, conf |-> s]}
    BY DEF VerdictOf
<1> HIDE DEF all, b, s
<1>3. AtMostSure(b) /\ AtMostSure(s)
    BY <1>1, ConfidenceType DEF b, s
<1> DEFINE v == VerdictOf(bull, bear)
<1>4. v.dir \in {-1, 0, 1} /\ (v.conf = 3000 \/ v.conf = 3500 \/ v.conf = b \/ v.conf = s)
    BY <1>2
<1> HIDE DEF v
<1>5. AtMostSure(3000) /\ AtMostSure(3500)
    BY DEF AtMostSure
<1>6. AtMostSure(v.conf)
    BY <1>3, <1>4, <1>5
<1> QED BY <1>4, <1>6 DEF Sides, v

\* What any charts may say of which one at least is slow.
SlowOf(verdict) == DOMAIN verdict \ {"m1"}
Verdicts(verdict) ==
    /\ DOMAIN verdict \subseteq {"m1", "m5", "m15"} /\ SlowOf(verdict) # {}
    /\ \A tf \in DOMAIN verdict : verdict[tf].dir \in Sides /\ AtMostSure(verdict[tf].conf)

\* The weights of the charts: a slow one has 4, and the one-minute chart 2.
LEMMA WeightOf ==
    ASSUME NEW verdict, Verdicts(verdict)
    PROVE  LET total == SumFunction([tf \in DOMAIN verdict |-> TimeframeWeights[tf]])
           IN  /\ total \in Nat /\ total >= 4
               /\ "m1" \in DOMAIN verdict => total >= 6
               /\ IsFiniteSet(DOMAIN verdict)
<1> DEFINE D == DOMAIN verdict
           w == [tf \in D |-> TimeframeWeights[tf]]
<1>1. IsFiniteSet(D)
  <2> DEFINE a == "m1"
             b == "m5"
             c == "m15"
  <2> HIDE DEF a, b, c
  <2>1. IsFiniteSet({a})
      BY FS_Singleton
  <2>2. IsFiniteSet(({a} \cup {b}) \cup {c})
      BY <2>1, FS_AddElement
  <2>3. D \subseteq ({a} \cup {b}) \cup {c}
      BY DEF Verdicts, a, b, c
  <2> QED BY <2>2, <2>3, FS_Subset
<1>2. /\ w \in [D -> Nat] /\ \A tf \in SlowOf(verdict) : tf \in D /\ tf # "m1" /\ w[tf] = 4
      /\ "m1" \in D => w["m1"] = 2
    BY DEF TimeframeWeights, Verdicts, SlowOf
<1> HIDE DEF w
<1>3. PICK s : s \in SlowOf(verdict)
    BY DEF Verdicts
<1> DEFINE r == [w EXCEPT ![s] = 0]
<1>4. /\ r \in [D -> Nat] /\ SumFunction(w) = 4 + SumFunction(r) /\ SumFunction(r) \in Nat
    BY <1>1, <1>2, <1>3, SumZeroed
<1>5. ASSUME "m1" \in D PROVE r["m1"] = 2
    BY <1>2, <1>3, <1>5
<1> HIDE DEF r
<1>6. ASSUME "m1" \in D PROVE SumFunction(r) >= 2
  <2> DEFINE m == "m1"
             q == SumFunction([r EXCEPT ![m] = 0])
  <2>1. m \in D /\ r[m] = 2
      BY <1>5, <1>6
  <2>3. IsFiniteSet(D) /\ r \in [D -> Nat]
      BY <1>1, <1>4
  <2> HIDE DEF m, D
  <2>2. SumFunction(r) = r[m] + q /\ q \in Nat
      BY <2>1, <2>3, SumZeroed
  <2> HIDE DEF q
  <2> QED BY <2>1, <2>2
<1> QED BY <1>1, <1>4, <1>6 DEF w

\* A side that only the one-minute chart may vote for is too weak.
LEMMA MinuteVotes ==
    ASSUME NEW verdict, Verdicts(verdict), NEW side \in {-1, 1},
           \A tf \in SlowOf(verdict) : verdict[tf].dir # side
    PROVE  /\ Votes(verdict, side) \in Int
           /\ Votes(verdict, side) <= 18000
           /\ "m1" \notin DOMAIN verdict => Votes(verdict, side) = 0
<1> DEFINE D == DOMAIN verdict
           g == [tf \in D |-> IF verdict[tf].dir = side
                              THEN TimeframeWeights[tf] * verdict[tf].conf ELSE 0]
<1>1. Votes(verdict, side) = SumFunction(g) /\ IsFiniteSet(D)
    BY WeightOf DEF Votes
<1>2. \A y \in D : y # "m1" => g[y] = 0
    BY DEF SlowOf
<1>3. CASE "m1" \notin D
  <2>1. g = [tf \in D |-> 0]
      BY <1>2, <1>3
  <2>2. SumFunction(g) = 0
      BY <1>1, <2>1, SumZero
  <2> QED BY <1>1, <1>3, <2>2
<1>4. CASE "m1" \in D
  <2> DEFINE sure == verdict["m1"].conf
  <2>1. sure \in 0 .. 9000
      BY <1>4 DEF Verdicts, AtMostSure
  <2>2. g["m1"] \in {0, 2 * sure}
      BY <1>4 DEF TimeframeWeights
  <2>7. g = [y \in D |-> g[y]]
      OBVIOUS
  <2> HIDE DEF sure, g
  <2>6. 2 * sure \in Int /\ 2 * sure <= 18000
    <3> DEFINE T == 0 .. 9000
    <3>1. \A n \in T : 2 * n \in Int /\ 2 * n <= 18000
        OBVIOUS
    <3>2. sure \in T
        BY <2>1
    <3> HIDE DEF T
    <3> QED BY <3>1, <3>2
  <2>3. g["m1"] \in Int /\ g["m1"] <= 18000
      BY <2>2, <2>6
  <2>4. g \in [D -> Int]
      BY <1>2, <2>3, <2>7
  <2>5. SumFunction(g) = g["m1"]
      BY <1>1, <1>2, <1>4, <2>4, SumOne
  <2> QED BY <1>1, <1>4, <2>3, <2>5
<1> QED BY <1>3, <1>4

LEMMA SlowVerdictWins ==
    ASSUME NEW verdict, Verdicts(verdict), Weigh(verdict).dir # 0
    PROVE  \E tf \in SlowOf(verdict) : verdict[tf].dir = Weigh(verdict).dir
<1> DEFINE total == SumFunction([tf \in DOMAIN verdict |-> TimeframeWeights[tf]])
           up == Votes(verdict, 1)
           down == Votes(verdict, -1)
<1>1. Weigh(verdict) = Decision(up, down, total)
    BY DEF Weigh
<1>2. /\ total \in Nat /\ total >= 4
      /\ "m1" \in DOMAIN verdict => total >= 6
    BY WeightOf
<1> DEFINE NoSlow(side) == \A tf \in SlowOf(verdict) : verdict[tf].dir # side
<1>3. NoSlow(1) => up \in Int /\ up <= 18000 /\ ("m1" \notin DOMAIN verdict => up = 0)
    BY MinuteVotes
<1>4. NoSlow(-1) => down \in Int /\ down <= 18000 /\ ("m1" \notin DOMAIN verdict => down = 0)
    BY MinuteVotes
<1> HIDE DEF total, up, down
<1>5. \/ Weigh(verdict).dir = 1 /\ up > 4000 * total
      \/ Weigh(verdict).dir = -1 /\ down > 4000 * total
    BY <1>1 DEF Decision
<1>6. ~(NoSlow(1) /\ up > 4000 * total)
    BY <1>2, <1>3
<1>7. ~(NoSlow(-1) /\ down > 4000 * total)
    BY <1>2, <1>4
<1> QED BY <1>5, <1>6, <1>7

\* Whatever the charts hold, the fifteen-minute chart included.
LEMMA CombinedSlowly ==
    ASSUME NEW ch, DOMAIN ch = DOMAIN Frames, SlowCharts(ch) # {}, Combined(ch).dir # 0
    PROVE  \E tf \in SlowCharts(ch) : ChartVerdict(ch[tf]).dir = Combined(ch).dir
<1> DEFINE D == Charted(ch)
           verdict == [tf \in D |-> ChartVerdict(ch[tf])]
<1>1. D \subseteq {"m1", "m5", "m15"} /\ SlowOf(verdict) = SlowCharts(ch)
    BY TechnicalAssumption DEF Charted, SlowOf, SlowCharts
<1>2. Combined(ch) = Weigh(verdict)
    BY DEF Combined, SlowCharts
<1>3. Verdicts(verdict) /\ \A tf \in SlowCharts(ch) : verdict[tf] = ChartVerdict(ch[tf])
    BY <1>1, VerdictType DEF Verdicts, SlowCharts
<1> HIDE DEF verdict
<1>4. \E tf \in SlowOf(verdict) : verdict[tf].dir = Weigh(verdict).dir
    BY <1>2, <1>3, SlowVerdictWins
<1> QED BY <1>1, <1>2, <1>3, <1>4

TechnicalInv == DOMAIN chart = DOMAIN Frames /\ SlowChartDecides

TechnicalSpec == TechInit /\ [][TechNext]_techVars

\* The charts stay those of the feed and the signal is of the charts there are
\* (technical_agent.py:198-238).
THEOREM TechnicalInvariant == TechnicalSpec => []TechnicalInv
<1>1. TechInit => TechnicalInv
    BY DEF TechInit, TechnicalInv, SlowChartDecides
<1>2. TechnicalInv /\ [TechNext]_techVars => TechnicalInv'
  <2> SUFFICES ASSUME TechnicalInv, [TechNext]_techVars PROVE TechnicalInv'
      OBVIOUS
  <2>1. CASE Market
      BY <2>1 DEF Market, TechnicalInv, SlowChartDecides
  <2>2. CASE Candle
    <3>1. DOMAIN chart' = DOMAIN Frames
        BY <2>2 DEF Candle, TechnicalInv
    <3>2. techSignal' = Combined(chart') \/ techSignal' = NoVerdict
        BY <2>2 DEF Candle
    <3>3. SlowChartDecides'
        BY <3>1, <3>2, CombinedSlowly DEF SlowChartDecides
    <3> QED BY <3>1, <3>3 DEF TechnicalInv
  <2>3. CASE UNCHANGED techVars
      BY <2>3 DEF techVars, TechnicalInv, SlowChartDecides
  <2> QED BY <2>1, <2>2, <2>3 DEF TechNext
<1> QED BY <1>1, <1>2, PTL DEF TechnicalSpec

\* The one-minute chart never decides without a slow chart of its side, whatever
\* the charts hold (technical_agent.py:246-274).
THEOREM SlowChartAlwaysDecides == TechnicalSpec => []SlowChartDecides
  BY TechnicalInvariant, PTL DEF TechnicalInv

-----------------------------------------------------------------------------
(* The vote of the analysts.                                                   *)

AllAnalysts == {"options", "flow", "profile", "technical", "sentiment", "news", "macro"}
VixRegimes == {"LOW", "NORMAL", "ELEVATED", "HIGH"}

\* The weight of an analyst before the trust the learning system has in it.
Base(r, a) == WEIGHT_PROFILES["INTRADAY"][a] * VIX_REGIME_ADJUSTMENTS[r][a]

LEMMA BaseLow ==
    \A a \in AllAnalysts : Base("LOW", a) \in 16 .. 52
  BY DEF AllAnalysts, Base, WEIGHT_PROFILES, VIX_REGIME_ADJUSTMENTS
LEMMA BaseNormal ==
    \A a \in AllAnalysts : Base("NORMAL", a) \in 20 .. 40
  BY DEF AllAnalysts, Base, WEIGHT_PROFILES, VIX_REGIME_ADJUSTMENTS
LEMMA BaseElevated ==
    \A a \in AllAnalysts : Base("ELEVATED", a) \in 16 .. 52
  BY DEF AllAnalysts, Base, WEIGHT_PROFILES, VIX_REGIME_ADJUSTMENTS
LEMMA BaseHigh ==
    /\ \A a \in AllAnalysts : Base("HIGH", a) \in 10 .. 45
    /\ \A a \in AllAnalysts \ {"news", "macro"} : Base("HIGH", a) \in 15 .. 45
  BY DEF AllAnalysts, Base, WEIGHT_PROFILES, VIX_REGIME_ADJUSTMENTS

Distinct(b, x, y, z) == b # x /\ b # y /\ b # z /\ x # y /\ x # z /\ y # z

\* No weight outgrows three others, even when 1.4 times the trust is put in it.
LEMMA BaseShares ==
    ASSUME NEW r \in VixRegimes, NEW b \in AllAnalysts, NEW x \in AllAnalysts,
           NEW y \in AllAnalysts, NEW z \in AllAnalysts, Distinct(b, x, y, z)
    PROVE  /\ Base(r, b) \in Nat \ {0} /\ Base(r, x) \in Nat \ {0}
           /\ Base(r, y) \in Nat \ {0} /\ Base(r, z) \in Nat \ {0}
           /\ 49 * Base(r, b) < 65 * (Base(r, x) + Base(r, y) + Base(r, z))
<1>1. CASE r = "LOW"
    BY <1>1, BaseLow
<1>2. CASE r = "NORMAL"
    BY <1>2, BaseNormal
<1>3. CASE r = "ELEVATED"
    BY <1>3, BaseElevated
<1>4. CASE r = "HIGH"
  <2>1. x \notin {"news", "macro"} \/ y \notin {"news", "macro"} \/ z \notin {"news", "macro"}
      BY DEF Distinct
  <2> QED BY <1>4, <2>1, BaseHigh
<1> QED BY <1>1, <1>2, <1>3, <1>4 DEF VixRegimes

\* Four terms of a sum of natural numbers are within it.
LEMMA SumOfFour ==
    ASSUME NEW S, IsFiniteSet(S), NEW f \in [S -> Nat],
           NEW b \in S, NEW x \in S, NEW y \in S, NEW z \in S, Distinct(b, x, y, z)
    PROVE  /\ f[b] \in Nat /\ f[x] \in Nat /\ f[y] \in Nat /\ f[z] \in Nat /\ SumFunction(f) \in Nat
           /\ f[b] + f[x] + f[y] + f[z] <= SumFunction(f)
<1> DEFINE f1 == [f EXCEPT ![b] = 0]
           f2 == [f1 EXCEPT ![x] = 0]
           f3 == [f2 EXCEPT ![y] = 0]
           f4 == [f3 EXCEPT ![z] = 0]
<1>1. f1 \in [S -> Nat] /\ f1[x] = f[x] /\ f1[y] = f[y] /\ f1[z] = f[z]
    BY DEF Distinct
<1>2. f2 \in [S -> Nat] /\ f2[y] = f[y] /\ f2[z] = f[z]
  <2> HIDE DEF f1
  <2> QED BY <1>1 DEF Distinct
<1>3. f3 \in [S -> Nat] /\ f3[z] = f[z]
  <2> HIDE DEF f2
  <2> QED BY <1>2 DEF Distinct
<1>4. SumFunction(f) = f[b] + SumFunction(f1) /\ f[b] \in Nat
    BY SumZeroed
<1> HIDE DEF f1
<1>5. SumFunction(f1) = f[x] + SumFunction(f2) /\ f[x] \in Nat
    BY <1>1, SumZeroed
<1> HIDE DEF f2
<1>6. SumFunction(f2) = f[y] + SumFunction(f3) /\ f[y] \in Nat
    BY <1>1, <1>2, SumZeroed
<1> HIDE DEF f3
<1>7. SumFunction(f3) = f[z] + SumFunction(f4) /\ f[z] \in Nat /\ SumFunction(f4) \in Nat
    BY <1>1, <1>2, <1>3, SumZeroed
<1> HIDE DEF f4
<1> DEFINE n == SumFunction(f4)
<1>8. n \in Nat /\ SumFunction(f) = f[b] + (f[x] + (f[y] + (f[z] + n)))
    BY <1>4, <1>5, <1>6, <1>7
<1> HIDE DEF n
<1> QED BY <1>4, <1>5, <1>6, <1>7, <1>8

\* In a set of four or more, three others can be named beside any element.
LEMMA ThreeOthers ==
    ASSUME NEW A, IsFiniteSet(A), Cardinality(A) >= 4, NEW b \in A
    PROVE  \E x, y, z \in A : Distinct(b, x, y, z)
<1> DEFINE A1 == A \ {b}
<1>0. Cardinality(A) \in Nat
    BY FS_CardinalityType
<1>1. IsFiniteSet(A1) /\ Cardinality(A1) = Cardinality(A) - 1
    BY FS_RemoveElement
<1>2. A1 # {}
    BY <1>0, <1>1, FS_EmptySet
<1>3. PICK x \in A1 : TRUE
    BY <1>2
<1> HIDE DEF A1
<1> DEFINE A2 == A1 \ {x}
<1>4. IsFiniteSet(A2) /\ Cardinality(A2) = Cardinality(A) - 2
    BY <1>0, <1>1, <1>3, FS_RemoveElement
<1>5. A2 # {}
    BY <1>0, <1>4, FS_EmptySet
<1>6. PICK y \in A2 : TRUE
    BY <1>5
<1> HIDE DEF A2
<1> DEFINE A3 == A2 \ {y}
<1>7. IsFiniteSet(A3) /\ Cardinality(A3) = Cardinality(A) - 3
    BY <1>0, <1>4, <1>6, FS_RemoveElement
<1>8. A3 # {}
    BY <1>0, <1>7, FS_EmptySet
<1>9. PICK z \in A3 : TRUE
    BY <1>8
<1>10. Distinct(b, x, y, z) /\ x \in A /\ y \in A /\ z \in A
    BY <1>3, <1>6, <1>9 DEF A1, A2, A3, Distinct
<1> QED BY <1>10

\* A set with fewer than two elements holds at most one of a set that is not empty.
LEMMA FewerThanTwo ==
    ASSUME NEW A, IsFiniteSet(A), A # {}, NEW B \in SUBSET A, ~(Cardinality(B) >= 2)
    PROVE  \E b \in A : B \subseteq {b}
<1>0. IsFiniteSet(B)
    BY FS_Subset
<1>1. CASE B = {}
    BY <1>1
<1>2. CASE B # {}
  <2>1. PICK b \in B : TRUE
      BY <1>2
  <2> DEFINE R == B \ {b}
  <2>2. IsFiniteSet(R) /\ Cardinality(R) = Cardinality(B) - 1
      BY <1>0, <2>1, FS_RemoveElement
  <2>3. Cardinality(B) \in Nat /\ Cardinality(R) \in Nat
      BY <1>0, <2>2, FS_CardinalityType
  <2>4. Cardinality(R) = 0
    <3>1. Cardinality(B) # 0
        BY <1>0, <1>2, FS_EmptySet
    <3> HIDE DEF R
    <3> QED BY <2>2, <2>3, <3>1
  <2>5. R = {}
      BY <2>2, <2>4, FS_EmptySet
  <2>6. B \subseteq {b} /\ b \in A
      BY <2>1, <2>5
  <2> QED BY <2>6
<1> QED BY <1>1, <1>2

IntradayWeight(r, a) == Weight("INTRADAY", r, a)

LEMMA WeightType ==
    ASSUME NEW r \in VixRegimes, NEW a \in Analysts
    PROVE  /\ IntradayWeight(r, a) = Base(r, a) * Multiplier[a]
           /\ IntradayWeight(r, a) \in Nat \ {0} /\ Multiplier[a] \in Nat \ {0}
<1>1. a \in AllAnalysts /\ Multiplier[a] \in 5 .. 15
    BY ConsensusAssumption DEF AllAnalysts
<1> DEFINE m == Multiplier[a]
           c == Base(r, a)
<1>2. IntradayWeight(r, a) = c * m
    BY DEF IntradayWeight, Weight, Base
<1>3. c \in Nat \ {0}
    BY <1>1, BaseLow, BaseNormal, BaseElevated, BaseHigh DEF VixRegimes
<1>4. m \in Nat \ {0}
    BY <1>1
<1> HIDE DEF c, m
<1>5. c * m \in Nat /\ c * m # 0
    BY <1>3, <1>4, TimesType
<1> QED BY <1>2, <1>4, <1>5 DEF c, m

\* Products, apart from the names of what is multiplied.
LEMMA ShareOfProducts ==
    ASSUME NEW c \in Nat, NEW cx \in Nat, NEW cy \in Nat, NEW cz \in Nat,
           NEW m \in Nat \ {0}, NEW mx \in Nat, NEW my \in Nat, NEW mz \in Nat,
           49 * c < 65 * (cx + cy + cz), 5 * m <= 7 * mx, 5 * m <= 7 * my, 5 * m <= 7 * mz
    PROVE  35 * (c * m) < 65 * (cx * mx + cy * my + cz * mz)
<1> DEFINE P == cx * m
           Q == cy * m
           R == cz * m
           PX == cx * mx
           QY == cy * my
           RZ == cz * mz
           W == c * m
<1>1. /\ P \in Nat /\ Q \in Nat /\ R \in Nat /\ W \in Nat
      /\ PX \in Nat /\ QY \in Nat /\ RZ \in Nat
    BY TimesType
<1>2. 5 * P <= 7 * PX
  <2>1. cx * (5 * m) <= cx * (7 * mx)
      BY TimesMore
  <2> QED BY <2>1
<1>3. 5 * Q <= 7 * QY
  <2>1. cy * (5 * m) <= cy * (7 * my)
      BY TimesMore
  <2> QED BY <2>1
<1>4. 5 * R <= 7 * RZ
  <2>1. cz * (5 * m) <= cz * (7 * mz)
      BY TimesMore
  <2> QED BY <2>1
<1>5. 49 * W < 65 * (P + Q + R)
  <2>1. 49 * c + 1 <= 65 * (cx + cy + cz)
      OBVIOUS
  <2>2. (49 * c + 1) * m <= (65 * (cx + cy + cz)) * m
      BY <2>1, TimesMore
  <2>3. (49 * c + 1) * m = 49 * W + m
      OBVIOUS
  <2>4. (65 * (cx + cy + cz)) * m = 65 * (P + Q + R)
      OBVIOUS
  <2> HIDE DEF W, P, Q, R
  <2> QED BY <1>1, <2>2, <2>3, <2>4
<1> HIDE DEF P, Q, R, PX, QY, RZ, W
<1>6. 35 * W < 65 * (PX + QY + RZ)
    BY <1>1, <1>2, <1>3, <1>4, <1>5
<1> QED BY <1>6 DEF PX, QY, RZ, W

LEMMA WeightShares ==
    ASSUME Demanding, NEW r \in VixRegimes,
           NEW b \in Analysts, NEW x \in Analysts, NEW y \in Analysts, NEW z \in Analysts,
           Distinct(b, x, y, z)
    PROVE  35 * IntradayWeight(r, b)
               < 65 * (IntradayWeight(r, x) + IntradayWeight(r, y) + IntradayWeight(r, z))
<1>1. b \in AllAnalysts /\ x \in AllAnalysts /\ y \in AllAnalysts /\ z \in AllAnalysts
    BY ConsensusAssumption DEF AllAnalysts
<1>2. /\ 5 * Multiplier[b] <= 7 * Multiplier[x] /\ 5 * Multiplier[b] <= 7 * Multiplier[y]
      /\ 5 * Multiplier[b] <= 7 * Multiplier[z]
    BY DEF Demanding
<1> DEFINE c == Base(r, b)
           cx == Base(r, x)
           cy == Base(r, y)
           cz == Base(r, z)
           m == Multiplier[b]
           mx == Multiplier[x]
           my == Multiplier[y]
           mz == Multiplier[z]
<1>3. /\ c \in Nat /\ cx \in Nat /\ cy \in Nat /\ cz \in Nat
      /\ 49 * c < 65 * (cx + cy + cz)
    BY <1>1, BaseShares
<1>4. m \in Nat \ {0} /\ mx \in Nat /\ my \in Nat /\ mz \in Nat
    BY WeightType
<1>5. /\ IntradayWeight(r, b) = c * m /\ IntradayWeight(r, x) = cx * mx
      /\ IntradayWeight(r, y) = cy * my /\ IntradayWeight(r, z) = cz * mz
    BY WeightType
<1>6. 5 * m <= 7 * mx /\ 5 * m <= 7 * my /\ 5 * m <= 7 * mz
    BY <1>2
<1> HIDE DEF c, cx, cy, cz, m, mx, my, mz
<1>7. 35 * (c * m) < 65 * (cx * mx + cy * my + cz * mz)
    BY <1>3, <1>4, <1>6, ShareOfProducts
<1> QED BY <1>5, <1>7

Ballot(votes) ==
    /\ DOMAIN votes \subseteq Analysts
    /\ \A a \in DOMAIN votes : votes[a].dir \in {-1, 0, 1} /\ votes[a].conf \in 0 .. 100

LEMMA ActiveFinite ==
    ASSUME NEW type, NEW r, NEW votes, Ballot(votes)
    PROVE  /\ IsFiniteSet(Active(type, r, votes)) /\ Active(type, r, votes) \subseteq Analysts
           /\ Active(type, r, votes) \subseteq DOMAIN votes
<1> DEFINE A == Active(type, r, votes)
<1>1. A \subseteq DOMAIN votes
    BY DEF Active
<1>2. A \subseteq Analysts
    BY <1>1 DEF Ballot
<1>3. A \subseteq AllAnalysts
    BY <1>2, ConsensusAssumption DEF AllAnalysts
<1>4. IsFiniteSet(AllAnalysts)
  <2>1. IsFiniteSet({"macro"})
    <3> DEFINE e == "macro"
    <3> HIDE DEF e
    <3>1. IsFiniteSet({e})
        BY FS_Singleton
    <3> QED BY <3>1 DEF e
  <2>2. IsFiniteSet({"macro"} \cup {"news"})
      BY <2>1, FS_AddElement
  <2>3. IsFiniteSet({"macro", "news"} \cup {"sentiment"})
      BY <2>2, FS_AddElement
  <2>4. IsFiniteSet({"macro", "news", "sentiment"} \cup {"technical"})
      BY <2>3, FS_AddElement
  <2>5. IsFiniteSet({"macro", "news", "sentiment", "technical"} \cup {"profile"})
      BY <2>4, FS_AddElement
  <2>6. IsFiniteSet({"macro", "news", "sentiment", "technical", "profile"} \cup {"flow"})
      BY <2>5, FS_AddElement
  <2>7. IsFiniteSet({"macro", "news", "sentiment", "technical", "profile", "flow"} \cup {"options"})
      BY <2>6, FS_AddElement
  <2>8. AllAnalysts = {"macro", "news", "sentiment", "technical", "profile", "flow"} \cup {"options"}
      BY DEF AllAnalysts
  <2> QED BY <2>7, <2>8
<1>5. IsFiniteSet(A)
  <2> HIDE DEF A
  <2> QED BY <1>3, <1>4, FS_Subset
<1> QED BY <1>1, <1>2, <1>5

DirOf(score) == IF score.num > 0 THEN 1 ELSE -1
Backers(type, r, votes, dir) == {a \in Active(type, r, votes) : votes[a].dir = dir}

\* What a vote adds to the score.
Term(r, votes, a) == votes[a].dir * votes[a].conf * IntradayWeight(r, a)

LEMMA TermBounds ==
    ASSUME NEW r \in VixRegimes, NEW votes, Ballot(votes), NEW a \in DOMAIN votes
    PROVE  /\ Term(r, votes, a) \in Int
           /\ Term(r, votes, a) <= 100 * IntradayWeight(r, a)
           /\ -(100 * IntradayWeight(r, a)) <= Term(r, votes, a)
           /\ votes[a].dir # 1 => Term(r, votes, a) <= 0
           /\ votes[a].dir # -1 => 0 <= Term(r, votes, a)
<1> DEFINE w == IntradayWeight(r, a)
           c == votes[a].conf
           d == votes[a].dir
<1>1. w \in Nat
  <2>1. a \in Analysts
      BY DEF Ballot
  <2> QED BY <2>1, WeightType
<1>2. c \in 0 .. 100 /\ d \in {-1, 0, 1}
    BY DEF Ballot
<1>3. Term(r, votes, a) = d * c * w
    BY DEF Term
<1> HIDE DEF w, c, d
<1>4. c * w \in Nat /\ c * w <= 100 * w
  <2>1. c \in Nat /\ c <= 100
      BY <1>2
  <2> QED BY <1>1, <2>1, TimesMore, TimesType
<1>5. CASE d = 0
  <2>1. d * c * w = 0
      BY <1>1, <1>2, <1>5
  <2> QED BY <1>1, <1>3, <1>4, <1>5, <2>1 DEF w, d
<1>6. CASE d = 1
  <2>1. d * c * w = c * w
      BY <1>2, <1>6
  <2> HIDE DEF w, d
  <2> DEFINE p == c * w
  <2>2. p \in Nat /\ p <= 100 * w /\ Term(r, votes, a) = p
      BY <1>3, <1>4, <2>1
  <2> HIDE DEF p
  <2>3. /\ p \in Int /\ p <= 100 * w /\ -(100 * w) <= p /\ 0 <= p
      BY <1>1, <2>2
  <2> QED BY <1>6, <2>2, <2>3 DEF w, d
<1>7. CASE d = -1
  <2>1. d * c * w = -(c * w)
      BY <1>1, <1>2, <1>7
  <2> HIDE DEF w, d
  <2> DEFINE p == c * w
  <2>2. p \in Nat /\ p <= 100 * w /\ Term(r, votes, a) = -p
      BY <1>3, <1>4, <2>1
  <2> HIDE DEF p
  <2>3. /\ -p \in Int /\ -p <= 100 * w /\ -(100 * w) <= -p /\ -p <= 0
      BY <1>1, <2>2
  <2> QED BY <1>7, <2>2, <2>3 DEF w, d
<1> QED BY <1>2, <1>5, <1>6, <1>7

\* The score of votes that only b backs is at most what b alone can add to it.
LEMMA LoneScore ==
    ASSUME NEW r \in VixRegimes, NEW votes, Ballot(votes),
           NEW b \in Active("INTRADAY", r, votes), NEW score, score = Tally("INTRADAY", r, votes),
           Backers("INTRADAY", r, votes, DirOf(score)) \subseteq {b}
    PROVE  score.num \in Int /\ Abs(score.num) <= 100 * IntradayWeight(r, b)
<1> DEFINE A == Active("INTRADAY", r, votes)
           F == [a \in A |-> Term(r, votes, a)]
           most == 100 * IntradayWeight(r, b)
           G == [a \in A |-> IF a = b THEN most ELSE 0]
           H == [a \in A |-> IF a = b THEN -most ELSE 0]
<1>0. IsFiniteSet(A) /\ A \subseteq DOMAIN votes /\ A \subseteq Analysts /\ b \in A
    BY ActiveFinite
<1>1. score.num = SumFunction(F)
    BY DEF Tally, Term, IntradayWeight
<1>2. most \in Nat
    BY <1>0, WeightType
<1>3. \A a \in A : Term(r, votes, a) \in Int
    BY <1>0, TermBounds
<1>4. Backers("INTRADAY", r, votes, DirOf(score)) = {a \in A : votes[a].dir = DirOf(score)}
    BY DEF Backers
<1> HIDE DEF most, A
<1>5. F \in [A -> Int] /\ G \in [A -> Int] /\ H \in [A -> Int]
    BY <1>2, <1>3
<1>6. SumFunction(G) = most
  <2>1. G[b] = most /\ \A y \in A : y # b => G[y] = 0
      BY <1>0
  <2> HIDE DEF G
  <2> QED BY <1>0, <1>5, <2>1, SumOne
<1>7. SumFunction(H) = -most
  <2>1. H[b] = -most /\ \A y \in A : y # b => H[y] = 0
      BY <1>0
  <2> HIDE DEF H
  <2> QED BY <1>0, <1>5, <2>1, SumOne
<1>8. CASE score.num > 0
  <2>1. \A a \in A : a # b => votes[a].dir # 1
      BY <1>4, <1>8 DEF DirOf
  <2>2. \A a \in A : F[a] <= G[a]
    <3> SUFFICES ASSUME NEW a \in A PROVE Term(r, votes, a) <= (IF a = b THEN most ELSE 0)
        OBVIOUS
    <3>1. CASE a = b
        BY <1>0, <3>1, TermBounds DEF most
    <3>2. CASE a # b
        BY <1>0, <2>1, <3>2, TermBounds
    <3> QED BY <3>1, <3>2
  <2> HIDE DEF F, G
  <2>3. Dominated(F, G, A)
      BY <1>5, <2>2 DEF Dominated
  <2>4. SumFunction(F) \in Int /\ SumFunction(F) <= most
      BY <1>0, <1>6, <2>3, SumDominated
  <2> QED BY <1>1, <1>2, <1>8, <2>4 DEF Abs, most
<1>9. CASE ~(score.num > 0)
  <2>1. \A a \in A : a # b => votes[a].dir # -1
      BY <1>4, <1>9 DEF DirOf
  <2>2. \A a \in A : H[a] <= F[a]
    <3> SUFFICES ASSUME NEW a \in A PROVE (IF a = b THEN -most ELSE 0) <= Term(r, votes, a)
        OBVIOUS
    <3>1. CASE a = b
        BY <1>0, <3>1, TermBounds DEF most
    <3>2. CASE a # b
        BY <1>0, <2>1, <3>2, TermBounds
    <3> QED BY <3>1, <3>2
  <2> HIDE DEF F, H
  <2>3. Dominated(H, F, A)
      BY <1>5, <2>2 DEF Dominated
  <2>4. SumFunction(F) \in Int /\ -most <= SumFunction(F)
      BY <1>0, <1>7, <2>3, SumDominated
  <2> QED BY <1>1, <1>2, <1>9, <2>4 DEF Abs, most
<1> QED BY <1>8, <1>9

\* What the weights come to.
LEMMA ConsensusNeedsTwo ==
    ASSUME Demanding, NEW r \in VixRegimes, NEW votes, Ballot(votes),
           Reaches("INTRADAY", r, votes), NEW score, score = Tally("INTRADAY", r, votes)
    PROVE  Cardinality(Backers("INTRADAY", r, votes, DirOf(score))) >= 2
<1> DEFINE A == Active("INTRADAY", r, votes)
           B == Backers("INTRADAY", r, votes, DirOf(score))
           f == [a \in A |-> IntradayWeight(r, a)]
<1> SUFFICES ASSUME ~(Cardinality(B) >= 2) PROVE FALSE
    OBVIOUS
<1>1. IsFiniteSet(A) /\ A \subseteq Analysts
    BY ActiveFinite
<1>2. Cardinality(A) >= 4 /\ A # {}
  <2>1. Cardinality(A) >= 4
      BY DEF Reaches, Evaluated, MinAgents
  <2> QED BY <1>1, <2>1, FS_EmptySet
<1>3. B \in SUBSET A
    BY DEF Backers
<1>4. PICK b \in A : B \subseteq {b}
    BY <1>1, <1>2, <1>3, FewerThanTwo
<1>5. PICK x \in A, y \in A, z \in A : Distinct(b, x, y, z)
    BY <1>1, <1>2, ThreeOthers
<1>6. score.num \in Int /\ Abs(score.num) <= 100 * f[b]
    BY <1>4, LoneScore
<1>7. score.den = SumFunction(f)
    BY DEF Tally, IntradayWeight
<1>8. f \in [A -> Nat]
    BY <1>1, WeightType
<1>9. 35 * f[b] < 65 * (f[x] + f[y] + f[z])
  <2>1. 35 * IntradayWeight(r, b)
            < 65 * (IntradayWeight(r, x) + IntradayWeight(r, y) + IntradayWeight(r, z))
      BY <1>1, <1>5, WeightShares
  <2> QED BY <2>1
<1>10. Abs(score.num) >= Threshold * score.den
    BY DEF Reaches
<1>11. Abs(score.num) \in Nat
    BY <1>6 DEF Abs
<1> HIDE DEF f, A, B
<1>12. /\ f[b] \in Nat /\ f[x] \in Nat /\ f[y] \in Nat /\ f[z] \in Nat /\ SumFunction(f) \in Nat
       /\ f[b] + f[x] + f[y] + f[z] <= SumFunction(f)
    BY <1>1, <1>5, <1>8, SumOfFour
<1> DEFINE sum == SumFunction(f)
           s == Abs(score.num)
<1>13. 65 * sum <= Threshold * sum /\ Threshold * sum \in Int
  <2>1. 65 <= Threshold /\ Threshold \in Nat
      BY ConsensusAssumption DEF Demanding
  <2> HIDE DEF sum
  <2>2. sum \in Nat
      BY <1>12 DEF sum
  <2> QED BY <2>1, <2>2, TimesMore, TimesType
<1> DEFINE T == Threshold * sum
<1>14. 65 * sum <= T /\ T \in Int /\ s >= T /\ s <= 100 * f[b] /\ s \in Nat
    BY <1>6, <1>7, <1>10, <1>11, <1>13
<1> HIDE DEF T, s
<1> QED BY <1>9, <1>12, <1>14

\* One fraction is at least another; the order of the kinds of trade.
Scores(t) == t.num \in Int /\ t.den \in Nat \ {0}
AtLeast(a, b) == ~Higher(b, a)

LEMMA AbsType == \A n \in Int : Abs(n) \in Nat
  BY DEF Abs

LEMMA HigherIs ==
    ASSUME NEW a, Scores(a), NEW b, Scores(b), NEW c, Scores(c)
    PROVE  /\ Higher(a, b) => AtLeast(a, b)
           /\ AtLeast(a, b) /\ AtLeast(b, c) => AtLeast(a, c)
           /\ AtLeast(a, b) \/ AtLeast(b, a)
<1> DEFINE x == Abs(a.num)
           y == Abs(b.num)
           z == Abs(c.num)
           p == a.den
           q == b.den
           s == c.den
<1>1. x \in Nat /\ y \in Nat /\ z \in Nat /\ p \in Nat \ {0} /\ q \in Nat \ {0} /\ s \in Nat \ {0}
    BY AbsType DEF Scores
<1>2. /\ Higher(a, b) <=> x * q > y * p
      /\ Higher(b, a) <=> y * p > x * q
      /\ Higher(c, b) <=> z * q > y * s
      /\ Higher(c, a) <=> z * p > x * s
    BY DEF Higher
<1> HIDE DEF x, y, z, p, q, s
<1>3. x * q \in Nat /\ y * p \in Nat /\ z * q \in Nat /\ y * s \in Nat /\ z * p \in Nat /\ x * s \in Nat
    BY <1>1, TimesType
<1>4. y * p <= x * q /\ z * q <= y * s => z * p <= x * s
  <2> SUFFICES ASSUME y * p <= x * q, z * q <= y * s, ~(z * p <= x * s) PROVE FALSE
      OBVIOUS
  <2>1. (y * p) * s <= (x * q) * s
      BY <1>1, <1>3, TimesMore
  <2>2. (z * q) * p <= (y * s) * p
      BY <1>1, <1>3, TimesMore
  <2>3. x * s + 1 <= z * p
      BY <1>3
  <2>4. (x * s + 1) * q <= (z * p) * q
      BY <1>1, <1>3, <2>3, TimesMore
  <2> DEFINE e == (z * q) * p
             f == (x * q) * s
  <2>5. (x * s + 1) * q = f + q /\ (z * p) * q = e /\ (y * p) * s = (y * s) * p
      BY <1>1
  <2>6. e \in Nat /\ f \in Nat
      BY <1>1, <1>3, TimesType
  <2>7. (y * s) * p \in Nat
      BY <1>1, <1>3, TimesType
  <2> HIDE DEF e, f
  <2>8. e <= (y * s) * p /\ (y * s) * p <= f
      BY <2>1, <2>2, <2>5 DEF e, f
  <2>9. e <= f
      BY <2>6, <2>7, <2>8
  <2>10. f + q <= e
      BY <2>4, <2>5
  <2> QED BY <1>1, <2>6, <2>9, <2>10
<1>5. Higher(a, b) => ~Higher(b, a)
    BY <1>2, <1>3
<1>6. AtLeast(a, b) /\ AtLeast(b, c) => AtLeast(a, c)
    BY <1>2, <1>3, <1>4 DEF AtLeast
<1>7. AtLeast(a, b) \/ AtLeast(b, a)
    BY <1>2, <1>3 DEF AtLeast
<1> QED BY <1>5, <1>6, <1>7 DEF AtLeast

Beats(tally, t, u) == Higher(tally[t], tally[u]) \/ (~Higher(tally[u], tally[t]) /\ Rank[t] <= Rank[u])

LEMMA BeatsOrder ==
    ASSUME NEW tally, \A t \in DOMAIN tally : t \in TradeTypes /\ Scores(tally[t])
    PROVE  \A t, u, v \in DOMAIN tally :
               /\ Beats(tally, t, u) \/ Beats(tally, u, t)
               /\ Beats(tally, t, u) /\ Beats(tally, u, v) => Beats(tally, t, v)
<1> SUFFICES ASSUME NEW t \in DOMAIN tally, NEW u \in DOMAIN tally, NEW v \in DOMAIN tally
             PROVE  /\ Beats(tally, t, u) \/ Beats(tally, u, t)
                    /\ Beats(tally, t, u) /\ Beats(tally, u, v) => Beats(tally, t, v)
    OBVIOUS
<1>1. Scores(tally[t]) /\ Scores(tally[u]) /\ Scores(tally[v])
    OBVIOUS
<1>2. Rank[t] \in Nat /\ Rank[u] \in Nat /\ Rank[v] \in Nat
    BY DEF Rank, TradeTypes
<1> DEFINE a == tally[t]
           b == tally[u]
           c == tally[v]
<1>3. /\ AtLeast(a, b) /\ AtLeast(b, c) => AtLeast(a, c)
      /\ AtLeast(b, c) /\ AtLeast(c, a) => AtLeast(b, a)
      /\ AtLeast(c, a) /\ AtLeast(a, b) => AtLeast(c, b)
      /\ Higher(a, b) => AtLeast(a, b)
      /\ Higher(b, c) => AtLeast(b, c)
      /\ AtLeast(a, b) \/ AtLeast(b, a)
    BY <1>1, HigherIs
<1> DEFINE i == Rank[t]
           j == Rank[u]
           k == Rank[v]
<1>4. i \in Nat /\ j \in Nat /\ k \in Nat
    BY <1>2
<1> HIDE DEF a, b, c, i, j, k
<1>5. /\ i <= j \/ j <= i
      /\ i <= j /\ j <= k => i <= k
    BY <1>4
<1>6. /\ Beats(tally, t, u) <=> (Higher(a, b) \/ (AtLeast(a, b) /\ i <= j))
      /\ Beats(tally, u, t) <=> (Higher(b, a) \/ (AtLeast(b, a) /\ j <= i))
      /\ Beats(tally, u, v) <=> (Higher(b, c) \/ (AtLeast(b, c) /\ j <= k))
      /\ Beats(tally, t, v) <=> (Higher(a, c) \/ (AtLeast(a, c) /\ i <= k))
    BY DEF Beats, AtLeast, a, b, c, i, j, k
<1>7. /\ AtLeast(a, b) <=> ~Higher(b, a)
      /\ AtLeast(b, a) <=> ~Higher(a, b)
      /\ AtLeast(b, c) <=> ~Higher(c, b)
      /\ AtLeast(c, b) <=> ~Higher(b, c)
      /\ AtLeast(a, c) <=> ~Higher(c, a)
      /\ AtLeast(c, a) <=> ~Higher(a, c)
    BY DEF AtLeast
<1> QED BY <1>3, <1>5, <1>6, <1>7

\* There is a kind of trade that beats the others, so the choice is one of them.
LEMMA BestIsOne ==
    ASSUME NEW tally, DOMAIN tally # {}, \A t \in DOMAIN tally : t \in TradeTypes /\ Scores(tally[t])
    PROVE  BestOf(tally) \in DOMAIN tally
<1> DEFINE D == DOMAIN tally
           R(t, u) == Beats(tally, t, u)
<1>1. \A t, u, v \in D : (R(t, u) \/ R(u, t)) /\ (R(t, u) /\ R(u, v) => R(t, v))
    BY BeatsOrder
<1>2. D \subseteq {"SCALP", "INTRADAY", "BTST"}
    BY DEF TradeTypes
<1>3. BestOf(tally) = CHOOSE t \in D : \A u \in D : R(t, u)
    BY DEF BestOf, Beats
<1> HIDE DEF D, R
<1>4. D # {}
    BY DEF D
<1>5. \E t \in D : \A u \in D : R(t, u)
  <2>1. ASSUME NEW t \in D, NEW u \in D, D \subseteq {t, u} PROVE \E x \in D : \A y \in D : R(x, y)
      BY <1>1, <2>1
  <2>2. ASSUME NEW t \in D, NEW u \in D, NEW v \in D, D = {t, u, v} PROVE \E x \in D : \A y \in D : R(x, y)
      BY <1>1, <2>2
  <2>3. CASE "SCALP" \in D /\ "INTRADAY" \in D /\ "BTST" \in D
    <3>1. D = {"SCALP", "INTRADAY", "BTST"}
        BY <1>2, <2>3
    <3> QED BY <2>2, <2>3, <3>1
  <2>4. CASE ~("SCALP" \in D /\ "INTRADAY" \in D /\ "BTST" \in D)
    <3>1. \E t, u \in D : D \subseteq {t, u}
      <4>1. PICK t \in D : TRUE
          BY <1>4
      <4>2. \A e \in D : e = "SCALP" \/ e = "INTRADAY" \/ e = "BTST"
          BY <1>2
      <4>3. CASE \E u \in D : u # t
        <5>1. PICK u \in D : u # t
            BY <4>3
        <5>2. \A e \in D : e = t \/ e = u
            BY <2>4, <4>2, <5>1
        <5>3. D \subseteq {t, u}
            BY <5>2
        <5> QED BY <5>3
      <4>4. CASE ~(\E u \in D : u # t)
        <5>1. D \subseteq {t, t}
            BY <4>4
        <5> QED BY <5>1
      <4> QED BY <4>3, <4>4
    <3> QED BY <2>1, <3>1
  <2> QED BY <2>3, <2>4
<1> QED BY <1>3, <1>5 DEF D

\* Every kind of trade that passes has a score with a denominator.
LEMMA TallyScores ==
    ASSUME NEW type \in TradeTypes, NEW r \in VixRegimes, NEW votes, Ballot(votes), Reaches(type, r, votes)
    PROVE  Scores(Tally(type, r, votes))
<1> DEFINE A == Active(type, r, votes)
           w(a) == Weight(type, r, a)
           f == [a \in A |-> votes[a].dir * votes[a].conf * w(a)]
           g == [a \in A |-> w(a)]
<1>1. IsFiniteSet(A) /\ A \subseteq Analysts /\ A \subseteq DOMAIN votes
    BY ActiveFinite
<1>2. A # {}
  <2>1. Cardinality(A) > 0
      BY DEF Reaches, Evaluated
  <2> QED BY <1>1, <2>1, FS_EmptySet
<1>3. \A a \in A : w(a) \in Nat \ {0}
  <2> SUFFICES ASSUME NEW a \in A PROVE w(a) \in Nat \ {0}
      OBVIOUS
  <2>1. a \in AllAnalysts /\ Multiplier[a] \in 5 .. 15
      BY <1>1, ConsensusAssumption DEF AllAnalysts
  <2> DEFINE p == WEIGHT_PROFILES[type][a]
             v == VIX_REGIME_ADJUSTMENTS[r][a]
             m == Multiplier[a]
  <2>2. p \in 0 .. 7
      BY <2>1 DEF TradeTypes, AllAnalysts, WEIGHT_PROFILES
  <2>3. v \in 5 .. 15
      BY <2>1 DEF VixRegimes, AllAnalysts, VIX_REGIME_ADJUSTMENTS
  <2>4. w(a) = p * v * m /\ w(a) > 0
      BY DEF Weight, Active
  <2>5. m \in 5 .. 15
      BY <2>1
  <2> HIDE DEF p, v, m
  <2>6. p \in Nat /\ v \in Nat /\ m \in Nat
      BY <2>2, <2>3, <2>5
  <2>7. p * v * m \in Nat
      BY <2>6, TimesType
  <2> QED BY <2>4, <2>7
<1>4. \A a \in A : votes[a].dir * votes[a].conf * w(a) \in Int
  <2> SUFFICES ASSUME NEW a \in A PROVE votes[a].dir * votes[a].conf * w(a) \in Int
      OBVIOUS
  <2>1. votes[a].dir \in Int /\ votes[a].conf \in Int /\ w(a) \in Int
      BY <1>1, <1>3 DEF Ballot
  <2> QED BY <2>1, TimesType
<1>5. f \in [A -> Int] /\ g \in [A -> Nat]
    BY <1>3, <1>4
<1>6. Tally(type, r, votes).num = SumFunction(f) /\ Tally(type, r, votes).den = SumFunction(g)
    BY DEF Tally
<1>7. PICK e \in A : TRUE
    BY <1>2
<1>8. g[e] \in Nat \ {0}
    BY <1>3
<1> HIDE DEF f, g, A
<1>9. SumFunction(g) = g[e] + SumFunction([g EXCEPT ![e] = 0]) /\ SumFunction([g EXCEPT ![e] = 0]) \in Nat
    BY <1>1, <1>5, SumZeroed
<1>10. SumFunction(f) \in Int
    BY <1>1, <1>5, SumType
<1> DEFINE rest == SumFunction([g EXCEPT ![e] = 0])
<1>11. rest \in Nat /\ SumFunction(g) = g[e] + rest
    BY <1>9
<1> HIDE DEF rest
<1>12. SumFunction(g) \in Nat \ {0}
    BY <1>8, <1>11
<1> QED BY <1>6, <1>10, <1>12 DEF Scores

-----------------------------------------------------------------------------

SignalKept == [dir : {-1, 0, 1}, conf : 0 .. 100, underlying : {v.underlying : v \in Voices}, age : Nat]

ConsensusInv ==
    /\ regime \in VixRegimes
    /\ DOMAIN latest \subseteq Analysts
    /\ \A a \in DOMAIN latest : latest[a] \in SignalKept
    /\ IntradayNeedsTwo

ConsensusSpec == ConsensusInit /\ [][ConsensusNext]_consensusVars

LEMMA ConcludedKeeps ==
    ASSUME NEW votes, Ballot(votes), regime \in VixRegimes, Concluded(votes, Tallies(regime, votes)), Demanding
    PROVE  proposal'.type = "INTRADAY" => Cardinality(proposal'.backers) >= 2
<1> DEFINE tally == Tallies(regime, votes)
           type == BestOf(tally)
<1> SUFFICES ASSUME proposal'.type = "INTRADAY" PROVE Cardinality(proposal'.backers) >= 2
    OBVIOUS
<1>1. proposal' # NoProposal
    BY DEF NoProposal
<1>2. DOMAIN tally # {}
    BY <1>1 DEF Concluded
<1>3. Fire(votes, tally, type)
    BY <1>2 DEF Concluded
<1>4. DOMAIN tally = Passing(regime, votes)
    BY DEF Tallies
<1>5. \A t \in DOMAIN tally : /\ t \in TradeTypes /\ Reaches(t, regime, votes)
                              /\ tally[t] = Tally(t, regime, votes)
    BY <1>4 DEF Passing, Tallies
<1>6. \A t \in DOMAIN tally : t \in TradeTypes /\ Scores(tally[t])
    BY <1>5, TallyScores
<1> DEFINE u == DetermineUnderlying(votes, chain)
<1>7. proposal' = Proposed(type, votes, tally[type], u)
    BY <1>1, <1>3 DEF Fire
<1> HIDE DEF tally, u
<1>8. type \in DOMAIN tally
    BY <1>2, <1>6, BestIsOne
<1> HIDE DEF type
<1>9. /\ proposal'.type = type
      /\ proposal'.backers = Backers(type, regime, votes, DirOf(tally[type]))
    BY <1>7 DEF Proposed, Backers, DirOf
<1>10. type = "INTRADAY"
    BY <1>9
<1>11. Reaches("INTRADAY", regime, votes) /\ tally["INTRADAY"] = Tally("INTRADAY", regime, votes)
    BY <1>5, <1>8, <1>10
<1> QED BY <1>9, <1>10, <1>11, ConsensusNeedsTwo

LEMMA HeardKeeps ==
    ASSUME ConsensusInv, NEW a \in Analysts, NEW v \in Voices, NEW late \in 0 .. MaxAge,
           Heard(a, [dir |-> v.dir, conf |-> v.conf, underlying |-> v.underlying, age |-> late])
    PROVE  ConsensusInv'
<1> DEFINE s == [dir |-> v.dir, conf |-> v.conf, underlying |-> v.underlying, age |-> late]
           votes == Unexpired(Replaced(a, s))
<1>1. s \in SignalKept
    BY ConsensusAssumption DEF SignalKept
<1>2. regime' = regime /\ latest' = votes /\ Concluded(votes, Tallies(regime, votes))
    BY DEF Heard, Concluded
<1> HIDE DEF s
<1>3. DOMAIN votes \subseteq Analysts /\ \A b \in DOMAIN votes : votes[b] \in SignalKept
    BY <1>1 DEF ConsensusInv, Unexpired, Replaced
<1> HIDE DEF votes
<1>4. Ballot(votes)
    BY <1>3 DEF Ballot, SignalKept
<1>5. regime \in VixRegimes
    BY DEF ConsensusInv
<1>6. IntradayNeedsTwo'
    BY <1>2, <1>4, <1>5, ConcludedKeeps DEF IntradayNeedsTwo, Demanding
<1> QED BY <1>2, <1>3, <1>5, <1>6 DEF ConsensusInv

LEMMA PassKeeps ==
    ASSUME ConsensusInv, Pass
    PROVE  ConsensusInv'
<1>1. regime' = regime /\ proposal' = NoProposal /\ DOMAIN latest' = DOMAIN latest
    BY DEF Pass
<1>2. \A a \in DOMAIN latest' : latest'[a] \in SignalKept
  <2> SUFFICES ASSUME NEW a \in DOMAIN latest PROVE latest'[a] \in SignalKept
      BY <1>1
  <2> DEFINE s == latest[a]
             n == Min({s.age + 1, SignalTtl + 1})
  <2>1. s \in SignalKept
      BY DEF ConsensusInv
  <2>2. latest'[a] = [s EXCEPT !.age = n]
      BY DEF Pass
  <2>3. s.age + 1 \in Int /\ SignalTtl + 1 \in Int /\ s.age + 1 >= 0 /\ SignalTtl + 1 >= 0
      BY <2>1, ConsensusAssumption DEF SignalKept
  <2> DEFINE p == s.age + 1
             q == SignalTtl + 1
  <2>4. p \in Nat /\ q \in Nat
      BY <2>3
  <2> HIDE DEF p, q
  <2>5. Min({p, q}) = IF p <= q THEN p ELSE q
    <3>1. p \in Int /\ q \in Int
        BY <2>4
    <3> QED BY <3>1, TwoMax
  <2>6. n \in Nat
    <3>1. n = Min({p, q})
        BY DEF p, q
    <3> HIDE DEF n
    <3> QED BY <2>4, <2>5, <3>1
  <2> HIDE DEF n, s
  <2> QED BY <2>1, <2>2, <2>6 DEF SignalKept
<1>3. IntradayNeedsTwo'
    BY <1>1 DEF IntradayNeedsTwo, NoProposal
<1> QED BY <1>1, <1>2, <1>3 DEF ConsensusInv

\* The votes kept are signals of known analysts, and what was proposed last has the
\* backers it needs (consensus_orchestrator.py:126-200).
THEOREM ConsensusInvariant == ConsensusSpec => []ConsensusInv
<1>1. ConsensusInit => ConsensusInv
    BY DEF ConsensusInit, ConsensusInv, NoVotes, VixRegimes, IntradayNeedsTwo, NoProposal
<1>2. ConsensusInv /\ [ConsensusNext]_consensusVars => ConsensusInv'
  <2> SUFFICES ASSUME ConsensusInv, [ConsensusNext]_consensusVars PROVE ConsensusInv'
      OBVIOUS
  <2>1. CASE \E a \in Analysts, v \in Voices, late \in 0 .. MaxAge :
                 Heard(a, [dir |-> v.dir, conf |-> v.conf, underlying |-> v.underlying, age |-> late])
      BY <2>1, HeardKeeps
  <2>2. CASE \E r \in Regimes : Breadth(r)
    <3>1. regime' \in VixRegimes /\ proposal' = NoProposal /\ latest' = latest
        BY <2>2, ConsensusAssumption DEF Breadth, VixRegimes
    <3> QED BY <3>1 DEF ConsensusInv, IntradayNeedsTwo, NoProposal
  <2>3. CASE \E u \in Underlyings, o \in Chains, hasSpot \in BOOLEAN : Snapshot(u, o, hasSpot)
    <3>1. regime' = regime /\ proposal' = NoProposal /\ latest' = latest
        BY <2>3 DEF Snapshot
    <3> QED BY <3>1 DEF ConsensusInv, IntradayNeedsTwo, NoProposal
  <2>4. CASE Pass
      BY <2>4, PassKeeps
  <2>5. CASE UNCHANGED consensusVars
    <3>1. regime' = regime /\ proposal' = proposal /\ latest' = latest
        BY <2>5 DEF consensusVars
    <3> QED BY <3>1 DEF ConsensusInv, IntradayNeedsTwo
  <2> QED BY <2>1, <2>2, <2>3, <2>4, <2>5 DEF ConsensusNext
<1> QED BY <1>1, <1>2, PTL DEF ConsensusSpec

\* No analyst carries an intraday trade alone, within the thresholds and trust that
\* Demanding names (consensus_orchestrator.py:357-413).
THEOREM IntradayAlwaysNeedsTwo == ConsensusSpec => []IntradayNeedsTwo
  BY ConsensusInvariant, PTL DEF ConsensusInv

-----------------------------------------------------------------------------
(* OrderFlow: the verdict on a mirrored market is the opposite verdict.  Each    *)
(* measurement changes sign, or its sides change places; each adjustment of the  *)
(* cascade then takes opposed verdicts to opposed ones.                          *)

\* A sequence of ticks and its image; quotes on both sides of the spread.
Faced(s) == \A i \in 1 .. Len(s) : Facing(s[i])
Image(t, r) ==
    /\ r.p = Axis - t.p /\ r.v = t.v /\ r.quoted = t.quoted
    /\ r.bid = Axis - t.ask /\ r.ask = Axis - t.bid
    /\ r.bq = t.aq /\ r.aq = t.bq
Reflects(s, m) ==
    /\ s \in Seq(TickRecords) /\ m \in Seq(TickRecords) /\ Len(m) = Len(s)
    /\ \A i \in 1 .. Len(s) : Image(s[i], m[i])

LEMMA FlowTypes ==
    /\ TickWindow \in Nat \ {0} /\ FlowInterval \in Nat \ {0} /\ SweepWindow \in Nat \ {0}
    /\ ShortWindow \in Nat \ {0} /\ LongWindow \in Nat \ {0} /\ Half \in Nat /\ 2 * Half <= LongWindow
    /\ MinTicks \in Nat /\ SweepLevels \in Nat /\ LotsKept \in Nat /\ Axis \in Int
<1>1. /\ TickWindow \in Nat \ {0} /\ FlowInterval \in Nat \ {0} /\ SweepWindow \in Nat \ {0}
      /\ ShortWindow \in Nat \ {0} /\ LongWindow \in Nat \ {0}
      /\ MinTicks \in Nat /\ SweepLevels \in Nat /\ LotsKept \in Nat /\ Axis \in Int
    BY FlowAssumption
<1>2. Half \in Nat /\ 2 * Half <= LongWindow
    BY <1>1 DEF Half
<1> QED BY <1>1, <1>2

LEMMA MirrorImage ==
    ASSUME NEW t \in TickRecords
    PROVE  Mirror(t) \in TickRecords /\ Image(t, Mirror(t))
<1>1. /\ t.p \in Int /\ t.v \in Nat /\ t.bid \in Int /\ t.ask \in Int
      /\ t.bq \in Nat /\ t.aq \in Nat /\ t.quoted \in BOOLEAN
    BY DEF TickRecords
<1>2. Axis - t.p \in Int /\ Axis - t.ask \in Int /\ Axis - t.bid \in Int
    BY <1>1, FlowTypes
<1> QED BY <1>1, <1>2 DEF TickRecords, Mirror, Image

LEMMA MirroredReflects ==
    ASSUME NEW s \in Seq(TickRecords)
    PROVE  Reflects(s, Mirrored(s))
<1>1. \A i \in 1 .. Len(s) : Mirror(s[i]) \in TickRecords /\ Image(s[i], Mirror(s[i]))
    BY MirrorImage
<1>2. Mirrored(s) = [i \in 1 .. Len(s) |-> Mirror(s[i])]
    BY DEF Mirrored
<1>3. Mirrored(s) \in Seq(TickRecords) /\ Len(Mirrored(s)) = Len(s)
    BY <1>1, <1>2
<1> QED BY <1>1, <1>2, <1>3 DEF Reflects

\* Parts of images are images of parts.
LEMMA PartReflects ==
    ASSUME NEW s, NEW m, Reflects(s, m), NEW a \in Int, NEW b \in Int, 1 <= a, b <= Len(s)
    PROVE  /\ Reflects(SubSeq(s, a, b), SubSeq(m, a, b))
           /\ Faced(s) => Faced(SubSeq(s, a, b))
<1> USE DEF Reflects
<1>1. /\ SubSeq(s, a, b) \in Seq(TickRecords) /\ SubSeq(m, a, b) \in Seq(TickRecords)
      /\ Len(SubSeq(s, a, b)) = (IF a <= b THEN b - a + 1 ELSE 0)
      /\ Len(SubSeq(m, a, b)) = (IF a <= b THEN b - a + 1 ELSE 0)
      /\ \A i \in 1 .. b - a + 1 : SubSeq(s, a, b)[i] = s[a + i - 1] /\ SubSeq(m, a, b)[i] = m[a + i - 1]
    OBVIOUS
<1>2. \A i \in 1 .. b - a + 1 : a + i - 1 \in 1 .. Len(s)
    OBVIOUS
<1> QED BY <1>1, <1>2 DEF Faced

LEMMA LatestReflects ==
    ASSUME NEW s, NEW m, Reflects(s, m), NEW n \in Nat
    PROVE  /\ Reflects(Latest(n, s), Latest(n, m))
           /\ Faced(s) => Faced(Latest(n, s))
           /\ Len(Latest(n, s)) = IF n < Len(s) THEN n ELSE Len(s)
<1> DEFINE a == Len(s) - (IF n < Len(s) THEN n ELSE Len(s)) + 1
<1>1. Len(s) \in Nat /\ Len(m) = Len(s) /\ s \in Seq(TickRecords)
    BY DEF Reflects
<1>2. a \in Int /\ 1 <= a /\ Latest(n, s) = SubSeq(s, a, Len(s)) /\ Latest(n, m) = SubSeq(m, a, Len(s))
    BY <1>1 DEF Latest
<1>4. Len(SubSeq(s, a, Len(s))) = IF n < Len(s) THEN n ELSE Len(s)
    BY <1>1
<1> HIDE DEF a
<1>3. /\ Reflects(SubSeq(s, a, Len(s)), SubSeq(m, a, Len(s)))
      /\ Faced(s) => Faced(SubSeq(s, a, Len(s)))
    BY <1>1, <1>2, PartReflects
<1> QED BY <1>2, <1>3, <1>4

\* Who bought a tick sold its image.
LEMMA SidesSwap ==
    ASSUME NEW s, NEW m, Reflects(s, m), Faced(s), NEW i \in 1 .. Len(s)
    PROVE  (Bought(m[i]) <=> Sold(s[i])) /\ (Sold(m[i]) <=> Bought(s[i])) /\ m[i].v = s[i].v /\ s[i].v \in Nat
<1>1. s[i] \in TickRecords /\ Image(s[i], m[i]) /\ Facing(s[i])
    BY DEF Reflects, Faced
<1>2. s[i].v \in Nat /\ s[i].p \in Int /\ s[i].bid \in Int /\ s[i].ask \in Int
    BY <1>1 DEF TickRecords
<1> QED BY <1>1, <1>2, FlowTypes DEF Image, Facing, Bought, Sold

LEMMA SumsSwap ==
    ASSUME NEW s, NEW m, Reflects(s, m), Faced(s)
    PROVE  /\ Purchases(m) = Sales(s) /\ Sales(m) = Purchases(s)
           /\ Purchases(s) \in Nat /\ Sales(s) \in Nat
           /\ Delta(m) = -Delta(s) /\ Delta(s) \in Int
<1> DEFINE S == 1 .. Len(s)
           b == [i \in S |-> IF Bought(s[i]) THEN s[i].v ELSE 0]
           c == [i \in S |-> IF Sold(s[i]) THEN s[i].v ELSE 0]
<1>1. DOMAIN s = S /\ DOMAIN m = S /\ Len(s) \in Nat
    BY DEF Reflects
<1>2. \A i \in S : (Bought(m[i]) <=> Sold(s[i])) /\ (Sold(m[i]) <=> Bought(s[i])) /\ m[i].v = s[i].v /\ s[i].v \in Nat
    BY SidesSwap
<1>3. Purchases(s) = SumFunction(b) /\ Sales(s) = SumFunction(c)
    BY <1>1 DEF Purchases, Sales, Total
<1>4. [i \in S |-> IF Bought(m[i]) THEN m[i].v ELSE 0] = c /\ [i \in S |-> IF Sold(m[i]) THEN m[i].v ELSE 0] = b
    BY <1>2
<1>5. Purchases(m) = SumFunction(c) /\ Sales(m) = SumFunction(b)
    BY <1>1, <1>4 DEF Purchases, Sales, Total
<1>6. b \in [S -> Nat] /\ c \in [S -> Nat]
    BY <1>2
<1>7. IsFiniteSet(S)
    BY <1>1, FS_Interval
<1> HIDE DEF b, c, S
<1>8. SumFunction(b) \in Nat /\ SumFunction(c) \in Nat
    BY <1>6, <1>7, SumNatural
<1> QED BY <1>3, <1>5, <1>8 DEF Delta

Signs == {-1, 0, 1}

LEMMA SignNegates ==
    ASSUME NEW n \in Int
    PROVE  Sign(n) \in Signs /\ Sign(-n) = -Sign(n)
BY DEF Sign, Signs

\* As many prices as prices in the mirror.
LEMMA AsManyPrices ==
    ASSUME NEW J, IsFiniteSet(J), NEW f \in [J -> Int], NEW g \in [J -> Int],
           \A j \in J : g[j] = Axis - f[j]
    PROVE  Cardinality({f[j] : j \in J}) = Cardinality({g[j] : j \in J})
<1> DEFINE A == {f[j] : j \in J}
           B == {g[j] : j \in J}
           b == [x \in A |-> Axis - x]
<1>1. f \in Surjection(J, A)
    BY DEF Surjection
<1>2. IsFiniteSet(A)
    BY <1>1, FS_Surjection
<1>3. \A x \in A : x \in Int /\ Axis - x \in B
    OBVIOUS
<1>4. \A y \in B : \E x \in A : y = Axis - x
    OBVIOUS
<1> HIDE DEF A, B
<1>5. b \in Bijection(A, B)
    BY <1>3, <1>4, FlowTypes DEF Bijection, Injection, Surjection, IsInjective
<1>6. ExistsBijection(A, B)
    BY <1>5 DEF ExistsBijection
<1> QED BY <1>2, <1>6, FS_Bijection DEF A, B

LEMMA FinitePlaces ==
    ASSUME NEW s, NEW m, Reflects(s, m)
    PROVE  IsFiniteSet(1 .. Len(s)) /\ Len(s) \in Nat /\ DOMAIN s = 1 .. Len(s) /\ DOMAIN m = 1 .. Len(s) /\ Len(m) = Len(s)
<1>1. Len(s) \in Nat /\ DOMAIN s = 1 .. Len(s) /\ DOMAIN m = 1 .. Len(s) /\ Len(m) = Len(s)
    BY DEF Reflects
<1> QED BY <1>1, FS_Interval

LEMMA PriceTypes ==
    ASSUME NEW s, NEW m, Reflects(s, m), NEW i \in 1 .. Len(s)
    PROVE  /\ s[i].p \in Int /\ s[i].bid \in Int /\ s[i].ask \in Int /\ s[i].v \in Nat
           /\ s[i].bq \in Nat /\ s[i].aq \in Nat
           /\ Image(s[i], m[i]) /\ m[i].p \in Int /\ m[i].v \in Nat
<1>1. s[i] \in TickRecords /\ Image(s[i], m[i]) /\ m[i] \in TickRecords
    BY DEF Reflects
<1> QED BY <1>1 DEF TickRecords

\* Prices that rose are, in the mirror, prices that fell.
LEMMA SweepsNegate ==
    ASSUME NEW s, NEW m, Reflects(s, m)
    PROVE  Sweeps(m) = -Sweeps(s) /\ Sweeps(s) \in Int
<1> DEFINE P == 1 .. Len(s) - SweepWindow + 1
           J(i) == i .. i + SweepWindow - 1
           L(i) == Cardinality({s[j].p : j \in J(i)})
           K(i) == Cardinality({m[j].p : j \in J(i)})
           Up(i) == Sign(s[i + SweepWindow - 1].p - s[i].p)
           Dn(i) == Sign(m[i + SweepWindow - 1].p - m[i].p)
           Q == {i \in P : L(i) >= SweepLevels}
           U == {i \in Q : Up(i) = 1}
           D == {i \in Q : Up(i) = -1}
<1>1. Len(s) \in Nat /\ Len(m) = Len(s) /\ SweepWindow \in Nat \ {0}
    BY FinitePlaces, FlowTypes
<1>2. ASSUME NEW i \in P
      PROVE  L(i) = K(i) /\ Dn(i) = -Up(i) /\ Up(i) \in Signs
  <2>1. i \in Int /\ J(i) \subseteq 1 .. Len(s) /\ i + SweepWindow - 1 \in J(i) /\ i \in J(i)
      BY <1>1
  <2>2. \A j \in J(i) : s[j].p \in Int /\ m[j].p \in Int /\ m[j].p = Axis - s[j].p
      BY <2>1, PriceTypes DEF Image
  <2>3. IsFiniteSet(J(i))
    <3>1. i + SweepWindow - 1 \in Int
        BY <1>1
    <3> QED BY <2>1, <3>1, FS_Interval
  <2>4. L(i) = K(i)
    <3> DEFINE f == [j \in J(i) |-> s[j].p]
               g == [j \in J(i) |-> m[j].p]
               I == J(i)
    <3>1. f \in [I -> Int] /\ g \in [I -> Int] /\ \A j \in I : g[j] = Axis - f[j]
        BY <2>2
    <3>2. L(i) = Cardinality({f[j] : j \in I}) /\ K(i) = Cardinality({g[j] : j \in I})
        OBVIOUS
    <3>3. IsFiniteSet(I)
        BY <2>3
    <3> HIDE DEF f, g, I
    <3>4. Cardinality({f[j] : j \in I}) = Cardinality({g[j] : j \in I})
        BY <3>1, <3>3, AsManyPrices
    <3> HIDE DEF L, K
    <3> QED BY <3>2, <3>4
  <2> DEFINE x == s[i + SweepWindow - 1].p
             y == s[i].p
  <2>5. x \in Int /\ y \in Int /\ m[i + SweepWindow - 1].p = Axis - x /\ m[i].p = Axis - y
      BY <2>1, <2>2
  <2> HIDE DEF x, y
  <2>6. (Axis - x) - (Axis - y) = -(x - y) /\ x - y \in Int
      BY <2>5, FlowTypes
  <2>7. Sign(-(x - y)) = -Sign(x - y) /\ Sign(x - y) \in Signs
      BY <2>6, SignNegates
  <2> QED BY <2>4, <2>5, <2>6, <2>7 DEF x, y
<1>3. Q = {i \in P : K(i) >= SweepLevels}
    BY <1>2
<1>4. \A i \in Q : (Dn(i) = 1 <=> Up(i) = -1) /\ (Dn(i) = -1 <=> Up(i) = 1)
  <2>1. Q \subseteq P
      OBVIOUS
  <2> HIDE DEF Q, P, L, K, Up, Dn
  <2>2. \A i \in P : (Dn(i) = 1 <=> Up(i) = -1) /\ (Dn(i) = -1 <=> Up(i) = 1)
      BY <1>2 DEF Signs
  <2> QED BY <2>1, <2>2
<1>5. U = {i \in Q : Dn(i) = -1} /\ D = {i \in Q : Dn(i) = 1}
    BY <1>4
<1>6. Sweeps(s) = Cardinality(U) - Cardinality(D)
    BY DEF Sweeps
<1>7. Sweeps(m) = Cardinality(D) - Cardinality(U)
    BY <1>1, <1>3, <1>5 DEF Sweeps
<1>8. IsFiniteSet(P)
    BY <1>1, FS_Interval
<1>9. IsFiniteSet(U) /\ IsFiniteSet(D)
    BY <1>8, FS_Subset
<1>10. Cardinality(U) \in Nat /\ Cardinality(D) \in Nat
    BY <1>9, FS_CardinalityType
<1> HIDE DEF U, D
<1> QED BY <1>6, <1>7, <1>10

\* Fills of one size at one price, and the places where there are three of them.
Alike(r, i, j) == r[j].v > 0 /\ r[j].p = r[i].p /\ Size(r[j]) = Size(r[i])
IceAt(r) == {i \in DOMAIN r : r[i].v > 0 /\ Cardinality({j \in DOMAIN r : Alike(r, i, j)}) >= 3}

\* An iceberg of buyers is one of sellers.
LEMMA IcebergsSwap ==
    ASSUME NEW s, NEW m, Reflects(s, m), Faced(s), s # <<>>
    PROVE  (Icebergs(m).buy <=> Icebergs(s).sell) /\ (Icebergs(m).sell <=> Icebergs(s).buy)
<1> DEFINE r == Latest(ShortWindow, s)
           q == Latest(ShortWindow, m)
           S == 1 .. Len(r)
<1>1. Reflects(r, q) /\ Len(m) = Len(s) /\ Len(s) \in Nat
    BY FlowTypes, LatestReflects, FinitePlaces
<1> HIDE DEF r, q
<1>2. DOMAIN r = S /\ DOMAIN q = S
    BY <1>1, FinitePlaces
<1>3. \A i \in S : r[i].p \in Int /\ Image(r[i], q[i])
    BY <1>1, PriceTypes
<1>4. \A i, j \in S : Alike(q, i, j) <=> Alike(r, i, j)
    BY <1>3, FlowTypes DEF Alike, Size, Image
<1>5. \A i \in S : {j \in S : Alike(q, i, j)} = {j \in S : Alike(r, i, j)}
    BY <1>4
<1>6. IceAt(q) = IceAt(r)
    BY <1>2, <1>3, <1>5 DEF IceAt, Image
<1> DEFINE t == Last(s)
           w == Last(m)
<1>7. t.bid \in Int /\ t.ask \in Int /\ Image(t, w) /\ t.bid < t.ask
  <2>1. Len(s) \in 1 .. Len(s) /\ t = s[Len(s)] /\ w = m[Len(s)]
    <3>1. s \in Seq(TickRecords)
        BY DEF Reflects
    <3> QED BY <1>1, <3>1, EmptySeq DEF Last
  <2>2. Facing(s[Len(s)])
      BY <2>1 DEF Faced
  <2> QED BY <2>1, <2>2, PriceTypes DEF Facing
<1>8. /\ Icebergs(s).buy <=> Len(s) >= 3 /\ \E i \in IceAt(r) : r[i].p >= t.ask
      /\ Icebergs(s).sell <=> Len(s) >= 3 /\ \E i \in IceAt(r) : r[i].p < t.ask /\ r[i].p <= t.bid
    BY DEF Icebergs, IceAt, Alike, Count, r
<1>9. /\ Icebergs(m).buy <=> Len(m) >= 3 /\ \E i \in IceAt(q) : q[i].p >= w.ask
      /\ Icebergs(m).sell <=> Len(m) >= 3 /\ \E i \in IceAt(q) : q[i].p < w.ask /\ q[i].p <= w.bid
    BY DEF Icebergs, IceAt, Alike, Count, q
<1>10. \A i \in IceAt(r) : i \in S
    BY <1>2 DEF IceAt
<1> HIDE DEF t, w
<1>11. \A i \in IceAt(r) : /\ q[i].p >= w.ask <=> r[i].p < t.ask /\ r[i].p <= t.bid
                           /\ q[i].p < w.ask /\ q[i].p <= w.bid <=> r[i].p >= t.ask
    BY <1>3, <1>7, <1>10, FlowTypes DEF Image
<1> QED BY <1>1, <1>6, <1>8, <1>9, <1>11

LEMMA NegateProduct ==
    ASSUME NEW a \in Signs, NEW b \in Signs
    PROVE  (-a) * (-b) = a * b /\ -a \in Signs /\ -(-a) = a
BY DEF Signs

\* Zero is its own negative.
LEMMA NegatedNothing == ASSUME NEW n \in Int, n = 0 PROVE n \in Signs /\ n = -n
<1>1. \A k \in Int : k + k = 0 => k = -k
    OBVIOUS
<1>2. n + n = 0 /\ n \in Signs
    BY DEF Signs
<1>3. n = -n
    BY <1>1, <1>2
<1> QED BY <1>2, <1>3

LEMMA SignsAre == \A n \in Signs : n \in Int /\ -n \in Signs
BY DEF Signs

\* Price and delta that part do so in the mirror, on the other side.
LEMMA DivergenceNegates ==
    ASSUME NEW s, NEW m, Reflects(s, m), Faced(s), s # <<>>
    PROVE  Divergence(m) = -Divergence(s) /\ Divergence(s) \in Signs
<1> DEFINE r == Latest(LongWindow, s)
           q == Latest(LongWindow, m)
           x == Sign(Last(r).p - r[1].p)
           y == Sign(Last(q).p - q[1].p)
           a == Sign(Delta(r))
           b == Sign(Delta(q))
<1>1. Reflects(r, q) /\ Faced(r) /\ Len(m) = Len(s) /\ Len(s) \in Nat
    BY FlowTypes, LatestReflects, FinitePlaces
<1>2. Len(r) \in Nat /\ Len(q) = Len(r) /\ 1 <= Len(r)
  <2>1. Len(r) = IF LongWindow < Len(s) THEN LongWindow ELSE Len(s)
      BY FlowTypes, LatestReflects
  <2>2. Len(s) # 0
      BY <1>1, EmptySeq DEF Reflects
  <2>3. Len(r) \in Nat /\ Len(q) = Len(r)
      BY <1>1, FinitePlaces
  <2> HIDE DEF r, q
  <2> QED BY <1>1, <2>1, <2>2, <2>3, FlowTypes
<1>3. Divergence(s) = (IF Len(s) < LongWindow \/ x * a # -1 THEN 0 ELSE a)
    BY DEF Divergence
<1>4. Divergence(m) = (IF Len(m) < LongWindow \/ y * b # -1 THEN 0 ELSE b)
    BY DEF Divergence
<1>5. Last(r) = r[Len(r)] /\ Last(q) = q[Len(q)]
    BY DEF Last
<1> HIDE DEF r, q
<1>6. Delta(q) = -Delta(r) /\ Delta(r) \in Int
    BY <1>1, SumsSwap
<1>7. a \in Signs /\ b = -a
    BY <1>6, SignNegates
<1> DEFINE d == Last(r).p
           e == r[1].p
<1>8. d \in Int /\ e \in Int /\ Last(q).p = Axis - d /\ q[1].p = Axis - e
    BY <1>1, <1>2, <1>5, PriceTypes DEF Image
<1> HIDE DEF d, e
<1>9. (Axis - d) - (Axis - e) = -(d - e) /\ d - e \in Int
    BY <1>8, FlowTypes
<1>10. Sign(-(d - e)) = -Sign(d - e) /\ Sign(d - e) \in Signs
    BY <1>9, SignNegates
<1>11. x \in Signs /\ y = -x
    BY <1>8, <1>9, <1>10 DEF d, e
<1> HIDE DEF x, y, a, b
<1>12. y * b = x * a
  <2>1. (-x) * (-a) = x * a
      BY <1>7, <1>11, NegateProduct
  <2> QED BY <1>7, <1>11, <2>1
<1>13. CASE Len(s) < LongWindow \/ x * a # -1
    BY <1>1, <1>3, <1>4, <1>12, <1>13, NegatedNothing
<1>14. CASE ~(Len(s) < LongWindow \/ x * a # -1)
    BY <1>1, <1>3, <1>4, <1>7, <1>12, <1>14
<1> QED BY <1>13, <1>14

\* Sizes are the same in the mirror, and so is what counts as a block.
LEMMA BlocksNegate ==
    ASSUME NEW s, NEW m, Reflects(s, m), Faced(s)
    PROVE  BlockDeals(m) = -BlockDeals(s) /\ BlockDeals(s) \in Int
<1> DEFINE r == Latest(ShortWindow, s)
           q == Latest(ShortWindow, m)
           S == 1 .. Len(r)
           v == [i \in S |-> r[i].v]
           n == Cardinality({i \in S : r[i].v > 0})
           t == SumFunction(v)
           Block(i) == r[i].v * n >= 5 * t
           U == {i \in S : Block(i) /\ Bought(r[i])}
           D == {i \in S : Block(i) /\ Sold(r[i])}
<1>1. Reflects(r, q) /\ Faced(r) /\ Len(m) = Len(s) /\ Len(s) \in Nat
    BY FlowTypes, LatestReflects, FinitePlaces
<1>3. BlockDeals(s) = IF Len(s) < ShortWindow \/ Count(r, LAMBDA k : k.v > 0) = 0 THEN 0
         ELSE Count(r, LAMBDA k : k.v * Count(r, LAMBDA l : l.v > 0) >= 5 * Total(r, LAMBDA l : l.v) /\ Bought(k))
              - Count(r, LAMBDA k : k.v * Count(r, LAMBDA l : l.v > 0) >= 5 * Total(r, LAMBDA l : l.v) /\ Sold(k))
    BY DEF BlockDeals
<1>4. BlockDeals(m) = IF Len(m) < ShortWindow \/ Count(q, LAMBDA k : k.v > 0) = 0 THEN 0
         ELSE Count(q, LAMBDA k : k.v * Count(q, LAMBDA l : l.v > 0) >= 5 * Total(q, LAMBDA l : l.v) /\ Bought(k))
              - Count(q, LAMBDA k : k.v * Count(q, LAMBDA l : l.v > 0) >= 5 * Total(q, LAMBDA l : l.v) /\ Sold(k))
    BY DEF BlockDeals
<1> HIDE DEF r, q
<1>2. DOMAIN r = S /\ DOMAIN q = S /\ IsFiniteSet(S)
    BY <1>1, FinitePlaces
<1>5. \A i \in S : /\ q[i].v = r[i].v
                   /\ Bought(q[i]) <=> Sold(r[i])
                   /\ Sold(q[i]) <=> Bought(r[i])
    BY <1>1, SidesSwap
<1>6. Count(r, LAMBDA k : k.v > 0) = n /\ Total(r, LAMBDA k : k.v) = t
    BY <1>2 DEF Count, Total
<1>7. Count(q, LAMBDA k : k.v > 0) = n
  <2>1. {i \in S : q[i].v > 0} = {i \in S : r[i].v > 0}
      BY <1>5
  <2> QED BY <1>2, <2>1 DEF Count
<1>8. Total(q, LAMBDA k : k.v) = t
  <2>1. [i \in S |-> q[i].v] = v
      BY <1>5
  <2> QED BY <1>2, <2>1 DEF Total
<1>9. BlockDeals(s) = IF Len(s) < ShortWindow \/ n = 0 THEN 0 ELSE Cardinality(U) - Cardinality(D)
    BY <1>2, <1>3, <1>6 DEF Count
<1> DEFINE E == {i \in S : q[i].v * n >= 5 * t /\ Bought(q[i])}
           F == {i \in S : q[i].v * n >= 5 * t /\ Sold(q[i])}
<1>10. E = D /\ F = U
    BY <1>5
<1>11. BlockDeals(m) = IF Len(m) < ShortWindow \/ n = 0 THEN 0 ELSE Cardinality(E) - Cardinality(F)
    BY <1>2, <1>4, <1>7, <1>8 DEF Count
<1>12. IsFiniteSet(U) /\ IsFiniteSet(D)
    BY <1>2, FS_Subset
<1>13. Cardinality(U) \in Nat /\ Cardinality(D) \in Nat
    BY <1>12, FS_CardinalityType
<1> HIDE DEF U, D, E, F, n
<1> QED BY <1>1, <1>9, <1>10, <1>11, <1>13

LEMMA ImbalanceNegates ==
    ASSUME NEW s, NEW m, Reflects(s, m)
    PROVE  Imbalance(m) = -Imbalance(s) /\ Imbalance(s) \in Signs
<1> DEFINE S == 1 .. Len(s)
           f == [i \in S |-> s[i].bq]
           g == [i \in S |-> s[i].aq]
           b == SumFunction(f)
           a == SumFunction(g)
<1>1. DOMAIN s = S /\ DOMAIN m = S /\ IsFiniteSet(S)
    BY FinitePlaces
<1>2. f \in [S -> Nat] /\ g \in [S -> Nat]
    BY PriceTypes
<1>3. [i \in S |-> m[i].bq] = g /\ [i \in S |-> m[i].aq] = f
    BY PriceTypes DEF Image
<1>4. Total(s, LAMBDA k : k.bq) = b /\ Total(s, LAMBDA k : k.aq) = a
    BY <1>1 DEF Total
<1>5. Total(m, LAMBDA k : k.bq) = a /\ Total(m, LAMBDA k : k.aq) = b
    BY <1>1, <1>3 DEF Total
<1>6. Imbalance(s) = IF 10 * (b - a) > 3 * (b + a) THEN 1
                     ELSE IF 10 * (a - b) > 3 * (b + a) THEN -1 ELSE 0
    BY <1>4 DEF Imbalance
<1>7. Imbalance(m) = IF 10 * (a - b) > 3 * (a + b) THEN 1
                     ELSE IF 10 * (b - a) > 3 * (a + b) THEN -1 ELSE 0
    BY <1>5 DEF Imbalance
<1> HIDE DEF S, f, g
<1>8. a \in Nat /\ b \in Nat
    BY <1>1, <1>2, SumNatural
<1> HIDE DEF a, b
<1> QED BY <1>6, <1>7, <1>8 DEF Signs

\* The side on which a delta gains over the one before.
Gains(curr, prev) ==
    IF curr = prev THEN 0
    ELSE IF prev = 0 THEN 1
    ELSE IF 5 * Max({curr - prev, prev - curr}) >= Max({prev, -prev})
            /\ Sign(curr) = Sign(curr - prev) THEN Sign(curr) ELSE 0

LEMMA GainsNegate ==
    ASSUME NEW a \in Int, NEW b \in Int, b = 0 => a = 0
    PROVE  Gains(-a, -b) = -Gains(a, b) /\ Gains(a, b) \in Signs
<1>1. /\ Max({a - b, b - a}) = IF a >= b THEN a - b ELSE b - a
      /\ Max({b, -b}) = IF b >= 0 THEN b ELSE -b
  <2>1. a - b \in Int /\ b - a \in Int /\ -b \in Int
      OBVIOUS
  <2>2. Max({a - b, b - a}) = IF a - b >= b - a THEN a - b ELSE b - a
      BY <2>1, TwoMax
  <2>3. Max({b, -b}) = IF b >= -b THEN b ELSE -b
      BY <2>1, TwoMax
  <2> QED BY <2>2, <2>3
<1>2. {-a - -b, -b - -a} = {a - b, b - a} /\ {-b, -(-b)} = {b, -b}
  <2>1. -a - -b = b - a /\ -b - -a = a - b /\ -(-b) = b
      OBVIOUS
  <2> QED BY <2>1
<1>3. -a - -b = -(a - b) /\ a - b \in Int
    OBVIOUS
<1>4. /\ Sign(-a) = -Sign(a) /\ Sign(a) \in Signs
      /\ Sign(-a - -b) = -Sign(a - b) /\ Sign(a - b) \in Signs
    BY <1>3, SignNegates
<1> DEFINE x == Max({a - b, b - a})
           y == Max({b, -b})
           w == Sign(a)
           z == Sign(a - b)
<1>5. Gains(a, b) = IF a = b THEN 0 ELSE IF b = 0 THEN 1 ELSE IF 5 * x >= y /\ w = z THEN w ELSE 0
    BY DEF Gains
<1>6. Gains(-a, -b) = IF -a = -b THEN 0 ELSE IF -b = 0 THEN 1 ELSE IF 5 * x >= y /\ -w = -z THEN -w ELSE 0
    BY <1>2, <1>4 DEF Gains
<1>7. w \in Signs /\ z \in Signs
    BY <1>4
<1> HIDE DEF x, y, w, z
<1>8. (-w = -z <=> w = z) /\ (-a = -b <=> a = b) /\ (-b = 0 <=> b = 0)
  <2>1. -w = -z <=> w = z
      BY <1>7 DEF Signs
  <2> QED BY <2>1
<1>9. CASE a = b
    BY <1>5, <1>6, <1>8, <1>9, NegatedNothing
<1>10. CASE a # b
    BY <1>5, <1>6, <1>7, <1>8, <1>10 DEF Signs
<1> QED BY <1>9, <1>10

LEMMA AccelerationNegates ==
    ASSUME NEW s, NEW m, Reflects(s, m), Faced(s),
           Len(s) >= LongWindow /\ Before(s) = 0 => Lately(s) = 0
    PROVE  Acceleration(m) = -Acceleration(s) /\ Acceleration(s) \in Signs
<1>1. Len(m) = Len(s) /\ Len(s) \in Nat
    BY FinitePlaces
<1>2. CASE Len(s) < LongWindow
  <2>1. Acceleration(s) = 0 /\ Acceleration(m) = 0
      BY <1>1, <1>2 DEF Acceleration
  <2>2. Acceleration(s) \in Int
      BY <2>1
  <2>3. Acceleration(s) \in Signs /\ Acceleration(s) = -Acceleration(s)
      BY <2>1, <2>2, NegatedNothing
  <2> QED BY <2>1, <2>3
<1>3. CASE ~(Len(s) < LongWindow)
  <2> DEFINE a == Len(s) - 2 * Half + 1
             b == Len(s) - Half
  <2>1. a \in Int /\ b \in Int /\ b + 1 \in Int /\ 1 <= a /\ 1 <= b + 1 /\ b <= Len(s) /\ Len(s) \in Int /\ Len(s) <= Len(s)
      BY <1>1, <1>3, FlowTypes
  <2>2. Before(s) = Delta(SubSeq(s, a, b)) /\ Lately(s) = Delta(SubSeq(s, b + 1, Len(s)))
      BY DEF Before, Lately
  <2>3. Before(m) = Delta(SubSeq(m, a, b)) /\ Lately(m) = Delta(SubSeq(m, b + 1, Len(s)))
      BY <1>1 DEF Before, Lately
  <2> HIDE DEF a, b
  <2>4. Reflects(SubSeq(s, a, b), SubSeq(m, a, b)) /\ Faced(SubSeq(s, a, b))
      BY <2>1, PartReflects
  <2>5. Reflects(SubSeq(s, b + 1, Len(s)), SubSeq(m, b + 1, Len(s))) /\ Faced(SubSeq(s, b + 1, Len(s)))
      BY <2>1, PartReflects
  <2>6. Before(m) = -Before(s) /\ Before(s) \in Int /\ Lately(m) = -Lately(s) /\ Lately(s) \in Int
      BY <2>2, <2>3, <2>4, <2>5, SumsSwap
  <2>7. Acceleration(s) = Gains(Lately(s), Before(s)) /\ Acceleration(m) = Gains(Lately(m), Before(m))
      BY <1>1, <1>3 DEF Acceleration, Gains
  <2>8. Before(s) = 0 => Lately(s) = 0
      BY <1>1, <1>3, FlowTypes
  <2> QED BY <2>6, <2>7, <2>8, GainsNegate
<1> QED BY <1>2, <1>3

LEMMA LotsNegate ==
    ASSUME NEW s, NEW m, Reflects(s, m)
    PROVE  LargeLots(m) = -LargeLots(s) /\ LargeLots(s) \in Int
<1> DEFINE r == Latest(10, s)
           q == Latest(10, m)
           S == 1 .. Len(r)
           U == {i \in S : r[i].p >= r[i].ask}
           D == {i \in S : r[i].p <= r[i].bid}
<1>1. Reflects(r, q)
  <2>1. 10 \in Nat
      OBVIOUS
  <2> QED BY <2>1, LatestReflects
<1>2. /\ LargeLots(s) = Count(r, LAMBDA k : k.p >= k.ask) - Count(r, LAMBDA k : k.p <= k.bid)
      /\ LargeLots(m) = Count(q, LAMBDA k : k.p >= k.ask) - Count(q, LAMBDA k : k.p <= k.bid)
    BY DEF LargeLots
<1> HIDE DEF r, q
<1>3. DOMAIN r = S /\ DOMAIN q = S /\ IsFiniteSet(S)
    BY <1>1, FinitePlaces
<1>4. \A i \in S : (q[i].p >= q[i].ask <=> r[i].p <= r[i].bid) /\ (q[i].p <= q[i].bid <=> r[i].p >= r[i].ask)
    BY <1>1, PriceTypes, FlowTypes DEF Image
<1>5. {i \in S : q[i].p >= q[i].ask} = D /\ {i \in S : q[i].p <= q[i].bid} = U
    BY <1>4
<1>6. LargeLots(s) = Cardinality(U) - Cardinality(D) /\ LargeLots(m) = Cardinality(D) - Cardinality(U)
    BY <1>2, <1>3, <1>5 DEF Count
<1>7. IsFiniteSet(U) /\ IsFiniteSet(D)
    BY <1>3, FS_Subset
<1>8. Cardinality(U) \in Nat /\ Cardinality(D) \in Nat
    BY <1>7, FS_CardinalityType
<1> HIDE DEF U, D
<1> QED BY <1>6, <1>8

LEMMA RaisesAlike ==
    ASSUME NEW s, NEW m, Reflects(s, m)
    PROVE  Raises(m) <=> Raises(s)
<1> DEFINE r == Latest(10, s)
           q == Latest(10, m)
<1>1. Reflects(r, q)
  <2>1. 10 \in Nat
      OBVIOUS
  <2> QED BY <2>1, LatestReflects
<1>2. Raises(s) <=> \E i \in DOMAIN r : ~r[i].quoted
    BY DEF Raises, ToSet
<1>3. Raises(m) <=> \E i \in DOMAIN q : ~q[i].quoted
    BY DEF Raises, ToSet
<1> HIDE DEF r, q
<1>4. DOMAIN r = 1 .. Len(r) /\ DOMAIN q = 1 .. Len(r)
    BY <1>1, FinitePlaces
<1>5. \A i \in 1 .. Len(r) : q[i].quoted = r[i].quoted
    BY <1>1, PriceTypes DEF Image
<1> QED BY <1>2, <1>3, <1>4, <1>5

\* What the cascade passes on.
Opinions == [dir : Signs, conf : Int]

LEMMA CapType == \A c \in Int : AtMost(c) \in Int
    BY TwoMax DEF AtMost, Cap

\* How a share of volume and of absorptions becomes a verdict.
Absorbs(s, side) ==
    IF side = "bid" THEN Cardinality({i \in 2 .. Len(s) : 2 * s[i].bq > 3 * s[i - 1].bq /\ s[i].p <= s[i].bid})
    ELSE Cardinality({i \in 2 .. Len(s) : 2 * s[i].aq > 3 * s[i - 1].aq /\ s[i].p >= s[i].ask})
Surely(part, whole, abs, all) == AtMost((10000 * part) \div whole + (2000 * abs) \div all)
Pressed(buy, sell, bidAbs, askAbs) ==
    LET Grade(part, abs) == Surely(part, buy + sell, abs, bidAbs + askAbs)
    IN  IF buy + sell = 0 THEN [dir |-> 2, conf |-> 0]
        ELSE IF 10 * buy > 6 * (buy + sell) /\ bidAbs > askAbs
             THEN [dir |-> 1, conf |-> Grade(buy, bidAbs)]
        ELSE IF 10 * sell > 6 * (buy + sell) /\ askAbs > bidAbs
             THEN [dir |-> -1, conf |-> Grade(sell, askAbs)]
        ELSE [dir |-> 0, conf |-> 3000]

LEMMA AbsorbsSwap ==
    ASSUME NEW s, NEW m, Reflects(s, m)
    PROVE  /\ Absorbs(m, "bid") = Absorbs(s, "ask") /\ Absorbs(m, "ask") = Absorbs(s, "bid")
           /\ Absorbs(s, "bid") \in Nat /\ Absorbs(s, "ask") \in Nat
<1> DEFINE S == 2 .. Len(s)
           U == {i \in S : 2 * s[i].bq > 3 * s[i - 1].bq /\ s[i].p <= s[i].bid}
           D == {i \in S : 2 * s[i].aq > 3 * s[i - 1].aq /\ s[i].p >= s[i].ask}
<1>1. Len(m) = Len(s) /\ Len(s) \in Nat
    BY FinitePlaces
<1>2. ASSUME NEW i \in S
      PROVE  /\ m[i].bq = s[i].aq /\ m[i].aq = s[i].bq
             /\ m[i - 1].bq = s[i - 1].aq /\ m[i - 1].aq = s[i - 1].bq
             /\ m[i].p <= m[i].bid <=> s[i].p >= s[i].ask
             /\ m[i].p >= m[i].ask <=> s[i].p <= s[i].bid
  <2>1. i \in 1 .. Len(s) /\ i - 1 \in 1 .. Len(s)
      BY <1>1
  <2>2. Image(s[i], m[i]) /\ Image(s[i - 1], m[i - 1]) /\ s[i].p \in Int /\ s[i].bid \in Int /\ s[i].ask \in Int
      BY <2>1, PriceTypes
  <2> QED BY <2>2, FlowTypes DEF Image
<1>3. /\ {i \in S : 2 * m[i].bq > 3 * m[i - 1].bq /\ m[i].p <= m[i].bid} = D
      /\ {i \in S : 2 * m[i].aq > 3 * m[i - 1].aq /\ m[i].p >= m[i].ask} = U
    BY <1>2
<1>4. IsFiniteSet(S)
  <2>1. 2 \in Int /\ Len(s) \in Int
      BY <1>1
  <2> QED BY <2>1, FS_Interval
<1>5. IsFiniteSet(U) /\ IsFiniteSet(D)
    BY <1>4, FS_Subset
<1>6. Cardinality(U) \in Nat /\ Cardinality(D) \in Nat
    BY <1>5, FS_CardinalityType
<1>7. Absorbs(s, "bid") = Cardinality(U) /\ Absorbs(s, "ask") = Cardinality(D)
    BY DEF Absorbs
<1>8. Absorbs(m, "bid") = Cardinality(D) /\ Absorbs(m, "ask") = Cardinality(U)
    BY <1>1, <1>3 DEF Absorbs
<1> HIDE DEF U, D
<1> QED BY <1>6, <1>7, <1>8

LEMMA SureType ==
    ASSUME NEW a \in Nat, NEW b \in Nat, NEW c \in Nat, NEW d \in Nat, b # 0, d # 0
    PROVE  Surely(a, b, c, d) \in Int
<1> DEFINE x == 10000 * a
           y == 2000 * c
<1>1. x \in Nat /\ y \in Nat
    OBVIOUS
<1> HIDE DEF x, y
<1>2. x \div b \in Nat /\ y \div d \in Nat
    BY <1>1, DivBelow
<1>3. x \div b + y \div d \in Int
    BY <1>2
<1> QED BY <1>3, CapType DEF x, y, Surely

LEMMA PressedSwaps ==
    ASSUME NEW buy \in Nat, NEW sell \in Nat, NEW b \in Nat, NEW a \in Nat
    PROVE  IF buy + sell = 0 THEN Pressed(buy, sell, b, a).dir = 2 /\ Pressed(sell, buy, a, b).dir = 2
           ELSE /\ Pressed(buy, sell, b, a) \in Opinions
                /\ Pressed(sell, buy, a, b) = Opposite(Pressed(buy, sell, b, a))
<1>1. buy + sell = sell + buy /\ b + a = a + b /\ buy + sell \in Nat /\ b + a \in Nat
    OBVIOUS
<1>2. CASE buy + sell = 0
    BY <1>1, <1>2 DEF Pressed
<1>3. CASE buy + sell # 0
  <2> DEFINE n == buy + sell
             k == b + a
             P == Surely(buy, n, b, k)
             Q == Surely(sell, n, a, k)
  <2>1. n \in Nat /\ n # 0 /\ k \in Nat /\ sell + buy = n /\ a + b = k /\ (b > a => k # 0) /\ (a > b => k # 0)
      BY <1>1, <1>3
  <2>2. Pressed(buy, sell, b, a) =
           IF 10 * buy > 6 * n /\ b > a THEN [dir |-> 1, conf |-> P]
           ELSE IF 10 * sell > 6 * n /\ a > b THEN [dir |-> -1, conf |-> Q]
           ELSE [dir |-> 0, conf |-> 3000]
      BY <1>3 DEF Pressed
  <2>3. Pressed(sell, buy, a, b) =
           IF 10 * sell > 6 * n /\ a > b THEN [dir |-> 1, conf |-> Q]
           ELSE IF 10 * buy > 6 * n /\ b > a THEN [dir |-> -1, conf |-> P]
           ELSE [dir |-> 0, conf |-> 3000]
      BY <1>3, <2>1 DEF Pressed
  <2> HIDE DEF n, k
  <2>4. (b > a => P \in Int) /\ (a > b => Q \in Int)
    <3>1. k # 0 => P \in Int
        BY <2>1, SureType
    <3>2. k # 0 => Q \in Int
        BY <2>1, SureType
    <3> QED BY <2>1, <3>1, <3>2
  <2> HIDE DEF P, Q
  <2>5. CASE 10 * buy > 6 * n /\ b > a
    <3>1. Pressed(buy, sell, b, a) = [dir |-> 1, conf |-> P] /\ Pressed(sell, buy, a, b) = [dir |-> -1, conf |-> P]
        BY <2>2, <2>3, <2>5
    <3> QED BY <1>3, <2>4, <2>5, <3>1 DEF Opinions, Signs, Opposite
  <2>6. CASE ~(10 * buy > 6 * n /\ b > a) /\ 10 * sell > 6 * n /\ a > b
    <3>1. Pressed(buy, sell, b, a) = [dir |-> -1, conf |-> Q] /\ Pressed(sell, buy, a, b) = [dir |-> 1, conf |-> Q]
        BY <2>2, <2>3, <2>6
    <3> QED BY <1>3, <2>4, <2>6, <3>1 DEF Opinions, Signs, Opposite
  <2>7. CASE ~(10 * buy > 6 * n /\ b > a) /\ ~(10 * sell > 6 * n /\ a > b)
    <3>1. Pressed(buy, sell, b, a) = [dir |-> 0, conf |-> 3000] /\ Pressed(sell, buy, a, b) = [dir |-> 0, conf |-> 3000]
        BY <2>2, <2>3, <2>7
    <3> QED BY <1>3, <3>1 DEF Opinions, Signs, Opposite
  <2> QED BY <2>5, <2>6, <2>7
<1> QED BY <1>2, <1>3

\* The first direction is opposite, and missing alike.
LEMMA PressureOpposite ==
    ASSUME NEW s, NEW m, Reflects(s, m), Faced(s)
    PROVE  /\ Pressure(m).dir = 2 <=> Pressure(s).dir = 2
           /\ Pressure(s).dir # 2 => Pressure(s) \in Opinions /\ Pressure(m) = Opposite(Pressure(s))
<1> DEFINE buy == Purchases(s)
           sell == Sales(s)
           b == Absorbs(s, "bid")
           a == Absorbs(s, "ask")
<1>1. Purchases(m) = sell /\ Sales(m) = buy /\ buy \in Nat /\ sell \in Nat
    BY SumsSwap
<1>2. Absorbs(m, "bid") = a /\ Absorbs(m, "ask") = b /\ a \in Nat /\ b \in Nat
    BY AbsorbsSwap
<1>3. Pressure(s) = Pressed(buy, sell, b, a) /\ Pressure(m) = Pressed(Purchases(m), Sales(m), Absorbs(m, "bid"), Absorbs(m, "ask"))
    BY DEF Pressure, Pressed, Surely, Absorbs
<1>4. Pressure(m) = Pressed(sell, buy, a, b)
    BY <1>1, <1>2, <1>3
<1> HIDE DEF buy, sell, a, b
<1>5. CASE buy + sell = 0
    BY <1>1, <1>2, <1>3, <1>4, <1>5, PressedSwaps
<1>6. CASE buy + sell # 0
  <2>1. Pressure(s) \in Opinions /\ Pressure(m) = Opposite(Pressure(s))
      BY <1>1, <1>2, <1>3, <1>4, <1>6, PressedSwaps
  <2>2. Pressure(s).dir # 2 /\ Pressure(m).dir # 2
      BY <2>1 DEF Opinions, Signs, Opposite
  <2> QED BY <2>1, <2>2
<1> QED BY <1>5, <1>6

\* Two verdicts that differ in their side only.
Opposed(v, w) ==
    /\ v = [dir |-> v.dir, conf |-> v.conf] /\ w = [dir |-> -v.dir, conf |-> v.conf]
    /\ v.dir \in Signs /\ v.conf \in Int

LEMMA OpposedIs ==
    ASSUME NEW v \in Opinions
    PROVE  Opposed(v, Opposite(v))
<1>1. v = [dir |-> v.dir, conf |-> v.conf] /\ v.dir \in Signs /\ v.conf \in Int
    BY DEF Opinions
<1>2. Opposite(v) = [dir |-> -v.dir, conf |-> v.conf]
    BY <1>1 DEF Opposite
<1> QED BY <1>1, <1>2 DEF Opposed

LEMMA OpposedMeans ==
    ASSUME NEW v, NEW w, Opposed(v, w)
    PROVE  w = Opposite(v)
BY DEF Opposed, Opposite

LEMMA OpposedFields ==
    ASSUME NEW v, NEW w, Opposed(v, w)
    PROVE  v.dir \in Signs /\ v.conf \in Int /\ w.dir = -v.dir /\ w.conf = v.conf
BY DEF Opposed

\* Only the confidence changes, on both sides alike.
LEMMA OpposedConfidence ==
    ASSUME NEW v, NEW w, Opposed(v, w), NEW c \in Int
    PROVE  Opposed([v EXCEPT !.conf = c], [w EXCEPT !.conf = c])
<1>1. v = [dir |-> v.dir, conf |-> v.conf] /\ w = [dir |-> -v.dir, conf |-> v.conf] /\ v.dir \in Signs
    BY DEF Opposed
<1>2. [v EXCEPT !.conf = c] = [dir |-> v.dir, conf |-> c]
    BY <1>1
<1>3. [w EXCEPT !.conf = c] = [dir |-> -v.dir, conf |-> c]
    BY <1>1
<1> QED BY <1>1, <1>2, <1>3 DEF Opposed

LEMMA OpposedSides ==
    ASSUME NEW d \in Signs, NEW side \in Signs, NEW e, e = -d, NEW other, other = -side
    PROVE  /\ other = 0 <=> side = 0
           /\ e = -other <=> d = -side
           /\ e = other <=> d = side
           /\ e # 0 <=> d # 0
           /\ d # 0 /\ side = -d <=> e # 0 /\ other = -e
           /\ d # 0 /\ side = d <=> e # 0 /\ other = e
           /\ side # 0 /\ d # -side <=> other # 0 /\ e # -other
BY DEF Signs

LEMMA PushOpposed ==
    ASSUME NEW v, NEW w, Opposed(v, w), NEW side \in Signs, NEW other, other = -side,
           NEW gain \in Int, NEW fresh \in Int
    PROVE  Opposed(Push(v, side, gain, fresh), Push(w, other, gain, fresh))
<1>1. v.dir \in Signs /\ v.conf \in Int /\ w.dir = -v.dir /\ w.conf = v.conf
    BY OpposedFields
<1>2. /\ other = 0 <=> side = 0
      /\ w.dir = -other <=> v.dir = -side
      /\ w.dir = other <=> v.dir = side
    BY <1>1, OpposedSides
<1>3. CASE side = 0 \/ v.dir = -side
    BY <1>2, <1>3 DEF Push
<1>4. CASE ~(side = 0 \/ v.dir = -side) /\ v.dir = side
  <2> DEFINE c == AtMost(v.conf + gain)
  <2>1. Push(v, side, gain, fresh) = [v EXCEPT !.conf = c] /\ Push(w, other, gain, fresh) = [w EXCEPT !.conf = c]
      BY <1>1, <1>2, <1>4 DEF Push
  <2>2. c \in Int
    <3>1. v.conf + gain \in Int
        BY <1>1
    <3> QED BY <3>1, CapType
  <2> HIDE DEF c
  <2> QED BY <2>1, <2>2, OpposedConfidence
<1>5. CASE ~(side = 0 \/ v.dir = -side) /\ v.dir # side
  <2>1. Push(v, side, gain, fresh) = [dir |-> side, conf |-> fresh] /\ Push(w, other, gain, fresh) = [dir |-> -side, conf |-> fresh]
      BY <1>1, <1>2, <1>5 DEF Push
  <2> QED BY <2>1 DEF Opposed
<1> QED BY <1>3, <1>4, <1>5

LEMMA BeyondNegates ==
    ASSUME NEW n \in Int, NEW k, k = -n
    PROVE  Beyond(n, 2) \in Signs /\ Beyond(k, 2) = -Beyond(n, 2)
BY DEF Beyond, Signs

LEMMA SweptOpposed ==
    ASSUME NEW s, NEW m, Reflects(s, m), NEW v, NEW w, Opposed(v, w)
    PROVE  Opposed(Swept(v, s), Swept(w, m))
<1>1. Beyond(Sweeps(s), 2) \in Signs /\ Beyond(Sweeps(m), 2) = -Beyond(Sweeps(s), 2)
    BY SweepsNegate, BeyondNegates
<1> QED BY <1>1, PushOpposed DEF Swept

LEMMA LottedOpposed ==
    ASSUME NEW s, NEW m, Reflects(s, m), NEW v, NEW w, Opposed(v, w)
    PROVE  Opposed(Lotted(v, s), Lotted(w, m))
<1>1. Beyond(LargeLots(s), 2) \in Signs /\ Beyond(LargeLots(m), 2) = -Beyond(LargeLots(s), 2)
    BY LotsNegate, BeyondNegates
<1> QED BY <1>1, PushOpposed DEF Lotted

LEMMA BlockedOpposed ==
    ASSUME NEW s, NEW m, Reflects(s, m), Faced(s), NEW v, NEW w, Opposed(v, w)
    PROVE  Opposed(Blocked(v, s), Blocked(w, m))
<1>1. Sign(BlockDeals(s)) \in Signs /\ Sign(BlockDeals(m)) = -Sign(BlockDeals(s))
    BY BlocksNegate, SignNegates
<1> QED BY <1>1, PushOpposed DEF Blocked

\* Which side icebergs are on, when they are on one.
IceSide(ice) == IF ice.buy THEN 1 ELSE IF ice.sell THEN -1 ELSE 0

LEMMA IcedIs ==
    ASSUME NEW v, v.dir \in Signs, NEW s
    PROVE  Iced(v, s) = IF Icebergs(s).buy /\ Icebergs(s).sell THEN Iced(v, s)
                        ELSE Push(v, IceSide(Icebergs(s)), 800, AtMost(v.conf + 800))
<1>1. CASE Icebergs(s).buy /\ Icebergs(s).sell
    BY <1>1
<1>2. CASE Icebergs(s).buy /\ ~Icebergs(s).sell
  <2>1. IceSide(Icebergs(s)) = 1
      BY <1>2 DEF IceSide
  <2>2. CASE v.dir # -1
      BY <1>2, <2>1, <2>2 DEF Iced
  <2>3. CASE v.dir = -1
    <3>1. Iced(v, s) = v
        BY <1>2, <2>3 DEF Iced, Push
    <3>2. Push(v, 1, 800, AtMost(v.conf + 800)) = v
        BY <2>3 DEF Push
    <3> QED BY <1>2, <2>1, <3>1, <3>2
  <2> QED BY <2>2, <2>3
<1>3. CASE ~Icebergs(s).buy
    BY <1>3 DEF Iced, IceSide
<1> QED BY <1>1, <1>2, <1>3

LEMMA IcedOpposed ==
    ASSUME NEW s, NEW m, Reflects(s, m), Faced(s), s # <<>>,
           ~(Icebergs(s).buy /\ Icebergs(s).sell), NEW v, NEW w, Opposed(v, w)
    PROVE  Opposed(Iced(v, s), Iced(w, m))
<1> DEFINE x == Icebergs(s).buy
           y == Icebergs(s).sell
           side == IceSide(Icebergs(s))
           other == IceSide(Icebergs(m))
           fresh == AtMost(v.conf + 800)
<1>1. v.dir \in Signs /\ v.conf \in Int /\ w.dir = -v.dir /\ w.conf = v.conf
    BY OpposedFields
<1>2. w.dir \in Signs
    BY <1>1, SignsAre
<1>3. (Icebergs(m).buy <=> y) /\ (Icebergs(m).sell <=> x)
    BY IcebergsSwap
<1>4. side = (IF x THEN 1 ELSE IF y THEN -1 ELSE 0) /\ other = (IF y THEN 1 ELSE IF x THEN -1 ELSE 0)
    BY <1>3 DEF IceSide
<1>5. Iced(v, s) = Push(v, side, 800, fresh)
    BY <1>1, IcedIs
<1>6. Iced(w, m) = Push(w, other, 800, fresh)
  <2>1. ~(Icebergs(m).buy /\ Icebergs(m).sell)
      BY <1>3
  <2> QED BY <1>1, <1>2, <2>1, IcedIs
<1>7. fresh \in Int
  <2>1. v.conf + 800 \in Int
      BY <1>1
  <2> QED BY <2>1, CapType
<1>8. ~(x /\ y)
    OBVIOUS
<1> HIDE DEF x, y, side, other, fresh
<1>9. side \in Signs
    BY <1>4 DEF Signs
<1>10. other = -side
  <2>1. \A k, l \in Int : k + l = 0 => l = -k
      OBVIOUS
  <2>2. side \in Int /\ other \in Int /\ side + other = 0
      BY <1>4, <1>8
  <2> QED BY <2>1, <2>2
<1> QED BY <1>5, <1>6, <1>7, <1>9, <1>10, PushOpposed

LEMMA DivergedOpposed ==
    ASSUME NEW s, NEW m, Reflects(s, m), Faced(s), s # <<>>, NEW v, NEW w, Opposed(v, w)
    PROVE  Opposed(Diverged(v, s), Diverged(w, m))
<1> DEFINE c == Max({3000, v.conf - 1500})
           x == Divergence(s)
<1>1. v.dir \in Signs /\ v.conf \in Int /\ w.dir = -v.dir /\ w.conf = v.conf
    BY OpposedFields
<1>2. x \in Signs /\ Divergence(m) = -x
    BY DivergenceNegates
<1> HIDE DEF x
<1>3. v.dir # 0 /\ x = -v.dir <=> w.dir # 0 /\ Divergence(m) = -w.dir
    BY <1>1, <1>2, OpposedSides
<1>4. c \in Int
  <2>1. v.conf - 1500 \in Int
      BY <1>1
  <2> QED BY <2>1, TwoMax
<1>5. Opposed([v EXCEPT !.conf = c], [w EXCEPT !.conf = c])
  <2> HIDE DEF c
  <2> QED BY <1>4, OpposedConfidence
<1>6. Diverged(v, s) = (IF v.dir # 0 /\ x = -v.dir THEN [v EXCEPT !.conf = c] ELSE v)
    BY DEF Diverged, x
<1>7. Diverged(w, m) = (IF w.dir # 0 /\ Divergence(m) = -w.dir THEN [w EXCEPT !.conf = c] ELSE w)
    BY <1>1 DEF Diverged
<1> HIDE DEF c
<1> QED BY <1>3, <1>5, <1>6, <1>7

LEMMA QuotedOpposed ==
    ASSUME NEW s, NEW m, Reflects(s, m), NEW v, NEW w, Opposed(v, w)
    PROVE  Opposed(Quoted(v, s), Quoted(w, m))
<1> DEFINE c == AtMost(v.conf + 500)
           x == Imbalance(s)
<1>1. v.dir \in Signs /\ v.conf \in Int /\ w.dir = -v.dir /\ w.conf = v.conf
    BY OpposedFields
<1>2. x \in Signs /\ Imbalance(m) = -x
    BY ImbalanceNegates
<1> HIDE DEF x
<1>3. x # 0 /\ v.dir # -x <=> Imbalance(m) # 0 /\ w.dir # -Imbalance(m)
    BY <1>1, <1>2, OpposedSides
<1>4. c \in Int
  <2>1. v.conf + 500 \in Int
      BY <1>1
  <2> QED BY <2>1, CapType
<1>5. Opposed([v EXCEPT !.conf = c], [w EXCEPT !.conf = c])
  <2> HIDE DEF c
  <2> QED BY <1>4, OpposedConfidence
<1>6. Quoted(v, s) = (IF x # 0 /\ v.dir # -x THEN [v EXCEPT !.conf = c] ELSE v)
    BY DEF Quoted, x
<1>7. Quoted(w, m) = (IF Imbalance(m) # 0 /\ w.dir # -Imbalance(m) THEN [w EXCEPT !.conf = c] ELSE w)
    BY <1>1 DEF Quoted
<1> HIDE DEF c
<1> QED BY <1>3, <1>5, <1>6, <1>7

LEMMA SpedOpposed ==
    ASSUME NEW s, NEW m, Reflects(s, m), Faced(s), NEW v, NEW w, Opposed(v, w),
           Len(s) >= LongWindow /\ Before(s) = 0 => Lately(s) = 0
    PROVE  Opposed(Sped(v, s), Sped(w, m))
<1> DEFINE c == AtMost(v.conf + 500)
           x == Acceleration(s)
<1>1. v.dir \in Signs /\ v.conf \in Int /\ w.dir = -v.dir /\ w.conf = v.conf
    BY OpposedFields
<1>2. x \in Signs /\ Acceleration(m) = -x
    BY AccelerationNegates
<1> HIDE DEF x
<1>3. v.dir # 0 /\ x = v.dir <=> w.dir # 0 /\ Acceleration(m) = w.dir
    BY <1>1, <1>2, OpposedSides
<1>4. c \in Int
  <2>1. v.conf + 500 \in Int
      BY <1>1
  <2> QED BY <2>1, CapType
<1>5. Opposed([v EXCEPT !.conf = c], [w EXCEPT !.conf = c])
  <2> HIDE DEF c
  <2> QED BY <1>4, OpposedConfidence
<1>6. Sped(v, s) = (IF v.dir # 0 /\ x = v.dir THEN [v EXCEPT !.conf = c] ELSE v)
    BY DEF Sped, x
<1>7. Sped(w, m) = (IF w.dir # 0 /\ Acceleration(m) = w.dir THEN [w EXCEPT !.conf = c] ELSE w)
    BY <1>1 DEF Sped
<1> HIDE DEF c
<1> QED BY <1>3, <1>5, <1>6, <1>7

LEMMA WeightedOpposed ==
    ASSUME NEW v, NEW w, Opposed(v, w)
    PROVE  Opposed(Weighted(v), Weighted(w))
<1> DEFINE c == AtMost((v.conf * 115) \div 100)
<1>1. v.conf \in Int /\ w.conf = v.conf
    BY OpposedFields
<1>2. c \in Int
  <2>1. (v.conf * 115) \div 100 \in Int
      BY <1>1
  <2> QED BY <2>1, CapType
<1>3. Weighted(v) = (IF ExpiryDay THEN [v EXCEPT !.conf = c] ELSE v)
    BY DEF Weighted
<1>4. Weighted(w) = (IF ExpiryDay THEN [w EXCEPT !.conf = c] ELSE w)
    BY <1>1 DEF Weighted
<1> HIDE DEF c
<1>5. Opposed([v EXCEPT !.conf = c], [w EXCEPT !.conf = c])
    BY <1>2, OpposedConfidence
<1> QED BY <1>3, <1>4, <1>5

\* A book and the same book with its sides changed.
Flipped(d, e) ==
    /\ d.bid \in Nat /\ d.ask \in Nat /\ d.near \in Nat
    /\ e.bid = d.ask /\ e.ask = d.bid /\ e.near = d.near

LEMMA TurnedFlips ==
    ASSUME NEW d \in DepthRecords \cup {NoDepth}
    PROVE  Flipped(d, Turned(d))
<1>1. CASE d \in DepthRecords
    BY <1>1 DEF DepthRecords, Flipped, Turned
<1>2. CASE d = NoDepth
    BY <1>2 DEF NoDepth, Flipped, Turned
<1> QED BY <1>1, <1>2

LEMMA BookedOpposed ==
    ASSUME NEW d, NEW e, Flipped(d, e), NEW v, NEW w, Opposed(v, w)
    PROVE  Opposed(Booked(v, d), Booked(w, e))
<1> USE DEF Flipped
<1> DEFINE fresh == AtMost(v.conf + 700)
           x == Push(v, BookSide(d), 700, fresh)
           y == Push(w, BookSide(e), 700, fresh)
           c == Max({2500, x.conf - 500})
<1>1. BookSide(d) \in Signs /\ BookSide(e) = -BookSide(d)
  <2> DEFINE a == d.ask
             b == d.bid
  <2>1. BookSide(d) = IF 5 * (b - a) > b + a THEN 1 ELSE IF 5 * (a - b) > b + a THEN -1 ELSE 0
      BY DEF BookSide
  <2>2. BookSide(e) = IF 5 * (a - b) > a + b THEN 1 ELSE IF 5 * (b - a) > a + b THEN -1 ELSE 0
      BY DEF BookSide
  <2>3. a \in Nat /\ b \in Nat
      OBVIOUS
  <2> HIDE DEF a, b
  <2> QED BY <2>1, <2>2, <2>3 DEF Signs
<1>2. Thin(e) <=> Thin(d)
    BY DEF Thin
<1>3. v.conf \in Int /\ w.conf = v.conf
    BY OpposedFields
<1>4. fresh \in Int
  <2>1. v.conf + 700 \in Int
      BY <1>3
  <2> QED BY <2>1, CapType
<1>5. Opposed(x, y)
  <2> HIDE DEF fresh
  <2> QED BY <1>1, <1>4, PushOpposed
<1>6. Booked(v, d) = (IF Thin(d) THEN [x EXCEPT !.conf = Max({2500, x.conf - 500})] ELSE x)
    BY DEF Booked
<1>7. Booked(w, e) = (IF Thin(e) THEN [y EXCEPT !.conf = Max({2500, y.conf - 500})] ELSE y)
    BY <1>3 DEF Booked
<1> HIDE DEF x, y
<1>8. x.conf \in Int /\ y.conf = x.conf
    BY <1>5, OpposedFields
<1>9. c \in Int
  <2>1. x.conf - 500 \in Int
      BY <1>8
  <2> QED BY <2>1, TwoMax
<1>10. Booked(w, e) = (IF Thin(d) THEN [y EXCEPT !.conf = c] ELSE y) /\ Booked(v, d) = (IF Thin(d) THEN [x EXCEPT !.conf = c] ELSE x)
    BY <1>2, <1>6, <1>7, <1>8
<1> HIDE DEF c
<1>11. Opposed([x EXCEPT !.conf = c], [y EXCEPT !.conf = c])
    BY <1>5, <1>9, OpposedConfidence
<1> QED BY <1>5, <1>10, <1>11

\* The mirror of a market gives the opposite verdict.
LEMMA AnalysisOpposite ==
    ASSUME NEW s, NEW m, Reflects(s, m), s # <<>>, NEW ls, NEW lm, Reflects(ls, lm),
           NEW d, NEW e, Flipped(d, e), OneSided(s)
    PROVE  Analysis(m, lm, e) = Opposite(Analysis(s, ls, d))
<1>1. Faced(s) /\ ~(Icebergs(s).buy /\ Icebergs(s).sell) /\ (Len(s) >= LongWindow /\ Before(s) = 0 => Lately(s) = 0)
    BY FinitePlaces DEF OneSided, Faced
<1>2. Len(m) = Len(s) /\ (Raises(lm) <=> Raises(ls)) /\ (Pressure(m).dir = 2 <=> Pressure(s).dir = 2)
    BY <1>1, FinitePlaces, RaisesAlike, PressureOpposite
<1>3. CASE Len(s) < MinTicks \/ Pressure(s).dir = 2 \/ Raises(ls)
  <2>1. Analysis(s, ls, d) = NoSignal /\ Analysis(m, lm, e) = NoSignal
      BY <1>2, <1>3 DEF Analysis
  <2>2. NoSignal \in Opinions
      BY DEF NoSignal, Opinions, Signs
  <2>3. Opposite(NoSignal) = NoSignal
    <3> DEFINE n == NoSignal.dir
    <3>1. NoSignal = [dir |-> n, conf |-> 0] /\ n = 0 /\ n \in Int
        BY DEF NoSignal
    <3>2. -n = n
        BY <3>1, NegatedNothing
    <3> HIDE DEF n
    <3>3. [NoSignal EXCEPT !.dir = -n] = [dir |-> -n, conf |-> 0]
        BY <3>1
    <3>4. NoSignal.dir = n
        BY DEF n
    <3> QED BY <3>1, <3>2, <3>3, <3>4 DEF Opposite
  <2> QED BY <2>1, <2>3
<1>4. CASE ~(Len(s) < MinTicks \/ Pressure(s).dir = 2 \/ Raises(ls))
  <2> DEFINE v0 == Pressure(s)            w0 == Pressure(m)
             v1 == Swept(v0, s)           w1 == Swept(w0, m)
             v2 == Iced(v1, s)            w2 == Iced(w1, m)
             v3 == Diverged(v2, s)        w3 == Diverged(w2, m)
             v4 == Lotted(v3, ls)         w4 == Lotted(w3, lm)
             v5 == Blocked(v4, s)         w5 == Blocked(w4, m)
             v6 == Quoted(v5, s)          w6 == Quoted(w5, m)
             v7 == Booked(v6, d)          w7 == Booked(w6, e)
             v8 == Sped(v7, s)            w8 == Sped(w7, m)
             v9 == Weighted(v8)           w9 == Weighted(w8)
  <2>1. Analysis(s, ls, d) = v9 /\ Analysis(m, lm, e) = w9
      BY <1>2, <1>4 DEF Analysis
  <2> HIDE DEF v9, w9
  <2>2. Opposed(v0, w0)
    <3>1. Pressure(s) \in Opinions /\ Pressure(m) = Opposite(Pressure(s))
        BY <1>1, <1>4, PressureOpposite
    <3> QED BY <3>1, OpposedIs
  <2> HIDE DEF v0, w0
  <2>3. Opposed(v1, w1)
      BY <2>2, SweptOpposed
  <2> HIDE DEF v1, w1
  <2>4. Opposed(v2, w2)
      BY <1>1, <2>3, IcedOpposed
  <2> HIDE DEF v2, w2
  <2>5. Opposed(v3, w3)
      BY <1>1, <2>4, DivergedOpposed
  <2> HIDE DEF v3, w3
  <2>6. Opposed(v4, w4)
      BY <2>5, LottedOpposed
  <2> HIDE DEF v4, w4
  <2>7. Opposed(v5, w5)
      BY <1>1, <2>6, BlockedOpposed
  <2> HIDE DEF v5, w5
  <2>8. Opposed(v6, w6)
      BY <2>7, QuotedOpposed
  <2> HIDE DEF v6, w6
  <2>9. Opposed(v7, w7)
      BY <2>8, BookedOpposed
  <2> HIDE DEF v7, w7
  <2>10. Opposed(v8, w8)
      BY <1>1, <2>9, SpedOpposed
  <2> HIDE DEF v8, w8
  <2>11. Opposed(v9, w9)
      BY <2>10, WeightedOpposed DEF v9, w9
  <2> QED BY <2>1, <2>11, OpposedMeans
<1> QED BY <1>3, <1>4

\* What was received are ticks, and what is known of the book is a snapshot.
FlowInv ==
    /\ DOMAIN window = FlowUnderlyings /\ DOMAIN lots = FlowUnderlyings /\ DOMAIN depth = FlowUnderlyings
    /\ \A u \in FlowUnderlyings : /\ window[u] \in Seq(TickRecords)
                                  /\ lots[u] \in Seq(TickRecords)
                                  /\ depth[u] \in DepthRecords \cup {NoDepth}
FlowSpec == FlowInit /\ [][FlowNext]_flowVars

LEMMA LatestTicks ==
    ASSUME NEW n \in Nat, NEW s \in Seq(TickRecords)
    PROVE  Latest(n, s) \in Seq(TickRecords)
<1>1. Reflects(s, Mirrored(s))
    BY MirroredReflects
<1>2. Reflects(Latest(n, s), Latest(n, Mirrored(s)))
    BY <1>1, LatestReflects
<1> QED BY <1>2 DEF Reflects

LEMMA ReceivedKeeps ==
    ASSUME FlowInv, NEW u \in FlowUnderlyings, NEW t \in TickRecords, Received(u, t), UNCHANGED depth
    PROVE  FlowInv'
<1> USE DEF FlowInv
<1>1. Append(window[u], t) \in Seq(TickRecords) /\ Append(lots[u], t) \in Seq(TickRecords)
    BY AppendProperties
<1>2. Latest(TickWindow, Append(window[u], t)) \in Seq(TickRecords) /\ Latest(LotsKept, Append(lots[u], t)) \in Seq(TickRecords)
    BY <1>1, FlowTypes, LatestTicks
<1>3. /\ window' = [window EXCEPT ![u] = Latest(TickWindow, Append(window[u], t))]
      /\ lots' = [lots EXCEPT ![u] = IF t.v >= LargeLot THEN Latest(LotsKept, Append(lots[u], t)) ELSE lots[u]]
    BY DEF Received
<1> QED BY <1>2, <1>3

\* Windows and lots hold ticks, whatever was received.
THEOREM FlowInvariant == FlowSpec => []FlowInv
<1>1. FlowInit => FlowInv
  <2>1. <<>> \in Seq(TickRecords)
      BY EmptySeq
  <2> QED BY <2>1 DEF FlowInit, FlowInv
<1>2. FlowInv /\ [FlowNext]_flowVars => FlowInv'
  <2> SUFFICES ASSUME FlowInv, [FlowNext]_flowVars PROVE FlowInv'
      OBVIOUS
  <2>1. CASE UNCHANGED flowVars
      BY <2>1 DEF FlowInv, flowVars
  <2>2. ASSUME NEW u \in FlowUnderlyings, NEW t \in FlowTicks, FlowTick(u, t) PROVE FlowInv'
    <3>1. t \in TickRecords
        BY FlowAssumption
    <3> QED BY <2>2, <3>1, ReceivedKeeps DEF FlowTick
  <2>3. ASSUME NEW u \in FlowUnderlyings, NEW d \in Depths, FlowDepth(u, d) PROVE FlowInv'
    <3>1. d \in DepthRecords
        BY FlowAssumption
    <3>2. CASE DepthChannel = "depth"
        BY <2>3, <3>1, <3>2 DEF FlowDepth, FlowInv
    <3>3. CASE DepthChannel # "depth"
      <4>1. AsTick(d) \in TickRecords
          BY <3>1 DEF AsTick, TickRecords, DepthRecords
      <4>2. Received(u, AsTick(d)) /\ UNCHANGED depth
          BY <2>3, <3>3 DEF FlowDepth
      <4> QED BY <4>1, <4>2, ReceivedKeeps
    <3> QED BY <3>2, <3>3
  <2> QED BY <2>1, <2>2, <2>3 DEF FlowNext
<1> QED BY <1>1, <1>2, PTL DEF FlowSpec

\* The order flow specialist has no bias, whatever the ticks, windows and mirror
\* (order_flow_agent.py:389).
THEOREM FlowAlwaysUnbiased == FlowSpec => []FlowUnbiased
<1>1. FlowInv => FlowUnbiased
  <2> SUFFICES ASSUME FlowInv, NEW u \in FlowUnderlyings, window[u] # <<>>, OneSided(window[u])
               PROVE  Analysis(Mirrored(window[u]), Mirrored(lots[u]), Turned(depth[u]))
                          = Opposite(Analysis(window[u], lots[u], depth[u]))
      BY DEF FlowUnbiased
  <2>1. Reflects(window[u], Mirrored(window[u])) /\ Reflects(lots[u], Mirrored(lots[u])) /\ Flipped(depth[u], Turned(depth[u]))
      BY MirroredReflects, TurnedFlips DEF FlowInv
  <2> QED BY <2>1, AnalysisOpposite
<1> QED BY <1>1, FlowInvariant, PTL

=============================================================================
