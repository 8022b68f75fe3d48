------------------------------- MODULE Learning -------------------------------
(***************************************************************************)
(* What the system learns from trades (learning/lesson_store.py,           *)
(* agent_accuracy_tracker.py, the end of historical_backtester.py).        *)
(*                                                                         *)
(* A backtest, a process of its own, writes a lesson for each trade and    *)
(* counts for each analyst that took a side whether it was right, every    *)
(* write in a transaction of its own.  The trading process reads from the  *)
(* counts how much to trust each analyst and keeps the answer until the    *)
(* daily retraining.  The analysis of live trades after they closed never  *)
(* runs (post_trade_analyzer.py:65 passes a handler to a bus that takes    *)
(* channels only, and nobody reads the handle it returns), so the lessons  *)
(* are the backtests'.                                                     *)
(***************************************************************************)
EXTENDS Backtest

CONSTANTS
    Courses,        \* what a backtest may download: [days, day, vix]
    Consulted,      \* types and regimes that consensus votes on
    MinSignals,     \* signals that make a count count
    MaxRuns,        \* bound on the backtests
    MaxFailures     \* bound on the database's failures and kills

\* No bar's low is above its high, and no range is negative.
Bar == {b \in [close : Int, high : Int, low : Int, atr : Nat, stack : {-1, 0, 1}, zone : {-1, 0, 1},
               above : BOOLEAN, squeeze : BOOLEAN, vwap : Int, volume : Nat] : b.low <= b.high}

ASSUME LearningAssumption == \A c \in Courses : c \in [days : Seq(Bar), day : Seq(Bar), vix : Nat]

VARIABLES
    course,         \* the bars the latest backtest has downloaded
    todo,           \* the backtest's trades without a lesson yet
    counting,       \* the stored trade whose analysts are counted, or Nothing
    uncounted,      \* its analysts that are not counted yet
    lessons,        \* table trade_lessons
    accuracy,       \* table agent_accuracy: its rows, by analyst, type and regime
    trust,          \* the trading process's cache of multipliers, by type and regime
    skipped,        \* history: the counts that were lost
    runs, failures

learningVars == <<course, todo, counting, uncounted, lessons, accuracy, trust, skipped, runs, failures>>

Nothing == [type |-> "none"]

LearningInit ==
    /\ course = <<>> /\ todo = <<>> /\ counting = Nothing /\ uncounted = {}
    /\ lessons = <<>> /\ accuracy = <<>> /\ trust = <<>>
    /\ skipped = <<>> /\ runs = 0 /\ failures = 0

-----------------------------------------------------------------------------
(* The backtest. *)

\* One at a time: it is started by hand.
RunBacktest ==
    /\ todo = <<>> /\ counting = Nothing /\ runs < MaxRuns
    /\ course' \in Courses
    /\ todo' = Backtested(course'.days, course'.day, course'.vix)
    /\ runs' = runs + 1
    /\ UNCHANGED <<counting, uncounted, lessons, accuracy, trust, skipped, failures>>

Outcome(t) == IF t.pnl > 0 THEN "WIN" ELSE IF t.pnl < 0 THEN "LOSS" ELSE "BREAKEVEN"

OnItsSide(t) == {a \in DOMAIN t.signals : t.signals[a].dir = t.dir}
OnTheOther(t) == {a \in DOMAIN t.signals : t.signals[a].dir \notin {t.dir, 0}}
Right(t) == IF Outcome(t) = "WIN" THEN OnItsSide(t) ELSE OnTheOther(t)
Wrong(t) == IF Outcome(t) = "WIN" THEN OnTheOther(t) ELSE OnItsSide(t)

Lesson(t) == [type |-> t.type, regime |-> t.regime, outcome |-> Outcome(t),
              correct |-> Right(t), wrong |-> Wrong(t)]

\* Mutant: the neutral ones too.
JudgedAll(t) == DOMAIN t.signals

\* The analysts of a stored lesson that are counted.
Judged(t) == {a \in DOMAIN t.signals : t.signals[a].dir # 0}

StoreLesson ==
    /\ todo # <<>> /\ counting = Nothing
    /\ lessons' = Append(lessons, Lesson(Head(todo)))
    /\ counting' = Head(todo) /\ uncounted' = Judged(Head(todo))
    /\ todo' = Tail(todo)
    /\ UNCHANGED <<course, accuracy, trust, skipped, runs, failures>>

\* A lesson that is not stored is not counted either.
StoreFails ==
    /\ todo # <<>> /\ counting = Nothing /\ failures < MaxFailures
    /\ todo' = Tail(todo)
    /\ failures' = failures + 1
    /\ UNCHANGED <<course, counting, uncounted, lessons, accuracy, trust, skipped, runs>>

Row(a, t) == <<a, t.type, t.regime>>
One(right) == IF right THEN 1 ELSE 0

\* The multiplier of a row's first signal differs from that of the later ones.
Scored(rows, key, right) ==
    LET new == key \notin DOMAIN rows
        total == IF new THEN 1 ELSE rows[key].total + 1
        correct == (IF new THEN 0 ELSE rows[key].correct) + One(right)
        multiplier == IF new THEN IF right THEN 100 ELSE 50 ELSE 50 + (100 * correct) \div total
    IN [k \in DOMAIN rows \cup {key} |->
            IF k = key THEN [total |-> total, correct |-> correct, multiplier |-> multiplier]
            ELSE rows[k]]

\* One analyst after the other; the last one ends the lesson.
UpNext == CHOOSE a \in uncounted : TRUE

Done(a) ==
    /\ uncounted' = uncounted \ {a}
    /\ counting' = IF uncounted = {a} THEN Nothing ELSE counting

CountAgent ==
    /\ uncounted # {}
    /\ LET a == UpNext
       IN /\ accuracy' = Scored(accuracy, Row(a, counting), a \in Right(counting))
          /\ Done(a)
    /\ UNCHANGED <<course, todo, lessons, trust, skipped, runs, failures>>

\* The error is logged and the analyst left out.
CountFails ==
    /\ uncounted # {} /\ failures < MaxFailures
    /\ LET a == UpNext
       IN /\ skipped' = Append(skipped, [key |-> Row(a, counting), right |-> a \in Right(counting)])
          /\ Done(a)
    /\ failures' = failures + 1
    /\ UNCHANGED <<course, todo, lessons, accuracy, trust, runs>>

\* The backtest is stopped between two writes.
Killed ==
    /\ todo # <<>> \/ counting # Nothing
    /\ failures < MaxFailures
    /\ todo' = <<>> /\ counting' = Nothing /\ uncounted' = {}
    /\ skipped' = skipped \o SetToSeq({[key |-> Row(a, counting), right |-> a \in Right(counting)] :
                                          a \in uncounted})
    /\ failures' = failures + 1
    /\ UNCHANGED <<course, lessons, accuracy, trust, runs>>

-----------------------------------------------------------------------------
(* The trading process. *)

Within(low, high, n) == AtLeast(low, AtMost(high, n))

\* The multipliers of a type and regime that rest on enough signals.
Earned(type, regime) ==
    LET known == {key \in DOMAIN accuracy : /\ key[2] = type /\ key[3] = regime
                                            /\ accuracy[key].total >= MinSignals}
    IN [a \in {key[1] : key \in known} |-> Within(50, 150, accuracy[<<a, type, regime>>].multiplier)]

\* Consensus asks once and keeps the answer.
AskTrust ==
    /\ \E key \in Consulted \ DOMAIN trust :
          trust' = (key :> Earned(key[1], key[2])) @@ trust
    /\ UNCHANGED <<course, todo, counting, uncounted, lessons, accuracy, skipped, runs, failures>>

\* A failed query is kept as if no analyst had earned anything.
AskFails ==
    /\ failures < MaxFailures
    /\ \E key \in Consulted \ DOMAIN trust :
          trust' = (key :> <<>>) @@ trust
    /\ failures' = failures + 1
    /\ UNCHANGED <<course, todo, counting, uncounted, lessons, accuracy, skipped, runs>>

\* The daily retraining, if it found trades, or a restart.
Forget ==
    /\ trust # <<>>
    /\ trust' = <<>>
    /\ UNCHANGED <<course, todo, counting, uncounted, lessons, accuracy, skipped, runs, failures>>

LearningNext ==
    \/ RunBacktest \/ StoreLesson \/ StoreFails \/ CountAgent \/ CountFails \/ Killed
    \/ AskTrust \/ AskFails \/ Forget

-----------------------------------------------------------------------------
(* Properties. *)

Scorecards == {<<a, t, r>> : a \in Agents, t \in DOMAIN Gate, r \in {VixRegime(c.vix) : c \in Courses}}

\* An analyst's signals that were right (wrong): by the row, by the lessons that
\* name it, among the counts that were lost, and under way.
Tallied(key, right) == IF key \notin DOMAIN accuracy THEN 0
                       ELSE IF right THEN accuracy[key].correct
                       ELSE accuracy[key].total - accuracy[key].correct
Named(key, right) == {i \in DOMAIN lessons :
    /\ lessons[i].type = key[2] /\ lessons[i].regime = key[3]
    /\ key[1] \in IF right THEN lessons[i].correct ELSE lessons[i].wrong}
Skipped(key, right) == {i \in DOMAIN skipped : skipped[i] = [key |-> key, right |-> right]}
UnderWay(key, right) == /\ key[1] \in uncounted /\ Row(key[1], counting) = key
                        /\ (key[1] \in Right(counting)) = right

\* The two tables tell one story: an analyst's row counts the lessons that name
\* it right or wrong, and as right those that name it right, but for the counts
\* still to come and those lost to a failure or a kill
\* (historical_backtester.py:664-729, lesson_store.py:145-205).
ScorecardTrue == \A key \in Scorecards, right \in BOOLEAN :
    Tallied(key, right) + Cardinality(Skipped(key, right)) + One(UnderWay(key, right))
        = Cardinality(Named(key, right))

\* Prices seen from a bar to another, two a bar: its high and its low, which of
\* them first as the order says.
PricesSeen(day, at, last, highFirst) ==
    [n \in 1 .. 2 * (last - at) |->
        LET i == at + (n + 1) \div 2
        IN IF highFirst[i] = (n % 2 = 1) THEN day[i].high ELSE day[i].low]

\* What orders resting at stop and target bring on them.
Rested(prices, dir, entry, stop, target, close) ==
    LET gain(price) == dir * (price - entry)
        ends == {n \in DOMAIN prices : gain(prices[n]) <= -stop \/ gain(prices[n]) >= target}
    IN IF ends = {} THEN gain(close) ELSE IF gain(prices[Min(ends)]) <= -stop THEN -stop ELSE target

\* A simulated trade of the day is not luckier than a real one might have been:
\* it comes to the worst of what resting orders at its stop and target would
\* have brought, for each order in which the bars may have seen their highs and
\* lows (historical_backtester.py:468-497, 589-617).
Pessimistic == \A n \in DOMAIN todo : todo[n].type # "BTST" =>
    LET t == todo[n]
        day == course.day
        last == IF t.type = "SCALP" THEN t.at + Hold ELSE Len(day)
    IN t.pnl = Min({Rested(PricesSeen(day, t.at, last, highFirst), t.dir, day[t.at].close,
                           Gap(Stop[t.type], day[t.at].atr), Gap(Target[t.type], day[t.at].atr),
                           day[last].close) :
                       highFirst \in [t.at + 1 .. last -> BOOLEAN]})
=============================================================================
