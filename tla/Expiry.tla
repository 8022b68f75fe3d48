-------------------------------- MODULE Expiry --------------------------------
(***************************************************************************)
(* The expiry calendar of the indices (execution/expiry_calculator.py):    *)
(* the weekly and the monthly expiry nearest to a date, moved before       *)
(* holidays and weekends, and the list of the coming ones.                 *)
(*                                                                         *)
(* Days are numbers, and day 0 is a Monday; MonthEnds are the last days of *)
(* the months.  The symbols built of the dates are left out.               *)
(***************************************************************************)
EXTENDS Integers, Sequences, FiniteSets, SequencesExt, FiniteSetsExt

CONSTANTS
    WeeklyDay,      \* INDEX_EXPIRY_CONFIG: the weekday of each index, 0 is Monday
    MonthEnds,      \* the last day of each month modelled, the last one to spare
    MaxShifts,      \* how far an expiry is moved at most (5)
    Weeks,          \* expiries asked for
    HolidayDays,    \* days that may be declared holidays
    MaxHolidays,    \* holidays that six days in a row may have
    FirstDay, LastDay   \* bound: the days that pass

\* Exchanges do not trade at weekends and do not close for a week; months have
\* four weeks or more.
ASSUME ExpiryAssumption ==
    /\ \A u \in DOMAIN WeeklyDay : WeeklyDay[u] \in 0 .. 4
    /\ MonthEnds \in Seq(Int) /\ Len(MonthEnds) >= 2
    /\ \A m, k \in 1 .. Len(MonthEnds) : m < k => MonthEnds[k] - MonthEnds[m] >= 28
    /\ MaxShifts \in 5 .. 9 /\ MaxHolidays \in 0 .. 3 /\ HolidayDays \subseteq Int
    /\ Weeks \in Nat
    /\ FirstDay \in Int /\ FirstDay >= 7 /\ LastDay \in Int /\ FirstDay <= LastDay
    /\ LastDay <= MonthEnds[Len(MonthEnds) - 1]

VARIABLES
    today,
    shut,       \* it is 15:30 or later
    holidays,   \* _holidays
    asked,      \* the index whose expiries are being listed, or NoIndex
    current,    \* where the listing is
    upcoming    \* its expiries so far

expiryVars == <<today, shut, holidays, asked, current, upcoming>>

NoIndex == "none"
Weekday(d) == d % 7
IsTradingDay(d) == Weekday(d) < 5 /\ d \notin holidays

\* Mutant: moved by one day and no further.
AdjustOnce(d) == IF IsTradingDay(d) THEN d ELSE d - 1

AdjustForHoliday(d) == d - Min({n \in 0 .. MaxShifts : IsTradingDay(d - n) \/ n = MaxShifts})

DaysAhead(u, d) ==
    LET n == (WeeklyDay[u] - Weekday(d)) % 7
    IN  IF n = 0 /\ shut THEN 7 ELSE n
WeeklyExpiry(u, d) == AdjustForHoliday(d + DaysAhead(u, d))

MonthOf(d) == Min({m \in DOMAIN MonthEnds : d <= MonthEnds[m]})
LastWeekday(u, m) == MonthEnds[m] - ((Weekday(MonthEnds[m]) - WeeklyDay[u]) % 7)
MonthlyExpiry(u, d) ==
    LET expiry == LastWeekday(u, MonthOf(d))
        passed == expiry < d \/ (expiry = d /\ shut)
    IN  AdjustForHoliday(IF passed THEN LastWeekday(u, MonthOf(d) + 1) ELSE expiry)

IsExpiryDay(u, d) == d = WeeklyExpiry(u, d)
IsMonthlyExpiryDay(u, d) == IsExpiryDay(u, d) /\ d = MonthlyExpiry(u, d)

ExpiryInit ==
    /\ today = FirstDay /\ shut = FALSE
    /\ holidays = {}
    /\ asked = NoIndex /\ current = 0 /\ upcoming = <<>>

(***************************************************************************)
(* Actions                                                                 *)
(***************************************************************************)

\* The day goes on, also under a listing; nothing else does.
HalfPastThree ==
    /\ ~shut
    /\ shut' = TRUE
    /\ UNCHANGED <<today, holidays, asked, current, upcoming>>

NextMorning ==
    /\ shut /\ today < LastDay /\ asked = NoIndex
    /\ today' = today + 1 /\ shut' = FALSE
    /\ UNCHANGED <<holidays, asked, current, upcoming>>

\* Holidays that leave, with a weekend, a trading day in any six.
AllowedHolidays(days) ==
    \A h \in days : Cardinality({g \in days : h <= g /\ g <= h + 5}) <= MaxHolidays

AddHoliday(d) ==
    /\ asked = NoIndex /\ AllowedHolidays(holidays \cup {d})
    /\ holidays' = holidays \cup {d}
    /\ UNCHANGED <<today, shut, asked, current, upcoming>>

UpcomingExpiries(u) ==
    /\ asked = NoIndex
    /\ asked' = u /\ current' = today /\ upcoming' = <<>>
    /\ UNCHANGED <<today, shut, holidays>>

\* One round of the loop: an expiry already listed is not listed again, and the
\* next round starts after it.
ListNext ==
    /\ asked # NoIndex /\ Len(upcoming) < Weeks
    /\ LET expiry == WeeklyExpiry(asked, current)
       IN  /\ upcoming' = IF expiry \in ToSet(upcoming) THEN upcoming ELSE Append(upcoming, expiry)
           /\ current' = expiry + 1
    /\ UNCHANGED <<today, shut, holidays, asked>>

Listed ==
    /\ asked # NoIndex /\ Len(upcoming) = Weeks
    /\ asked' = NoIndex /\ current' = 0 /\ upcoming' = <<>>
    /\ UNCHANGED <<today, shut, holidays>>

ExpiryNext ==
    \/ HalfPastThree \/ NextMorning
    \/ \E d \in HolidayDays \ holidays : AddHoliday(d)
    \/ \E u \in DOMAIN WeeklyDay : UpcomingExpiries(u)
    \/ ListNext \/ Listed

ExpirySpec == ExpiryInit /\ [][ExpiryNext]_expiryVars

(***************************************************************************)
(* Properties                                                              *)
(***************************************************************************)

\* What the exchange does: every week and every month has one expiry, the last
\* trading day up to its weekday; there is one within ten days.
LastTrading(d) == Max({t \in d - 9 .. d : IsTradingDay(t)})
WeeklyDays(u) == {LastTrading(7 * w + WeeklyDay[u]) : w \in 1 .. LastDay \div 7 + Weeks + 1}
MonthlyDays(u) == {LastTrading(LastWeekday(u, m)) : m \in DOMAIN MonthEnds}
From(days, d) == {e \in days : e >= d}

\* On a trading day, before the close, the calendar is that of the exchange: the
\* weekly and monthly expiry are the nearest ones, the day is known for an expiry
\* if it is one, and a listing has the coming ones in order with none left out,
\* however holidays and weekends lie (expiry_calculator.py:132-192, 240-251,
\* 297-329).  After the close an expiry moved before a holiday still counts as
\* ahead, and on a holiday it is one that has passed.
NearestExpiry ==
    (IsTradingDay(today) /\ ~shut) => \A u \in DOMAIN WeeklyDay :
        LET weekly == From(WeeklyDays(u), today)
            monthly == From(MonthlyDays(u), today)
        IN  /\ WeeklyExpiry(u, today) = Min(weekly)
            /\ MonthlyExpiry(u, today) = Min(monthly)
            /\ IsExpiryDay(u, today) <=> today \in weekly
            /\ IsMonthlyExpiryDay(u, today) <=> today \in monthly
            /\ asked = u => \A i \in DOMAIN upcoming :
                   upcoming[i] \in weekly /\ Cardinality({e \in weekly : e < upcoming[i]}) = i - 1
=============================================================================
