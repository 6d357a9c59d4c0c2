-------------------------------- MODULE DueDate --------------------------------
(***************************************************************************)
(* The due date of an invoice (_observed_holidays and calculate_due_date   *)
(* of invoices.py): the terms in calendar days, then one day after another *)
(* until it is neither a week end nor a holiday.  Days are numbered as by  *)
(* date.toordinal, so that day 1 is a Monday.                              *)
(***************************************************************************)
EXTENDS Integers, FiniteSets

CONSTANT Years      \* the years in which invoices are issued

(* A date has the years 1 to 9999, and the code goes two years ahead.      *)
ASSUME YearAssumption == Years \subseteq 2..9997

VARIABLES
    issued,      \* issued_date
    terms,       \* payment_terms_days
    due,         \* due_date
    holidays,    \* the set computed before the loop
    returned     \* whether the loop has ended

dueVars == <<issued, terms, due, holidays, returned>>

Leap(y) == y % 4 = 0 /\ (y % 100 # 0 \/ y % 400 = 0)

(* Days before the first of month m, in a common year *)
DaysBefore == <<0, 31, 59, 90, 120, 151, 181, 212, 243, 273, 304, 334>>

(* date(y, m, d).toordinal() *)
Day(y, m, d) ==
    365 * (y - 1) + (y - 1) \div 4 - (y - 1) \div 100 + (y - 1) \div 400
        + DaysBefore[m] + (IF m > 2 /\ Leap(y) THEN 1 ELSE 0) + d

YearOf(day) ==
    CHOOSE y \in day \div 366..day \div 365 + 1 :
        Day(y, 1, 1) <= day /\ day < Day(y + 1, 1, 1)

(* date.weekday(): 0 is Monday *)
Weekday(day) == (day + 6) % 7

FixedDates == {<<1, 1>>, <<6, 19>>, <<7, 4>>, <<11, 11>>, <<12, 25>>}

Observed(actual) ==
    {actual} \cup (IF Weekday(actual) = 5 THEN {actual - 1} ELSE {})
             \cup (IF Weekday(actual) = 6 THEN {actual + 1} ELSE {})

HolidaysOf(y) == UNION {Observed(Day(y, f[1], f[2])) : f \in FixedDates}

(* Mutant: only the holidays of the year itself. *)
ObservedThisYear(year) == HolidaysOf(year)

ObservedHolidays(year) == UNION {HolidaysOf(y) : y \in year - 1..year + 1}

Terms == {0, 7, 30}

DueInit ==
    /\ \E y \in Years : issued \in Day(y, 1, 1)..Day(y, 12, 31)
    /\ terms \in Terms
    /\ due = issued + terms
    /\ holidays = ObservedHolidays(YearOf(due))
    /\ returned = FALSE

NotPayable(day) == Weekday(day) >= 5 \/ day \in holidays

Forward ==
    /\ ~returned
    /\ NotPayable(due)
    /\ due' = due + 1
    /\ UNCHANGED <<issued, terms, holidays, returned>>

Return ==
    /\ ~returned
    /\ ~NotPayable(due)
    /\ returned' = TRUE
    /\ UNCHANGED <<issued, terms, due, holidays>>

DueNext == Forward \/ Return

DueSpec == DueInit /\ [][DueNext]_dueVars

-----------------------------------------------------------------------------
(* A day on which federal offices are open, decided from the day alone:    *)
(* no fixed date falls on it, nor on the Saturday after or the Sunday      *)
(* before it.                                                              *)
Fixed(day) == \E f \in FixedDates : day = Day(YearOf(day), f[1], f[2])

BusinessDay(day) ==
    /\ Weekday(day) < 5
    /\ ~Fixed(day)
    /\ ~(Weekday(day) = 4 /\ Fixed(day + 1))
    /\ ~(Weekday(day) = 0 /\ Fixed(day - 1))

(* The due date is the first business day that is not before the terms'    *)
(* end, also over the turn of a year, whose first day may be observed in   *)
(* the year before.                                                        *)
FirstBusinessDay ==
    returned => /\ BusinessDay(due)
            /\ \A day \in issued + terms..due - 1 : ~BusinessDay(day)

=============================================================================
