----------------------------- MODULE InvoiceTime -----------------------------
(***************************************************************************)
(* What an invoice charges (invoice_time.py and invoice_total_cents of     *)
(* invoices.py): exact time is allocated to the worker's calendar days,    *)
(* each worker-day is rounded to quarter hours with ties upward, and each  *)
(* worker's hours are multiplied by the rate and rounded to cents.  Lines  *)
(* are a function from session ids to records with a user, start and stop. *)
(***************************************************************************)
EXTENDS Integers, FiniteSetsExt

CONSTANTS
    QuarterHour,   \* 900 seconds, in clock ticks
    DayLength,     \* a calendar day, in clock ticks
    Days           \* the days that the clock reaches

ASSUME DayAssumption ==
    /\ QuarterHour \in Nat \ {0}
    /\ DayLength \in Nat \ {0}
    /\ Days \subseteq Nat /\ IsFiniteSet(Days)

Least(a, b) == IF a < b THEN a ELSE b
Greatest(a, b) == IF a > b THEN a ELSE b

(* daily_seconds: the part of one line that falls on day d *)
DaySeconds(line, d) ==
    Greatest(0, Least(line.stop, (d + 1) * DayLength)
                  - Greatest(line.start, d * DayLength))

(* rounded_quarter_hours *)
RoundedQuarters(seconds) ==
    (2 * seconds + QuarterHour) \div (2 * QuarterHour)

LinesOf(lines, user) == {e \in DOMAIN lines : lines[e].user = user}

(* worker_daily_billable_hours, summed over the days, in quarter hours *)
WorkerQuarters(lines, user) ==
    LET OnDay(d) == SumFunction([e \in LinesOf(lines, user) |-> DaySeconds(lines[e], d)])
    IN  SumFunction([d \in Days |-> RoundedQuarters(OnDay(d))])

(* _total_cents: quarters / 4 * rate, half up *)
TotalCents(quarters, rate) == (quarters * rate + 2) \div 4

WorkerCents(lines, user, rate) == TotalCents(WorkerQuarters(lines, user), rate)
=============================================================================
