----------------------------- MODULE DailySeconds -----------------------------
(***************************************************************************)
(* daily_seconds of invoice_time.py: the loop that splits sessions at      *)
(* local midnights.  Local days are 23, 24 or 25 hours long; times have a  *)
(* resolution below the second, and a session's total_seconds is truncated *)
(* once, so that the parts must be truncated cumulatively.                 *)
(***************************************************************************)
EXTENDS Integers, FiniteSetsExt, Functions

CONSTANTS
    TicksPerSecond,    \* clock ticks in a second
    DayCount,          \* how many local days there are
    Midnights,         \* the instant at which each of them, and the next, begins
    MaxSessions        \* how many sessions there are

Days == 0..DayCount - 1

ASSUME DailyAssumption ==
    /\ {TicksPerSecond, DayCount, MaxSessions} \subseteq Nat \ {0}
    /\ Midnights \in [0..DayCount -> Nat]
    /\ \A d, e \in 0..DayCount : d < e => Midnights[d] < Midnights[e]

VARIABLES
    dayLines,    \* the sessions
    index,       \* the session that the outer loop is at
    cursor, allocated,
    totals       \* seconds by day

dailyVars == <<dayLines, index, cursor, allocated, totals>>

Instants == Midnights[0]..Midnights[DayCount]

(* total_seconds of _build_preview *)
TotalSeconds(from, to) == (to - from) \div TicksPerSecond

SessionLines ==
    {[start |-> p[1], stop |-> p[2], total |-> TotalSeconds(p[1], p[2])] :
        p \in {q \in Instants \X Instants : q[1] <= q[2]}}

DailyInit ==
    /\ dayLines \in [1..MaxSessions -> SessionLines]
    /\ index = 1
    /\ cursor = dayLines[1].start
    /\ allocated = 0
    /\ totals = [d \in Days |-> 0]

Line == dayLines[index]

DayOf(instant) == CHOOSE d \in Days : Midnights[d] <= instant /\ instant < Midnights[d + 1]

NextMidnight(day) == Midnights[day + 1]

PartEnd == Min({NextMidnight(DayOf(cursor)), Line.stop})

(* Mutant: each part is truncated on its own. *)
TruncatedPart(end) == allocated + TotalSeconds(cursor, end)

(* min(line.total_seconds, int((end - start).total_seconds())) *)
Elapsed(end) == Min({Line.total, TotalSeconds(Line.start, end)})

Part ==
    /\ index <= MaxSessions
    /\ cursor < Line.stop
    /\ totals' = [totals EXCEPT ![DayOf(cursor)] = @ + Elapsed(PartEnd) - allocated]
    /\ allocated' = Elapsed(PartEnd)
    /\ cursor' = PartEnd
    /\ UNCHANGED <<dayLines, index>>

NextLine ==
    /\ index <= MaxSessions
    /\ cursor >= Line.stop
    /\ index' = index + 1
    /\ cursor' = IF index < MaxSessions THEN dayLines[index + 1].start ELSE cursor
    /\ allocated' = 0
    /\ UNCHANGED <<dayLines, totals>>

DailyNext == Part \/ NextLine

DailySpec == DailyInit /\ [][DailyNext]_dailyVars

-----------------------------------------------------------------------------
Allocated == index > MaxSessions

(* Every second of every session is on exactly one day: the invoice bills  *)
(* what its lines show, whatever the length of the days.                   *)
PartsAddUp ==
    Allocated =>
        SumFunction(totals) = SumFunction([i \in 1..MaxSessions |-> dayLines[i].total])

(* The part of session i that falls on day d, in ticks *)
Overlap(i, d) ==
    Max({0, Min({dayLines[i].stop, Midnights[d + 1]}) - Max({dayLines[i].start, Midnights[d]})})

Exact(d) == SumFunction([i \in 1..MaxSessions |-> Overlap(i, d)])

(* No day is off by a second per session from its exact share, and no part *)
(* is negative.                                                            *)
PartsAreExact ==
    /\ \A d \in Days : totals[d] >= 0
    /\ Allocated => \A d \in Days :
          LET error == TicksPerSecond * totals[d] - Exact(d)
          IN  -TicksPerSecond * MaxSessions < error /\ error < TicksPerSecond * MaxSessions

(* Both of them, in every state *)
DaysAddUp == PartsAddUp /\ PartsAreExact

=============================================================================
