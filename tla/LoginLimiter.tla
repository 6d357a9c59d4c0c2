------------------------------ MODULE LoginLimiter ------------------------------
(***************************************************************************)
(* The limiter of failed attempts (LoginLimiter of auth.py), as the        *)
(* requests that handle a report password use it: blocked() before the     *)
(* password is verified, then record_failure() or clear().  Each of them   *)
(* takes the lock; nothing holds it from one to the next, and the clock is *)
(* read before the lock is taken.                                          *)
(***************************************************************************)
EXTENDS Integers, Sequences, FiniteSetsExt

CONSTANTS
    Keys,           \* an address with an account or with a client
    Handlers,       \* threads that handle requests
    NoAttempt,
    Limit,          \* limit
    Window,         \* window_seconds
    MaximumKeys,    \* maximum_keys
    MaxDelay,       \* bound of the time from reading the clock to the lock
    MaxLimiterTime  \* bound of the clock

ASSUME LimiterAssumption ==
    /\ {Limit, Window, MaximumKeys} \subseteq Nat \ {0}
    /\ {MaxDelay, MaxLimiterTime} \subseteq Nat
    /\ IsFiniteSet(Handlers)

VARIABLES
    attempts,       \* the OrderedDict: for some keys the instants of failures
    older,          \* its order: for each key those used less recently
    attempt,        \* what each thread is about to do
    failed,         \* the failures of each key since it was last forgotten
    limiterClock

limiterVars == <<attempts, older, attempt, failed, limiterClock>>

Horizon == Window + 2 * MaxDelay

LimiterInit ==
    /\ attempts = [k \in {} |-> <<>>]
    /\ older = [k \in Keys |-> {}]
    /\ attempt = [t \in Handlers |-> NoAttempt]
    /\ failed = [k \in Keys |-> <<>>]
    /\ limiterClock = 0

-----------------------------------------------------------------------------
(* Tables *)

TimesIn(table, k) == IF k \in DOMAIN table THEN table[k] ELSE <<>>

Recent(times, current) == {i \in DOMAIN times : times[i] > current - Window}

(* Only the oldest failures, by the order of the calls, are removed.       *)
Unexpired(times, current) ==
    IF Recent(times, current) = {} THEN <<>>
    ELSE SubSeq(times, Min(Recent(times, current)), Len(times))

(* _prune *)
Prune(current) ==
    [k \in {q \in DOMAIN attempts : Recent(attempts[q], current) # {}} |->
        Unexpired(attempts[k], current)]

(* move_to_end *)
Touch(k) == older' = [q \in Keys |-> IF q = k THEN Keys \ {k} ELSE older[q] \ {k}]

(* popitem(last=False): all but the least recently used                    *)
LeastRecent(table) == CHOOSE k \in DOMAIN table : older'[k] \cap DOMAIN table = {}

-----------------------------------------------------------------------------
InStage(t, stage) == attempt[t] # NoAttempt /\ attempt[t].stage = stage

Ask(t, k) ==
    /\ attempt[t] = NoAttempt
    /\ attempt' = [attempt EXCEPT ![t] = [key |-> k, stage |-> "check", time |-> limiterClock]]
    /\ UNCHANGED <<attempts, older, failed, limiterClock>>

Checked(t, refused) ==
    attempt' = [attempt EXCEPT ![t] =
                   IF refused THEN NoAttempt ELSE [@ EXCEPT !.stage = "verify"]]

(* Mutant: one more failure than the limit. *)
CheckAboveLimit(t) ==
    /\ InStage(t, "check")
    /\ LET k == attempt[t].key
           table == Prune(attempt[t].time)
       IN  /\ attempts' = table
           /\ IF k \in DOMAIN table
              THEN Touch(k) /\ Checked(t, Len(table[k]) > Limit)
              ELSE UNCHANGED older /\ Checked(t, FALSE)
    /\ UNCHANGED <<failed, limiterClock>>

(* blocked *)
Check(t) ==
    /\ InStage(t, "check")
    /\ LET k == attempt[t].key
           table == Prune(attempt[t].time)
       IN  /\ attempts' = table
           /\ IF k \in DOMAIN table
              THEN Touch(k) /\ Checked(t, Len(table[k]) >= Limit)
              ELSE UNCHANGED older /\ Checked(t, FALSE)
    /\ UNCHANGED <<failed, limiterClock>>

(* The password is wrong; record_failure has read the clock. *)
Fail(t) ==
    /\ InStage(t, "verify")
    /\ attempt' = [attempt EXCEPT ![t] = [@ EXCEPT !.stage = "record", !.time = limiterClock]]
    /\ UNCHANGED <<attempts, older, failed, limiterClock>>

(* record_failure: the least recently used key makes room for a new one.   *)
Record(t) ==
    /\ InStage(t, "record")
    /\ LET k == attempt[t].key
           table == Prune(attempt[t].time)
           times == Append(TimesIn(table, k), attempt[t].time)
           longer == [q \in DOMAIN table \cup {k} |-> IF q = k THEN times ELSE table[q]]
           evicted == IF Cardinality(DOMAIN longer) > MaximumKeys THEN {LeastRecent(longer)} ELSE {}
       IN  /\ Touch(k)
           /\ attempts' = [q \in DOMAIN longer \ evicted |-> longer[q]]
           /\ failed' = [q \in Keys |->
                            IF q \in evicted THEN <<>>
                            ELSE IF q = k THEN Append(failed[k], attempt[t].time)
                            ELSE failed[q]]
    /\ attempt' = [attempt EXCEPT ![t] = NoAttempt]
    /\ UNCHANGED limiterClock

Succeeded(t) ==
    /\ InStage(t, "verify")
    /\ failed' = [failed EXCEPT ![attempt[t].key] = <<>>]
    /\ attempt' = [attempt EXCEPT ![t] = NoAttempt]
    /\ UNCHANGED <<older, limiterClock>>

(* Mutant: the failures before a success still count. *)
SucceedKeeping(t) == Succeeded(t) /\ UNCHANGED attempts

(* clear, after the right password *)
Succeed(t) ==
    /\ Succeeded(t)
    /\ attempts' = [k \in DOMAIN attempts \ {attempt[t].key} |-> attempts[k]]

(* Password verification takes as long as it takes; the lock is awaited    *)
(* for MaxDelay at most.                                                   *)
LimiterTick ==
    /\ limiterClock < MaxLimiterTime
    /\ \A t \in Handlers : InStage(t, "check") \/ InStage(t, "record") =>
                               limiterClock < attempt[t].time + MaxDelay
    /\ limiterClock' = limiterClock + 1
    /\ UNCHANGED <<attempts, older, attempt, failed>>

LimiterNext ==
    \/ \E t \in Handlers, k \in Keys : Ask(t, k)
    \/ \E t \in Handlers : Check(t) \/ Fail(t) \/ Record(t) \/ Succeed(t)
    \/ LimiterTick

LimiterSpec == LimiterInit /\ [][LimiterNext]_limiterVars

-----------------------------------------------------------------------------
(* The failures of a key that are less than some time old                  *)
FailuresWithin(k, duration) == {i \in DOMAIN failed[k] : limiterClock - failed[k][i] < duration}

(* Of one key, at most Limit attempts fail in any window, and one more for *)
(* each other thread, whose attempt was admitted before the last failure   *)
(* was recorded: unless it was forgotten for other keys.                   *)
FailuresAreLimited ==
    \A k \in Keys : Cardinality(FailuresWithin(k, Window)) <= Limit + Cardinality(Handlers) - 1

(* No attempt is refused but for failures of the key since its last        *)
(* success: the clocks of two threads, read out of order, keep a failure   *)
(* a little longer than Window, but never longer than Horizon.             *)
RefusalsAreEarned ==
    \A t \in Handlers : InStage(t, "check") =>
        Len(TimesIn(Prune(attempt[t].time), attempt[t].key))
            <= Cardinality(FailuresWithin(attempt[t].key, Horizon))

=============================================================================
