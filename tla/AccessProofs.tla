---------------------------- MODULE AccessProofs ----------------------------
(***************************************************************************)
(* Proofs about SharedReports and LoginLimiter, for any number of          *)
(* passwords, customers, keys, threads and restarts, any limits, and a     *)
(* store of any size and life time, and for any number of administrators   *)
(* whose rotations overlap.                                                *)
(***************************************************************************)
EXTENDS SharedReports, LoginLimiter, FiniteSetTheorems, SequenceTheorems,
        WellFoundedInduction, TLAPS

-----------------------------------------------------------------------------
(* Shared reports                                                          *)

Rotating(a) == reportRequest[a] # None /\ reportRequest[a].op \in {"reset", "archive"}

ReportRequests ==
    [op: {"reset", "archive", "issue", "enter"}, password: Passwords \cup {None}, version: Nat]

ReportsTyped ==
    /\ client \in [password: Passwords \cup {None}, version: Nat, active: BOOLEAN]
    /\ generated \subseteq Passwords
    /\ DOMAIN reportRequest = Visitors
    /\ DOMAIN reportCookie = Customers
    /\ displayed \in [Passwords -> Nat]
    /\ \A b \in Visitors : reportRequest[b] # None =>
          reportRequest[b] \in ReportRequests

-----------------------------------------------------------------------------
(* A password that has yet to be displayed is in one place: the request    *)
(* that generated it, or the store.                                        *)

InRequest(a, p) == reportRequest[a] # None /\ reportRequest[a].password = p

(* The request of a is the only place of its password. *)
OnlyPlace(a) ==
    reportRequest[a] # None =>
        /\ reportRequest[a].password \in generated \ DOMAIN store
        /\ displayed[reportRequest[a].password] = 0
        /\ \A b \in Admins \ {a} : ~InRequest(b, reportRequest[a].password)

AtMostOnce ==
    /\ \A p \in Passwords : displayed[p] <= 1 /\ (p \notin generated => displayed[p] = 0)
    /\ \A p \in DOMAIN store : p \in generated /\ displayed[p] = 0

DisplayInv ==
    /\ ReportsTyped
    /\ AtMostOnce
    /\ \A a \in Admins : OnlyPlace(a)

LEMMA ReportInitDisplay == ReportInit => DisplayInv
BY DEF ReportInit, NoConfirmations, DisplayInv, ReportsTyped, AtMostOnce, OnlyPlace, Visitors

LEMMA ReadDisplay ==
    ASSUME DisplayInv, NEW a \in Admins, NEW op \in {"reset", "archive"}, Read(a, op)
    PROVE  DisplayInv'
<1>1. PICK p \in Passwords \ generated :
          /\ reportRequest' = [reportRequest EXCEPT ![a] =
                                  [op |-> op, password |-> p, version |-> client.version]]
          /\ generated' = generated \cup {p}
  BY DEF Read
<1>2. UNCHANGED <<client, store, displayed, reportCookie>>
  BY DEF Read, confirmations
<1>3. ReportsTyped' /\ a \in DOMAIN reportRequest
  BY <1>1, <1>2 DEF DisplayInv, ReportsTyped, ReportRequests, Visitors
<1>4. AtMostOnce'
  BY <1>1, <1>2 DEF DisplayInv, AtMostOnce
<1>5. p \notin DOMAIN store /\ displayed[p] = 0
  BY DEF DisplayInv, AtMostOnce
<1>6. \A b \in Admins : ~InRequest(b, p)
  BY DEF DisplayInv, OnlyPlace, InRequest
<1>7. ASSUME NEW b \in Admins PROVE OnlyPlace(b)'
  <2>1. CASE b = a
    BY <1>1, <1>2, <1>3, <1>5, <1>6, <2>1 DEF OnlyPlace, InRequest
  <2>2. CASE b # a
    <3>1. OnlyPlace(b) /\ reportRequest'[b] = reportRequest[b]
      BY <1>1, <2>2 DEF DisplayInv
    <3>2. reportRequest[b] # None => reportRequest[b].password # p
      BY <1>6 DEF InRequest
    <3> QED
      BY <1>1, <1>2, <1>3, <2>2, <3>1, <3>2 DEF OnlyPlace, InRequest
  <2> QED
    BY <2>1, <2>2
<1> QED
  BY <1>3, <1>4, <1>7 DEF DisplayInv

(* A step that neither generates nor displays, keeps or forgets requests,  *)
(* and adds nothing to the store                                           *)
LEMMA QuietDisplay ==
    ASSUME DisplayInv, ReportsTyped', generated' = generated, displayed' = displayed,
           DOMAIN store' \subseteq DOMAIN store,
           \A a \in Admins : reportRequest'[a] # None =>
               /\ reportRequest[a] # None
               /\ reportRequest'[a].password = reportRequest[a].password
    PROVE  DisplayInv'
<1>1. AtMostOnce'
  BY DEF DisplayInv, AtMostOnce
<1>2. ASSUME NEW a \in Admins PROVE OnlyPlace(a)'
  BY DEF DisplayInv, OnlyPlace, InRequest
<1> QED
  BY <1>1, <1>2 DEF DisplayInv

LEMMA CommitDisplay ==
    ASSUME DisplayInv, NEW a \in Admins, CommitRequest(a)
    PROVE  DisplayInv'
<1>1. ReportsTyped'
  <2> DEFINE r == reportRequest[a]
  <2>1. r \in ReportRequests /\ [r EXCEPT !.op = "issue"] \in ReportRequests
    BY DEF CommitRequest, DisplayInv, ReportsTyped, ReportRequests, Visitors
  <2>2. /\ client' = [password |-> r.password, version |-> r.version + 1,
                      active |-> IF r.op = "archive" THEN FALSE ELSE client.active]
        /\ \/ reportRequest' = [reportRequest EXCEPT ![a] = None]
           \/ reportRequest' = [reportRequest EXCEPT ![a] = [r EXCEPT !.op = "issue"]]
        /\ UNCHANGED <<reportCookie, generated, displayed>>
    BY DEF CommitRequest, confirmations
  <2>3. /\ client' \in [password: Passwords \cup {None}, version: Nat, active: BOOLEAN]
        /\ \A b \in Visitors : reportRequest'[b] # None => reportRequest'[b] \in ReportRequests
    <3>1. /\ r.password \in Passwords \cup {None} /\ r.version + 1 \in Nat
          /\ client.active \in BOOLEAN
      BY <2>1 DEF DisplayInv, ReportsTyped, ReportRequests
    <3> HIDE DEF r
    <3>2. client' \in [password: Passwords \cup {None}, version: Nat, active: BOOLEAN]
      BY <2>2, <3>1
    <3> QED
      BY <2>1, <2>2, <3>2 DEF DisplayInv, ReportsTyped
  <2> QED
    BY <2>2, <2>3 DEF DisplayInv, ReportsTyped
<1>2. \A b \in Admins : reportRequest'[b] # None =>
          /\ reportRequest[b] # None
          /\ reportRequest'[b].password = reportRequest[b].password
  BY DEF CommitRequest, DisplayInv, ReportsTyped, ReportRequests, Visitors
<1> QED
  BY <1>1, <1>2, QuietDisplay DEF CommitRequest, confirmations

LEMMA FinishDisplay ==
    ASSUME DisplayInv, NEW a \in Admins, FinishReset(a)
    PROVE  DisplayInv'
<1> DEFINE p == reportRequest[a].password
<1>1. /\ reportRequest[a] # None
      /\ reportRequest' = [reportRequest EXCEPT ![a] = None]
      /\ DOMAIN store' \subseteq DOMAIN store \cup {p}
      /\ UNCHANGED <<client, displayed, reportCookie, generated>>
  BY DEF FinishReset, Issue, Kept, Current, DisplayInv
<1>2. ReportsTyped' /\ a \in DOMAIN reportRequest
  BY <1>1 DEF DisplayInv, ReportsTyped, ReportRequests, Visitors
<1>3. p \in generated /\ displayed[p] = 0 /\ \A b \in Admins \ {a} : ~InRequest(b, p)
  BY <1>1 DEF DisplayInv, OnlyPlace
<1>4. AtMostOnce'
  BY <1>1, <1>3 DEF DisplayInv, AtMostOnce
<1>5. ASSUME NEW b \in Admins PROVE OnlyPlace(b)'
  <2>1. CASE b = a
    BY <1>1, <1>2, <2>1 DEF OnlyPlace
  <2>2. CASE b # a
    <3>1. OnlyPlace(b) /\ reportRequest'[b] = reportRequest[b]
      BY <1>1, <2>2 DEF DisplayInv
    <3>2. reportRequest[b] # None => reportRequest[b].password # p
      BY <1>3, <2>2 DEF InRequest
    <3>3. \A c \in Admins : InRequest(c, reportRequest[b].password)' =>
                                InRequest(c, reportRequest[b].password)
      BY <1>1, <1>2, <3>1 DEF InRequest
    <3> QED
      BY <1>1, <1>2, <2>2, <3>1, <3>2 DEF OnlyPlace, InRequest
  <2> QED
    BY <2>1, <2>2
<1> QED
  BY <1>2, <1>4, <1>5 DEF DisplayInv

LEMMA ConfirmDisplay ==
    ASSUME DisplayInv, NEW a \in Admins, Confirm(a)
    PROVE  DisplayInv'
<1> DEFINE p == nonce[a]
<1>1. /\ store' = Restrict(store, Current \ {p})
      /\ displayed' = [displayed EXCEPT ![p] = IF p \in Current THEN @ + 1 ELSE @]
      /\ UNCHANGED <<client, reportCookie, reportRequest, generated>>
  BY DEF Confirm, ConsumeConfirmation
<1>2. DOMAIN store' \subseteq DOMAIN store \ {p}
  BY <1>1 DEF Restrict, Current
<1>3. CASE p \in Current
  <2>1. p \in DOMAIN store /\ p \in generated /\ displayed[p] = 0 /\ p \in Passwords
    BY <1>3 DEF Current, DisplayInv, AtMostOnce, ReportsTyped
  <2>2. ReportsTyped' /\ displayed' = [displayed EXCEPT ![p] = 1]
    BY <1>1, <1>3, <2>1 DEF DisplayInv, ReportsTyped, ReportRequests
  <2>3. AtMostOnce'
    BY <1>1, <1>2, <2>1, <2>2 DEF DisplayInv, AtMostOnce, ReportsTyped
  <2>4. ASSUME NEW b \in Admins PROVE OnlyPlace(b)'
    <3> DEFINE q == reportRequest[b].password
    <3>1. ASSUME reportRequest[b] # None
          PROVE  displayed'[q] = 0 /\ q \in generated \ DOMAIN store'
                 /\ \A c \in Admins \ {b} : ~InRequest(c, q)
      <4>1. /\ q \in generated \ DOMAIN store /\ displayed[q] = 0
            /\ \A c \in Admins \ {b} : ~InRequest(c, q)
        BY <3>1 DEF DisplayInv, OnlyPlace
      <4>2. q # p /\ q \in DOMAIN displayed
        BY <2>1, <4>1 DEF DisplayInv, ReportsTyped, ReportRequests
      <4>3. displayed'[q] = displayed[q]
        BY <2>2, <4>2
      <4> QED
        BY <1>2, <4>1, <4>3
    <3> QED
      BY <1>1, <3>1 DEF OnlyPlace, InRequest
  <2> QED
    BY <2>2, <2>3, <2>4 DEF DisplayInv
<1>4. CASE p \notin Current
  <2>1. displayed' = displayed /\ ReportsTyped'
    BY <1>1, <1>4 DEF DisplayInv, ReportsTyped, ReportRequests
  <2> QED
    BY <1>1, <1>2, <2>1, QuietDisplay
<1> QED
  BY <1>3, <1>4

LEMMA DisplayIsInvariant == ReportSpec => []DisplayInv
<1>1. DisplayInv /\ [ReportNext]_reportVars => DisplayInv'
  <2> SUFFICES ASSUME DisplayInv, [ReportNext]_reportVars PROVE DisplayInv'
    OBVIOUS
  <2>1. ASSUME NEW a \in Admins, BeginReset(a) \/ BeginArchive(a) PROVE DisplayInv'
    BY <2>1, ReadDisplay DEF BeginReset, BeginArchive
  <2>2. ASSUME NEW a \in Admins, CommitRequest(a) \/ FinishReset(a) \/ Confirm(a)
        PROVE  DisplayInv'
    BY <2>2, CommitDisplay, FinishDisplay, ConfirmDisplay
  <2>3. ASSUME NEW c \in Customers, Enter(c) \/ Entered(c) \/ Refuse(c)
        PROVE  DisplayInv'
    <3>1. ReportsTyped'
      BY <2>3 DEF Enter, Entered, Refuse, confirmations, DisplayInv, ReportsTyped, ReportRequests, Visitors
    <3>2. \A a \in Admins : reportRequest'[a] = reportRequest[a]
      BY <2>3, ReportAssumption DEF Enter, Entered, Refuse, DisplayInv, ReportsTyped, Visitors
    <3> QED
      BY <2>3, <3>1, <3>2, QuietDisplay DEF Enter, Entered, Refuse, confirmations
  <2>4. CASE Activate \/ ReportTick \/ UNCHANGED reportVars
    <3>1. ReportsTyped'
      BY <2>4 DEF Activate, ReportTick, reportVars, confirmations, DisplayInv, ReportsTyped
    <3> QED
      BY <2>4, <3>1, QuietDisplay DEF Activate, ReportTick, reportVars, confirmations
  <2>5. CASE Discard
    <3>1. ReportsTyped' /\ DOMAIN store' \subseteq DOMAIN store
      BY <2>5 DEF Discard, Restrict, DisplayInv, ReportsTyped
    <3> QED
      BY <2>5, <3>1, QuietDisplay DEF Discard
  <2>6. CASE Restart
    <3>1. ReportsTyped' /\ store' = NoConfirmations /\ DOMAIN NoConfirmations = {}
      BY <2>6 DEF Restart, NoConfirmations, DisplayInv, ReportsTyped, Visitors
    <3>2. \A a \in Admins : reportRequest'[a] = None
      BY <2>6 DEF Restart, Visitors
    <3> QED
      BY <2>6, <3>1, <3>2, QuietDisplay DEF Restart
  <2> QED
    BY <2>1, <2>2, <2>3, <2>4, <2>5, <2>6 DEF ReportNext, ReportStep
<1> QED
  BY ReportInitDisplay, <1>1, PTL DEF ReportSpec

(* A generated password is displayed once, for any number of               *)
(* administrators, tabs and lost responses, a store of any size, and       *)
(* however late its timers are.                                            *)
THEOREM APasswordIsDisplayedOnce == ReportSpec => []DisplayedOnce
<1>1. DisplayInv => DisplayedOnce
  BY DEF DisplayInv, AtMostOnce, DisplayedOnce
<1> QED
  BY DisplayIsInvariant, <1>1, PTL

-----------------------------------------------------------------------------
(* Above doubted, versions tell passwords apart: what a customer has       *)
(* presented is older than the present password, or it is this one.        *)

Follows(shown, present, highest, unsure) ==
    shown # None =>
        /\ shown.version \in Nat /\ shown.version <= highest
        /\ shown.version > unsure =>
               /\ shown.version <= present.version
               /\ shown.version = present.version => shown.password = present.password

UpToDate(shown) == Follows(shown, client, newest, doubted)

HistoryTyped ==
    /\ newest \in Nat /\ client.version <= newest
    /\ doubted \in Nat /\ doubted <= newest

VersionsInv ==
    /\ ReportsTyped /\ HistoryTyped
    /\ \A c \in Customers : UpToDate(reportCookie[c]) /\ UpToDate(reportRequest[c])

LEMMA ReportInitVersions == ReportInit => VersionsInv
BY DEF ReportInit, VersionsInv, ReportsTyped, HistoryTyped, UpToDate, Follows, Visitors

(* What follows a version still does when nothing is committed, and when a *)
(* commit is in doubt,                                                     *)
LEMMA FollowsStill ==
    ASSUME NEW shown, NEW present, NEW present2, NEW highest \in Nat, NEW unsure \in Nat,
           NEW highest2 \in Nat, NEW unsure2 \in Nat,
           Follows(shown, present, highest, unsure),
           highest <= highest2, unsure <= unsure2,
           \/ present2.version = present.version /\ present2.password = present.password
           \/ unsure2 = highest2
    PROVE  Follows(shown, present2, highest2, unsure2)
BY DEF Follows

(* and when a commit adds one to the version. *)
LEMMA FollowsNext ==
    ASSUME NEW shown, NEW present, NEW present2, NEW highest \in Nat, NEW unsure \in Nat,
           NEW highest2 \in Nat, present.version \in Nat,
           Follows(shown, present, highest, unsure),
           highest <= highest2, present2.version = present.version + 1
    PROVE  Follows(shown, present2, highest2, unsure)
BY DEF Follows

LEMMA HistoryGrows ==
    ASSUME ReportsTyped', HistoryTyped, WatchRotations
    PROVE  /\ HistoryTyped' /\ newest <= newest' /\ doubted <= doubted'
           /\ doubted' \in {doubted, newest'}
<1>1. client'.version \in Nat
  BY DEF ReportsTyped
<1> QED
  BY <1>1 DEF HistoryTyped, WatchRotations

(* A step that leaves the client's password and version alone *)
LEMMA QuietVersions ==
    ASSUME VersionsInv, ReportsTyped', WatchRotations,
           client'.version = client.version, client'.password = client.password,
           \A c \in Customers :
               /\ UpToDate(reportCookie'[c])
               /\ UpToDate(reportRequest'[c])
    PROVE  VersionsInv'
<1>1. HistoryTyped' /\ newest <= newest' /\ doubted <= doubted'
  BY HistoryGrows DEF VersionsInv
<1>2. ASSUME NEW c \in Customers
      PROVE  UpToDate(reportCookie[c])' /\ UpToDate(reportRequest[c])'
  BY <1>1, <1>2, FollowsStill DEF UpToDate, VersionsInv, HistoryTyped
<1> QED
  BY <1>1, <1>2 DEF VersionsInv

LEMMA CommitVersions ==
    ASSUME VersionsInv, ReportsTyped', WatchRotations, NEW a \in Admins, CommitRequest(a)
    PROVE  VersionsInv'
<1>1. /\ reportCookie' = reportCookie
      /\ \A c \in Customers : reportRequest'[c] = reportRequest[c]
  BY ReportAssumption DEF CommitRequest, VersionsInv, ReportsTyped, Visitors
<1>2. /\ HistoryTyped' /\ newest <= newest' /\ doubted <= doubted'
      /\ doubted' \in {doubted, newest'}
  BY HistoryGrows DEF VersionsInv
<1>3. client.version \in Nat /\ client'.version = reportRequest[a].version + 1
  BY DEF CommitRequest, VersionsInv, ReportsTyped
<1>4. CASE client.version # reportRequest[a].version
  <2>1. doubted' = newest'
    BY <1>4 DEF WatchRotations, LosesIncrement
  <2>2. ASSUME NEW c \in Customers
        PROVE  UpToDate(reportCookie[c])' /\ UpToDate(reportRequest[c])'
    BY <1>1, <1>2, <2>1, <2>2, FollowsStill DEF UpToDate, VersionsInv, HistoryTyped
  <2> QED
    BY <1>2, <2>2 DEF VersionsInv
<1>5. CASE client.version = reportRequest[a].version
  <2>1. ASSUME NEW c \in Customers
        PROVE  UpToDate(reportCookie[c])' /\ UpToDate(reportRequest[c])'
    <3>1. CASE doubted' = doubted
      BY <1>1, <1>2, <1>3, <1>5, <2>1, <3>1, FollowsNext DEF UpToDate, VersionsInv, HistoryTyped
    <3>2. CASE doubted' = newest'
      BY <1>1, <1>2, <2>1, <3>2, FollowsStill DEF UpToDate, VersionsInv, HistoryTyped
    <3> QED
      BY <1>2, <3>1, <3>2
  <2> QED
    BY <1>2, <2>1 DEF VersionsInv
<1> QED
  BY <1>4, <1>5

LEMMA AdministratorVersions ==
    ASSUME VersionsInv, ReportsTyped', WatchRotations, NEW a \in Admins,
           BeginReset(a) \/ BeginArchive(a) \/ FinishReset(a) \/ Confirm(a)
    PROVE  VersionsInv'
<1>1. /\ client' = client /\ reportCookie' = reportCookie
      /\ \A c \in Customers : reportRequest'[c] = reportRequest[c]
  BY ReportAssumption DEF BeginReset, BeginArchive, Read, FinishReset, Confirm,
     VersionsInv, ReportsTyped, Visitors
<1> QED
  BY <1>1, QuietVersions DEF VersionsInv

LEMMA CustomerVersions ==
    ASSUME VersionsInv, ReportsTyped', WatchRotations,
           NEW c \in Customers, Enter(c) \/ Entered(c) \/ Refuse(c)
    PROVE  VersionsInv'
<1>1. client' = client
  BY DEF Enter, Entered, Refuse
<1>2. ASSUME NEW d \in Customers
      PROVE  UpToDate(reportCookie'[d]) /\ UpToDate(reportRequest'[d])
  BY <1>1, <1>2 DEF Enter, Entered, Refuse, VersionsInv, ReportsTyped, HistoryTyped, UpToDate,
     Follows, Visitors
<1> QED
  BY <1>1, <1>2, QuietVersions

LEMMA VersionsAreInvariant == ReportSpec => []VersionsInv
<1>1. ReportsTyped' /\ VersionsInv /\ [ReportNext]_reportVars => VersionsInv'
  <2> SUFFICES ASSUME ReportsTyped', VersionsInv, [ReportNext]_reportVars
               PROVE  VersionsInv'
    OBVIOUS
  <2>1. CASE UNCHANGED reportVars
    BY <2>1 DEF reportVars, rotations, VersionsInv, ReportsTyped, HistoryTyped, UpToDate
  <2>2. ASSUME ReportNext, Activate \/ ReportTick \/ Discard
        PROVE  VersionsInv'
    <3>1. /\ client'.version = client.version /\ client'.password = client.password
          /\ reportCookie' = reportCookie /\ reportRequest' = reportRequest
      BY <2>2 DEF Activate, ReportTick, Discard, VersionsInv, ReportsTyped
    <3> QED
      BY <2>2, <3>1, QuietVersions DEF ReportNext, VersionsInv
  <2>3. ASSUME ReportNext, Restart
        PROVE  VersionsInv'
    <3>1. client' = client /\ \A c \in Customers :
              UpToDate(reportCookie'[c]) /\ UpToDate(reportRequest'[c])
      BY <2>3 DEF Restart, VersionsInv, UpToDate, Follows, Visitors
    <3> QED
      BY <2>3, <3>1, QuietVersions DEF ReportNext
  <2> QED
    BY <2>1, <2>2, <2>3, CommitVersions, AdministratorVersions, CustomerVersions
    DEF ReportNext, ReportStep
<1>2. DisplayInv => ReportsTyped
  BY DEF DisplayInv
<1> QED
  BY ReportInitVersions, DisplayIsInvariant, <1>1, <1>2, PTL DEF ReportSpec

(* Whoever is admitted to a report has presented its present password, for *)
(* any number of administrators and customers, and however their sign-ins  *)
(* overlap rotations, archives and restarts, with a version above those    *)
(* that a lost increment left in doubt.                                    *)
THEOREM RotationEndsSessions == ReportSpec => []ReportSessionsAreCurrent
<1>1. VersionsInv => ReportSessionsAreCurrent
  BY DEF VersionsInv, ReportsTyped, HistoryTyped, UpToDate, Follows, ReportSessionsAreCurrent,
     Allowed
<1> QED
  BY VersionsAreInvariant, <1>1, PTL

-----------------------------------------------------------------------------
(* The limiter of failed attempts                                          *)

Attempts == [key: Keys, stage: {"check", "verify", "record"}, time: Nat]

LimiterTyped ==
    /\ limiterClock \in Nat
    /\ DOMAIN attempts \subseteq Keys
    /\ \A k \in DOMAIN attempts : attempts[k] \in Seq(Nat)
    /\ failed \in [Keys -> Seq(Nat)]
    /\ DOMAIN attempt = Handlers
    /\ \A t \in Handlers : attempt[t] # NoAttempt => attempt[t] \in Attempts

(* An instant is read before the lock is taken, MaxDelay before at most.   *)
TimesOK ==
    /\ \A t \in Handlers : InStage(t, "check") \/ InStage(t, "record") =>
           attempt[t].time <= limiterClock /\ limiterClock <= attempt[t].time + MaxDelay
    /\ \A k \in Keys : \A i \in 1..Len(failed[k]) :
           /\ failed[k][i] <= limiterClock
           /\ \A j \in 1..i : failed[k][j] - MaxDelay <= failed[k][i]

(* What the table has of a key are its last failures.                      *)
Suffix(times, all, n) ==
    /\ Len(all) = n + Len(times)
    /\ \A i \in 1..Len(times) : times[i] = all[n + i]

ExpiredTo(all, n) == \A i \in 1..n : all[i] <= limiterClock - Window

Tracks(table, k) ==
    \E n \in Nat : Suffix(TimesIn(table, k), failed[k], n) /\ ExpiredTo(failed[k], n)

TableInv ==
    /\ LimiterTyped
    /\ TimesOK
    /\ \A k \in Keys : Tracks(attempts, k)

Admitted(k) ==
    {t \in Handlers : (InStage(t, "verify") \/ InStage(t, "record")) /\ attempt[t].key = k}

(* An admitted attempt may still fail.                                     *)
CountOK(k) ==
    Cardinality(FailuresWithin(k, Window)) + Cardinality(Admitted(k))
        <= Limit + Cardinality(Handlers) - 1

(* Of any keys one was used before the others.                             *)
Ordered ==
    \A S \in SUBSET Keys : S # {} => \E k \in S : older[k] \cap S = {}

Bounded == IsFiniteSet(DOMAIN attempts) /\ Cardinality(DOMAIN attempts) <= MaximumKeys

-----------------------------------------------------------------------------
(* Pruning                                                                 *)

LEMMA FirstOfNats == ASSUME NEW S \in SUBSET Nat, S # {}
                     PROVE  Min(S) \in S /\ \A i \in S : Min(S) <= i
<1> DEFINE R == OpToRel(<, Nat)
<1>0. IsWellFoundedOn(R, Nat)
  BY NatLessThanWellFounded
<1> HIDE DEF R
<1>1. PICK x \in S : \A y \in S : ~(<<y, x>> \in R)
  <2>1. S \subseteq Nat /\ S # {}
    OBVIOUS
  <2> QED
    BY <1>0, <2>1, WFMin
<1>2. \A y \in S : ~(y < x)
  BY <1>1 DEF R, OpToRel
<1>3. \A y \in S : x <= y
  BY <1>2
<1> QED
  BY <1>3 DEF Min

LEMMA UnexpiredIsASuffix ==
    ASSUME NEW times \in Seq(Nat), NEW current \in Nat
    PROVE  /\ Unexpired(times, current) \in Seq(Nat)
           /\ Recent(times, current) = {} => Len(Unexpired(times, current)) = 0
           /\ Recent(times, current) # {} =>
                  /\ Unexpired(times, current)[1] > current - Window
                  /\ Len(Unexpired(times, current)) > 0
           /\ \E n \in Nat : /\ Suffix(Unexpired(times, current), times, n)
                             /\ \A i \in 1..n : times[i] <= current - Window
<1> DEFINE R == Recent(times, current)
           m == Min(R)
<1>0. /\ Len(times) \in Nat /\ DOMAIN times = 1..Len(times)
      /\ \A i \in 1..Len(times) : times[i] \in Nat
      /\ Window \in Nat
  BY LenProperties, LimiterAssumption
<1>1. CASE R = {}
  <2>1. Unexpired(times, current) = <<>> /\ Len(<<>>) = 0 /\ <<>> \in Seq(Nat)
    BY <1>1, EmptySeq DEF Unexpired
  <2>2. \A i \in 1..Len(times) : times[i] <= current - Window
    BY <1>0, <1>1 DEF Recent
  <2>3. Suffix(<<>>, times, Len(times))
    BY <1>0, <2>1 DEF Suffix
  <2> QED
    BY <1>0, <1>1, <2>1, <2>2, <2>3
<1>2. CASE R # {}
  <2>1. R \subseteq Nat /\ R \subseteq 1..Len(times)
    BY <1>0 DEF Recent
  <2>2. m \in R /\ \A i \in R : m <= i
    BY <1>2, <2>1, FirstOfNats
  <2> HIDE DEF m
  <2>3. m \in 1..Len(times) /\ times[m] > current - Window
    BY <1>0, <2>2 DEF Recent
  <2> DEFINE u == SubSeq(times, m, Len(times))
  <2>4. /\ u \in Seq(Nat)
        /\ Len(u) = Len(times) - m + 1
        /\ \A i \in 1..Len(times) - m + 1 : u[i] = times[m + i - 1]
    <3>1. m \in Int /\ Len(times) \in Int /\ \A i \in m..Len(times) : times[i] \in Nat
      BY <1>0, <2>3
    <3>2. m <= Len(times)
      BY <2>3
    <3> QED
      BY <3>1, <3>2, SubSeqProperties
  <2>5. Unexpired(times, current) = u
    BY <1>2 DEF Unexpired, m
  <2> HIDE DEF u
  <2>6. Suffix(u, times, m - 1) /\ m - 1 \in Nat
    BY <1>0, <2>3, <2>4 DEF Suffix
  <2>7. ASSUME NEW i \in 1..m - 1 PROVE times[i] <= current - Window
    <3>1. i \in 1..Len(times) /\ ~(m <= i)
      BY <1>0, <2>3
    <3>2. times[i] \in Nat /\ i \notin R
      BY <1>0, <2>2, <3>1
    <3>3. ~(times[i] > current - Window)
      BY <1>0, <3>1, <3>2 DEF Recent
    <3> QED
      BY <1>0, <3>2, <3>3
  <2>8. u[1] > current - Window /\ Len(u) > 0
    <3>1. 1 \in 1..Len(times) - m + 1 /\ m + 1 - 1 = m
      BY <1>0, <2>3
    <3>2. u[1] = times[m + 1 - 1]
      BY <2>4, <3>1
    <3> QED
      BY <1>0, <2>3, <2>4, <3>1, <3>2
  <2>9. \E n \in Nat : Suffix(u, times, n) /\ \A i \in 1..n : times[i] <= current - Window
    BY <2>6, <2>7
  <2> HIDE DEF R
  <2> QED
    BY <1>2, <2>4, <2>5, <2>8, <2>9 DEF R
<1> QED
  BY <1>1, <1>2

LEMMA SuffixOfSuffix ==
    ASSUME NEW a \in Seq(Nat), NEW b \in Seq(Nat), NEW c \in Seq(Nat), NEW m \in Nat, NEW n \in Nat,
           Suffix(a, b, m), Suffix(b, c, n)
    PROVE  Suffix(a, c, n + m)
<1>1. Len(a) \in Nat /\ Len(b) \in Nat /\ Len(c) \in Nat
  BY LenProperties
<1>2. Len(c) = (n + m) + Len(a)
  BY <1>1 DEF Suffix
<1>3. ASSUME NEW i \in 1..Len(a) PROVE a[i] = c[(n + m) + i]
  <2>1. Len(b) = m + Len(a) /\ a[i] = b[m + i]
    BY DEF Suffix
  <2>2. m + i \in 1..Len(b) /\ n + (m + i) = (n + m) + i
    BY <1>1, <2>1
  <2>3. b[m + i] = c[n + (m + i)]
    BY <2>2 DEF Suffix
  <2> QED
    BY <2>1, <2>2, <2>3
<1> QED
  BY <1>2, <1>3 DEF Suffix

LEMMA TimesInTyped ==
    ASSUME LimiterTyped, NEW k
    PROVE  TimesIn(attempts, k) \in Seq(Nat)
BY EmptySeq DEF LimiterTyped, TimesIn

(* What pruning at an instant in the past leaves of a key                  *)
LEMMA PruneTracks ==
    ASSUME TableInv, NEW current \in Nat, current <= limiterClock, NEW k \in Keys
    PROVE  /\ DOMAIN Prune(current) \subseteq DOMAIN attempts
           /\ TimesIn(Prune(current), k) \in Seq(Nat)
           /\ k \in DOMAIN Prune(current) => TimesIn(Prune(current), k) = Prune(current)[k]
           /\ Tracks(Prune(current), k)
           /\ Len(TimesIn(Prune(current), k)) > 0 =>
                  TimesIn(Prune(current), k)[1] > current - Window
<1> DEFINE times == TimesIn(attempts, k)
           left == TimesIn(Prune(current), k)
<1>0. times \in Seq(Nat) /\ failed[k] \in Seq(Nat) /\ limiterClock \in Nat /\ Window \in Nat
  BY TimesInTyped, LimiterAssumption DEF TableInv, LimiterTyped
<1>1. left = Unexpired(times, current)
  <2>1. CASE k \in DOMAIN attempts
    BY <2>1 DEF TimesIn, Prune, Unexpired
  <2>2. CASE k \notin DOMAIN attempts
    <3>1. left = <<>> /\ times = <<>>
      BY <2>2 DEF TimesIn, Prune
    <3>2. Recent(<<>>, current) = {}
      BY DEF Recent
    <3> QED
      BY <3>1, <3>2 DEF Unexpired
  <2> QED
    BY <2>1, <2>2
<1>2. /\ DOMAIN Prune(current) \subseteq DOMAIN attempts
      /\ k \in DOMAIN Prune(current) => left = Prune(current)[k]
  BY DEF Prune, TimesIn
<1> HIDE DEF times, left
<1>3. PICK n \in Nat : Suffix(times, failed[k], n) /\ ExpiredTo(failed[k], n)
  BY DEF TableInv, Tracks, times
<1>4. PICK m \in Nat : Suffix(left, times, m) /\ \A i \in 1..m : times[i] <= current - Window
  BY <1>0, <1>1, UnexpiredIsASuffix
<1>5. left \in Seq(Nat) /\ (Len(left) > 0 => left[1] > current - Window)
  <2>1. CASE Recent(times, current) = {}
    BY <1>0, <1>1, <2>1, UnexpiredIsASuffix
  <2>2. CASE Recent(times, current) # {}
    BY <1>0, <1>1, <2>2, UnexpiredIsASuffix
  <2> QED
    BY <2>1, <2>2
<1>6. Suffix(left, failed[k], n + m)
  BY <1>0, <1>3, <1>4, <1>5, SuffixOfSuffix
<1>7. ExpiredTo(failed[k], n + m)
  <2> SUFFICES ASSUME NEW i \in 1..(n + m) PROVE failed[k][i] <= limiterClock - Window
    BY DEF ExpiredTo
  <2>0. /\ Len(times) \in Nat /\ Len(failed[k]) \in Nat /\ Len(left) \in Nat
        /\ \A j \in 1..Len(failed[k]) : failed[k][j] \in Nat
    BY <1>0, <1>5, LenProperties
  <2>1. CASE i <= n
    BY <1>3, <2>1 DEF ExpiredTo
  <2>2. CASE i > n
    <3>1. i - n \in 1..m /\ i - n \in 1..Len(times) /\ n + (i - n) = i
      BY <1>4, <2>0, <2>2 DEF Suffix
    <3>2. times[i - n] = failed[k][i] /\ times[i - n] <= current - Window
      BY <1>3, <1>4, <3>1 DEF Suffix
    <3>3. i \in 1..Len(failed[k])
      BY <1>6, <2>0 DEF Suffix
    <3> QED
      BY <1>0, <2>0, <3>2, <3>3
  <2> QED
    BY <2>1, <2>2
<1>8. n + m \in Nat
  OBVIOUS
<1> QED
  BY <1>2, <1>5, <1>6, <1>7, <1>8 DEF Tracks, left

-----------------------------------------------------------------------------
(* The table follows the failures                                          *)

LEMMA LimiterInitInv == LimiterInit => TableInv
<1> SUFFICES ASSUME LimiterInit PROVE TableInv
  OBVIOUS
<1>1. <<>> \in Seq(Nat) /\ Len(<<>>) = 0
  BY EmptySeq
<1>2. LimiterTyped /\ TimesOK
  BY <1>1 DEF LimiterInit, LimiterTyped, TimesOK, InStage
<1>3. \A k \in Keys : TimesIn(attempts, k) = <<>> /\ failed[k] = <<>>
  BY DEF LimiterInit, TimesIn
<1>4. ASSUME NEW k \in Keys PROVE Tracks(attempts, k)
  <2>1. Suffix(<<>>, <<>>, 0) /\ ExpiredTo(<<>>, 0)
    BY <1>1 DEF Suffix, ExpiredTo
  <2> QED
    BY <1>3, <2>1 DEF Tracks
<1> QED
  BY <1>2, <1>4 DEF TableInv

(* A step that changes neither the failures nor what the table has of them *)
LEMMA SameFailures ==
    ASSUME TableInv, LimiterTyped', failed' = failed, limiterClock' \in Nat,
           limiterClock <= limiterClock',
           \A k \in Keys : \E n \in Nat : /\ Suffix(TimesIn(attempts', k), failed[k], n)
                                          /\ ExpiredTo(failed[k], n),
           \A t \in Handlers : (InStage(t, "check") \/ InStage(t, "record"))' =>
               /\ attempt'[t].time <= limiterClock'
               /\ limiterClock' <= attempt'[t].time + MaxDelay
    PROVE  TableInv'
<1>0. limiterClock \in Nat /\ Window \in Nat /\ failed \in [Keys -> Seq(Nat)]
  BY LimiterAssumption DEF TableInv, LimiterTyped
<1>1. TimesOK'
  <2>1. ASSUME NEW k \in Keys, NEW i \in 1..Len(failed[k])
        PROVE  failed[k][i] <= limiterClock'
    <3>1. failed[k][i] \in Nat
      BY <1>0, LenProperties
    <3>2. failed[k][i] <= limiterClock
      BY DEF TableInv, TimesOK
    <3> QED
      BY <1>0, <3>1, <3>2
  <2> QED
    BY <2>1 DEF TableInv, TimesOK
<1>2. ASSUME NEW k \in Keys PROVE Tracks(attempts, k)'
  <2>1. PICK n \in Nat : Suffix(TimesIn(attempts', k), failed[k], n) /\ ExpiredTo(failed[k], n)
    OBVIOUS
  <2>2. \A i \in 1..n : failed[k][i] \in Nat
    <3>1. Len(failed[k]) >= n /\ Len(failed[k]) \in Nat /\ failed[k] \in Seq(Nat)
      <4>1. failed[k] \in Seq(Nat) /\ Len(failed[k]) \in Nat
        BY <1>0, LenProperties
      <4>2. TimesIn(attempts', k) \in Seq(Nat)
        BY EmptySeq DEF LimiterTyped, TimesIn
      <4>3. Len(TimesIn(attempts', k)) \in Nat
        BY <4>2, LenProperties
      <4> QED
        BY <2>1, <4>1, <4>3 DEF Suffix
    <3> QED
      BY <3>1, LenProperties
  <2>3. ExpiredTo(failed[k], n)'
    BY <1>0, <2>1, <2>2 DEF ExpiredTo
  <2> QED
    BY <2>1, <2>3 DEF Tracks, Suffix, TimesIn
<1> QED
  BY <1>1, <1>2 DEF TableInv

LEMMA AskKeeps == ASSUME TableInv, NEW t \in Handlers, NEW k \in Keys, Ask(t, k) PROVE TableInv'
<1>1. LimiterTyped' /\ limiterClock \in Nat /\ MaxDelay \in Nat
  BY LimiterAssumption DEF TableInv, LimiterTyped, Ask, Attempts
<1>2. \A u \in Handlers : (InStage(u, "check") \/ InStage(u, "record"))' =>
         /\ attempt'[u].time <= limiterClock'
         /\ limiterClock' <= attempt'[u].time + MaxDelay
  BY <1>1 DEF TableInv, LimiterTyped, TimesOK, InStage, Ask
<1>3. \A q \in Keys : \E n \in Nat : Suffix(TimesIn(attempts', q), failed[q], n)
                                     /\ ExpiredTo(failed[q], n)
  BY DEF TableInv, Tracks, Ask
<1> QED
  BY <1>1, <1>2, <1>3, SameFailures DEF Ask

LEMMA FailKeeps == ASSUME TableInv, NEW t \in Handlers, Fail(t) PROVE TableInv'
<1>1. LimiterTyped' /\ limiterClock \in Nat /\ MaxDelay \in Nat
  BY LimiterAssumption DEF TableInv, LimiterTyped, Fail, InStage, Attempts
<1>2. \A u \in Handlers : (InStage(u, "check") \/ InStage(u, "record"))' =>
         /\ attempt'[u].time <= limiterClock'
         /\ limiterClock' <= attempt'[u].time + MaxDelay
  BY <1>1 DEF TableInv, LimiterTyped, TimesOK, InStage, Fail, Attempts
<1>3. \A q \in Keys : \E n \in Nat : Suffix(TimesIn(attempts', q), failed[q], n)
                                     /\ ExpiredTo(failed[q], n)
  BY DEF TableInv, Tracks, Fail
<1> QED
  BY <1>1, <1>2, <1>3, SameFailures DEF Fail

LEMMA TickKeeps == ASSUME TableInv, LimiterTick PROVE TableInv'
<1>1. LimiterTyped' /\ limiterClock \in Nat /\ MaxDelay \in Nat
  BY LimiterAssumption DEF TableInv, LimiterTyped, LimiterTick
<1>2. ASSUME NEW u \in Handlers, (InStage(u, "check") \/ InStage(u, "record"))'
      PROVE  /\ attempt'[u].time <= limiterClock'
             /\ limiterClock' <= attempt'[u].time + MaxDelay
  <2>1. InStage(u, "check") \/ InStage(u, "record")
    BY <1>2 DEF LimiterTick, InStage
  <2>2. attempt[u].time \in Nat
    BY <2>1 DEF TableInv, LimiterTyped, InStage, Attempts
  <2>3. attempt[u].time <= limiterClock /\ limiterClock < attempt[u].time + MaxDelay
    BY <2>1 DEF TableInv, TimesOK, LimiterTick
  <2> QED
    BY <1>1, <2>2, <2>3 DEF LimiterTick
<1>3. \A q \in Keys : \E n \in Nat : Suffix(TimesIn(attempts', q), failed[q], n)
                                     /\ ExpiredTo(failed[q], n)
  BY DEF TableInv, Tracks, LimiterTick
<1> QED
  BY <1>1, <1>2, <1>3, SameFailures DEF LimiterTick

LEMMA CheckKeeps == ASSUME TableInv, NEW t \in Handlers, Check(t) PROVE TableInv'
<1> DEFINE current == attempt[t].time
<1>0. /\ current \in Nat /\ limiterClock \in Nat /\ MaxDelay \in Nat /\ current <= limiterClock
      /\ attempt[t] \in Attempts
  BY LimiterAssumption DEF Check, InStage, TableInv, LimiterTyped, TimesOK, Attempts
<1>1. /\ attempts' = Prune(current) /\ UNCHANGED <<failed, limiterClock>>
      /\ \/ attempt' = [attempt EXCEPT ![t] = NoAttempt]
         \/ attempt' = [attempt EXCEPT ![t] = [@ EXCEPT !.stage = "verify"]]
  BY DEF Check, Checked
<1> HIDE DEF current
<1>2. LimiterTyped'
  <2>1. \A u \in Handlers : attempt'[u] # NoAttempt => attempt'[u] \in Attempts
    <3>1. [attempt[t] EXCEPT !.stage = "verify"] \in Attempts
      BY <1>0 DEF Attempts
    <3> QED
      BY <1>0, <1>1, <3>1 DEF TableInv, LimiterTyped
  <2>2. DOMAIN attempts' \subseteq Keys /\ \A k \in DOMAIN attempts' : attempts'[k] \in Seq(Nat)
    <3>1. DOMAIN attempts' \subseteq DOMAIN attempts
      BY <1>1 DEF Prune
    <3> QED
      BY <1>0, <1>1, <3>1, PruneTracks DEF TableInv, LimiterTyped
  <2> QED
    BY <1>1, <2>1, <2>2 DEF TableInv, LimiterTyped
<1>3. \A u \in Handlers : (InStage(u, "check") \/ InStage(u, "record"))' =>
         /\ attempt'[u].time <= limiterClock'
         /\ limiterClock' <= attempt'[u].time + MaxDelay
  BY <1>0, <1>1 DEF TableInv, LimiterTyped, TimesOK, InStage, Attempts
<1>4. \A q \in Keys : \E n \in Nat : Suffix(TimesIn(attempts', q), failed[q], n)
                                     /\ ExpiredTo(failed[q], n)
  BY <1>0, <1>1, PruneTracks DEF Tracks
<1> QED
  BY <1>0, <1>1, <1>2, <1>3, <1>4, SameFailures

LEMMA SuffixExtended ==
    ASSUME NEW a \in Seq(Nat), NEW b \in Seq(Nat), NEW n \in Nat, NEW x \in Nat, Suffix(a, b, n)
    PROVE  Suffix(Append(a, x), Append(b, x), n)
<1>1. Len(a) \in Nat /\ Len(b) \in Nat /\ Len(b) = n + Len(a)
  BY LenProperties DEF Suffix
<1>2. /\ Len(Append(a, x)) = Len(a) + 1 /\ Len(Append(b, x)) = Len(b) + 1
      /\ \A i \in 1..Len(a) : Append(a, x)[i] = a[i]
      /\ \A i \in 1..Len(b) : Append(b, x)[i] = b[i]
      /\ Append(a, x)[Len(a) + 1] = x /\ Append(b, x)[Len(b) + 1] = x
  BY AppendProperties
<1>3. ASSUME NEW i \in 1..Len(a) + 1 PROVE Append(a, x)[i] = Append(b, x)[n + i]
  <2>1. CASE i = Len(a) + 1
    BY <1>1, <1>2, <2>1
  <2>2. CASE i # Len(a) + 1
    <3>1. i \in 1..Len(a) /\ n + i \in 1..Len(b)
      BY <1>1, <2>2
    <3>2. a[i] = b[n + i]
      BY <3>1 DEF Suffix
    <3> QED
      BY <1>2, <3>1, <3>2
  <2> QED
    BY <2>1, <2>2
<1>4. Len(Append(b, x)) = n + Len(Append(a, x))
  BY <1>1, <1>2
<1>5. \A i \in 1..Len(Append(a, x)) : Append(a, x)[i] = Append(b, x)[n + i]
  BY <1>2, <1>3
<1> QED
  BY <1>4, <1>5 DEF Suffix

(* What Record does, with the key that is evicted, if any, left open       *)
LEMMA RecordEffect ==
    ASSUME TableInv, NEW t \in Handlers, Record(t)
    PROVE  LET k == attempt[t].key
               current == attempt[t].time
           IN  /\ k \in Keys /\ current \in Nat /\ InStage(t, "record")
               /\ current <= limiterClock /\ limiterClock <= current + MaxDelay
               /\ attempt' = [attempt EXCEPT ![t] = NoAttempt] /\ limiterClock' = limiterClock
               /\ \E evicted :
                     /\ DOMAIN attempts' = (DOMAIN Prune(current) \cup {k}) \ evicted
                     /\ \A q \in DOMAIN attempts' :
                           attempts'[q] = IF q = k THEN Append(TimesIn(Prune(current), k), current)
                                          ELSE Prune(current)[q]
                     /\ failed' = [q \in Keys |->
                                      IF q \in evicted THEN <<>>
                                      ELSE IF q = k THEN Append(failed[k], current)
                                      ELSE failed[q]]
<1> DEFINE k == attempt[t].key
           current == attempt[t].time
<1>1. k \in Keys /\ current \in Nat /\ InStage(t, "record")
  BY DEF Record, InStage, TableInv, LimiterTyped, Attempts
<1>2. current <= limiterClock /\ limiterClock <= current + MaxDelay
  BY <1>1 DEF TableInv, TimesOK
<1>3. attempt' = [attempt EXCEPT ![t] = NoAttempt] /\ limiterClock' = limiterClock
  BY DEF Record
<1> DEFINE table == Prune(current)
           longer == [q \in DOMAIN table \cup {k} |->
                         IF q = k THEN Append(TimesIn(table, k), current) ELSE table[q]]
           evicted == IF Cardinality(DOMAIN longer) > MaximumKeys THEN {LeastRecent(longer)} ELSE {}
<1>4. /\ attempts' = [q \in DOMAIN longer \ evicted |-> longer[q]]
      /\ failed' = [q \in Keys |-> IF q \in evicted THEN <<>>
                                   ELSE IF q = k THEN Append(failed[k], current)
                                   ELSE failed[q]]
  BY DEF Record
<1> HIDE DEF evicted, table, current, k
<1>5. /\ DOMAIN attempts' = (DOMAIN table \cup {k}) \ evicted
      /\ \A q \in DOMAIN attempts' :
            attempts'[q] = IF q = k THEN Append(TimesIn(table, k), current) ELSE table[q]
  BY <1>4
<1> QED
  BY <1>1, <1>2, <1>3, <1>4, <1>5 DEF k, current, table

LEMMA RecordKeeps == ASSUME TableInv, NEW t \in Handlers, Record(t) PROVE TableInv'
<1> DEFINE k == attempt[t].key
           current == attempt[t].time
           table == Prune(current)
<1>1. /\ k \in Keys /\ current \in Nat /\ current <= limiterClock
      /\ limiterClock <= current + MaxDelay
      /\ attempt' = [attempt EXCEPT ![t] = NoAttempt] /\ limiterClock' = limiterClock
  BY RecordEffect
<1>2. PICK evicted :
          /\ DOMAIN attempts' = (DOMAIN table \cup {k}) \ evicted
          /\ \A q \in DOMAIN attempts' :
                attempts'[q] = IF q = k THEN Append(TimesIn(table, k), current) ELSE table[q]
          /\ failed' = [q \in Keys |-> IF q \in evicted THEN <<>>
                                       ELSE IF q = k THEN Append(failed[k], current)
                                       ELSE failed[q]]
  BY RecordEffect
<1>3. /\ limiterClock \in Nat /\ MaxDelay \in Nat /\ DOMAIN attempt = Handlers
      /\ DOMAIN attempts \subseteq Keys
      /\ \A q \in Keys : /\ failed[q] \in Seq(Nat) /\ Len(failed[q]) \in Nat
                         /\ \A i \in 1..Len(failed[q]) : failed[q][i] \in Nat
  BY LenProperties, LimiterAssumption DEF TableInv, LimiterTyped
<1>4. \A q \in Keys :
          /\ DOMAIN table \subseteq DOMAIN attempts
          /\ TimesIn(table, q) \in Seq(Nat)
          /\ q \in DOMAIN table => TimesIn(table, q) = table[q]
          /\ Tracks(table, q)
  BY <1>1, PruneTracks
<1> HIDE DEF table, current, k
<1>5. /\ Append(TimesIn(table, k), current) \in Seq(Nat)
      /\ Append(failed[k], current) \in Seq(Nat)
      /\ Len(Append(failed[k], current)) = Len(failed[k]) + 1
      /\ \A i \in 1..Len(failed[k]) : Append(failed[k], current)[i] = failed[k][i]
      /\ Append(failed[k], current)[Len(failed[k]) + 1] = current
  BY <1>1, <1>3, <1>4, AppendProperties
<1>6. <<>> \in Seq(Nat) /\ Len(<<>>) = 0
  BY EmptySeq
<1>7. LimiterTyped'
  <2>1. DOMAIN attempts' \subseteq Keys /\ \A q \in DOMAIN attempts' : attempts'[q] \in Seq(Nat)
    BY <1>1, <1>2, <1>3, <1>4, <1>5
  <2>2. failed' \in [Keys -> Seq(Nat)]
    BY <1>1, <1>2, <1>3, <1>5, <1>6
  <2> QED
    BY <1>1, <2>1, <2>2 DEF TableInv, LimiterTyped
<1>8. TimesOK'
  <2>1. \A u \in Handlers : (InStage(u, "check") \/ InStage(u, "record"))' =>
           attempt'[u].time <= limiterClock' /\ limiterClock' <= attempt'[u].time + MaxDelay
    BY <1>1, <1>3 DEF TableInv, TimesOK, InStage
  <2>2. ASSUME NEW q \in Keys, NEW i \in 1..Len(failed'[q])
        PROVE  /\ failed'[q][i] <= limiterClock
               /\ \A j \in 1..i : failed'[q][j] - MaxDelay <= failed'[q][i]
    <3>0. \A j \in 1..Len(failed[q]) :
              /\ failed[q][j] <= limiterClock
              /\ \A l \in 1..j : failed[q][l] - MaxDelay <= failed[q][j]
      BY DEF TableInv, TimesOK
    <3>1. CASE q \in evicted
      BY <1>2, <1>6, <3>1
    <3>2. CASE q \notin evicted /\ q # k
      <4>1. failed'[q] = failed[q]
        BY <1>2, <3>2
      <4> QED
        BY <2>2, <3>0, <4>1
    <3>3. CASE q \notin evicted /\ q = k
      <4>1. failed'[q] = Append(failed[k], current)
        BY <1>2, <3>3
      <4>2. CASE i = Len(failed[k]) + 1
        <5>1. failed'[q][i] = current
          BY <1>5, <4>1, <4>2
        <5>2. ASSUME NEW j \in 1..i PROVE failed'[q][j] - MaxDelay <= current
          <6>1. CASE j = i
            BY <1>1, <1>3, <5>1, <6>1
          <6>2. CASE j # i
            <7>1. j \in 1..Len(failed[k])
              BY <1>1, <1>3, <4>2, <6>2
            <7>2. failed'[q][j] = failed[k][j]
              BY <1>5, <4>1, <7>1
            <7>3. failed[k][j] <= limiterClock /\ failed[k][j] \in Nat
              BY <1>1, <1>3, <3>0, <3>3, <7>1
            <7> QED
              BY <1>1, <1>3, <7>2, <7>3
          <6> QED
            BY <6>1, <6>2
        <5> QED
          BY <1>1, <5>1, <5>2
      <4>3. CASE i # Len(failed[k]) + 1
        <5>1. i \in 1..Len(failed[k]) /\ \A j \in 1..i : j \in 1..Len(failed[k])
          BY <1>1, <1>3, <1>5, <2>2, <4>1, <4>3
        <5>2. \A j \in 1..i : failed'[q][j] = failed[k][j]
          BY <1>5, <4>1, <5>1
        <5>3. failed'[q][i] = failed[k][i]
          BY <1>5, <4>1, <5>1
        <5> QED
          BY <3>0, <3>3, <5>1, <5>2, <5>3
      <4> QED
        BY <4>2, <4>3
    <3> QED
      BY <3>1, <3>2, <3>3
  <2> QED
    BY <1>1, <2>1, <2>2 DEF TimesOK
<1>9. ASSUME NEW q \in Keys PROVE Tracks(attempts, q)'
  <2>1. CASE q \in evicted
    <3>1. TimesIn(attempts', q) = <<>> /\ failed'[q] = <<>>
      BY <1>2, <2>1 DEF TimesIn
    <3>2. Suffix(TimesIn(attempts', q), failed'[q], 0)
          /\ \A i \in 1..0 : failed'[q][i] <= limiterClock' - Window
      BY <1>6, <3>1 DEF Suffix
    <3> QED
      BY <3>2 DEF Tracks, Suffix, TimesIn, ExpiredTo
  <2>2. CASE q \notin evicted
    <3>1. PICK n \in Nat : Suffix(TimesIn(table, q), failed[q], n) /\ ExpiredTo(failed[q], n)
      BY <1>4 DEF Tracks
    <3>2. CASE q # k
      <4>1. TimesIn(attempts', q) = TimesIn(table, q) /\ failed'[q] = failed[q]
        BY <1>2, <2>2, <3>2 DEF TimesIn
      <4>2. Suffix(TimesIn(attempts', q), failed'[q], n) /\ ExpiredTo(failed[q], n)'
        BY <1>1, <3>1, <4>1 DEF ExpiredTo
      <4> QED
        BY <4>1, <4>2 DEF Tracks, Suffix, TimesIn, ExpiredTo
    <3>3. CASE q = k
      <4>1. /\ TimesIn(attempts', q) = Append(TimesIn(table, k), current)
            /\ failed'[q] = Append(failed[k], current)
        BY <1>2, <2>2, <3>3 DEF TimesIn
      <4>2. Suffix(TimesIn(attempts', q), failed'[q], n)
        BY <1>1, <1>3, <1>4, <3>1, <3>3, <4>1, SuffixExtended
      <4>3. \A i \in 1..n : failed'[q][i] <= limiterClock' - Window
        <5>1. n <= Len(failed[k])
          <6>1. Len(TimesIn(table, k)) \in Nat
            BY <1>1, <1>4, LenProperties
          <6> QED
            BY <1>1, <1>3, <3>1, <3>3, <6>1 DEF Suffix
        <5> QED
          BY <1>1, <1>3, <1>5, <3>1, <3>3, <4>1, <5>1 DEF ExpiredTo
      <4> QED
        BY <4>2, <4>3 DEF Tracks, Suffix, TimesIn, ExpiredTo
    <3> QED
      BY <3>2, <3>3
  <2> QED
    BY <2>1, <2>2
<1> QED
  BY <1>7, <1>8, <1>9 DEF TableInv

LEMMA SucceedKeeps == ASSUME TableInv, NEW t \in Handlers, Succeed(t) PROVE TableInv'
<1> DEFINE k == attempt[t].key
<1>1. /\ attempts' = [q \in DOMAIN attempts \ {k} |-> attempts[q]]
      /\ failed' = [failed EXCEPT ![k] = <<>>]
      /\ attempt' = [attempt EXCEPT ![t] = NoAttempt]
      /\ limiterClock' = limiterClock
      /\ k \in Keys
  BY DEF Succeed, Succeeded, InStage, TableInv, LimiterTyped, Attempts
<1> HIDE DEF k
<1>2. <<>> \in Seq(Nat) /\ Len(<<>>) = 0
  BY EmptySeq
<1>3. LimiterTyped'
  BY <1>1, <1>2 DEF TableInv, LimiterTyped
<1>4. \A q \in Keys \ {k} : /\ failed'[q] = failed[q]
                            /\ TimesIn(attempts', q) = TimesIn(attempts, q)
  BY <1>1 DEF TableInv, LimiterTyped, TimesIn
<1>5. failed'[k] = <<>> /\ TimesIn(attempts', k) = <<>>
  BY <1>1 DEF TableInv, LimiterTyped, TimesIn
<1>6. TimesOK'
  <2>1. \A u \in Handlers : (InStage(u, "check") \/ InStage(u, "record"))' =>
           attempt'[u].time <= limiterClock' /\ limiterClock' <= attempt'[u].time + MaxDelay
    BY <1>1 DEF TableInv, LimiterTyped, TimesOK, InStage
  <2>2. \A q \in Keys : \A i \in 1..Len(failed'[q]) :
            /\ failed'[q][i] <= limiterClock'
            /\ \A j \in 1..i : failed'[q][j] - MaxDelay <= failed'[q][i]
    BY <1>1, <1>2, <1>4, <1>5 DEF TableInv, TimesOK
  <2> QED
    BY <2>1, <2>2 DEF TimesOK
<1>7. ASSUME NEW q \in Keys PROVE Tracks(attempts, q)'
  <2>1. CASE q = k
    <3>1. /\ Suffix(TimesIn(attempts', q), failed'[q], 0)
          /\ \A i \in 1..0 : failed'[q][i] <= limiterClock' - Window
      BY <1>2, <1>5, <2>1 DEF Suffix
    <3> QED
      BY <3>1 DEF Tracks, Suffix, TimesIn, ExpiredTo
  <2>2. CASE q # k
    <3>1. PICK n \in Nat : Suffix(TimesIn(attempts, q), failed[q], n) /\ ExpiredTo(failed[q], n)
      BY DEF TableInv, Tracks
    <3>2. Suffix(TimesIn(attempts', q), failed'[q], n)
          /\ \A i \in 1..n : failed'[q][i] <= limiterClock' - Window
      BY <1>1, <1>4, <2>2, <3>1 DEF ExpiredTo
    <3> QED
      BY <3>2 DEF Tracks, Suffix, TimesIn, ExpiredTo
  <2> QED
    BY <2>1, <2>2
<1> QED
  BY <1>3, <1>6, <1>7 DEF TableInv

LEMMA TableIsInvariant == LimiterSpec => []TableInv
<1>1. ASSUME TableInv, UNCHANGED limiterVars PROVE TableInv'
  <2>1. LimiterTyped' /\ limiterClock \in Nat
    BY <1>1 DEF TableInv, LimiterTyped, limiterVars
  <2>2. \A q \in Keys : \E n \in Nat : Suffix(TimesIn(attempts', q), failed[q], n)
                                       /\ ExpiredTo(failed[q], n)
    BY <1>1 DEF TableInv, Tracks, limiterVars
  <2>3. \A t \in Handlers : (InStage(t, "check") \/ InStage(t, "record"))' =>
           attempt'[t].time <= limiterClock' /\ limiterClock' <= attempt'[t].time + MaxDelay
    BY <1>1 DEF TableInv, TimesOK, InStage, limiterVars
  <2> QED
    BY <1>1, <2>1, <2>2, <2>3, SameFailures DEF limiterVars
<1>2. TableInv /\ [LimiterNext]_limiterVars => TableInv'
  BY <1>1, AskKeeps, CheckKeeps, FailKeeps, RecordKeeps, SucceedKeeps, TickKeeps DEF LimiterNext
<1> QED
  BY LimiterInitInv, <1>2, PTL DEF LimiterSpec

-----------------------------------------------------------------------------
(* Refusals.  An instant recorded after another is earlier by MaxDelay at  *)
(* most, so that what follows an unexpired failure is not much older.      *)

LEMMA SuffixIsWithin ==
    ASSUME NEW k \in Keys, failed[k] \in Seq(Nat), NEW times \in Seq(Nat), NEW n \in Nat,
           Suffix(times, failed[k], n), NEW duration \in Nat,
           \A i \in 1..Len(times) : limiterClock - failed[k][n + i] < duration
    PROVE  Len(times) <= Cardinality(FailuresWithin(k, duration))
<1>1. /\ Len(times) \in Nat /\ Len(failed[k]) \in Nat /\ DOMAIN failed[k] = 1..Len(failed[k])
      /\ Len(failed[k]) = n + Len(times)
  BY LenProperties DEF Suffix
<1> DEFINE last == n + 1 .. n + Len(times)
<1>2. last \subseteq FailuresWithin(k, duration)
  <2> SUFFICES ASSUME NEW j \in last PROVE j \in FailuresWithin(k, duration)
    OBVIOUS
  <2>0. j \in Int /\ n + 1 <= j /\ j <= n + Len(times)
    BY <1>1
  <2>1. j - n \in 1..Len(times) /\ n + (j - n) = j /\ j \in 1..Len(failed[k])
    BY <1>1, <2>0
  <2>2. limiterClock - failed[k][n + (j - n)] < duration
    BY <2>1
  <2> QED
    BY <1>1, <2>1, <2>2 DEF FailuresWithin
<1>3. IsFiniteSet(FailuresWithin(k, duration))
  <2>1. FailuresWithin(k, duration) \in SUBSET (1..Len(failed[k]))
    BY <1>1 DEF FailuresWithin
  <2>2. IsFiniteSet(1..Len(failed[k]))
    <3> DEFINE size == Len(failed[k])
    <3>1. 1 \in Int /\ size \in Int
      BY <1>1
    <3> HIDE DEF size
    <3>2. IsFiniteSet(1..size)
      BY <3>1, FS_Interval
    <3> QED
      BY <3>2 DEF size
  <2> QED
    BY <2>1, <2>2, FS_Subset
<1>4. Cardinality(last) = Len(times)
  <2> DEFINE from == n + 1
             to == n + Len(times)
  <2>1. from \in Int /\ to \in Int
    BY <1>1
  <2> HIDE DEF from, to
  <2>2. Cardinality(from..to) = IF from > to THEN 0 ELSE to - from + 1
    BY <2>1, FS_Interval
  <2> QED
    BY <1>1, <2>2 DEF from, to
<1> HIDE DEF last
<1> QED
  BY <1>2, <1>3, <1>4, FS_Subset

LEMMA RefusedForFailures == ASSUME TableInv PROVE RefusalsAreEarned
<1> SUFFICES ASSUME NEW t \in Handlers, InStage(t, "check")
             PROVE  Len(TimesIn(Prune(attempt[t].time), attempt[t].key))
                        <= Cardinality(FailuresWithin(attempt[t].key, Horizon))
  BY DEF RefusalsAreEarned
<1> DEFINE k == attempt[t].key
           current == attempt[t].time
           times == TimesIn(Prune(current), k)
<1>1. /\ k \in Keys /\ current \in Nat
      /\ current <= limiterClock /\ limiterClock <= current + MaxDelay
  BY DEF InStage, TableInv, LimiterTyped, TimesOK, Attempts
<1>2. /\ times \in Seq(Nat) /\ Tracks(Prune(current), k)
      /\ Len(times) > 0 => times[1] > current - Window
  BY <1>1, PruneTracks
<1>3. PICK n \in Nat : Suffix(times, failed[k], n)
  BY <1>2 DEF Tracks
<1>4. /\ failed[k] \in Seq(Nat) /\ Len(failed[k]) \in Nat /\ Len(times) \in Nat
      /\ \A i \in 1..Len(failed[k]) : failed[k][i] \in Nat
      /\ limiterClock \in Nat /\ Window \in Nat /\ MaxDelay \in Nat
      /\ Len(failed[k]) = n + Len(times)
  <2>1. failed[k] \in Seq(Nat) /\ limiterClock \in Nat
    BY <1>1 DEF TableInv, LimiterTyped
  <2> HIDE DEF times, k
  <2> QED
    BY <1>2, <1>3, <2>1, LenProperties, LimiterAssumption DEF Suffix
<1> HIDE DEF times, k, current
<1>5. ASSUME NEW i \in 1..Len(times) PROVE limiterClock - failed[k][n + i] < Horizon
  <2>1. n + 1 \in 1..(n + i) /\ n + i \in 1..Len(failed[k]) /\ n + 1 \in 1..Len(failed[k])
        /\ 1 \in 1..Len(times)
    BY <1>4
  <2>2. times[1] = failed[k][n + 1] /\ times[1] > current - Window
    BY <1>2, <1>3, <1>4, <2>1 DEF Suffix
  <2>3. failed[k][n + 1] - MaxDelay <= failed[k][n + i]
    BY <1>1, <2>1 DEF TableInv, TimesOK
  <2>4. failed[k][n + 1] \in Nat /\ failed[k][n + i] \in Nat
    BY <1>4, <2>1
  <2>5. \A c, w, d, l, a, b \in Nat :
            a > c - w /\ a - d <= b /\ l <= c + d => l - b < w + 2 * d
    OBVIOUS
  <2>6. failed[k][n + 1] > current - Window
    BY <2>2
  <2>7. limiterClock - failed[k][n + i] < Window + 2 * MaxDelay
    BY <1>1, <1>4, <2>3, <2>4, <2>5, <2>6
  <2> QED
    BY <2>7 DEF Horizon
<1>6. Horizon \in Nat
  BY <1>4 DEF Horizon
<1> QED
  BY <1>1, <1>2, <1>3, <1>4, <1>5, <1>6, SuffixIsWithin DEF times, k, current

(* Nobody is refused but for failures of the key since its last success,   *)
(* none of them older than Horizon, for any number of keys and threads,    *)
(* any limits, and clocks that are read in one order and used in another.  *)
THEOREM NobodyIsRefusedForOthers == LimiterSpec => []RefusalsAreEarned
BY TableIsInvariant, RefusedForFailures, PTL

-----------------------------------------------------------------------------
(* The limit.  An attempt is admitted with fewer failures than the limit;  *)
(* each failure after that was an admitted attempt before.                 *)

LEMMA FailuresAreFinite ==
    ASSUME LimiterTyped, NEW k \in Keys, NEW duration
    PROVE  /\ FailuresWithin(k, duration) \subseteq 1..Len(failed[k])
           /\ IsFiniteSet(FailuresWithin(k, duration))
           /\ Cardinality(FailuresWithin(k, duration)) \in Nat
<1>1. DOMAIN failed[k] = 1..Len(failed[k]) /\ Len(failed[k]) \in Nat
  BY LenProperties DEF LimiterTyped
<1>2. FailuresWithin(k, duration) \in SUBSET (1..Len(failed[k]))
  BY <1>1 DEF FailuresWithin
<1>3. IsFiniteSet(1..Len(failed[k]))
  <2> DEFINE n == Len(failed[k])
  <2>1. n \in Int
    BY <1>1
  <2> HIDE DEF n
  <2> QED
    BY <2>1, FS_Interval DEF n
<1>4. IsFiniteSet(FailuresWithin(k, duration))
  BY <1>2, <1>3, FS_Subset
<1> QED
  BY <1>2, <1>4, FS_CardinalityType

LEMMA AdmittedAreFinite ==
    ASSUME NEW k
    PROVE  /\ IsFiniteSet(Admitted(k)) /\ Cardinality(Admitted(k)) \in Nat
           /\ Cardinality(Admitted(k)) <= Cardinality(Handlers)
           /\ Cardinality(Handlers) \in Nat
<1>1. Admitted(k) \in SUBSET Handlers
  BY DEF Admitted
<1> QED
  BY <1>1, LimiterAssumption, FS_Subset, FS_CardinalityType

(* The same of the next state                                              *)
LEMMA NextCounts ==
    ASSUME LimiterTyped', NEW k \in Keys
    PROVE  /\ Cardinality(FailuresWithin(k, Window))' \in Nat
           /\ Cardinality(Admitted(k))' \in Nat
           /\ Cardinality(Admitted(k))' <= Cardinality(Handlers)
           /\ Cardinality(Handlers) \in Nat
           /\ Limit \in Nat \ {0}
<1>1. /\ DOMAIN failed'[k] = 1..Len(failed'[k]) /\ Len(failed'[k]) \in Nat
  BY LenProperties DEF LimiterTyped
<1>2. FailuresWithin(k, Window)' \in SUBSET (1..Len(failed'[k]))
  BY <1>1 DEF FailuresWithin
<1>3. IsFiniteSet(FailuresWithin(k, Window)')
  <2> DEFINE n == Len(failed'[k])
             F == FailuresWithin(k, Window)'
  <2>1. n \in Int /\ F \in SUBSET (1..n)
    BY <1>1, <1>2
  <2> HIDE DEF n, F
  <2>2. IsFiniteSet(1..n)
    BY <2>1, FS_Interval
  <2>3. IsFiniteSet(F)
    BY <2>1, <2>2, FS_Subset
  <2> QED
    BY <2>3 DEF F
<1>4. Admitted(k)' \in SUBSET Handlers
  BY DEF Admitted
<1> QED
  BY <1>3, <1>4, LimiterAssumption, FS_Subset, FS_CardinalityType

LEMMA FewerFailures ==
    ASSUME LimiterTyped, LimiterTyped', NEW k \in Keys, CountOK(k),
           FailuresWithin(k, Window)' \subseteq FailuresWithin(k, Window),
           Admitted(k)' \subseteq Admitted(k)
    PROVE  CountOK(k)'
<1>1. Cardinality(FailuresWithin(k, Window)') <= Cardinality(FailuresWithin(k, Window))
  BY FailuresAreFinite, FS_Subset
<1>2. Cardinality(Admitted(k)') <= Cardinality(Admitted(k))
  BY AdmittedAreFinite, FS_Subset
<1>3. Cardinality(FailuresWithin(k, Window)) \in Nat
  BY FailuresAreFinite
<1> QED
  BY <1>1, <1>2, <1>3, AdmittedAreFinite, NextCounts DEF CountOK

LEMMA NoFailures ==
    ASSUME LimiterTyped', NEW k \in Keys, failed'[k] = <<>>
    PROVE  CountOK(k)'
<1>1. FailuresWithin(k, Window)' = {}
  BY DEF FailuresWithin
<1>2. Cardinality(FailuresWithin(k, Window)') = 0
  BY <1>1, FS_EmptySet
<1> QED
  BY <1>2, NextCounts DEF CountOK

(* Those within the window are among the last that the table has.          *)
LEMMA TableHasTheRecent ==
    ASSUME LimiterTyped, NEW k \in Keys, NEW times \in Seq(Nat), NEW n \in Nat,
           Suffix(times, failed[k], n), ExpiredTo(failed[k], n)
    PROVE  Cardinality(FailuresWithin(k, Window)) <= Len(times)
<1> DEFINE from == n + 1
           to == n + Len(times)
<1>1. /\ Len(times) \in Nat /\ Len(failed[k]) \in Nat /\ Len(failed[k]) = to
      /\ \A i \in 1..Len(failed[k]) : failed[k][i] \in Nat
      /\ limiterClock \in Nat /\ Window \in Nat
  BY LenProperties, LimiterAssumption DEF Suffix, LimiterTyped
<1>2. FailuresWithin(k, Window) \in SUBSET (from..to)
  <2> SUFFICES ASSUME NEW i \in FailuresWithin(k, Window) PROVE i \in from..to
    OBVIOUS
  <2>1. i \in 1..Len(failed[k]) /\ limiterClock - failed[k][i] < Window
    BY FailuresAreFinite DEF FailuresWithin
  <2>2. ~(i <= n)
    <3>1. ASSUME i <= n PROVE FALSE
      <4>1. failed[k][i] <= limiterClock - Window
        BY <2>1, <3>1 DEF ExpiredTo
      <4> QED
        BY <1>1, <2>1, <4>1
    <3> QED
      BY <3>1
  <2> QED
    BY <1>1, <2>1, <2>2
<1>3. from \in Int /\ to \in Int /\ (IF from > to THEN 0 ELSE to - from + 1) = Len(times)
  BY <1>1
<1> HIDE DEF from, to
<1>4. IsFiniteSet(from..to) /\ Cardinality(from..to) = Len(times)
  BY <1>3, FS_Interval
<1> QED
  BY <1>2, <1>4, FS_Subset

LEMMA CheckCounts ==
    ASSUME TableInv, TableInv', NEW t \in Handlers, Check(t), NEW k \in Keys, CountOK(k)
    PROVE  CountOK(k)'
<1> DEFINE current == attempt[t].time
           table == Prune(current)
           times == TimesIn(table, k)
<1>1. /\ current \in Nat /\ current <= limiterClock /\ attempt[t] \in Attempts
      /\ limiterClock' = limiterClock /\ failed' = failed
      /\ LimiterTyped /\ LimiterTyped' /\ DOMAIN attempt = Handlers
  BY DEF Check, InStage, TableInv, LimiterTyped, TimesOK, Attempts
<1>2. FailuresWithin(k, Window)' = FailuresWithin(k, Window)
  BY <1>1 DEF FailuresWithin
<1>3. CASE attempt[t].key = k /\ Len(times) < Limit
  <2>1. times \in Seq(Nat) /\ Tracks(table, k)
    BY <1>1, PruneTracks
  <2>2. PICK n \in Nat : Suffix(times, failed[k], n) /\ ExpiredTo(failed[k], n)
    BY <2>1 DEF Tracks
  <2> HIDE DEF times
  <2>3. Cardinality(FailuresWithin(k, Window)) <= Len(times)
    BY <1>1, <2>1, <2>2, TableHasTheRecent
  <2>4. Len(times) \in Nat /\ Cardinality(FailuresWithin(k, Window)) \in Nat
    BY <1>1, <2>1, LenProperties, FailuresAreFinite
  <2>5. Limit \in Nat
    BY LimiterAssumption
  <2>6. Cardinality(FailuresWithin(k, Window))' <= Limit - 1
    BY <1>2, <1>3, <2>3, <2>4, <2>5
  <2> QED
    BY <1>1, <2>6, NextCounts DEF CountOK
<1>4. CASE ~(attempt[t].key = k /\ Len(times) < Limit)
  <2>1. \/ attempt' = [attempt EXCEPT ![t] = NoAttempt]
        \/ attempt' = [attempt EXCEPT ![t] = [@ EXCEPT !.stage = "verify"]] /\ attempt[t].key # k
    <3>1. CASE attempt[t].key # k
      BY <3>1 DEF Check, Checked
    <3>2. CASE attempt[t].key = k
      <4>1. ~(Len(times) < Limit)
        BY <1>4, <3>2
      <4>2. k \in DOMAIN table
        <5>1. Limit \in Nat \ {0} /\ Len(<<>>) = 0
          BY LimiterAssumption, EmptySeq
        <5> QED
          BY <4>1, <5>1 DEF TimesIn
      <4>3. times = table[k] /\ Len(times) \in Nat /\ Limit \in Nat
        <5>1. times \in Seq(Nat)
          BY <1>1, PruneTracks
        <5> QED
          BY <4>2, <5>1, LenProperties, LimiterAssumption DEF TimesIn
      <4> QED
        BY <3>2, <4>1, <4>2, <4>3 DEF Check, Checked
    <3> QED
      BY <3>1, <3>2
  <2>2. Admitted(k)' \subseteq Admitted(k)
    BY <1>1, <2>1 DEF Admitted, InStage, Attempts
  <2> QED
    BY <1>1, <1>2, <2>2, FewerFailures
<1> QED
  BY <1>3, <1>4

LEMMA RecordCounts ==
    ASSUME TableInv, TableInv', NEW t \in Handlers, Record(t), NEW q \in Keys, CountOK(q)
    PROVE  CountOK(q)'
<1> DEFINE k == attempt[t].key
           current == attempt[t].time
<1>1. /\ k \in Keys /\ current \in Nat /\ InStage(t, "record")
      /\ attempt' = [attempt EXCEPT ![t] = NoAttempt] /\ limiterClock' = limiterClock
  BY RecordEffect
<1>2. \E evicted : failed' = [p \in Keys |-> IF p \in evicted THEN <<>>
                                             ELSE IF p = k THEN Append(failed[k], current)
                                             ELSE failed[p]]
  <2>1. PICK evicted :
            /\ DOMAIN attempts' = (DOMAIN Prune(current) \cup {k}) \ evicted
            /\ \A p \in DOMAIN attempts' :
                  attempts'[p] = IF p = k THEN Append(TimesIn(Prune(current), k), current)
                                 ELSE Prune(current)[p]
            /\ failed' = [p \in Keys |-> IF p \in evicted THEN <<>>
                                         ELSE IF p = k THEN Append(failed[k], current)
                                         ELSE failed[p]]
    BY RecordEffect
  <2> QED
    BY <2>1
<1>0. PICK evicted : failed' = [p \in Keys |-> IF p \in evicted THEN <<>>
                                               ELSE IF p = k THEN Append(failed[k], current)
                                               ELSE failed[p]]
  BY <1>2
<1> HIDE DEF current
<1>3. LimiterTyped /\ LimiterTyped' /\ DOMAIN attempt = Handlers
  BY DEF TableInv, LimiterTyped
<1>4. Admitted(q)' \subseteq Admitted(q)
  BY <1>1, <1>3 DEF Admitted, InStage
<1>5. CASE q \in evicted
  BY <1>0, <1>3, <1>5, NoFailures
<1>6. CASE q \notin evicted /\ q # k
  <2>1. failed'[q] = failed[q]
    BY <1>0, <1>6
  <2>2. FailuresWithin(q, Window)' = FailuresWithin(q, Window)
    BY <1>1, <2>1 DEF FailuresWithin
  <2> QED
    BY <1>3, <1>4, <2>2, FewerFailures
<1>7. CASE q \notin evicted /\ q = k
  <2> DEFINE F == FailuresWithin(q, Window)
             A == Admitted(q)
             n == Len(failed[q])
  <2>1. failed'[q] = Append(failed[q], current)
    BY <1>0, <1>7
  <2>2. /\ failed[q] \in Seq(Nat) /\ Len(failed'[q]) = n + 1 /\ n \in Nat
        /\ \A i \in 1..n : failed'[q][i] = failed[q][i]
    BY <1>1, <1>3, <2>1, LenProperties, AppendProperties DEF LimiterTyped
  <2>3. F' \in SUBSET (F \cup {n + 1})
    <3> SUFFICES ASSUME NEW i \in F', i # n + 1 PROVE i \in F
      OBVIOUS
    <3>1. i \in 1..n + 1 /\ limiterClock - failed'[q][i] < Window
      <4>1. DOMAIN failed'[q] = 1..n + 1
        BY <1>3, <2>2, LenProperties DEF LimiterTyped
      <4> QED
        BY <1>1, <4>1 DEF FailuresWithin
    <3>2. i \in 1..n /\ DOMAIN failed[q] = 1..n
      BY <2>2, <3>1, LenProperties
    <3> QED
      BY <2>2, <3>1, <3>2 DEF FailuresWithin
  <2>4. A' \in SUBSET (A \ {t}) /\ t \in A
    BY <1>1, <1>3, <1>4, <1>7 DEF Admitted, InStage
  <2>5. IsFiniteSet(F) /\ Cardinality(F) \in Nat /\ IsFiniteSet(A) /\ Cardinality(A) \in Nat
    BY <1>3, FailuresAreFinite, AdmittedAreFinite
  <2> HIDE DEF F, A, n
  <2>6. Cardinality(F') <= Cardinality(F) + 1
    <3>1. /\ IsFiniteSet(F \cup {n + 1})
          /\ Cardinality(F \cup {n + 1}) <= Cardinality(F) + 1
      BY <2>5, FS_AddElement
    <3>2. Cardinality(F') <= Cardinality(F \cup {n + 1})
      BY <2>3, <3>1, FS_Subset
    <3>3. Cardinality(F') \in Nat /\ Cardinality(F \cup {n + 1}) \in Nat
      BY <2>3, <3>1, FS_Subset, FS_CardinalityType
    <3> QED
      BY <2>5, <3>1, <3>2, <3>3
  <2>7. Cardinality(A') <= Cardinality(A) - 1
    <3>1. IsFiniteSet(A \ {t}) /\ Cardinality(A \ {t}) = Cardinality(A) - 1
      BY <2>4, <2>5, FS_RemoveElement
    <3> QED
      BY <2>4, <3>1, FS_Subset
  <2>8. /\ Cardinality(F') \in Nat /\ Cardinality(A') \in Nat
        /\ Cardinality(Handlers) \in Nat /\ Limit \in Nat
    BY <1>3, NextCounts DEF F, A
  <2>9. Cardinality(F) + Cardinality(A) <= Limit + Cardinality(Handlers) - 1
    BY DEF CountOK, F, A
  <2>10. Cardinality(F') + Cardinality(A') <= Limit + Cardinality(Handlers) - 1
    BY <2>5, <2>6, <2>7, <2>8, <2>9
  <2> QED
    BY <2>10 DEF CountOK, F, A
<1> QED
  BY <1>5, <1>6, <1>7

LEMMA CountsAreInvariant == LimiterSpec => [](\A k \in Keys : CountOK(k))
<1> DEFINE CountsOK == \A k \in Keys : CountOK(k)
<1>1. LimiterInit => CountsOK
  <2> SUFFICES ASSUME LimiterInit, NEW k \in Keys PROVE CountOK(k)
    OBVIOUS
  <2>1. FailuresWithin(k, Window) = {}
    BY DEF LimiterInit, FailuresWithin
  <2>2. Cardinality(FailuresWithin(k, Window)) = 0
    BY <2>1, FS_EmptySet
  <2>3. Limit \in Nat \ {0}
    BY LimiterAssumption
  <2> QED
    BY <2>2, <2>3, AdmittedAreFinite DEF CountOK
<1>2. TableInv /\ TableInv' /\ CountsOK /\ [LimiterNext]_limiterVars => CountsOK'
  <2> SUFFICES ASSUME TableInv, TableInv', CountsOK, [LimiterNext]_limiterVars, NEW k \in Keys
               PROVE  CountOK(k)'
    OBVIOUS
  <2>0. LimiterTyped /\ LimiterTyped' /\ CountOK(k) /\ DOMAIN attempt = Handlers
    BY DEF TableInv, LimiterTyped
  <2> HIDE DEF CountsOK
  <2>1. ASSUME NEW t \in Handlers, NEW q \in Keys, Ask(t, q) PROVE CountOK(k)'
    <3>1. FailuresWithin(k, Window)' = FailuresWithin(k, Window)
      BY <2>1 DEF Ask, FailuresWithin
    <3>2. Admitted(k)' \subseteq Admitted(k)
      BY <2>0, <2>1 DEF Ask, Admitted, InStage
    <3> QED
      BY <2>0, <3>1, <3>2, FewerFailures
  <2>2. ASSUME NEW t \in Handlers, Fail(t) PROVE CountOK(k)'
    <3>1. FailuresWithin(k, Window)' = FailuresWithin(k, Window)
      BY <2>2 DEF Fail, FailuresWithin
    <3>2. attempt[t] \in Attempts /\ InStage(t, "verify")
      BY <2>2 DEF Fail, InStage, TableInv, LimiterTyped
    <3>3. Admitted(k)' \subseteq Admitted(k)
      BY <2>0, <2>2, <3>2 DEF Fail, Admitted, InStage, Attempts
    <3> QED
      BY <2>0, <3>1, <3>3, FewerFailures
  <2>3. ASSUME NEW t \in Handlers, Succeed(t) PROVE CountOK(k)'
    <3>1. CASE attempt[t].key = k
      BY <2>0, <2>3, <3>1, NoFailures DEF Succeed, Succeeded, TableInv, LimiterTyped
    <3>2. CASE attempt[t].key # k
      <4>1. FailuresWithin(k, Window)' = FailuresWithin(k, Window)
        BY <2>3, <3>2 DEF Succeed, Succeeded, FailuresWithin
      <4>2. Admitted(k)' \subseteq Admitted(k)
        BY <2>0, <2>3 DEF Succeed, Succeeded, Admitted, InStage
      <4> QED
        BY <2>0, <4>1, <4>2, FewerFailures
    <3> QED
      BY <3>1, <3>2
  <2>4. CASE LimiterTick \/ UNCHANGED limiterVars
    <3>1. FailuresWithin(k, Window)' \subseteq FailuresWithin(k, Window)
      <4> SUFFICES ASSUME NEW i \in FailuresWithin(k, Window)'
                   PROVE  i \in FailuresWithin(k, Window)
        OBVIOUS
      <4>1. i \in 1..Len(failed[k]) /\ failed' = failed
        BY <2>0, <2>4, LenProperties DEF LimiterTick, limiterVars, FailuresWithin, LimiterTyped
      <4>2. failed[k][i] \in Nat /\ limiterClock \in Nat /\ DOMAIN failed[k] = 1..Len(failed[k])
        BY <2>0, <4>1, LenProperties DEF LimiterTyped
      <4>3. limiterClock' - failed[k][i] < Window /\ limiterClock' \in Nat /\ Window \in Nat
        BY <2>0, <4>1, LimiterAssumption DEF FailuresWithin, LimiterTyped
      <4>4. limiterClock <= limiterClock'
        BY <2>4, <4>2 DEF LimiterTick, limiterVars
      <4> QED
        BY <4>1, <4>2, <4>3, <4>4 DEF FailuresWithin
    <3>2. Admitted(k)' \subseteq Admitted(k)
      BY <2>4 DEF LimiterTick, limiterVars, Admitted, InStage
    <3> QED
      BY <2>0, <3>1, <3>2, FewerFailures
  <2> QED
    BY <2>0, <2>1, <2>2, <2>3, <2>4, CheckCounts, RecordCounts DEF LimiterNext
<1> QED
  BY <1>1, <1>2, TableIsInvariant, PTL DEF LimiterSpec

(* Of one key no more attempts than the limit fail in any window, and one  *)
(* for each other thread, however many threads pass the check at once.     *)
THEOREM FailuresStayLimited == LimiterSpec => []FailuresAreLimited
<1>1. TableInv /\ (\A k \in Keys : CountOK(k)) => FailuresAreLimited
  <2> SUFFICES ASSUME TableInv, NEW k \in Keys, CountOK(k)
               PROVE  Cardinality(FailuresWithin(k, Window)) <= Limit + Cardinality(Handlers) - 1
    BY DEF FailuresAreLimited
  <2>1. Cardinality(FailuresWithin(k, Window)) \in Nat /\ Limit \in Nat
    BY FailuresAreFinite, LimiterAssumption DEF TableInv
  <2> QED
    BY <2>1, AdmittedAreFinite DEF CountOK
<1> QED
  BY <1>1, TableIsInvariant, CountsAreInvariant, PTL

-----------------------------------------------------------------------------
(* The size of the table                                                   *)

LEMMA TouchKeepsOrder == ASSUME Ordered, NEW k \in Keys, Touch(k) PROVE Ordered'
<1> SUFFICES ASSUME NEW S \in SUBSET Keys, S # {} PROVE \E p \in S : older'[p] \cap S = {}
  BY DEF Ordered
<1>1. CASE S \subseteq {k}
  <2>1. k \in S /\ older'[k] = Keys \ {k}
    BY <1>1 DEF Touch
  <2> QED
    BY <1>1, <2>1
<1>2. CASE ~(S \subseteq {k})
  <2>1. S \ {k} \in SUBSET Keys /\ S \ {k} # {}
    BY <1>2
  <2>2. PICK p \in S \ {k} : older[p] \cap (S \ {k}) = {}
    BY <2>1 DEF Ordered
  <2>3. older'[p] = older[p] \ {k}
    BY <2>2 DEF Touch
  <2> QED
    BY <2>2, <2>3
<1> QED
  BY <1>1, <1>2

LEMMA RecordIsBounded ==
    ASSUME TableInv, Ordered, Bounded, NEW t \in Handlers, Record(t)
    PROVE  Ordered' /\ Bounded'
<1> DEFINE k == attempt[t].key
           table == Prune(attempt[t].time)
           longer == [q \in DOMAIN table \cup {k} |->
                         IF q = k THEN Append(TimesIn(table, k), attempt[t].time) ELSE table[q]]
           evicted == IF Cardinality(DOMAIN longer) > MaximumKeys THEN {LeastRecent(longer)} ELSE {}
           D == DOMAIN longer
<1>1. /\ k \in Keys /\ DOMAIN attempts \subseteq Keys /\ DOMAIN table \subseteq DOMAIN attempts
      /\ MaximumKeys \in Nat \ {0}
  BY LimiterAssumption DEF Record, InStage, TableInv, LimiterTyped, Attempts, Prune
<1>2. Touch(k) /\ attempts' = [q \in D \ evicted |-> longer[q]]
  BY DEF Record
<1>3. Ordered'
  BY <1>1, <1>2, TouchKeepsOrder
<1>4. D \subseteq Keys /\ D # {} /\ D = DOMAIN table \cup {k}
  BY <1>1
<1>5. /\ IsFiniteSet(D) /\ Cardinality(D) \in Nat /\ Cardinality(D) <= MaximumKeys + 1
  <2>1. IsFiniteSet(DOMAIN table) /\ Cardinality(DOMAIN table) <= Cardinality(DOMAIN attempts)
    BY <1>1, FS_Subset DEF Bounded
  <2>2. Cardinality(DOMAIN table) \in Nat /\ Cardinality(DOMAIN attempts) \in Nat
    BY <2>1, FS_CardinalityType DEF Bounded
  <2> HIDE DEF table, k, D
  <2>3. IsFiniteSet(D) /\ Cardinality(D) <= Cardinality(DOMAIN table) + 1 /\ Cardinality(D) \in Nat
    BY <1>4, <2>1, <2>2, FS_AddElement, FS_CardinalityType
  <2> QED
    BY <1>1, <2>1, <2>2, <2>3 DEF Bounded
<1>6. CASE Cardinality(D) > MaximumKeys
  <2>1. \E p \in D : older'[p] \cap D = {}
    BY <1>3, <1>4 DEF Ordered
  <2>2. LeastRecent(longer) \in D
    BY <2>1 DEF LeastRecent
  <2>3. DOMAIN attempts' = D \ {LeastRecent(longer)}
    BY <1>2, <1>6
  <2> DEFINE p == LeastRecent(longer)
  <2>5. p \in D /\ DOMAIN attempts' = D \ {p}
    BY <2>2, <2>3
  <2> HIDE DEF p, D
  <2>4. IsFiniteSet(DOMAIN attempts') /\ Cardinality(DOMAIN attempts') = Cardinality(D) - 1
    BY <1>5, <2>5, FS_RemoveElement
  <2> QED
    BY <1>1, <1>3, <1>5, <2>4 DEF Bounded
<1>7. CASE ~(Cardinality(D) > MaximumKeys)
  <2>1. DOMAIN attempts' = D
    BY <1>2, <1>7
  <2> HIDE DEF D
  <2> QED
    BY <1>1, <1>3, <1>5, <1>7, <2>1 DEF Bounded
<1> QED
  BY <1>6, <1>7

(* The table never has more than MaximumKeys keys, in particular not after *)
(* a failure of a new one, whichever keys were used before.                *)
THEOREM TheTableIsBounded == LimiterSpec => []Bounded
<1> DEFINE BoundInv == Ordered /\ Bounded
<1>1. LimiterInit => BoundInv
  <2> SUFFICES ASSUME LimiterInit PROVE BoundInv
    OBVIOUS
  <2>1. DOMAIN attempts = {} /\ \A k \in Keys : older[k] = {}
    BY DEF LimiterInit
  <2> QED
    BY <2>1, FS_EmptySet, LimiterAssumption DEF Ordered, Bounded
<1>2. TableInv /\ BoundInv /\ [LimiterNext]_limiterVars => BoundInv'
  <2> SUFFICES ASSUME TableInv, BoundInv, [LimiterNext]_limiterVars PROVE BoundInv'
    OBVIOUS
  <2>0. ASSUME DOMAIN attempts' \subseteq DOMAIN attempts PROVE Bounded'
    <3>1. /\ IsFiniteSet(DOMAIN attempts')
          /\ Cardinality(DOMAIN attempts') <= Cardinality(DOMAIN attempts)
      BY <2>0, FS_Subset DEF Bounded
    <3>2. Cardinality(DOMAIN attempts') \in Nat /\ Cardinality(DOMAIN attempts) \in Nat
      BY <3>1, FS_CardinalityType DEF Bounded
    <3> QED
      BY <3>1, <3>2, LimiterAssumption DEF Bounded
  <2>1. ASSUME NEW t \in Handlers, Check(t) PROVE BoundInv'
    <3>1. DOMAIN attempts' \subseteq DOMAIN attempts
      BY <2>1 DEF Check, Prune
    <3>2. attempt[t].key \in Keys
      BY <2>1 DEF Check, InStage, TableInv, LimiterTyped, Attempts
    <3>3. Touch(attempt[t].key) \/ UNCHANGED older
      BY <2>1 DEF Check
    <3> QED
      BY <2>0, <3>1, <3>2, <3>3, TouchKeepsOrder DEF Ordered
  <2>2. ASSUME NEW t \in Handlers, Fail(t) \/ Succeed(t) PROVE BoundInv'
    BY <2>0, <2>2 DEF Fail, Succeed, Succeeded, Ordered
  <2>3. ASSUME NEW t \in Handlers, NEW k \in Keys, Ask(t, k) PROVE BoundInv'
    BY <2>0, <2>3 DEF Ask, Ordered
  <2>4. CASE LimiterTick \/ UNCHANGED limiterVars
    BY <2>0, <2>4 DEF LimiterTick, limiterVars, Ordered
  <2> QED
    BY <2>1, <2>2, <2>3, <2>4, RecordIsBounded DEF LimiterNext
<1> QED
  BY <1>1, <1>2, TableIsInvariant, PTL DEF LimiterSpec
=============================================================================
