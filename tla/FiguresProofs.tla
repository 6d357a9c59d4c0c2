----------------------------- MODULE FiguresProofs -----------------------------
(***************************************************************************)
(* Proofs about the computations of an invoice, which share no state: the  *)
(* range of its sessions, the days of their time, the cents of each of     *)
(* them, and the due date.                                                 *)
(***************************************************************************)
EXTENDS InvoiceRanges, DailySeconds, EntryCosts, DueDate, Sums, SequenceTheorems

-----------------------------------------------------------------------------
(* The range of an invoice, for any number of sessions and of tabs in      *)
(* which an administrator previews, generates and voids.                   *)
(*                                                                         *)
(* The clock is finer than the stop times by any Resolution: exactly the   *)
(* sessions that were stopped in the second in which a range ended, and    *)
(* after its end, may be in no range.                                      *)

Invoices == [from: Nat, to: Nat, void: BOOLEAN]
Drafts == [from: Nat, to: Nat, sessions: SUBSET Sessions]

InvoicesTyped ==
    /\ now \in Nat
    /\ stopped \in [Sessions -> Nat \cup {Nothing}]
    /\ invoice \in [Sessions -> Nat]
    /\ invoices \in Seq(Invoices)
    /\ drafts \in [Tabs -> Drafts \cup {Nothing}]
    /\ released \in SUBSET Sessions

(* No range ends after now, and a draft starts where some invoice's range  *)
(* ended, which may have been voided since.                                *)
EndsOK ==
    /\ \A i \in 1..Len(invoices) : invoices[i].to <= now
    /\ \A t \in Tabs : drafts[t] # Nothing =>
          /\ drafts[t].to <= now
          /\ drafts[t].from = 0 \/ \E i \in 1..Len(invoices) : drafts[t].from = invoices[i].to

(* An invoice is for sessions of its range, and it is not void.            *)
ClaimsOK ==
    \A e \in Sessions : invoice[e] # 0 =>
        /\ stopped[e] # Nothing
        /\ invoice[e] \in 1..Len(invoices)
        /\ ~invoices[invoice[e]].void
        /\ invoices[invoice[e]].from <= StoppedAt(e)
        /\ StoppedAt(e) < invoices[invoice[e]].to

(* No range of the past, void or not, has left a session behind.           *)
CoveredOK ==
    \A i \in 1..Len(invoices), e \in Sessions :
        stopped[e] # Nothing /\ StoppedAt(e) < invoices[i].to =>
            invoice[e] # 0 \/ e \in released \/ Overtaken(e)

RangesInv == InvoicesTyped /\ EndsOK /\ ClaimsOK /\ CoveredOK

-----------------------------------------------------------------------------
(* The CHOOSE of LastEnd has something to choose: the least of the         *)
(* distances to n belongs to the greatest element.                         *)
LEMMA HasMaximum ==
    ASSUME NEW n \in Nat, NEW S \in SUBSET (1..n), S # {}
    PROVE  \E i \in S : \A j \in S : j <= i
<1> DEFINE R == OpToRel(<, Nat)
           T == {n - i : i \in S}
<1>1. IsWellFoundedOn(R, Nat)
  BY NatLessThanWellFounded
<1>2. T \subseteq Nat /\ T # {}
  <2>1. PICK i \in S : TRUE
    OBVIOUS
  <2>2. n - i \in T
    OBVIOUS
  <2>3. ASSUME NEW j \in S PROVE n - j \in Nat
    OBVIOUS
  <2> QED
    BY <2>2, <2>3
<1> HIDE DEF R, T
<1>3. PICK x \in T : \A y \in T : ~(<<y, x>> \in R)
  BY <1>1, <1>2, WFMin
<1>4. \A y \in T : ~(y < x)
  BY <1>2, <1>3 DEF R, OpToRel
<1>5. PICK i \in S : x = n - i
  BY DEF T
<1>6. ASSUME NEW j \in S PROVE j <= i
  <2>1. n - j \in T
    BY DEF T
  <2> QED
    BY <1>4, <1>5, <2>1
<1> QED
  BY <1>6

LEMMA LastEndIsAnEnd ==
    ASSUME InvoicesTyped
    PROVE  LastEnd = 0 \/ \E i \in 1..Len(invoices) : LastEnd = invoices[i].to
<1>1. Len(invoices) \in Nat /\ Issued \subseteq 1..Len(invoices)
  BY DEF InvoicesTyped, Issued
<1>2. CASE Issued = {}
  BY <1>2 DEF LastEnd
<1>3. CASE Issued # {}
  <2>1. PICK i \in Issued : \A j \in Issued : j <= i
    BY <1>1, <1>3, HasMaximum
  <2>2. (CHOOSE k \in Issued : \A j \in Issued : j <= k) \in Issued
    BY <2>1
  <2> QED
    BY <1>1, <1>3, <2>2 DEF LastEnd
<1> QED
  BY <1>2, <1>3

LEMMA InvoiceFields ==
    ASSUME InvoicesTyped, NEW i \in 1..Len(invoices)
    PROVE  /\ invoices[i] \in Invoices
           /\ invoices[i].from \in Nat /\ invoices[i].to \in Nat
<1>1. invoices[i] \in Invoices
  BY DEF InvoicesTyped
<1> QED
  BY <1>1 DEF Invoices

LEMMA LastEndIsPast == ASSUME InvoicesTyped, EndsOK PROVE LastEnd \in Nat /\ LastEnd <= now
<1>1. now \in Nat /\ Len(invoices) \in Nat
  BY DEF InvoicesTyped
<1>2. \A i \in 1..Len(invoices) : invoices[i].to \in Nat /\ invoices[i].to <= now
  BY InvoiceFields DEF EndsOK
<1>3. CASE LastEnd = 0
  BY <1>1, <1>3
<1> QED
  BY <1>2, <1>3, LastEndIsAnEnd

LEMMA Truncates ==
    ASSUME NEW s \in Nat, NEW r \in Nat \ {0}
    PROVE  s - (s % r) \in Nat /\ s - (s % r) <= s
<1>1. s % r \in Nat /\ s % r <= s
  OBVIOUS
<1> QED
  BY <1>1

LEMMA StopsAreTimes ==
    ASSUME InvoicesTyped, NEW e \in Sessions, stopped[e] # Nothing
    PROVE  stopped[e] \in Nat /\ StoppedAt(e) \in Nat /\ StoppedAt(e) <= stopped[e]
BY RangesAssumption, Truncates DEF InvoicesTyped, StoppedAt

LEMMA AppendFields ==
    ASSUME NEW S, NEW s \in Seq(S), NEW e \in S
    PROVE  /\ Append(s, e) \in Seq(S)
           /\ Len(Append(s, e)) = Len(s) + 1
           /\ Append(s, e)[Len(s) + 1] = e
           /\ \A i \in 1..Len(s) : Append(s, e)[i] = s[i]
OBVIOUS

LEMMA RangesInitInv == Init => RangesInv
<1> SUFFICES ASSUME Init PROVE RangesInv
  OBVIOUS
<1>1. Len(invoices) = 0 /\ InvoicesTyped
  BY DEF Init, InvoicesTyped
<1> QED
  BY <1>1 DEF Init, RangesInv, EndsOK, ClaimsOK, CoveredOK

-----------------------------------------------------------------------------
LEMMA StopTimerKeeps ==
    ASSUME RangesInv, NEW d \in Sessions, StopTimer(d) PROVE RangesInv'
<1> USE DEF StopTimer
<1>1. InvoicesTyped /\ now \in Nat /\ UNCHANGED <<now, invoice, invoices, drafts, released>>
  BY DEF RangesInv, InvoicesTyped
<1>2. stopped' \in [Sessions -> Nat \cup {Nothing}]
      /\ \A e \in Sessions : stopped'[e] = IF e = d THEN now ELSE stopped[e]
  BY <1>1 DEF InvoicesTyped
<1>3. InvoicesTyped' /\ EndsOK'
  BY <1>1, <1>2 DEF RangesInv, InvoicesTyped, EndsOK
<1>4. \A e \in Sessions : e # d =>
          /\ stopped'[e] = stopped[e] /\ StoppedAt(e)' = StoppedAt(e)
          /\ Overtaken(e) => Overtaken(e)'
  BY <1>1, <1>2 DEF StoppedAt, Overtaken
<1>5. ClaimsOK'
  BY <1>1, <1>4 DEF RangesInv, ClaimsOK
<1>6. ASSUME NEW i \in 1..Len(invoices), NEW e \in Sessions,
             stopped'[e] # Nothing, StoppedAt(e)' < invoices[i].to
      PROVE  invoice[e] # 0 \/ e \in released \/ Overtaken(e)'
  <2>1. CASE e # d
    BY <1>4, <1>6, <2>1 DEF RangesInv, CoveredOK
  <2>2. CASE e = d
    <3>1. invoices[i].to <= stopped'[e]
      BY <1>2, <2>2 DEF RangesInv, EndsOK
    <3> QED
      BY <1>1, <1>6, <3>1 DEF Overtaken
  <2> QED
    BY <2>1, <2>2
<1>7. CoveredOK'
  BY <1>1, <1>6 DEF CoveredOK
<1> QED
  BY <1>3, <1>5, <1>7 DEF RangesInv

LEMMA PreviewKeeps == ASSUME RangesInv, NEW t \in Tabs, Preview(t) PROVE RangesInv'
<1> DEFINE d == [from |-> LastEnd, to |-> now, sessions |-> Eligible(LastEnd, now)]
<1>1. InvoicesTyped /\ now \in Nat /\ UNCHANGED <<now, stopped, invoice, invoices, released>>
      /\ drafts' = [drafts EXCEPT ![t] = d]
  BY DEF RangesInv, InvoicesTyped, Preview
<1>2. LastEnd \in Nat
      /\ (LastEnd = 0 \/ \E i \in 1..Len(invoices) : LastEnd = invoices[i].to)
  BY LastEndIsPast, LastEndIsAnEnd DEF RangesInv
<1>3. d \in Drafts
  BY <1>1, <1>2 DEF Drafts, Eligible
<1>4. d.from = LastEnd /\ d.to = now
  OBVIOUS
<1> HIDE DEF d
<1>5. InvoicesTyped'
  BY <1>1, <1>3 DEF InvoicesTyped
<1>6. \A u \in Tabs : drafts'[u] = IF u = t THEN d ELSE drafts[u]
  BY <1>1 DEF InvoicesTyped
<1>7. EndsOK'
  BY <1>1, <1>2, <1>4, <1>6 DEF RangesInv, EndsOK
<1>8. ClaimsOK' /\ CoveredOK'
  BY <1>1 DEF RangesInv, ClaimsOK, CoveredOK, StoppedAt, Overtaken
<1> QED
  BY <1>5, <1>7, <1>8 DEF RangesInv

(* The range of the new invoice starts where another one ended, so that    *)
(* what stopped earlier is covered, and what stopped in it is claimed.     *)
LEMMA GenerateKeeps == ASSUME RangesInv, NEW t \in Tabs, Generate(t) PROVE RangesInv'
<1> DEFINE d == drafts[t]
           n == Len(invoices) + 1
           new == [from |-> d.from, to |-> d.to, void |-> FALSE]
<1>1. /\ d # Nothing /\ Eligible(d.from, d.to) = d.sessions
      /\ invoices' = Append(invoices, new)
      /\ invoice' = [e \in Sessions |-> IF e \in d.sessions THEN n ELSE invoice[e]]
      /\ drafts' = [drafts EXCEPT ![t] = Nothing]
      /\ UNCHANGED <<now, stopped, released>>
  BY DEF Generate
<1>2. d \in Drafts /\ invoices \in Seq(Invoices) /\ Len(invoices) \in Nat /\ n \in Nat
      /\ d.from \in Nat /\ d.to \in Nat
  BY <1>1 DEF RangesInv, InvoicesTyped, Drafts
<1>3. new \in Invoices
  BY <1>2 DEF Invoices
<1>4. d.to <= now /\ (d.from = 0 \/ \E i \in 1..Len(invoices) : d.from = invoices[i].to)
  BY <1>1 DEF RangesInv, EndsOK
<1>5. new.from = d.from /\ new.to = d.to /\ new.void = FALSE
  OBVIOUS
<1> HIDE DEF new
<1>6. /\ invoices' \in Seq(Invoices) /\ Len(invoices') = n /\ invoices'[n] = new
      /\ \A i \in 1..Len(invoices) : invoices'[i] = invoices[i]
  BY <1>1, <1>2, <1>3, AppendFields
<1>7. \A i \in 1..n : i \in 1..Len(invoices) \/ i = n
  BY <1>2
<1>8. \A i \in 1..Len(invoices) : i \in 1..n /\ i # n
  BY <1>2
<1> DEFINE claimed == d.sessions
<1>9. \A e \in Sessions : e \in claimed <=>
          /\ stopped[e] # Nothing /\ invoice[e] = 0
          /\ d.from <= StoppedAt(e) /\ StoppedAt(e) < d.to
  BY <1>1 DEF Eligible
<1>10. \A e \in Sessions : invoice'[e] = IF e \in claimed THEN n ELSE invoice[e]
  BY <1>1
<1>11. InvoicesTyped'
  <2>1. invoice' \in [Sessions -> Nat] /\ drafts' \in [Tabs -> Drafts \cup {Nothing}]
    BY <1>1, <1>2 DEF RangesInv, InvoicesTyped
  <2> QED
    BY <1>1, <1>6, <2>1 DEF RangesInv, InvoicesTyped
<1>12. \A u \in Tabs : drafts'[u] # Nothing => drafts'[u] = drafts[u]
  BY <1>1 DEF RangesInv, InvoicesTyped
<1> HIDE DEF d, n, claimed
<1>13. \A e \in Sessions : StoppedAt(e)' = StoppedAt(e) /\ (Overtaken(e) => Overtaken(e)')
  BY <1>1, <1>6, <1>8 DEF StoppedAt, Overtaken
<1>14. EndsOK'
  <2>1. \A i \in 1..n : invoices'[i].to <= now
    BY <1>4, <1>5, <1>6, <1>7 DEF RangesInv, EndsOK
  <2>2. ASSUME NEW u \in Tabs, drafts'[u] # Nothing
        PROVE  /\ drafts'[u].to <= now
               /\ drafts'[u].from = 0 \/ \E i \in 1..n : drafts'[u].from = invoices'[i].to
    BY <1>6, <1>8, <1>12, <2>2 DEF RangesInv, EndsOK
  <2> QED
    BY <1>1, <1>6, <2>1, <2>2 DEF EndsOK
<1>15. ClaimsOK'
  <2>1. ASSUME NEW e \in Sessions, invoice'[e] # 0
        PROVE  /\ stopped[e] # Nothing
               /\ invoice'[e] \in 1..n
               /\ ~invoices'[invoice'[e]].void
               /\ invoices'[invoice'[e]].from <= StoppedAt(e)
               /\ StoppedAt(e) < invoices'[invoice'[e]].to
    <3>1. CASE e \in claimed
      <4>1. invoice'[e] = n /\ n \in 1..n
        BY <1>2, <1>10, <3>1 DEF n
      <4> QED
        BY <1>5, <1>6, <1>9, <3>1, <4>1
    <3>2. CASE e \notin claimed
      BY <1>6, <1>8, <1>10, <2>1, <3>2 DEF RangesInv, ClaimsOK
    <3> QED
      BY <3>1, <3>2
  <2> QED
    BY <1>1, <1>6, <1>13, <2>1 DEF ClaimsOK
<1>16. ASSUME NEW i \in 1..n, NEW e \in Sessions, stopped[e] # Nothing,
              StoppedAt(e) < invoices'[i].to
       PROVE  invoice'[e] # 0 \/ e \in released \/ Overtaken(e)'
  <2>1. ASSUME NEW j \in 1..Len(invoices), StoppedAt(e) < invoices[j].to
        PROVE  invoice'[e] # 0 \/ e \in released \/ Overtaken(e)'
    <3>1. invoice[e] # 0 \/ e \in released \/ Overtaken(e)
      BY <1>16, <2>1 DEF RangesInv, CoveredOK
    <3>2. invoice[e] # 0 => invoice'[e] # 0
      BY <1>9, <1>10
    <3> QED
      BY <1>13, <3>1, <3>2
  <2>2. CASE i \in 1..Len(invoices)
    BY <1>6, <1>16, <2>1, <2>2
  <2>3. CASE i = n
    <3>1. StoppedAt(e) \in Nat /\ StoppedAt(e) < d.to
      BY <1>5, <1>6, <1>16, <2>3, StopsAreTimes DEF RangesInv
    <3>2. CASE d.from <= StoppedAt(e)
      <4>1. invoice'[e] # 0
        BY <1>2, <1>9, <1>10, <1>16, <3>1, <3>2 DEF n
      <4> QED
        BY <4>1
    <3>3. CASE StoppedAt(e) < d.from
      BY <1>4, <2>1, <3>1, <3>3
    <3> QED
      BY <1>2, <3>1, <3>2, <3>3
  <2> QED
    BY <1>7, <2>2, <2>3
<1>17. CoveredOK'
  BY <1>1, <1>6, <1>13, <1>16 DEF CoveredOK
<1> QED
  BY <1>11, <1>14, <1>15, <1>17 DEF RangesInv

(* What a void releases, it no longer has to cover.                        *)
LEMMA VoidKeeps == ASSUME RangesInv, NEW k \in Issued, Void(k) PROVE RangesInv'
<1>1. /\ invoice' = [e \in Sessions |-> IF invoice[e] = k THEN 0 ELSE invoice[e]]
      /\ released' = released \cup {e \in Sessions : invoice[e] = k}
      /\ invoices' = [invoices EXCEPT ![k].void = TRUE]
      /\ UNCHANGED <<now, stopped, drafts>>
  BY DEF Void
<1>2. invoices \in Seq(Invoices) /\ k \in 1..Len(invoices) /\ Len(invoices) \in Nat
  BY DEF RangesInv, InvoicesTyped, Issued
<1>3. /\ invoices' \in Seq(Invoices) /\ Len(invoices') = Len(invoices)
      /\ \A i \in 1..Len(invoices) :
            /\ invoices'[i].from = invoices[i].from /\ invoices'[i].to = invoices[i].to
            /\ i # k => invoices'[i] = invoices[i]
  <2>1. [invoices[k] EXCEPT !.void = TRUE] \in Invoices
        /\ [invoices[k] EXCEPT !.void = TRUE].from = invoices[k].from
        /\ [invoices[k] EXCEPT !.void = TRUE].to = invoices[k].to
    BY <1>2, InvoiceFields DEF RangesInv, Invoices
  <2>2. invoices' = [invoices EXCEPT ![k] = [invoices[k] EXCEPT !.void = TRUE]]
    BY <1>1
  <2> QED
    BY <1>2, <2>1, <2>2
<1>4. invoice' \in [Sessions -> Nat]
  BY <1>1 DEF RangesInv, InvoicesTyped
<1>5. InvoicesTyped'
  BY <1>1, <1>3, <1>4 DEF RangesInv, InvoicesTyped
<1>6. EndsOK'
  BY <1>1, <1>3 DEF RangesInv, EndsOK
<1>7. \A e \in Sessions : StoppedAt(e)' = StoppedAt(e) /\ (Overtaken(e) => Overtaken(e)')
  BY <1>1, <1>3 DEF StoppedAt, Overtaken
<1>8. \A e \in Sessions : invoice'[e] # 0 => invoice'[e] = invoice[e] /\ invoice[e] # k
  BY <1>1
<1>9. ClaimsOK'
  BY <1>1, <1>3, <1>7, <1>8 DEF RangesInv, ClaimsOK
<1>10. \A e \in Sessions :
           /\ invoice[e] # 0 => invoice'[e] # 0 \/ e \in released'
           /\ e \in released => e \in released'
  BY <1>1
<1>11. CoveredOK'
  BY <1>1, <1>3, <1>7, <1>10 DEF RangesInv, CoveredOK
<1> QED
  BY <1>5, <1>6, <1>9, <1>11 DEF RangesInv

LEMMA TickKeeps == ASSUME RangesInv, Tick PROVE RangesInv'
<1>1. now \in Nat /\ now' = now + 1
      /\ UNCHANGED <<stopped, invoice, invoices, drafts, released>>
  BY DEF Tick, RangesInv, InvoicesTyped
<1>2. InvoicesTyped'
  BY <1>1 DEF RangesInv, InvoicesTyped
<1>3. ASSUME NEW x \in Nat, x <= now PROVE x <= now'
  BY <1>1, <1>3
<1>4. EndsOK'
  <2>1. \A i \in 1..Len(invoices) : invoices[i].to \in Nat
    BY InvoiceFields DEF RangesInv
  <2>2. \A t \in Tabs : drafts[t] # Nothing => drafts[t].to \in Nat
    BY DEF RangesInv, InvoicesTyped, Drafts
  <2> QED
    BY <1>1, <1>3, <2>1, <2>2 DEF RangesInv, EndsOK
<1>5. ClaimsOK' /\ CoveredOK'
  BY <1>1 DEF RangesInv, ClaimsOK, CoveredOK, StoppedAt, Overtaken
<1> QED
  BY <1>2, <1>4, <1>5 DEF RangesInv

LEMMA RangesKept == ASSUME RangesInv, [Next]_vars PROVE RangesInv'
<1>1. CASE UNCHANGED vars
  BY <1>1 DEF vars, RangesInv, InvoicesTyped, EndsOK, ClaimsOK, CoveredOK, StoppedAt, Overtaken
<1> QED
  BY <1>1, StopTimerKeeps, PreviewKeeps, GenerateKeeps, VoidKeeps, TickKeeps DEF Next

(* The inductive invariant of the ranges                                   *)
THEOREM RangesAreInvariant == Spec => []RangesInv
BY RangesInitInv, RangesKept, PTL DEF Spec

-----------------------------------------------------------------------------
(* Invoices, drafts and sessions have their types.                         *)
THEOREM RangesTyped == Spec => []InvoicesTyped
<1>1. RangesInv => InvoicesTyped
  BY DEF RangesInv
<1> QED
  BY RangesAreInvariant, <1>1, PTL

LEMMA OvertakenOnly == RangesInv => OnlyOvertakenLeftBehind
<1> SUFFICES ASSUME RangesInv, NEW e \in Sessions, stopped[e] # Nothing, StoppedAt(e) < LastEnd
             PROVE  invoice[e] # 0 \/ e \in released \/ Overtaken(e)
  BY DEF OnlyOvertakenLeftBehind
<1>1. StoppedAt(e) \in Nat
  BY StopsAreTimes DEF RangesInv
<1>2. LastEnd # 0
  BY <1>1
<1> QED
  BY <1>2, LastEndIsAnEnd DEF RangesInv, CoveredOK

(* Whatever the clock resolves, a session that stopped before the end of   *)
(* the last range is on an invoice, or a void released it, or it stopped   *)
(* after the end of a range within the same second; and drafts that are    *)
(* older than other invoices and voids, generated from any tab, bill each  *)
(* session in the range that its end belongs to.                           *)
THEOREM OnlyASecondIsLost == Spec => []RangesAreComplete
<1>1. RangesInv => RangesHoldTheirSessions
  BY DEF RangesInv, ClaimsOK, RangesHoldTheirSessions
<1>2. RangesInv => RangesAreComplete
  BY <1>1, OvertakenOnly DEF RangesAreComplete
<1> QED
  BY RangesAreInvariant, <1>2, PTL

-----------------------------------------------------------------------------
(* The days of sessions                                                    *)

Numbers == 1..MaxSessions

(* What has been given away of each session                                *)
GivenOut ==
    [i \in Numbers |-> IF i < index THEN dayLines[i].total
                       ELSE IF i = index THEN allocated ELSE 0]

LineOK(line) ==
    /\ line.start \in Instants /\ line.stop \in Instants /\ line.start <= line.stop
    /\ line.total = TotalSeconds(line.start, line.stop)

DailyTyped ==
    /\ DOMAIN dayLines = Numbers /\ \A i \in Numbers : LineOK(dayLines[i])
    /\ index \in 1..MaxSessions + 1
    /\ allocated \in Nat
    /\ totals \in [Days -> Nat]
    /\ index <= MaxSessions =>
          /\ cursor \in Instants /\ Line.start <= cursor /\ cursor <= Line.stop
          /\ allocated = TotalSeconds(Line.start, cursor)

(* The cursor stops at midnights only.                                     *)
CursorOK ==
    index <= MaxSessions =>
        \/ cursor = Line.start \/ cursor = Line.stop
        \/ \E d \in 0..DayCount : cursor = Midnights[d]

(* How far into each session the loop is                                   *)
Reach(i) ==
    IF i < index THEN dayLines[i].stop ELSE IF i = index THEN cursor ELSE dayLines[i].start

Between(from, to, d) == Max({0, Min({to, Midnights[d + 1]}) - Max({from, Midnights[d]})})

Covered(d) == [i \in Numbers |-> Between(dayLines[i].start, Reach(i), d)]

(* How many sessions may have given day d a part                           *)
Parts(d) ==
    IF index <= MaxSessions /\ Line.start < cursor /\ Midnights[d] < cursor
    THEN index ELSE index - 1

(* Each part is off by less than a second.                                 *)
ErrorOK(d) ==
    LET error == TicksPerSecond * totals[d] - SumFunction(Covered(d))
        most == (TicksPerSecond - 1) * Parts(d)
    IN  -most <= error /\ error <= most

DailyInv ==
    /\ DailyTyped
    /\ CursorOK
    /\ SumFunction(totals) = SumFunction(GivenOut)
    /\ \A d \in Days : ErrorOK(d)

-----------------------------------------------------------------------------
LEMMA Division ==
    ASSUME NEW a \in Nat, NEW b \in Nat \ {0}
    PROVE  /\ a \div b \in Nat /\ a % b \in 0..b - 1
           /\ a = b * (a \div b) + (a % b)
OBVIOUS

LEMMA DivisionIsMonotone ==
    ASSUME NEW a \in Nat, NEW c \in Nat, a <= c, NEW b \in Nat \ {0}
    PROVE  a \div b <= c \div b
<1> DEFINE p == a \div b
           q == c \div b
<1>1. p \in Nat /\ q \in Nat /\ b * p <= a /\ c < b * q + b
  BY Division
<1> HIDE DEF p, q
<1>2. SUFFICES ASSUME q + 1 <= p PROVE FALSE
  BY <1>1 DEF p, q
<1>3. b * (q + 1) <= b * p
  BY <1>1, <1>2
<1>4. b * (q + 1) = b * q + b
  BY <1>1
<1> QED
  BY <1>1, <1>3, <1>4

LEMMA MinOfTwo ==
    ASSUME NEW a \in Int, NEW b \in Int
    PROVE  /\ Min({a, b}) = IF a <= b THEN a ELSE b
           /\ Max({a, b}) = IF a <= b THEN b ELSE a
<1>1. \A x \in {a, b} : (\A y \in {a, b} : x <= y) <=> x = IF a <= b THEN a ELSE b
  OBVIOUS
<1>2. \A x \in {a, b} : (\A y \in {a, b} : x >= y) <=> x = IF a <= b THEN b ELSE a
  OBVIOUS
<1> QED
  BY <1>1, <1>2 DEF Min, Max

LEMMA FirstOfNats ==
    ASSUME NEW S \in SUBSET Nat, S # {}
    PROVE  \E m \in S : \A i \in S : m <= i
<1> DEFINE R == OpToRel(<, Nat)
<1>0. IsWellFoundedOn(R, Nat)
  BY NatLessThanWellFounded
<1> HIDE DEF R
<1>1. PICK x \in S : \A y \in S : ~(<<y, x>> \in R)
  <2>1. S \subseteq Nat /\ S # {}
    OBVIOUS
  <2> QED
    BY <1>0, <2>1, WFMin
<1>2. \A y \in S : ~(y < x)
  BY <1>1 DEF R, OpToRel
<1> QED
  BY <1>2

LEMMA InstantsAreNats ==
    /\ Instants \subseteq Nat
    /\ \A d \in 0..DayCount : Midnights[d] \in Instants
<1>1. \A d \in 0..DayCount : Midnights[d] \in Nat /\ Midnights[0] <= Midnights[d]
                              /\ Midnights[d] <= Midnights[DayCount]
  BY DailyAssumption
<1>2. Midnights[0] \in Nat /\ Midnights[DayCount] \in Nat
  BY DailyAssumption
<1> QED
  BY <1>1, <1>2 DEF Instants

(* Every instant is on one day.                                            *)
LEMMA DayOfIsADay ==
    ASSUME NEW t \in Instants, t < Midnights[DayCount]
    PROVE  /\ DayOf(t) \in Days
           /\ Midnights[DayOf(t)] <= t /\ t < Midnights[DayOf(t) + 1]
<1> DEFINE later == {d \in 0..DayCount : t < Midnights[d]}
<1>1. DayCount \in Nat /\ t \in Nat /\ Midnights[0] <= t
  BY DailyAssumption, InstantsAreNats DEF Instants
<1>2. DayCount \in later /\ later \in SUBSET Nat /\ 0 \notin later
  BY <1>1, DailyAssumption
<1>3. PICK e \in later : \A i \in later : e <= i
  <2> HIDE DEF later
  <2> QED
    BY <1>2, FirstOfNats
<1>4. e - 1 \in Days /\ e \in 1..DayCount /\ e - 1 \notin later
  BY <1>1, <1>2, <1>3 DEF Days
<1>5. Midnights[e - 1] <= t /\ t < Midnights[(e - 1) + 1]
  <2>1. Midnights[e - 1] \in Nat /\ (e - 1) + 1 = e
    BY <1>4, DailyAssumption DEF Days
  <2> QED
    BY <1>1, <1>3, <1>4, <2>1
<1> QED
  BY <1>4, <1>5 DEF DayOf

(* The time from a to b within from and to                                 *)
Clipped(from, to, a, b) ==
    LET later == IF from <= a THEN a ELSE from
        sooner == IF to <= b THEN to ELSE b
    IN  IF later <= sooner THEN sooner - later ELSE 0

LEMMA BetweenIs ==
    ASSUME NEW from \in Nat, NEW to \in Nat, NEW d \in Days
    PROVE  /\ Midnights[d] \in Nat /\ Midnights[d + 1] \in Nat /\ Midnights[d] < Midnights[d + 1]
           /\ Between(from, to, d) = Clipped(from, to, Midnights[d], Midnights[d + 1])
           /\ Between(from, to, d) \in Nat
<1>1. d \in 0..DayCount /\ d + 1 \in 0..DayCount /\ d < d + 1
  BY DailyAssumption DEF Days
<1>2. Midnights[d] \in Nat /\ Midnights[d + 1] \in Nat /\ Midnights[d] < Midnights[d + 1]
  BY <1>1, DailyAssumption
<1> DEFINE later == IF from <= Midnights[d] THEN Midnights[d] ELSE from
           sooner == IF to <= Midnights[d + 1] THEN to ELSE Midnights[d + 1]
<1>3. Max({from, Midnights[d]}) = later /\ Min({to, Midnights[d + 1]}) = sooner
  <2>1. from \in Int /\ to \in Int /\ Midnights[d] \in Int /\ Midnights[d + 1] \in Int
    BY <1>2
  <2>2. Max({from, Midnights[d]}) = later
    BY <2>1, MinOfTwo
  <2>3. Min({to, Midnights[d + 1]}) = sooner
    BY <2>1, MinOfTwo
  <2> QED
    BY <2>2, <2>3
<1>4. later \in Nat /\ sooner \in Nat
  BY <1>2
<1>5. Between(from, to, d) = IF later <= sooner THEN sooner - later ELSE 0
  <2> HIDE DEF later, sooner
  <2>1. sooner - later \in Int /\ 0 \in Int
    BY <1>4
  <2>2. Max({0, sooner - later}) = IF 0 <= sooner - later THEN sooner - later ELSE 0
    BY <2>1, MinOfTwo
  <2>3. Between(from, to, d) = Max({0, sooner - later})
    BY <1>3 DEF Between
  <2> QED
    BY <1>4, <2>2, <2>3
<1>6. Between(from, to, d) = Clipped(from, to, Midnights[d], Midnights[d + 1])
  BY <1>5 DEF Clipped
<1>7. Between(from, to, d) \in Nat
  <2> HIDE DEF later, sooner
  <2> QED
    BY <1>4, <1>5
<1> QED
  BY <1>2, <1>6, <1>7

(* What follows t on its day is added to that day and to no other.         *)
LEMMA BetweenExtended ==
    ASSUME NEW from \in Nat, NEW t \in Nat, NEW to \in Nat, from <= t, t <= to,
           NEW today \in Days, Midnights[today] <= t, to <= Midnights[today + 1],
           NEW d \in Days
    PROVE  Between(from, to, d) = Between(from, t, d) + (IF d = today THEN to - t ELSE 0)
<1>0. today + 1 \in 0..DayCount /\ d + 1 \in 0..DayCount /\ today \in 0..DayCount
         /\ d \in 0..DayCount /\ DayCount \in Nat
  BY DailyAssumption DEF Days
<1>1. /\ d < today => d + 1 = today \/ d + 1 < today
      /\ today < d => today + 1 = d \/ today + 1 < d
      /\ today < d \/ d < today \/ d = today
  BY <1>0
<1>2. /\ d < today => Midnights[d + 1] <= Midnights[today]
      /\ today < d => Midnights[today + 1] <= Midnights[d]
  <2>1. Midnights[today] \in Nat /\ Midnights[d] \in Nat
    BY BetweenIs
  <2> QED
    BY <1>0, <1>1, <2>1, DailyAssumption
<1>3. /\ Midnights[d] \in Nat /\ Midnights[d + 1] \in Nat /\ Midnights[d] < Midnights[d + 1]
      /\ Midnights[today] \in Nat /\ Midnights[today + 1] \in Nat
  BY BetweenIs
<1> DEFINE a == Midnights[d]
           b == Midnights[d + 1]
<1>4. /\ Between(from, to, d) = Clipped(from, to, a, b)
      /\ Between(from, t, d) = Clipped(from, t, a, b)
  BY BetweenIs
<1>5. a \in Nat /\ b \in Nat /\ a < b
  BY <1>3
<1>6. /\ d = today => a <= t /\ to <= b
      /\ d < today => b <= t
      /\ today < d => to <= a
  BY <1>2, <1>3
<1> HIDE DEF a, b
<1>7. CASE d = today
  <2>1. Clipped(from, to, a, b) = Clipped(from, t, a, b) + (to - t)
    BY <1>5, <1>6, <1>7 DEF Clipped
  <2> QED
    BY <1>4, <1>7, <2>1
<1>8. ASSUME b <= t \/ to <= a, d # today
      PROVE  Between(from, to, d) = Between(from, t, d) + 0
  <2>1. Clipped(from, to, a, b) = Clipped(from, t, a, b) /\ Clipped(from, t, a, b) \in Nat
    BY <1>5, <1>8 DEF Clipped
  <2> QED
    BY <1>4, <2>1
<1> QED
  BY <1>1, <1>6, <1>7, <1>8

LEMMA BetweenOfNothing == ASSUME NEW t \in Nat, NEW d \in Days PROVE Between(t, t, d) = 0
<1> DEFINE a == Midnights[d]
           b == Midnights[d + 1]
<1>1. a \in Nat /\ b \in Nat /\ a < b /\ Between(t, t, d) = Clipped(t, t, a, b)
  BY BetweenIs
<1> HIDE DEF a, b
<1>2. Clipped(t, t, a, b) = 0
  BY <1>1 DEF Clipped
<1> QED
  BY <1>1, <1>2

LEMMA NumbersAreFinite == IsFiniteSet(Numbers) /\ IsFiniteSet(Days)
BY FS_Interval, DailyAssumption DEF Numbers, Days

LEMMA LineIsTyped ==
    ASSUME DailyTyped, NEW i \in Numbers
    PROVE  /\ dayLines[i].start \in Nat /\ dayLines[i].stop \in Nat
           /\ dayLines[i].start <= dayLines[i].stop
           /\ dayLines[i].total \in Nat
           /\ Reach(i) \in Nat
<1>1. /\ dayLines[i].start \in Nat /\ dayLines[i].stop \in Nat
      /\ dayLines[i].start <= dayLines[i].stop
  BY InstantsAreNats DEF DailyTyped, LineOK
<1>2. dayLines[i].total \in Nat
  <2>1. dayLines[i].stop - dayLines[i].start \in Nat
    BY <1>1
  <2> QED
    BY <2>1, Division, DailyAssumption DEF DailyTyped, LineOK, TotalSeconds
<1>3. Reach(i) \in Nat
  <2>1. CASE i = index
    <3>1. index <= MaxSessions
      BY <2>1, DailyAssumption DEF Numbers
    <3>2. cursor \in Nat
      BY <3>1, InstantsAreNats DEF DailyTyped
    <3>3. ~(i < index)
      BY <2>1 DEF Numbers
    <3> QED
      BY <2>1, <3>2, <3>3 DEF Reach
  <2>2. CASE i # index
    BY <1>1, <2>2 DEF Reach
  <2> QED
    BY <2>1, <2>2
<1> QED
  BY <1>1, <1>2, <1>3

LEMMA CoveredIsTyped ==
    ASSUME DailyTyped, NEW d \in Days
    PROVE  Covered(d) \in [Numbers -> Nat]
BY LineIsTyped, BetweenIs DEF Covered

LEMMA GivenOutIsTyped == ASSUME DailyTyped PROVE GivenOut \in [Numbers -> Nat]
BY LineIsTyped DEF GivenOut, DailyTyped

-----------------------------------------------------------------------------
LEMMA DailyInitInv == ASSUME DailyInit PROVE DailyInv
<1>1. MaxSessions \in Nat /\ 1 \in Numbers /\ MaxSessions >= 1
  BY DailyAssumption DEF Numbers
<1>2. \A i \in Numbers : LineOK(dayLines[i])
  <2>1. \A i \in Numbers : dayLines[i] \in SessionLines
    BY DEF DailyInit, Numbers
  <2> QED
    BY <2>1 DEF SessionLines, LineOK
<1>3. DailyTyped
  <2>1. Line.start \in Instants /\ Line.start <= Line.stop /\ Line.start \in Nat
    BY <1>1, <1>2, InstantsAreNats DEF DailyInit, Line, LineOK
  <2>2. TotalSeconds(Line.start, Line.start) = 0
    <3>1. Line.start - Line.start = 0
      BY <2>1
    <3> QED
      BY <3>1, DailyAssumption DEF TotalSeconds
  <2>3. totals \in [Days -> Nat] /\ index \in 1..MaxSessions + 1 /\ allocated \in Nat
           /\ DOMAIN dayLines = Numbers /\ cursor = Line.start
    BY <1>1 DEF DailyInit, Numbers, Line
  <2>4. allocated = TotalSeconds(Line.start, cursor)
    BY <2>2, <2>3 DEF DailyInit
  <2> QED
    BY <1>2, <2>1, <2>3, <2>4 DEF DailyTyped
<1>4. CursorOK
  BY DEF DailyInit, CursorOK, Line
<1>5. SumFunction(totals) = SumFunction(GivenOut)
  <2>1. totals \in [Days -> Nat] /\ \A d \in Days : totals[d] = 0
    BY DEF DailyInit
  <2>2. GivenOut \in [Numbers -> Nat] /\ \A i \in Numbers : GivenOut[i] = 0
    BY <1>1 DEF DailyInit, GivenOut, Numbers
  <2> QED
    BY <2>1, <2>2, SumOfZeros, NumbersAreFinite
<1>6. ASSUME NEW d \in Days PROVE ErrorOK(d)
  <2>1. \A i \in Numbers : Reach(i) = dayLines[i].start
    BY <1>1 DEF DailyInit, Reach, Numbers
  <2>2. \A i \in Numbers : Covered(d)[i] = 0
    <3> TAKE i \in Numbers
    <3>1. dayLines[i].start \in Nat /\ Reach(i) = dayLines[i].start
      BY <1>3, <2>1, LineIsTyped
    <3>2. Between(dayLines[i].start, dayLines[i].start, d) = 0
      BY <3>1, BetweenOfNothing
    <3> QED
      BY <3>1, <3>2 DEF Covered
  <2>3. SumFunction(Covered(d)) = 0
    BY <1>3, <2>2, CoveredIsTyped, SumOfZeros, NumbersAreFinite
  <2>4. Parts(d) = 0 /\ totals[d] = 0
    <3>1. ~(Line.start < cursor)
      BY <1>1, <1>3, LineIsTyped DEF DailyInit, Line
    <3> QED
      BY <3>1 DEF Parts, DailyInit
  <2>5. TicksPerSecond * 0 = 0 /\ (TicksPerSecond - 1) * 0 = 0
    BY DailyAssumption
  <2> QED
    BY <2>3, <2>4, <2>5 DEF ErrorOK
<1> QED
  BY <1>3, <1>4, <1>5, <1>6 DEF DailyInv

(* The part that a step allocates                                          *)
LEMMA PartIs ==
    ASSUME DailyInv, Part, NEW today, today = DayOf(cursor), NEW end, end = PartEnd
    PROVE  /\ index \in Numbers /\ today \in Days /\ end \in Instants
           /\ Line.start \in Nat /\ cursor \in Nat /\ end \in Nat
           /\ Midnights[today] <= cursor /\ end <= Midnights[today + 1]
           /\ Line.start <= cursor /\ cursor < end /\ end <= Line.stop
           /\ end = Line.stop \/ end = Midnights[today + 1]
           /\ Elapsed(end) = TotalSeconds(Line.start, end)
           /\ Elapsed(end) \in Nat /\ allocated <= Elapsed(end)
<1>1. /\ index \in Numbers /\ index <= MaxSessions /\ LineOK(Line)
      /\ cursor \in Instants /\ Line.start <= cursor /\ cursor < Line.stop
      /\ allocated = TotalSeconds(Line.start, cursor)
  BY DailyAssumption DEF DailyInv, DailyTyped, Part, Numbers, Line
<1>2. /\ Line.start \in Nat /\ Line.stop \in Nat /\ cursor \in Nat
      /\ Line.stop \in Instants
  BY <1>1, InstantsAreNats DEF LineOK
<1>3. cursor < Midnights[DayCount]
  BY <1>1, <1>2, InstantsAreNats, DailyAssumption DEF Instants
<1>4. /\ today \in Days /\ Midnights[today] <= cursor /\ cursor < Midnights[today + 1]
  BY <1>1, <1>3, DayOfIsADay
<1>5. Midnights[today + 1] \in Nat /\ Midnights[today + 1] \in Instants
  <2>1. today + 1 \in 0..DayCount
    BY <1>4, DailyAssumption DEF Days
  <2> QED
    BY <2>1, InstantsAreNats
<1>6. end = IF Midnights[today + 1] <= Line.stop THEN Midnights[today + 1] ELSE Line.stop
  <2>1. Min({Midnights[today + 1], Line.stop})
           = IF Midnights[today + 1] <= Line.stop THEN Midnights[today + 1] ELSE Line.stop
    BY <1>2, <1>5, MinOfTwo
  <2> QED
    BY <2>1 DEF PartEnd, NextMidnight
<1>7. /\ end \in Instants /\ end \in Nat /\ cursor < end /\ end <= Line.stop
      /\ end <= Midnights[today + 1]
      /\ end = Line.stop \/ end = Midnights[today + 1]
  BY <1>1, <1>2, <1>4, <1>5, <1>6
<1>8. /\ TotalSeconds(Line.start, end) \in Nat
      /\ TotalSeconds(Line.start, end) <= TotalSeconds(Line.start, Line.stop)
      /\ TotalSeconds(Line.start, cursor) <= TotalSeconds(Line.start, end)
      /\ TotalSeconds(Line.start, Line.stop) \in Nat
  <2>1. /\ cursor - Line.start \in Nat /\ end - Line.start \in Nat /\ Line.stop - Line.start \in Nat
        /\ cursor - Line.start <= end - Line.start /\ end - Line.start <= Line.stop - Line.start
        /\ TicksPerSecond \in Nat \ {0}
    BY <1>1, <1>2, <1>7, DailyAssumption
  <2>2. (cursor - Line.start) \div TicksPerSecond <= (end - Line.start) \div TicksPerSecond
    BY <2>1, DivisionIsMonotone
  <2>3. (end - Line.start) \div TicksPerSecond <= (Line.stop - Line.start) \div TicksPerSecond
    BY <2>1, DivisionIsMonotone
  <2>4. /\ (end - Line.start) \div TicksPerSecond \in Nat
        /\ (Line.stop - Line.start) \div TicksPerSecond \in Nat
    BY <2>1, Division
  <2> QED
    BY <2>2, <2>3, <2>4 DEF TotalSeconds
<1>9. Elapsed(end) = TotalSeconds(Line.start, end)
  <2> DEFINE all == TotalSeconds(Line.start, Line.stop)
             some == TotalSeconds(Line.start, end)
  <2>1. all \in Int /\ some \in Int /\ some <= all /\ Line.total = all
    BY <1>1, <1>8 DEF LineOK
  <2> HIDE DEF all, some
  <2>2. Min({all, some}) = some
    BY <2>1, MinOfTwo
  <2> QED
    BY <2>1, <2>2 DEF Elapsed, some
<1> QED
  BY <1>1, <1>2, <1>4, <1>7, <1>8, <1>9

LEMMA PartTyped == ASSUME DailyInv, Part PROVE DailyTyped' /\ CursorOK'
<1> DEFINE today == DayOf(cursor)
           end == PartEnd
<1>1. /\ index \in Numbers /\ today \in Days /\ end \in Instants
      /\ Line.start <= end /\ end <= Line.stop
      /\ end = Line.stop \/ end = Midnights[today + 1]
      /\ Elapsed(end) = TotalSeconds(Line.start, end)
      /\ Elapsed(end) \in Nat /\ allocated <= Elapsed(end)
  <2>1. /\ index \in Numbers /\ today \in Days /\ end \in Instants
        /\ Line.start \in Nat /\ cursor \in Nat /\ end \in Nat
        /\ Line.start <= cursor /\ cursor < end /\ end <= Line.stop
        /\ end = Line.stop \/ end = Midnights[today + 1]
        /\ Elapsed(end) = TotalSeconds(Line.start, end)
        /\ Elapsed(end) \in Nat /\ allocated <= Elapsed(end)
    BY PartIs
  <2> HIDE DEF today, end
  <2> QED
    BY <2>1
<1>2. /\ cursor' = end /\ allocated' = Elapsed(end) /\ dayLines' = dayLines /\ index' = index
      /\ totals' = [totals EXCEPT ![today] = @ + Elapsed(end) - allocated]
      /\ Line' = Line
  BY DEF Part, Line
<1> HIDE DEF today, end
<1>3. totals' \in [Days -> Nat]
  <2>1. totals \in [Days -> Nat] /\ allocated \in Nat
    BY DEF DailyInv, DailyTyped
  <2>2. totals[today] + Elapsed(end) - allocated \in Nat
    BY <1>1, <2>1
  <2> QED
    BY <1>1, <1>2, <2>1, <2>2
<1>4. DailyTyped'
  <2>1. /\ DOMAIN dayLines' = Numbers' /\ \A i \in Numbers' : LineOK(dayLines'[i])
        /\ index' \in 1..MaxSessions + 1
    BY <1>2 DEF DailyInv, DailyTyped, Numbers
  <2>2. /\ cursor' \in Instants /\ (Line.start <= cursor)' /\ (cursor <= Line.stop)'
        /\ (allocated = TotalSeconds(Line.start, cursor))'
    BY <1>1, <1>2 DEF TotalSeconds
  <2> QED
    BY <1>1, <1>2, <1>3, <2>1, <2>2 DEF DailyTyped, LineOK, Instants, TotalSeconds
<1>5. CursorOK'
  <2>1. today + 1 \in 0..DayCount
    BY <1>1, DailyAssumption DEF Days
  <2> QED
    BY <1>1, <1>2, <2>1 DEF CursorOK
<1> QED
  BY <1>4, <1>5

LEMMA PartAddsUp ==
    ASSUME DailyInv, Part
    PROVE  SumFunction(totals') = SumFunction(GivenOut')
<1> DEFINE today == DayOf(cursor)
           more == totals[today] + Elapsed(PartEnd) - allocated
<1>1. /\ index \in Numbers /\ today \in Days
      /\ Elapsed(PartEnd) \in Nat /\ allocated <= Elapsed(PartEnd)
  BY PartIs
<1>2. /\ totals \in [Days -> Nat] /\ allocated \in Nat /\ GivenOut \in [Numbers -> Nat]
      /\ SumFunction(totals) = SumFunction(GivenOut)
  BY GivenOutIsTyped DEF DailyInv, DailyTyped
<1>3. more \in Nat /\ totals[today] \in Nat
  BY <1>1, <1>2
<1>4. totals' = [totals EXCEPT ![today] = more]
  BY DEF Part
<1>5. GivenOut' = [GivenOut EXCEPT ![index] = Elapsed(PartEnd)] /\ GivenOut[index] = allocated
  <2>1. GivenOut' = [i \in Numbers |-> IF i < index THEN dayLines[i].total
                                       ELSE IF i = index THEN Elapsed(PartEnd) ELSE 0]
    BY DEF Part, GivenOut, Numbers
  <2>2. \A i \in Numbers : i < index => i # index
    BY <1>1 DEF Numbers
  <2> QED
    BY <1>1, <2>1, <2>2 DEF GivenOut
<1>6. SumFunction(totals') + totals[today] = SumFunction(totals) + more
  <2>1. \A x \in Days, v \in Nat :
            SumFunction([totals EXCEPT ![x] = v]) + totals[x] = SumFunction(totals) + v
    BY <1>2, SumUpdated, NumbersAreFinite
  <2> HIDE DEF more, today
  <2> QED
    BY <1>1, <1>3, <1>4, <2>1
<1>7. SumFunction(GivenOut') + allocated = SumFunction(GivenOut) + Elapsed(PartEnd)
  <2>1. \A x \in Numbers, v \in Nat :
            SumFunction([GivenOut EXCEPT ![x] = v]) + GivenOut[x] = SumFunction(GivenOut) + v
    BY <1>2, SumUpdated, NumbersAreFinite
  <2> QED
    BY <1>1, <1>5, <2>1
<1>8. /\ SumFunction(totals) \in Nat
      /\ SumFunction(totals') \in Nat /\ SumFunction(GivenOut') \in Nat
  <2>1. totals' \in [Days -> Nat]
    BY <1>2, <1>3, <1>4
  <2>2. GivenOut' \in [Numbers -> Nat]
    BY <1>1, <1>2, <1>5
  <2> QED
    BY <1>2, <2>1, <2>2, SumIsNat, NumbersAreFinite
<1>9. more = totals[today] + Elapsed(PartEnd) - allocated
  OBVIOUS
<1> HIDE DEF more, today
<1> QED
  BY <1>1, <1>2, <1>3, <1>6, <1>7, <1>8, <1>9

LEMMA Widened ==
    ASSUME NEW r \in Nat \ {0}, NEW p \in Nat, NEW q \in Nat, p <= q, NEW e \in Int,
           -((r - 1) * p) <= e, e <= (r - 1) * p
    PROVE  -((r - 1) * q) <= e /\ e <= (r - 1) * q
<1>1. (r - 1) * p <= (r - 1) * q
  OBVIOUS
<1>2. (r - 1) * p \in Int /\ (r - 1) * q \in Int
  OBVIOUS
<1> QED
  BY <1>1, <1>2

(* A part is off by less than a second: it is cut off at both of its ends. *)
LEMMA PartError ==
    ASSUME NEW r \in Nat \ {0}, NEW a \in Nat, NEW b \in Nat, a <= b
    PROVE  LET off == r * (b \div r) - r * (a \div r) - (b - a)
           IN  -(r - 1) <= off /\ off <= r - 1
<1> DEFINE p == b \div r
           q == a \div r
<1>1. /\ p \in Nat /\ q \in Nat /\ b % r \in 0..r - 1 /\ a % r \in 0..r - 1
      /\ b = r * p + (b % r) /\ a = r * q + (a % r)
  BY Division
<1>2. r * p \in Nat /\ r * q \in Nat
  BY <1>1
<1> HIDE DEF p, q
<1>3. -(r - 1) <= r * p - r * q - (b - a) /\ r * p - r * q - (b - a) <= r - 1
  BY <1>1, <1>2
<1> QED
  BY <1>3 DEF p, q

LEMMA PartCovers ==
    ASSUME DailyInv, Part, NEW d \in Days
    PROVE  /\ SumFunction(Covered(d)) \in Nat
           /\ (SumFunction(Covered(d)))'
                 = SumFunction(Covered(d))
                      + (IF d = DayOf(cursor) THEN PartEnd - cursor ELSE 0)
<1> DEFINE today == DayOf(cursor)
           end == PartEnd
           old == Covered(d)
           more == IF d = today THEN end - cursor ELSE 0
<1>1. /\ index \in Numbers /\ today \in Days
      /\ Line.start \in Nat /\ cursor \in Nat /\ end \in Nat
      /\ Midnights[today] <= cursor /\ end <= Midnights[today + 1]
      /\ Line.start <= cursor /\ cursor < end
  BY PartIs
<1>2. old \in [Numbers -> Nat]
  BY CoveredIsTyped DEF DailyInv
<1>3. Between(Line.start, end, d) = Between(Line.start, cursor, d) + more
  <2>1. cursor <= end
    BY <1>1
  <2> HIDE DEF today, end
  <2> QED
    BY <1>1, <2>1, BetweenExtended
<1>4. Reach(index) = cursor /\ old[index] = Between(Line.start, cursor, d)
  BY <1>1 DEF Reach, Covered, Line, Numbers
<1>5. Covered(d)' = [old EXCEPT ![index] = old[index] + more]
  <2>1. \A i \in Numbers : Reach(i)' = IF i = index THEN end ELSE Reach(i)
    BY <1>1 DEF Reach, Part, Numbers
  <2>2. Covered(d)' = [i \in Numbers |->
                          Between(dayLines[i].start, IF i = index THEN end ELSE Reach(i), d)]
    <3>1. Covered(d)' = [i \in Numbers |-> Between(dayLines[i].start, Reach(i)', d)]
      BY DEF Part, Covered, Numbers, Between
    <3> HIDE DEF end
    <3> QED
      BY <2>1, <3>1
  <2>3. Between(dayLines[index].start, end, d) = old[index] + more
    BY <1>3, <1>4 DEF Line
  <2> HIDE DEF end, more
  <2> QED
    BY <1>1, <2>2, <2>3 DEF Covered
<1>6. more \in Nat
  BY <1>1
<1> HIDE DEF today, end, more, old
<1>7. \A x \in Numbers, v \in Nat :
         SumFunction([old EXCEPT ![x] = v]) + old[x] = SumFunction(old) + v
  BY <1>2, SumUpdated, NumbersAreFinite
<1>8. SumFunction(Covered(d)') + old[index] = SumFunction(old) + (old[index] + more)
  <2>1. old[index] + more \in Nat
    BY <1>1, <1>2, <1>6
  <2> QED
    BY <1>1, <1>5, <1>7, <2>1
<1>9. SumFunction(old) \in Nat /\ SumFunction(Covered(d)') \in Nat
  <2>1. Covered(d)' \in [Numbers -> Nat]
    BY <1>1, <1>2, <1>5, <1>6
  <2> QED
    BY <1>2, <2>1, SumIsNat, NumbersAreFinite
<1>10. SumFunction(Covered(d)') = SumFunction(old) + more
  BY <1>1, <1>2, <1>6, <1>8, <1>9
<1> QED
  BY <1>9, <1>10 DEF old, more, today, end

LEMMA PartsGrow ==
    ASSUME DailyInv, Part, NEW d \in Days
    PROVE  /\ Parts(d) \in Nat /\ Parts(d)' \in Nat /\ Parts(d) <= Parts(d)'
           /\ d = DayOf(cursor) => Parts(d)' = Parts(d) + 1
<1> DEFINE today == DayOf(cursor)
           end == PartEnd
<1>1. /\ index \in Numbers /\ today \in Days
      /\ Line.start \in Nat /\ cursor \in Nat /\ end \in Nat
      /\ Midnights[today] <= cursor /\ end <= Midnights[today + 1]
      /\ Line.start <= cursor /\ cursor < end /\ end <= Line.stop
  BY PartIs
<1>2. cursor' = end /\ index' = index /\ Line' = Line /\ index <= MaxSessions
  BY DEF Part, Line
<1>3. Midnights[d] \in Nat /\ Midnights[today] \in Nat /\ Midnights[today + 1] \in Nat
  BY <1>1, BetweenIs
<1>4. Parts(d)' = IF Line.start < end /\ Midnights[d] < end THEN index ELSE index - 1
  BY <1>2 DEF Parts
<1>5. Parts(d) = IF Line.start < cursor /\ Midnights[d] < cursor THEN index ELSE index - 1
  BY <1>2 DEF Parts
<1>6. ASSUME d = today PROVE ~(Line.start < cursor /\ Midnights[d] < cursor)
  <2>1. SUFFICES ASSUME Line.start < cursor, Midnights[d] < cursor PROVE FALSE
    OBVIOUS
  <2>2. PICK e \in 0..DayCount : cursor = Midnights[e]
    <3>1. cursor # Line.start /\ cursor # Line.stop
      BY <1>1, <2>1, InstantsAreNats DEF DailyInv, DailyTyped, LineOK, Line
    <3> QED
      BY <1>2, <3>1 DEF DailyInv, CursorOK
  <2>3. today \in 0..DayCount /\ today + 1 \in 0..DayCount /\ DayCount \in Nat
    BY <1>1, DailyAssumption DEF Days
  <2>4. today < e
    <3>1. ~(e < today) /\ e # today
      BY <1>6, <2>1, <2>2, <2>3, <1>1, <1>3, DailyAssumption
    <3> QED
      BY <2>3, <3>1
  <2>5. today + 1 = e \/ today + 1 < e
    BY <2>3, <2>4
  <2>6. Midnights[today + 1] <= Midnights[e]
    BY <2>2, <2>3, <2>5, <1>1, <1>3, DailyAssumption
  <2> HIDE DEF today, end
  <2> QED
    BY <1>1, <1>3, <2>2, <2>6
<1> HIDE DEF end
<1>7. /\ d = today => Midnights[d] < end /\ Line.start < end
      /\ index \in Nat /\ index - 1 \in Nat
  BY <1>1, <1>3 DEF Numbers
<1> QED
  BY <1>1, <1>3, <1>4, <1>5, <1>6, <1>7

LEMMA PartStaysExact ==
    ASSUME DailyInv, Part, NEW d \in Days
    PROVE  ErrorOK(d)'
<1> DEFINE r == TicksPerSecond
           today == DayOf(cursor)
           covered == SumFunction(Covered(d))
           error == r * totals[d] - covered
           most == (r - 1) * Parts(d)
           off == r * (Elapsed(PartEnd) - allocated) - (PartEnd - cursor)
<1>0. r \in Nat \ {0} /\ totals \in [Days -> Nat]
  BY DailyAssumption DEF DailyInv, DailyTyped
<1>1. /\ covered \in Nat
      /\ covered' = covered + (IF d = today THEN PartEnd - cursor ELSE 0)
  BY PartCovers
<1>2. /\ Parts(d) \in Nat /\ Parts(d)' \in Nat /\ Parts(d) <= Parts(d)'
      /\ d = today => Parts(d)' = Parts(d) + 1
  BY PartsGrow
<1>3. error \in Int /\ -most <= error /\ error <= most
  <2>1. r * totals[d] \in Int
    BY <1>0
  <2> QED
    BY <1>1, <2>1 DEF DailyInv, ErrorOK
<1>4. totals' = [totals EXCEPT ![today] = @ + Elapsed(PartEnd) - allocated]
  BY DEF Part
<1>5. CASE d # today
  <2>1. totals'[d] = totals[d] /\ covered' = covered
    BY <1>0, <1>1, <1>4, <1>5
  <2>2. -((r - 1) * Parts(d)') <= error /\ error <= (r - 1) * Parts(d)'
    <3> HIDE DEF r, error
    <3> QED
      BY <1>0, <1>2, <1>3, Widened
  <2> QED
    BY <2>1, <2>2 DEF ErrorOK
<1>6. CASE d = today
  <2>1. /\ today \in Days /\ Line.start \in Nat /\ cursor \in Nat /\ PartEnd \in Nat
        /\ Line.start <= cursor /\ cursor < PartEnd
        /\ Elapsed(PartEnd) = TotalSeconds(Line.start, PartEnd)
        /\ Elapsed(PartEnd) \in Nat /\ allocated <= Elapsed(PartEnd)
        /\ allocated = TotalSeconds(Line.start, cursor) /\ allocated \in Nat
    BY PartIs, DailyAssumption DEF DailyInv, DailyTyped, Part
  <2> DEFINE a == cursor - Line.start
             b == PartEnd - Line.start
  <2>2. a \in Nat /\ b \in Nat /\ a <= b /\ b - a = PartEnd - cursor
    BY <2>1
  <2>3. Elapsed(PartEnd) = b \div r /\ allocated = a \div r
    BY <2>1 DEF TotalSeconds
  <2>4. off = r * (b \div r) - r * (a \div r) - (b - a)
    <3>1. \A x, y \in Nat : r * (x - y) = r * x - r * y
      BY <1>0
    <3>2. r * (Elapsed(PartEnd) - allocated) = r * (b \div r) - r * (a \div r)
      <4> HIDE DEF r, a, b
      <4> QED
        BY <2>1, <2>3, <3>1
    <3> QED
      BY <2>2, <3>2
  <2>5. -(r - 1) <= off /\ off <= r - 1
    <3> HIDE DEF r, a, b
    <3>1. LET o == r * (b \div r) - r * (a \div r) - (b - a)
          IN  -(r - 1) <= o /\ o <= r - 1
      BY <1>0, <2>2, PartError
    <3> QED
      BY <2>4, <3>1
  <2>6. totals'[d] = totals[d] + (Elapsed(PartEnd) - allocated)
    <3>1. totals'[d] = totals[d] + Elapsed(PartEnd) - allocated
      BY <1>0, <1>4, <1>6
    <3>2. totals[d] \in Nat
      BY <1>0
    <3> QED
      BY <2>1, <3>1, <3>2
  <2>7. r * totals'[d] - covered' = error + off
    <3> DEFINE more == Elapsed(PartEnd) - allocated
               length == PartEnd - cursor
    <3>1. more \in Nat /\ totals[d] \in Nat /\ length \in Nat
      BY <1>0, <2>1
    <3>2. r * (totals[d] + more) = r * totals[d] + r * more
             /\ r * totals[d] \in Int /\ r * more \in Int
      <4> HIDE DEF more, r
      <4> QED
        BY <1>0, <3>1
    <3>3. covered' = covered + length
      BY <1>1, <1>6
    <3> DEFINE x == r * totals[d]
               y == r * more
    <3>4. r * totals'[d] = x + y
      BY <2>6, <3>2
    <3>5. x \in Int /\ y \in Int
      BY <3>2
    <3>6. error = x - covered /\ off = y - length
      OBVIOUS
    <3> HIDE DEF x, y, covered, length, error, off
    <3> QED
      BY <1>1, <3>1, <3>3, <3>4, <3>5, <3>6
  <2>8. (r - 1) * Parts(d)' = most + (r - 1)
    <3> HIDE DEF r
    <3>1. \A p \in Nat : (r - 1) * (p + 1) = (r - 1) * p + (r - 1)
      BY <1>0
    <3> QED
      BY <1>2, <1>6, <3>1
  <2>9. off \in Int /\ most \in Int
    <3>1. \A x \in Int : r * x \in Int
      BY <1>0
    <3>2. Elapsed(PartEnd) - allocated \in Int /\ PartEnd - cursor \in Int
      BY <2>1
    <3>3. r * (Elapsed(PartEnd) - allocated) \in Int
      BY <3>1, <3>2
    <3>4. off \in Int
      BY <3>2, <3>3
    <3>5. most \in Int
      BY <1>0, <1>2
    <3> QED
      BY <3>4, <3>5
  <2>10. -(most + (r - 1)) <= error + off /\ error + off <= most + (r - 1)
    <3> HIDE DEF error, off, most
    <3> QED
      BY <1>0, <1>3, <2>5, <2>9
  <2> HIDE DEF error, off, most
  <2> QED
    BY <2>7, <2>8, <2>10 DEF ErrorOK
<1> QED
  BY <1>5, <1>6

(* The next session begins: what was given to the last one is all of it.   *)
LEMMA NextLineKeeps == ASSUME DailyInv, NextLine PROVE DailyInv'
<1>1. /\ index \in Numbers /\ index <= MaxSessions /\ LineOK(Line) /\ cursor \in Nat
      /\ allocated = TotalSeconds(Line.start, cursor)
      /\ cursor = Line.stop
  <2>1. index \in Numbers /\ index <= MaxSessions
    BY DailyAssumption DEF DailyInv, DailyTyped, NextLine, Numbers
  <2>2. /\ LineOK(Line) /\ cursor \in Instants /\ cursor <= Line.stop
        /\ allocated = TotalSeconds(Line.start, cursor) /\ cursor >= Line.stop
    BY <2>1 DEF DailyInv, DailyTyped, NextLine, Line
  <2>3. cursor \in Nat /\ Line.stop \in Nat
    BY <2>2, InstantsAreNats DEF LineOK
  <2> QED
    BY <2>1, <2>2, <2>3
<1>2. /\ dayLines' = dayLines /\ totals' = totals /\ index' = index + 1 /\ allocated' = 0
      /\ index < MaxSessions => cursor' = dayLines[index + 1].start
  BY DEF NextLine
<1>3. \A i \in Numbers :
         /\ i < index + 1 <=> i < index \/ i = index
         /\ i < index => i # index
         /\ i = index + 1 => index < MaxSessions /\ i # index /\ ~(i < index)
  BY <1>1, DailyAssumption DEF Numbers
<1>4. DailyTyped'
  <2>1. ASSUME index' <= MaxSessions
        PROVE  /\ (cursor \in Instants)' /\ (Line.start <= cursor)' /\ (cursor <= Line.stop)'
               /\ (allocated = TotalSeconds(Line.start, cursor))'
    <3> DEFINE line == dayLines[index + 1]
    <3>1. index + 1 \in Numbers /\ index < MaxSessions
      BY <1>1, <1>2, <2>1, DailyAssumption DEF Numbers
    <3>2. LineOK(line) /\ line.start \in Nat
      BY <3>1, InstantsAreNats DEF DailyInv, DailyTyped, LineOK
    <3>3. Line' = line /\ cursor' = line.start
      BY <1>2, <3>1 DEF Line
    <3>4. TotalSeconds(line.start, line.start) = 0
      <4>1. line.start - line.start = 0
        BY <3>2
      <4> QED
        BY <4>1, DailyAssumption DEF TotalSeconds
    <3>5. (allocated = TotalSeconds(Line.start, cursor))'
      BY <1>2, <3>3, <3>4 DEF TotalSeconds
    <3>6. cursor' \in Instants /\ line.start <= line.start /\ line.start <= line.stop
      BY <3>2, <3>3 DEF LineOK
    <3> QED
      BY <3>3, <3>5, <3>6 DEF Instants
  <2>2. /\ DOMAIN dayLines' = Numbers /\ \A i \in Numbers : LineOK(dayLines'[i])
        /\ index' \in 1..MaxSessions + 1 /\ allocated' \in Nat /\ totals' \in [Days -> Nat]
    BY <1>1, <1>2, DailyAssumption DEF DailyInv, DailyTyped, Numbers
  <2> QED
    BY <2>1, <2>2 DEF DailyTyped, Numbers, LineOK, Instants, TotalSeconds
<1>5. CursorOK'
  <2>1. ASSUME index' <= MaxSessions PROVE cursor' = Line.start'
    BY <1>1, <1>2, <2>1, DailyAssumption DEF Line, Numbers
  <2> QED
    BY <2>1 DEF CursorOK
<1>6. GivenOut' = GivenOut
  <2>1. allocated = Line.total
    BY <1>1 DEF LineOK
  <2>2. GivenOut' = [i \in Numbers |-> IF i < index + 1 THEN dayLines[i].total ELSE 0]
    BY <1>2 DEF GivenOut, Numbers
  <2>3. \A i \in Numbers :
           (IF i < index + 1 THEN dayLines[i].total ELSE 0)
              = IF i < index THEN dayLines[i].total ELSE IF i = index THEN allocated ELSE 0
    BY <1>3, <2>1 DEF Line
  <2> QED
    BY <2>2, <2>3 DEF GivenOut
<1>7. ASSUME NEW d \in Days PROVE ErrorOK(d)'
  <2>1. \A i \in Numbers : Reach(i)' = Reach(i)
    <3> TAKE i \in Numbers
    <3>1. Reach(i)' = IF i < index + 1 THEN dayLines[i].stop
                      ELSE IF i = index + 1 THEN cursor' ELSE dayLines[i].start
      BY <1>2 DEF Reach
    <3> QED
      BY <1>1, <1>2, <1>3, <3>1 DEF Reach, Line
  <2>2. Covered(d)' = Covered(d)
    <3>1. Covered(d)' = [i \in Numbers |-> Between(dayLines[i].start, Reach(i)', d)]
      BY <1>2 DEF Covered, Numbers, Between
    <3> QED
      BY <2>1, <3>1 DEF Covered
  <2>3. Parts(d)' = index
    <3>1. index' <= MaxSessions => cursor' = Line'.start /\ Line'.start \in Nat
      BY <1>1, <1>2, <1>4, InstantsAreNats, DailyAssumption
         DEF Line, Numbers, DailyTyped, LineOK, Instants
    <3>2. ~(index' <= MaxSessions /\ Line'.start < cursor' /\ (Midnights[d] < cursor)')
      BY <3>1
    <3>3. index' - 1 = index
      BY <1>1, <1>2 DEF Numbers
    <3> QED
      BY <3>2, <3>3 DEF Parts
  <2>4. Parts(d) \in Nat /\ index \in Nat /\ Parts(d) <= index
    BY <1>1 DEF Parts, Numbers
  <2>5. TicksPerSecond \in Nat \ {0}
    BY DailyAssumption
  <2> DEFINE error == TicksPerSecond * totals[d] - SumFunction(Covered(d))
  <2>6. error \in Int
    <3>1. SumFunction(Covered(d)) \in Nat
      BY CoveredIsTyped, SumIsNat, NumbersAreFinite DEF DailyInv
    <3>2. TicksPerSecond * totals[d] \in Int
      BY <2>5 DEF DailyInv, DailyTyped
    <3> QED
      BY <3>1, <3>2
  <2>7. -((TicksPerSecond - 1) * Parts(d)) <= error /\ error <= (TicksPerSecond - 1) * Parts(d)
    BY DEF DailyInv, ErrorOK
  <2>8. error' = error
    BY <1>2, <2>2
  <2> HIDE DEF error
  <2>9. -((TicksPerSecond - 1) * index) <= error /\ error <= (TicksPerSecond - 1) * index
    BY <2>4, <2>5, <2>6, <2>7, Widened
  <2> QED
    BY <2>3, <2>8, <2>9 DEF ErrorOK, error
<1> QED
  BY <1>2, <1>4, <1>5, <1>6, <1>7 DEF DailyInv

LEMMA DailyIsInvariant == DailySpec => []DailyInv
<1>1. DailyInit => DailyInv
  BY DailyInitInv
<1>2. DailyInv /\ [DailyNext]_dailyVars => DailyInv'
  <2> SUFFICES ASSUME DailyInv, [DailyNext]_dailyVars PROVE DailyInv'
    OBVIOUS
  <2>1. CASE Part
    BY <2>1, PartTyped, PartAddsUp, PartStaysExact DEF DailyInv
  <2>2. CASE NextLine
    BY <2>2, NextLineKeeps
  <2>3. CASE UNCHANGED dailyVars
    BY <2>3 DEF dailyVars, DailyInv, DailyTyped, CursorOK, ErrorOK, GivenOut, Covered, Reach, Parts,
                Line, LineOK, Between, Numbers, Instants, TotalSeconds
  <2> QED
    BY <2>1, <2>2, <2>3 DEF DailyNext
<1> QED
  BY <1>1, <1>2, PTL DEF DailySpec

(* However long the days and whatever fractions of a second the sessions   *)
(* have, daily_seconds puts every billed second on exactly one day, and    *)
(* each day is off by less than a second for each session.                 *)
THEOREM EverySecondIsOnOneDay == DailySpec => []DaysAddUp
<1>1. DailyInv => DaysAddUp
  <2> SUFFICES ASSUME DailyInv PROVE DaysAddUp
    OBVIOUS
  <2>1. \A d \in Days : totals[d] >= 0
    BY DEF DailyInv, DailyTyped
  <2>2. SUFFICES ASSUME Allocated PROVE PartsAddUp /\ PartsAreExact
    BY <2>1 DEF DaysAddUp, PartsAddUp, PartsAreExact
  <2>3. /\ index = MaxSessions + 1 /\ MaxSessions \in Nat \ {0}
        /\ \A i \in Numbers : i < index
    BY <2>2, DailyAssumption DEF Allocated, DailyInv, DailyTyped, Numbers
  <2>4. PartsAddUp
    <3>1. GivenOut = [i \in 1..MaxSessions |-> dayLines[i].total]
      BY <2>3 DEF GivenOut, Numbers
    <3> QED
      BY <3>1 DEF DailyInv, PartsAddUp
  <2>5. ASSUME NEW d \in Days
        PROVE  LET error == TicksPerSecond * totals[d] - Exact(d)
               IN  /\ -TicksPerSecond * MaxSessions < error
                   /\ error < TicksPerSecond * MaxSessions
    <3> DEFINE error == TicksPerSecond * totals[d] - Exact(d)
    <3>1. Covered(d) = [i \in 1..MaxSessions |-> Overlap(i, d)]
      BY <2>3 DEF Covered, Reach, Overlap, Between, Numbers
    <3>2. Parts(d) = MaxSessions
      BY <2>3 DEF Parts
    <3>3. /\ -((TicksPerSecond - 1) * MaxSessions) <= error
          /\ error <= (TicksPerSecond - 1) * MaxSessions
      BY <3>1, <3>2 DEF DailyInv, ErrorOK, Exact
    <3>4. error \in Int
      <4>1. SumFunction(Covered(d)) \in Nat
        BY CoveredIsTyped, SumIsNat, NumbersAreFinite DEF DailyInv
      <4>2. TicksPerSecond * totals[d] \in Int
        BY DailyAssumption DEF DailyInv, DailyTyped
      <4> QED
        BY <3>1, <4>1, <4>2 DEF Exact
    <3> HIDE DEF error
    <3>5. TicksPerSecond \in Nat \ {0}
      BY DailyAssumption
    <3>6. /\ (TicksPerSecond - 1) * MaxSessions = TicksPerSecond * MaxSessions - MaxSessions
          /\ -TicksPerSecond * MaxSessions = -(TicksPerSecond * MaxSessions)
          /\ TicksPerSecond * MaxSessions \in Int
      BY <2>3, <3>5
    <3>7. /\ -TicksPerSecond * MaxSessions < error /\ error < TicksPerSecond * MaxSessions
      BY <2>3, <3>3, <3>4, <3>6
    <3> QED
      BY <3>7 DEF error
  <2> QED
    BY <2>1, <2>4, <2>5 DEF PartsAreExact
<1> QED
  BY <1>1, DailyIsInvariant, PTL

-----------------------------------------------------------------------------
(* The cents of sessions                                                   *)
Lines == DOMAIN workerLines

Share(i) == workerCents * workerLines[i]
Whole(i) == Share(i) \div Seconds
Rest(i) == Share(i) % Seconds

CostsTyped ==
    /\ \E n \in Nat : workerLines \in [1..n -> Nat] /\ Lines = 1..n
    /\ workerCents \in Nat /\ (Seconds = 0 => workerCents = 0)
    /\ amounts \in [Lines -> Nat]
    /\ remainders \in Seq(Int)
    /\ residual \in Int /\ residual >= Undivided

(* Before the residual cents are given *)
Dividing ==
    /\ Len(remainders) \in Nat /\ 1..Len(remainders) \subseteq Lines
    /\ \A i \in 1..Len(remainders) : remainders[i] = Rest(i) /\ amounts[i] = Whole(i)
    /\ \A i \in Lines \ 1..Len(remainders) : amounts[i] = 0

IsGiven(i) == remainders[i] = Given

(* The lines that may still receive a cent *)
Waiting == [i \in Lines |-> IF remainders[i] > 0 THEN 1 ELSE 0]

(* Who received a cent had a remainder, and those with a larger one have   *)
(* received theirs; there are never more cents left than such lines.       *)
Spreading ==
    /\ DOMAIN remainders = Lines
    /\ \A i \in Lines :
          \/ ~IsGiven(i) /\ remainders[i] = Rest(i) /\ amounts[i] = Whole(i)
          \/ IsGiven(i) /\ Rest(i) > 0 /\ amounts[i] = Whole(i) + 1
    /\ \A i, j \in Lines : IsGiven(i) /\ Rest(i) < Rest(j) => IsGiven(j)
    /\ SumFunction(amounts) + residual = workerCents
    /\ residual <= SumFunction(Waiting)

CostsInv ==
    /\ CostsTyped
    /\ Seconds = 0 => /\ amounts = [i \in Lines |-> 0] /\ remainders = <<>>
                      /\ residual \in {Undivided, 0}
    /\ Seconds # 0 => IF residual = Undivided THEN Dividing ELSE Spreading

-----------------------------------------------------------------------------
LEMMA LinesTyped ==
    ASSUME CostsTyped
    PROVE  /\ IsFiniteSet(Lines) /\ workerLines \in [Lines -> Nat] /\ Seconds \in Nat
           /\ \A i \in Lines : /\ Share(i) \in Nat
                               /\ workerLines[i] \in Nat
<1>1. PICK n \in Nat : workerLines \in [1..n -> Nat] /\ Lines = 1..n
  BY DEF CostsTyped
<1>2. IsFiniteSet(Lines)
  BY <1>1, FS_Interval
<1>3. workerLines \in [Lines -> Nat]
  BY <1>1
<1>4. Seconds \in Nat
  BY <1>2, <1>3, SumIsNat DEF Seconds
<1>5. ASSUME NEW i \in Lines PROVE Share(i) \in Nat /\ workerLines[i] \in Nat
  <2>1. workerLines[i] \in Nat /\ workerCents \in Nat
    BY <1>3 DEF CostsTyped
  <2> QED
    BY <2>1 DEF Share
<1> QED
  BY <1>2, <1>3, <1>4, <1>5

LEMMA SharesDivided ==
    ASSUME CostsTyped, Seconds # 0, NEW i \in Lines
    PROVE  /\ Whole(i) \in Nat /\ Rest(i) \in Nat /\ Rest(i) < Seconds
           /\ Share(i) = Seconds * Whole(i) + Rest(i)
<1>1. Share(i) \in Nat /\ Seconds \in Nat \ {0}
  BY LinesTyped
<1>2. /\ Share(i) \div Seconds \in Nat /\ Share(i) % Seconds \in 0..Seconds - 1
      /\ Share(i) = Seconds * (Share(i) \div Seconds) + (Share(i) % Seconds)
  BY <1>1, Division
<1>3. Whole(i) \in Nat /\ Rest(i) \in 0..Seconds - 1 /\ Share(i) = Seconds * Whole(i) + Rest(i)
  BY <1>2 DEF Whole, Rest
<1> QED
  BY <1>1, <1>3

(* The lines and their total stay as they are.                             *)
LEMMA TypedNext ==
    ASSUME CostsTyped, workerLines' = workerLines, workerCents' = workerCents,
           amounts' \in [Lines -> Nat], remainders' \in Seq(Int),
           residual' \in Int, residual' >= Undivided
    PROVE  CostsTyped'
<1>1. Lines' = Lines /\ Seconds' = Seconds
  BY DEF Lines, Seconds
<1>2. (\E n \in Nat : workerLines \in [1..n -> Nat] /\ Lines = 1..n)'
  BY <1>1 DEF CostsTyped
<1>3. workerCents' \in Nat /\ (Seconds' = 0 => workerCents' = 0)
  BY <1>1 DEF CostsTyped
<1>4. residual' \in Int /\ residual' >= Undivided'
  BY DEF Undivided
<1> QED
  BY <1>1, <1>2, <1>3, <1>4 DEF CostsTyped

LEMMA CostsInitInv == ASSUME CostsInit PROVE CostsInv
<1>1. PICK n \in 1..MaxLines : workerLines \in [1..n -> 0..MaxSeconds]
  BY DEF CostsInit
<1>2. n \in Nat /\ workerLines \in [1..n -> Nat] /\ Lines = 1..n
  BY <1>1, CostsAssumption DEF Lines
<1>3. workerCents \in Nat /\ (Seconds = 0 => workerCents = 0)
  BY CostsAssumption DEF CostsInit
<1>4. /\ amounts = [i \in Lines |-> 0] /\ remainders = <<>> /\ residual = Undivided
  BY DEF CostsInit, Lines
<1>5. CostsTyped
  BY <1>2, <1>3, <1>4 DEF CostsTyped, Undivided
<1>6. Dividing
  BY <1>4 DEF Dividing
<1> QED
  BY <1>4, <1>5, <1>6 DEF CostsInv

LEMMA DivideKeeps == ASSUME CostsInv, Divide PROVE CostsInv'
<1> DEFINE i == Len(remainders) + 1
<1>1. /\ Seconds # 0 /\ residual = Undivided /\ i \in Lines
      /\ amounts' = [amounts EXCEPT ![i] = Whole(i)]
      /\ remainders' = Append(remainders, Rest(i))
      /\ workerLines' = workerLines /\ workerCents' = workerCents /\ residual' = residual
  BY DEF Divide, Lines, Whole, Rest, Share
<1>2. CostsTyped /\ Dividing /\ remainders \in Seq(Int)
  BY <1>1 DEF CostsInv, CostsTyped
<1>3. Whole(i) \in Nat /\ Rest(i) \in Nat
  BY <1>1, <1>2, SharesDivided
<1>4. /\ Lines' = Lines /\ Seconds' = Seconds
      /\ \A j : Whole(j)' = Whole(j) /\ Rest(j)' = Rest(j)
  BY <1>1 DEF Lines, Seconds, Whole, Rest, Share
<1>5. /\ Len(remainders') = Len(remainders) + 1 /\ remainders' \in Seq(Int)
      /\ remainders'[i] = Rest(i)
      /\ \A j \in 1..Len(remainders) : remainders'[j] = remainders[j]
  BY <1>1, <1>2, <1>3, AppendProperties
<1>6. Len(remainders) \in Nat
  BY <1>2
<1> HIDE DEF i
<1>7. amounts' \in [Lines -> Nat]
  BY <1>1, <1>2, <1>3 DEF CostsTyped
<1>8. CostsTyped'
  <2>1. residual' \in Int /\ residual' >= Undivided
    BY <1>1, <1>2 DEF CostsTyped
  <2> QED
    BY <1>1, <1>2, <1>5, <1>7, <2>1, TypedNext
<1>9. Dividing'
  <2>1. i = Len(remainders) + 1 /\ 1..Len(remainders') = 1..Len(remainders) \cup {i}
    BY <1>5, <1>6 DEF i
  <2>2. i \notin 1..Len(remainders)
    BY <1>6, <2>1
  <2>3. \A j \in 1..Len(remainders') : remainders'[j] = Rest(j) /\ amounts'[j] = Whole(j)
    <3>1. \A j \in 1..Len(remainders) : amounts'[j] = amounts[j]
      BY <1>1, <1>2, <2>2 DEF CostsTyped, Dividing
    <3>2. amounts'[i] = Whole(i)
      BY <1>1, <1>2 DEF CostsTyped
    <3> QED
      BY <1>2, <1>5, <2>1, <3>1, <3>2 DEF Dividing
  <2>4. \A j \in Lines \ 1..Len(remainders') : amounts'[j] = 0
    BY <1>1, <1>2, <2>1 DEF CostsTyped, Dividing
  <2>5. 1..Len(remainders') \subseteq Lines /\ Len(remainders') \in Nat
    BY <1>1, <1>2, <1>5, <1>6, <2>1 DEF Dividing
  <2> QED
    BY <1>4, <2>3, <2>4, <2>5 DEF Dividing
<1> QED
  BY <1>1, <1>4, <1>8, <1>9 DEF CostsInv

(* What remains when all shares have been cut down to cents                *)
LEMMA LessThanWaiting ==
    ASSUME CostsTyped, Seconds # 0, \A i \in Lines : amounts[i] = Whole(i),
           DOMAIN remainders = Lines, \A i \in Lines : remainders[i] = Rest(i)
    PROVE  LET left == workerCents - SumFunction(amounts)
           IN  0 <= left /\ left <= SumFunction(Waiting)
<1> DEFINE wholes == [i \in Lines |-> Seconds * amounts[i]]
           rests == [i \in Lines |-> Rest(i)]
           shares == [i \in Lines |-> workerCents * workerLines[i]]
           bounds == [i \in Lines |-> Seconds * Waiting[i]]
           A == SumFunction(amounts)
           W == SumFunction(Waiting)
<1>1. /\ IsFiniteSet(Lines) /\ workerLines \in [Lines -> Nat] /\ Seconds \in Nat \ {0}
      /\ amounts \in [Lines -> Nat] /\ workerCents \in Nat
  BY LinesTyped DEF CostsTyped
<1>2. \A i \in Lines : /\ Whole(i) \in Nat /\ Rest(i) \in Nat /\ Rest(i) < Seconds
                       /\ Share(i) = Seconds * Whole(i) + Rest(i)
  BY SharesDivided
<1>3. Waiting \in [Lines -> Nat]
  BY DEF Waiting
<1>4. A \in Nat /\ W \in Nat
  BY <1>1, <1>3, SumIsNat
<1>5. SumFunction(wholes) = Seconds * A /\ wholes \in [Lines -> Nat]
  BY <1>1, SumScaled
<1>6. SumFunction(shares) = workerCents * Seconds
  BY <1>1, SumScaled DEF Seconds
<1>7. SumFunction(bounds) = Seconds * W /\ bounds \in [Lines -> Nat]
  BY <1>1, <1>3, SumScaled
<1>8. rests \in [Lines -> Nat]
  BY <1>2
<1>9. shares = [i \in Lines |-> wholes[i] + rests[i]]
  BY <1>2 DEF Share
<1>10. \A i \in Lines : rests[i] <= bounds[i]
  BY <1>1, <1>2 DEF Waiting
<1> HIDE DEF wholes, rests, shares, bounds
<1>11. workerCents * Seconds = Seconds * A + SumFunction(rests)
  BY <1>1, <1>5, <1>6, <1>8, <1>9, SumOfSums
<1>12. SumFunction(rests) \in Nat /\ SumFunction(rests) <= Seconds * W
  BY <1>1, <1>7, <1>8, <1>10, SumIsNat, SumAtMost
<1> DEFINE s == Seconds
           x == SumFunction(rests)
<1> HIDE DEF A, W, s, x
<1>13. s \in Nat \ {0} /\ workerCents * s = s * A + x /\ x \in Nat /\ x <= s * W
  BY <1>1, <1>11, <1>12 DEF s, x
<1>14. A <= workerCents
  <2>1. SUFFICES ASSUME workerCents + 1 <= A PROVE FALSE
    BY <1>1, <1>4
  <2>2. s * (workerCents + 1) <= s * A
    BY <1>1, <1>4, <1>13, <2>1
  <2>3. s * (workerCents + 1) = workerCents * s + s /\ s * A \in Nat /\ workerCents * s \in Nat
    BY <1>1, <1>4, <1>13
  <2> QED
    BY <1>13, <2>2, <2>3
<1>15. workerCents <= A + W
  <2>1. SUFFICES ASSUME A + W + 1 <= workerCents PROVE FALSE
    BY <1>1, <1>4
  <2>2. s * (A + W + 1) <= s * workerCents
    BY <1>1, <1>4, <1>13, <2>1
  <2>3. /\ s * (A + W + 1) = s * A + s * W + s /\ s * workerCents = workerCents * s
        /\ s * A \in Nat /\ s * W \in Nat /\ s * workerCents \in Nat
    BY <1>1, <1>4, <1>13
  <2> QED
    BY <1>13, <2>2, <2>3
<1>16. 0 <= workerCents - A /\ workerCents - A <= W
  BY <1>1, <1>4, <1>14, <1>15
<1> QED
  BY <1>16 DEF A, W

LEMMA SubtractKeeps == ASSUME CostsInv, Subtract PROVE CostsInv'
<1>1. /\ workerLines' = workerLines /\ workerCents' = workerCents
      /\ amounts' = amounts /\ remainders' = remainders /\ residual = Undivided
  BY DEF Subtract
<1>2. /\ Lines' = Lines /\ Seconds' = Seconds /\ Waiting' = Waiting
      /\ \A j : Whole(j)' = Whole(j) /\ Rest(j)' = Rest(j)
      /\ \A j : IsGiven(j)' = IsGiven(j)
  BY <1>1 DEF Lines, Seconds, Waiting, Whole, Rest, Share, IsGiven
<1>3. CostsTyped
  BY DEF CostsInv
<1>4. CASE Seconds = 0
  <2>1. residual' = 0
    BY <1>4 DEF Subtract
  <2>2. CostsTyped'
    <3>1. residual' \in Int /\ residual' >= Undivided
      BY <2>1 DEF Undivided
    <3>2. amounts' \in [Lines -> Nat] /\ remainders' \in Seq(Int)
      BY <1>1, <1>3 DEF CostsTyped
    <3> QED
      BY <1>1, <1>3, <3>1, <3>2, TypedNext
  <2> QED
    BY <1>1, <1>2, <1>4, <2>1, <2>2 DEF CostsInv
<1>5. CASE Seconds # 0
  <2>1. Dividing /\ residual' = workerCents - SumFunction(amounts)
    BY <1>1, <1>5 DEF CostsInv, Subtract
  <2>2. 1..Len(remainders) = Lines /\ DOMAIN remainders = Lines
    <3>1. PICK n \in Nat : workerLines \in [1..n -> Nat] /\ Lines = 1..n
      BY <1>3 DEF CostsTyped
    <3>2. Len(workerLines) = n
      BY <3>1 DEF Lines
    <3>3. Len(remainders) = n
      BY <1>5, <3>2 DEF Subtract
    <3> QED
      BY <1>3, <3>1, <3>3 DEF CostsTyped
  <2>3. \A i \in Lines : amounts[i] = Whole(i) /\ remainders[i] = Rest(i)
    BY <2>1, <2>2 DEF Dividing
  <2>4. 0 <= residual' /\ residual' <= SumFunction(Waiting)
    BY <1>3, <1>5, <2>1, <2>2, <2>3, LessThanWaiting
  <2>5. SumFunction(amounts) \in Nat /\ workerCents \in Nat
    BY <1>3, LinesTyped, SumIsNat DEF CostsTyped
  <2>6. residual' \in Int /\ residual' # Undivided /\ residual' >= Undivided
    BY <2>1, <2>4, <2>5 DEF Undivided
  <2>7. CostsTyped'
    <3>1. amounts' \in [Lines -> Nat] /\ remainders' \in Seq(Int)
      BY <1>1, <1>3 DEF CostsTyped
    <3> QED
      BY <1>1, <1>3, <2>6, <3>1, TypedNext
  <2>8. \A i \in Lines : ~IsGiven(i)
    BY <1>3, <1>5, <2>3, SharesDivided DEF IsGiven, Given
  <2>9. SumFunction(amounts) + residual' = workerCents
    BY <2>1, <2>5
  <2>10. Spreading'
    BY <1>1, <1>2, <2>2, <2>3, <2>4, <2>8, <2>9 DEF Spreading
  <2> QED
    BY <1>2, <1>5, <2>6, <2>7, <2>10 DEF CostsInv
<1> QED
  BY <1>4, <1>5

LEMMA SpreadKeeps == ASSUME CostsInv, Spread PROVE CostsInv'
<1>0. CostsTyped /\ residual > 0 /\ residual \in Int
  BY DEF CostsInv, CostsTyped, Spread
<1>1. Seconds # 0 /\ Spreading
  BY <1>0 DEF CostsInv, Undivided
<1>2. PICK i \in Open :
         /\ \A j \in Open : Before(i, j)
         /\ amounts' = [amounts EXCEPT ![i] = amounts[i] + 1]
         /\ remainders' = [remainders EXCEPT ![i] = Given]
  BY DEF Spread
<1>3. /\ workerLines' = workerLines /\ workerCents' = workerCents /\ residual' = residual - 1
  BY DEF Spread
<1>4. /\ Lines' = Lines /\ Seconds' = Seconds
      /\ \A j : Whole(j)' = Whole(j) /\ Rest(j)' = Rest(j)
  BY <1>3 DEF Lines, Seconds, Whole, Rest, Share
<1>5. /\ i \in Lines /\ ~IsGiven(i) /\ remainders[i] = Rest(i) /\ amounts[i] = Whole(i)
  BY <1>1, <1>2 DEF Open, Spreading, IsGiven
<1>6. \A j \in Lines : /\ Whole(j) \in Nat /\ Rest(j) \in Nat /\ remainders[j] \in Int
                       /\ amounts[j] \in Nat
  <2>1. \A j \in Lines : remainders[j] \in Int
    BY <1>0, <1>1 DEF CostsTyped, Spreading
  <2> QED
    BY <1>0, <1>1, <2>1, SharesDivided DEF CostsTyped
<1>7. Waiting \in [Lines -> Nat] /\ IsFiniteSet(Lines) /\ amounts \in [Lines -> Nat]
  BY <1>0, LinesTyped DEF Waiting, CostsTyped
<1>8. Rest(i) > 0
  <2>1. PICK j \in Lines : Waiting[j] # 0
    <3>1. SumFunction(Waiting) # 0
      BY <1>0, <1>1 DEF Spreading
    <3> QED
      BY <1>7, <3>1, SumOfZeros
  <2>2. remainders[j] > 0 /\ j \in Open
    <3>1. remainders[j] > 0
      BY <2>1 DEF Waiting
    <3> QED
      BY <1>1, <1>6, <3>1 DEF Open, Spreading, Given
  <2>3. Before(i, j)
    BY <1>2, <2>2
  <2>4. remainders[i] >= remainders[j]
    BY <1>5, <1>6, <2>3 DEF Before
  <2> QED
    BY <1>5, <1>6, <2>2, <2>4
<1>9. DOMAIN remainders' = Lines /\ remainders' \in Seq(Int)
  <2>1. DOMAIN remainders' = Lines
    BY <1>1, <1>2 DEF Spreading
  <2>2. remainders' \in Seq(Int)
    BY <1>0, <1>1, <1>2, <1>5, ExceptSeq DEF CostsTyped, Given, Spreading
  <2> QED
    BY <2>1, <2>2
<1>10. \A j \in Lines :
          /\ remainders'[j] = IF j = i THEN Given ELSE remainders[j]
          /\ amounts'[j] = IF j = i THEN Whole(i) + 1 ELSE amounts[j]
          /\ IsGiven(j)' <=> j = i \/ IsGiven(j)
  <2>1. \A j \in Lines :
          /\ remainders'[j] = IF j = i THEN Given ELSE remainders[j]
          /\ amounts'[j] = IF j = i THEN Whole(i) + 1 ELSE amounts[j]
    BY <1>1, <1>2, <1>5, <1>7 DEF Spreading
  <2> QED
    BY <2>1 DEF IsGiven
<1>11. \A j \in Lines :
          \/ ~IsGiven(j)' /\ remainders'[j] = Rest(j) /\ amounts'[j] = Whole(j)
          \/ IsGiven(j)' /\ Rest(j) > 0 /\ amounts'[j] = Whole(j) + 1
  BY <1>1, <1>8, <1>10 DEF Spreading
<1>12. \A j, k \in Lines : IsGiven(j)' /\ Rest(j) < Rest(k) => IsGiven(k)'
  <2> SUFFICES ASSUME NEW j \in Lines, NEW k \in Lines, IsGiven(j)', Rest(j) < Rest(k),
                      ~IsGiven(k)'
               PROVE  FALSE
    OBVIOUS
  <2>1. ~IsGiven(k) /\ k # i
    BY <1>10
  <2>2. k \in Open /\ remainders[k] = Rest(k)
    BY <1>1, <2>1 DEF Open, IsGiven, Spreading
  <2>3. Before(i, k)
    BY <1>2, <2>2
  <2>4. Rest(i) >= Rest(k)
    BY <1>5, <1>6, <2>2, <2>3 DEF Before
  <2>5. IsGiven(j)
    BY <1>6, <1>10, <2>4
  <2> QED
    BY <1>1, <2>1, <2>5 DEF Spreading
<1>13. SumFunction(amounts)' + residual' = workerCents'
  <2>1. \A x \in Lines, v \in Nat :
           SumFunction([amounts EXCEPT ![x] = v]) + amounts[x] = SumFunction(amounts) + v
    BY <1>7, SumUpdated
  <2>2. amounts[i] + 1 \in Nat
    BY <1>5, <1>6
  <2>3. SumFunction(amounts') + amounts[i] = SumFunction(amounts) + (amounts[i] + 1)
    BY <1>2, <1>5, <2>1, <2>2
  <2>4. SumFunction(amounts) \in Nat /\ SumFunction(amounts') \in Nat
    <3>1. amounts' \in [Lines -> Nat]
      BY <1>2, <1>5, <1>7, <2>2
    <3> QED
      BY <1>7, <3>1, SumIsNat
  <2>5. SumFunction(amounts') = SumFunction(amounts) + 1
    BY <1>5, <1>6, <2>3, <2>4
  <2> QED
    BY <1>0, <1>1, <1>3, <2>4, <2>5 DEF Spreading, CostsTyped
<1>14. residual' <= SumFunction(Waiting)'
  <2>1. Waiting' = [Waiting EXCEPT ![i] = 0] /\ Waiting[i] = 1
    <3>1. Waiting' = [j \in Lines |-> IF remainders'[j] > 0 THEN 1 ELSE 0]
      BY <1>4 DEF Waiting
    <3>2. ~(Given > 0)
      BY DEF Given
    <3> QED
      BY <1>5, <1>8, <1>10, <3>1, <3>2 DEF Waiting
  <2>2. \A x \in Lines, v \in Nat :
           SumFunction([Waiting EXCEPT ![x] = v]) + Waiting[x] = SumFunction(Waiting) + v
    BY <1>7, SumUpdated
  <2>3. SumFunction(Waiting') + 1 = SumFunction(Waiting) + 0
    BY <1>5, <2>1, <2>2
  <2>4. SumFunction(Waiting) \in Nat /\ SumFunction(Waiting') \in Nat
    <3>1. Waiting' \in [Lines -> Nat]
      BY <1>7, <2>1
    <3> QED
      BY <1>7, <3>1, SumIsNat
  <2> QED
    BY <1>0, <1>1, <1>3, <2>3, <2>4 DEF Spreading
<1>15. CostsTyped'
  <2>1. amounts' \in [Lines -> Nat]
    BY <1>2, <1>5, <1>6, <1>7
  <2>2. residual' \in Int /\ residual' >= Undivided
    BY <1>0, <1>3 DEF Undivided
  <2> QED
    BY <1>0, <1>3, <1>9, <2>1, <2>2, TypedNext
<1>16. Spreading'
  BY <1>4, <1>9, <1>11, <1>12, <1>13, <1>14 DEF Spreading
<1>17. residual' # Undivided
  BY <1>0, <1>3 DEF Undivided
<1> QED
  BY <1>1, <1>4, <1>15, <1>16, <1>17 DEF CostsInv

LEMMA CostsAreInvariant == CostsSpec => []CostsInv
<1>1. CostsInit => CostsInv
  BY CostsInitInv
<1>2. CostsInv /\ [CostsNext]_costVars => CostsInv'
  <2> SUFFICES ASSUME CostsInv, [CostsNext]_costVars PROVE CostsInv'
    OBVIOUS
  <2>1. CASE Divide
    BY <2>1, DivideKeeps
  <2>2. CASE Subtract
    BY <2>2, SubtractKeeps
  <2>3. CASE Spread
    BY <2>3, SpreadKeeps
  <2>4. CASE UNCHANGED costVars
    BY <2>4 DEF costVars, CostsInv, CostsTyped, Dividing, Spreading, IsGiven, Waiting, Whole, Rest,
                Share, Lines, Seconds
  <2> QED
    BY <2>1, <2>2, <2>3, <2>4 DEF CostsNext
<1> QED
  BY <1>1, <1>2, PTL DEF CostsSpec

(* Once no line waits, no cent is left.                                    *)
LEMMA AllIsGiven ==
    ASSUME CostsInv, Divided, Seconds # 0
    PROVE  Spreading /\ SumFunction(amounts) = workerCents
<1>1. CostsTyped /\ residual \in Int /\ residual >= 0 /\ Spreading
  <2>1. CostsTyped /\ residual \in Int
    BY DEF CostsInv, CostsTyped
  <2>2. residual >= 0
    BY <2>1 DEF Divided
  <2>3. residual # Undivided
    BY <2>1, <2>2 DEF Undivided
  <2> QED
    BY <2>1, <2>2, <2>3 DEF CostsInv
<1>2. Waiting \in [Lines -> Nat] /\ IsFiniteSet(Lines) /\ amounts \in [Lines -> Nat]
  BY <1>1, LinesTyped DEF Waiting, CostsTyped
<1>3. residual = 0
  <2> SUFFICES ASSUME residual # 0 PROVE FALSE
    OBVIOUS
  <2>1. Open = {}
    BY DEF Divided
  <2>2. \A i \in Lines : Waiting[i] = 0
    <3> TAKE i \in Lines
    <3>1. remainders[i] = Given
      BY <1>1, <2>1 DEF Open, Spreading
    <3> QED
      BY <3>1 DEF Waiting, Given
  <2>3. SumFunction(Waiting) = 0
    BY <1>2, <2>2, SumOfZeros
  <2> QED
    BY <1>1, <2>3 DEF Spreading
<1>4. SumFunction(amounts) \in Nat
  BY <1>2, SumIsNat
<1> QED
  BY <1>1, <1>3, <1>4 DEF Spreading, CostsTyped

LEMMA InvCosts == ASSUME CostsInv PROVE CostsAddUp
<1>1. /\ CostsTyped /\ IsFiniteSet(Lines) /\ amounts \in [Lines -> Nat]
      /\ workerLines \in [Lines -> Nat] /\ workerCents \in Nat /\ Seconds \in Nat
  BY LinesTyped DEF CostsInv, CostsTyped
<1>2. residual >= Undivided
  BY <1>1 DEF CostsTyped
<1>3. CASE Seconds = 0
  <2>1. workerCents = 0 /\ \A i \in Lines : amounts[i] = 0
    BY <1>1, <1>3 DEF CostsInv, CostsTyped
  <2>2. SumFunction(amounts) = 0
    BY <1>1, <2>1, SumOfZeros
  <2> QED
    BY <1>2, <1>3, <2>1, <2>2 DEF CostsAddUp, CostsAreComplete, CostsAreFair, Lines
<1>4. CASE Seconds # 0
  <2> SUFFICES ASSUME Divided PROVE CostsAddUp
    BY <1>2 DEF CostsAddUp, CostsAreComplete, CostsAreFair
  <2>1. Spreading /\ SumFunction(amounts) = workerCents
    BY <1>4, AllIsGiven
  <2>2. \A i \in Lines :
           /\ Whole(i) \in Nat /\ Rest(i) \in Nat /\ Rest(i) < Seconds
           /\ workerCents * workerLines[i] = Seconds * Whole(i) + Rest(i)
    BY <1>1, <1>4, SharesDivided DEF Share
  <2>3. \A i \in Lines :
           \/ ~IsGiven(i) /\ amounts[i] = Whole(i)
           \/ IsGiven(i) /\ Rest(i) > 0 /\ amounts[i] = Whole(i) + 1
    BY <2>1 DEF Spreading
  <2>4. ASSUME NEW i \in Lines
        PROVE  /\ (amounts[i] - 1) * Seconds < workerCents * workerLines[i]
               /\ workerCents * workerLines[i] < (amounts[i] + 1) * Seconds
               /\ workerLines[i] = 0 => amounts[i] = 0
    <3> DEFINE w == Whole(i)
               s == Seconds
               share == workerCents * workerLines[i]
    <3>1. /\ w \in Nat /\ s \in Nat \ {0} /\ Rest(i) \in Nat /\ Rest(i) < s
          /\ share = s * w + Rest(i) /\ s * w \in Nat
      BY <1>1, <1>4, <2>2
    <3>2. /\ amounts[i] = w \/ (Rest(i) > 0 /\ amounts[i] = w + 1)
      BY <2>3
    <3>3. workerLines[i] = 0 => share = 0
      BY <1>1
    <3> HIDE DEF w, s, share
    <3>4. (w - 1) * s = s * w - s /\ (w + 1) * s = s * w + s /\ (w + 2) * s = s * w + 2 * s
          /\ w * s = s * w
      BY <3>1
    <3>5. CASE amounts[i] = w
      <4>1. (amounts[i] - 1) * s < share /\ share < (amounts[i] + 1) * s
        BY <3>1, <3>4, <3>5
      <4>2. share = 0 => w = 0
        <5> SUFFICES ASSUME share = 0, w >= 1 PROVE FALSE
          BY <3>1
        <5>1. s * w >= s * 1
          BY <3>1
        <5> QED
          BY <3>1, <5>1
      <4> QED
        BY <3>3, <3>5, <4>1, <4>2 DEF s, share
    <3>6. CASE Rest(i) > 0 /\ amounts[i] = w + 1
      <4>1. amounts[i] - 1 = w /\ amounts[i] + 1 = w + 2
        BY <3>1, <3>6
      <4>2. (amounts[i] - 1) * s < share /\ share < (amounts[i] + 1) * s
        BY <3>1, <3>4, <3>6, <4>1
      <4>3. share # 0
        BY <3>1, <3>6
      <4> QED
        BY <3>3, <4>2, <4>3 DEF s, share
    <3> QED
      BY <3>2, <3>5, <3>6
  <2>5. ASSUME NEW i \in Lines, NEW j \in Lines, workerLines[i] < workerLines[j]
        PROVE  amounts[i] <= amounts[j]
    <3> DEFINE s == Seconds
               c == workerCents
               v == Whole(i)
               w == Whole(j)
               x == Rest(i)
               y == Rest(j)
               a == workerLines[i]
               b == workerLines[j]
    <3>1. /\ s \in Nat \ {0} /\ c \in Nat /\ a \in Nat /\ b \in Nat /\ a < b
          /\ v \in Nat /\ w \in Nat /\ x \in Nat /\ y \in Nat /\ x < s /\ y < s
          /\ c * a = s * v + x /\ c * b = s * w + y
      BY <1>1, <1>4, <2>2, <2>5
    <3>2. /\ amounts[i] = v \/ (IsGiven(i) /\ x > 0 /\ amounts[i] = v + 1)
          /\ (~IsGiven(j) /\ amounts[j] = w) \/ (IsGiven(j) /\ amounts[j] = w + 1)
      BY <2>3
    <3>3. IsGiven(i) /\ x < y => IsGiven(j)
      BY <2>1 DEF Spreading
    <3> HIDE DEF s, c, v, w, x, y, a, b
    <3>4. c * a <= c * b /\ (c > 0 => c * a < c * b)
      <4>1. c * b - c * a = c * (b - a)
        BY <3>1
      <4>2. c * (b - a) >= 0 /\ (c > 0 => c * (b - a) > 0)
        BY <3>1
      <4> QED
        BY <3>1, <4>1, <4>2
    <3>5. v <= w
      <4> SUFFICES ASSUME v >= w + 1 PROVE FALSE
        BY <3>1
      <4>1. s * v >= s * (w + 1) /\ s * (w + 1) = s * w + s
        BY <3>1
      <4>2. s * v \in Nat /\ s * w \in Nat
        BY <3>1
      <4> QED
        BY <3>1, <3>4, <4>1, <4>2
    <3>6. CASE v < w
      BY <3>1, <3>2, <3>6
    <3>7. CASE v = w
      <4>1. c = 0 => x = 0
        <5> SUFFICES ASSUME c = 0 PROVE x = 0
          OBVIOUS
        <5>1. c * a = 0 /\ s * v \in Nat
          BY <3>1
        <5> QED
          BY <3>1, <5>1
      <4>2. x > 0 => x < y
        BY <3>1, <3>4, <3>7, <4>1
      <4> QED
        BY <3>1, <3>2, <3>3, <3>7, <4>2
    <3> QED
      BY <3>1, <3>5, <3>6, <3>7
  <2> QED
    BY <1>2, <2>1, <2>4, <2>5 DEF CostsAddUp, CostsAreComplete, CostsAreFair, Lines
<1> QED
  BY <1>3, <1>4

(* The costs of a worker's sessions add up to what the invoice bills for   *)
(* the worker, and each is less than a cent from its exact share.          *)
THEOREM CentsAddUp == CostsSpec => []CostsAddUp
BY CostsAreInvariant, InvCosts, PTL

-----------------------------------------------------------------------------
(* The calendar                                                            *)

NewYear(y) == Day(y, 1, 1)

LeapDay(y) == IF Leap(y) THEN 1 ELSE 0

(* The fixed dates of a year, in days after the new year                   *)
Offset(f, y) ==
    CASE f = <<1, 1>> -> 0
      [] f = <<6, 19>> -> 169 + LeapDay(y)
      [] f = <<7, 4>> -> 184 + LeapDay(y)
      [] f = <<11, 11>> -> 314 + LeapDay(y)
      [] OTHER -> 358 + LeapDay(y)

LEMMA NewYearIs ==
    ASSUME NEW y \in Int
    PROVE  /\ NewYear(y) = 365 * (y - 1) + (y - 1) \div 4 - (y - 1) \div 100
                             + (y - 1) \div 400 + 1
           /\ NewYear(y) \in Int
<1>1. DaysBefore[1] = 0
  BY DEF DaysBefore
<1>2. NewYear(y) = 365 * (y - 1) + (y - 1) \div 4 - (y - 1) \div 100 + (y - 1) \div 400
                     + 0 + 0 + 1
  BY <1>1 DEF NewYear, Day
<1>3. (y - 1) \div 4 \in Int /\ (y - 1) \div 100 \in Int /\ (y - 1) \div 400 \in Int
  OBVIOUS
<1> QED
  BY <1>2, <1>3

LEMMA FixedDay ==
    ASSUME NEW y \in Int, NEW f \in FixedDates
    PROVE  Day(y, f[1], f[2]) = NewYear(y) + Offset(f, y)
<1>1. /\ DaysBefore[1] = 0 /\ DaysBefore[6] = 151 /\ DaysBefore[7] = 181
      /\ DaysBefore[11] = 304 /\ DaysBefore[12] = 334
  BY DEF DaysBefore
<1> DEFINE base == 365 * (y - 1) + (y - 1) \div 4 - (y - 1) \div 100 + (y - 1) \div 400
<1>2. base \in Int
  OBVIOUS
<1>3. NewYear(y) = base + 1
  BY NewYearIs
<1>4. \A m, d : Day(y, m, d) = base + DaysBefore[m] + (IF m > 2 /\ Leap(y) THEN 1 ELSE 0) + d
  BY DEF Day
<1> HIDE DEF base
<1>5. LeapDay(y) \in {0, 1} /\ (LeapDay(y) = 1 <=> Leap(y))
  BY DEF LeapDay
<1>6. CASE f = <<1, 1>>
  BY <1>1, <1>2, <1>3, <1>4, <1>6 DEF Offset
<1>7. CASE f = <<6, 19>>
  BY <1>1, <1>2, <1>3, <1>4, <1>5, <1>7 DEF Offset
<1>8. CASE f = <<7, 4>>
  BY <1>1, <1>2, <1>3, <1>4, <1>5, <1>8 DEF Offset
<1>9. CASE f = <<11, 11>>
  BY <1>1, <1>2, <1>3, <1>4, <1>5, <1>9 DEF Offset
<1>10. CASE f = <<12, 25>>
  BY <1>1, <1>2, <1>3, <1>4, <1>5, <1>10 DEF Offset
<1> QED
  BY <1>6, <1>7, <1>8, <1>9, <1>10 DEF FixedDates

LEMMA YearLength ==
    ASSUME NEW y \in Nat
    PROVE  NewYear(y + 1) = NewYear(y) + 365 + LeapDay(y)
<1>1. NewYear(y + 1) = 365 * y + y \div 4 - y \div 100 + y \div 400 + 1
  <2>1. (y + 1) - 1 = y /\ y + 1 \in Int
    OBVIOUS
  <2> QED
    BY <2>1, NewYearIs
<1>2. NewYear(y) = 365 * (y - 1) + (y - 1) \div 4 - (y - 1) \div 100 + (y - 1) \div 400 + 1
  BY NewYearIs
<1>3. y \div 4 = (y - 1) \div 4 + (IF y % 4 = 0 THEN 1 ELSE 0)
  OBVIOUS
<1>4. y \div 100 = (y - 1) \div 100 + (IF y % 100 = 0 THEN 1 ELSE 0)
  OBVIOUS
<1>5. y \div 400 = (y - 1) \div 400 + (IF y % 400 = 0 THEN 1 ELSE 0)
  OBVIOUS
<1>6. (y % 400 = 0 => y % 100 = 0) /\ (y % 100 = 0 => y % 4 = 0)
  OBVIOUS
<1>7. (y - 1) \div 4 \in Int /\ (y - 1) \div 100 \in Int /\ (y - 1) \div 400 \in Int
  OBVIOUS
<1> QED
  BY <1>1, <1>2, <1>3, <1>4, <1>5, <1>6, <1>7 DEF LeapDay, Leap

(* The days of an earlier year come before the later new year.             *)
LEMMA YearsFollow ==
    ASSUME NEW y \in Nat, NEW z \in Nat, y < z
    PROVE  NewYear(y + 1) <= NewYear(z)
<1> DEFINE k == z - 1
<1>1. k \in Nat /\ y <= k
  OBVIOUS
<1>2. NewYear(y + 1) = 365 * y + y \div 4 - y \div 100 + y \div 400 + 1
  <2>1. (y + 1) - 1 = y /\ y + 1 \in Int
    OBVIOUS
  <2> QED
    BY <2>1, NewYearIs
<1>3. NewYear(z) = 365 * k + k \div 4 - k \div 100 + k \div 400 + 1
  BY NewYearIs
<1> HIDE DEF k
<1>4. k \div 4 >= y \div 4 /\ k \div 400 >= y \div 400
  BY <1>1
<1>5. k \div 100 - y \div 100 <= k - y
  BY <1>1
<1>6. /\ k \div 4 \in Int /\ k \div 100 \in Int /\ k \div 400 \in Int
      /\ y \div 4 \in Int /\ y \div 100 \in Int /\ y \div 400 \in Int
  BY <1>1
<1> QED
  BY <1>1, <1>2, <1>3, <1>4, <1>5, <1>6

LEMMA YearKnown ==
    ASSUME NEW y \in Nat \ {0}, NEW day \in Int, NewYear(y) <= day, day < NewYear(y + 1)
    PROVE  YearOf(day) = y
<1> DEFINE R == day \div 366..day \div 365 + 1
<1>1. y \in R
  <2>1. NewYear(y + 1) = 365 * y + y \div 4 - y \div 100 + y \div 400 + 1
    <3>1. (y + 1) - 1 = y /\ y + 1 \in Int
      OBVIOUS
    <3> QED
      BY <3>1, NewYearIs
  <2>2. NewYear(y) = 365 * (y - 1) + (y - 1) \div 4 - (y - 1) \div 100 + (y - 1) \div 400 + 1
    BY NewYearIs
  <2>3. y \div 4 - y \div 100 + y \div 400 <= y
    OBVIOUS
  <2>4. (y - 1) \div 4 - (y - 1) \div 100 + (y - 1) \div 400 >= 0
    OBVIOUS
  <2>5. /\ y \div 4 \in Int /\ y \div 100 \in Int /\ y \div 400 \in Int
        /\ (y - 1) \div 4 \in Int /\ (y - 1) \div 100 \in Int /\ (y - 1) \div 400 \in Int
    OBVIOUS
  <2>6. 365 * (y - 1) + 1 <= day /\ day <= 366 * y
    BY <2>1, <2>2, <2>3, <2>4, <2>5
  <2> QED
    BY <2>6
<1>2. \A z \in R : Day(z, 1, 1) <= day /\ day < Day(z + 1, 1, 1) => z = y
  <2> SUFFICES ASSUME NEW z \in R, NewYear(z) <= day, day < NewYear(z + 1), z # y
               PROVE  FALSE
    BY DEF NewYear
  <2>0. day \in Nat
    <3>1. NewYear(y) = 365 * (y - 1) + (y - 1) \div 4 - (y - 1) \div 100 + (y - 1) \div 400 + 1
      BY NewYearIs
    <3>2. (y - 1) \div 4 - (y - 1) \div 100 + (y - 1) \div 400 >= 0
      OBVIOUS
    <3>3. (y - 1) \div 4 \in Int /\ (y - 1) \div 100 \in Int /\ (y - 1) \div 400 \in Int
      OBVIOUS
    <3> QED
      BY <3>1, <3>2, <3>3
  <2>1. z \in Nat
    BY <2>0
  <2>2. /\ NewYear(y) \in Int /\ NewYear(z) \in Int
        /\ NewYear(y + 1) \in Int /\ NewYear(z + 1) \in Int
    BY <2>1, NewYearIs
  <2>3. CASE y < z
    BY <2>1, <2>2, <2>3, YearsFollow
  <2>4. CASE z < y
    BY <2>1, <2>2, <2>4, YearsFollow
  <2> QED
    BY <2>1, <2>3, <2>4
<1>3. Day(y, 1, 1) <= day /\ day < Day(y + 1, 1, 1)
  BY DEF NewYear
<1> HIDE DEF R
<1>4. YearOf(day) = CHOOSE z \in R : Day(z, 1, 1) <= day /\ day < Day(z + 1, 1, 1)
  BY DEF YearOf, R
<1> QED
  BY <1>1, <1>2, <1>3, <1>4

-----------------------------------------------------------------------------
(* The due date                                                            *)

(* Some fixed date of the years for which the holidays are computed        *)
FixedAround(y, day) ==
    \E z \in y - 1..y + 1 : \E f \in FixedDates : day = Day(z, f[1], f[2])

LEMMA OffsetBounds ==
    ASSUME NEW y \in Nat, NEW f \in FixedDates
    PROVE  /\ Offset(f, y) \in 0..364 /\ (Offset(f, y) = 0 \/ Offset(f, y) > 100)
           /\ Day(y, f[1], f[2]) \in Int
           /\ NewYear(y) <= Day(y, f[1], f[2]) /\ Day(y, f[1], f[2]) < NewYear(y + 1)
<1>1. LeapDay(y) \in {0, 1}
  BY DEF LeapDay
<1>2. Offset(f, y) \in {0, 169 + LeapDay(y), 184 + LeapDay(y), 314 + LeapDay(y),
                        358 + LeapDay(y)}
  BY DEF FixedDates, Offset
<1>3. NewYear(y) \in Int /\ NewYear(y + 1) = NewYear(y) + 365 + LeapDay(y)
  BY NewYearIs, YearLength
<1>4. Day(y, f[1], f[2]) = NewYear(y) + Offset(f, y)
  BY FixedDay
<1> QED
  BY <1>1, <1>2, <1>3, <1>4

(* A few days around a year, its own holidays and those of the years       *)
(* before and after it decide.                                             *)
LEMMA FixedIsAround ==
    ASSUME NEW y \in Nat, y >= 2, NEW day \in Int,
           NewYear(y) - 1 <= day, day <= NewYear(y + 1) + 9
    PROVE  Fixed(day) <=> FixedAround(y, day)
<1>1. /\ NewYear(y) = NewYear(y - 1) + 365 + LeapDay(y - 1)
      /\ NewYear(y + 2) = NewYear(y + 1) + 365 + LeapDay(y + 1)
      /\ NewYear(y) \in Int /\ NewYear(y - 1) \in Int
      /\ NewYear(y + 1) \in Int /\ NewYear(y + 2) \in Int
  <2>1. y - 1 \in Nat /\ (y - 1) + 1 = y /\ y + 1 \in Nat /\ (y + 1) + 1 = y + 2 /\ y + 2 \in Nat
    OBVIOUS
  <2>2. NewYear((y - 1) + 1) = NewYear(y - 1) + 365 + LeapDay(y - 1)
    BY <2>1, YearLength
  <2>3. NewYear((y + 1) + 1) = NewYear(y + 1) + 365 + LeapDay(y + 1)
    BY <2>1, YearLength
  <2>4. \A z \in Nat : NewYear(z) \in Int
    BY NewYearIs
  <2> QED
    BY <2>1, <2>2, <2>3, <2>4
<1>2. LeapDay(y - 1) \in {0, 1} /\ LeapDay(y + 1) \in {0, 1}
  BY DEF LeapDay
<1>3. PICK z \in y - 1..y + 1 : NewYear(z) <= day /\ day < NewYear(z + 1)
  <2>1. CASE day < NewYear(y)
    <3>1. NewYear(y - 1) <= day /\ day < NewYear((y - 1) + 1)
      <4>1. (y - 1) + 1 = y
        OBVIOUS
      <4> QED
        BY <1>1, <1>2, <2>1, <4>1
    <3> QED
      BY <3>1
  <2>2. CASE NewYear(y) <= day /\ day < NewYear(y + 1)
    BY <2>2
  <2>3. CASE NewYear(y + 1) <= day
    <3>1. day < NewYear((y + 1) + 1)
      <4>1. (y + 1) + 1 = y + 2
        OBVIOUS
      <4> QED
        BY <1>1, <1>2, <4>1
    <3> QED
      BY <2>3, <3>1
  <2> QED
    BY <1>1, <2>1, <2>2, <2>3
<1>4. YearOf(day) = z
  <2>1. z \in Nat \ {0}
    OBVIOUS
  <2> QED
    BY <1>3, <2>1, YearKnown
<1>5. Fixed(day) => FixedAround(y, day)
  BY <1>4 DEF Fixed, FixedAround
<1>6. ASSUME FixedAround(y, day) PROVE Fixed(day)
  <2>1. PICK x \in y - 1..y + 1, f \in FixedDates : day = Day(x, f[1], f[2])
    BY <1>6 DEF FixedAround
  <2>2. x \in Nat \ {0}
    OBVIOUS
  <2>3. NewYear(x) <= day /\ day < NewYear(x + 1)
    BY <2>1, <2>2, OffsetBounds
  <2>4. YearOf(day) = x
    BY <2>2, <2>3, YearKnown
  <2> QED
    BY <2>1, <2>4 DEF Fixed
<1> QED
  BY <1>5, <1>6

LEMMA WeekdaysNextTo ==
    ASSUME NEW day \in Int
    PROVE  /\ Weekday(day) \in 0..6
           /\ Weekday(day + 1) = 5 <=> Weekday(day) = 4
           /\ Weekday(day - 1) = 6 <=> Weekday(day) = 0
BY DEF Weekday

(* A holiday is a fixed date, or next to one at the week end.              *)
LEMMA HolidayIs ==
    ASSUME NEW y \in Nat, y >= 2, NEW day \in Int
    PROVE  day \in ObservedHolidays(y)
             <=> \/ FixedAround(y, day)
                 \/ Weekday(day) = 4 /\ FixedAround(y, day + 1)
                 \/ Weekday(day) = 0 /\ FixedAround(y, day - 1)
<1>1. day \in ObservedHolidays(y)
        <=> \E z \in y - 1..y + 1 : \E f \in FixedDates : day \in Observed(Day(z, f[1], f[2]))
  BY DEF ObservedHolidays, HolidaysOf
<1>2. ASSUME NEW actual \in Int
      PROVE  day \in Observed(actual)
               <=> \/ day = actual
                   \/ Weekday(day) = 4 /\ day + 1 = actual
                   \/ Weekday(day) = 0 /\ day - 1 = actual
  <2>1. day \in Observed(actual)
          <=> \/ day = actual
              \/ Weekday(actual) = 5 /\ day = actual - 1
              \/ Weekday(actual) = 6 /\ day = actual + 1
    BY DEF Observed
  <2>2. day = actual - 1 <=> day + 1 = actual
    OBVIOUS
  <2>3. day = actual + 1 <=> day - 1 = actual
    OBVIOUS
  <2> QED
    BY <2>1, <2>2, <2>3, WeekdaysNextTo
<1>3. \A z \in y - 1..y + 1 : \A f \in FixedDates : Day(z, f[1], f[2]) \in Int
  BY OffsetBounds
<1>4. day \in ObservedHolidays(y)
        <=> \E z \in y - 1..y + 1 : \E f \in FixedDates :
               \/ day = Day(z, f[1], f[2])
               \/ Weekday(day) = 4 /\ day + 1 = Day(z, f[1], f[2])
               \/ Weekday(day) = 0 /\ day - 1 = Day(z, f[1], f[2])
  BY <1>1, <1>2, <1>3
<1> QED
  BY <1>4 DEF FixedAround

LEMMA NotPayableIs ==
    ASSUME NEW y \in Nat, y >= 2, NEW day \in Int, holidays = ObservedHolidays(y),
           NewYear(y) <= day, day <= NewYear(y + 1) + 8
    PROVE  NotPayable(day) <=> ~BusinessDay(day)
<1>1. NewYear(y) \in Int /\ NewYear(y + 1) \in Int
  BY NewYearIs
<1>2. /\ Fixed(day) <=> FixedAround(y, day)
      /\ Fixed(day + 1) <=> FixedAround(y, day + 1)
      /\ Fixed(day - 1) <=> FixedAround(y, day - 1)
  BY <1>1, FixedIsAround
<1>3. Weekday(day) >= 5 <=> ~(Weekday(day) < 5)
  BY WeekdaysNextTo
<1> QED
  BY <1>2, <1>3, HolidayIs DEF NotPayable, BusinessDay

(* The fifth of January at the latest is a business day.                   *)
LEMMA WorkInJanuary ==
    ASSUME NEW y \in Nat, y >= 2, holidays = ObservedHolidays(y)
    PROVE  \E d \in {NewYear(y + 1) + k : k \in 2..4} : ~NotPayable(d)
<1> DEFINE n == NewYear(y + 1)
<1>1. n \in Int
  BY NewYearIs
<1>2. ASSUME NEW e \in Int, n < e, e <= n + 5
      PROVE  ~FixedAround(y, e)
  <2> SUFFICES ASSUME NEW z \in y - 1..y + 1, NEW f \in FixedDates, e = Day(z, f[1], f[2])
               PROVE  FALSE
    BY DEF FixedAround
  <2>1. z \in Nat /\ y + 1 \in Nat
    OBVIOUS
  <2>2. NewYear(z) <= e /\ e < NewYear(z + 1)
    BY <2>1, OffsetBounds
  <2>3. CASE z < y + 1
    BY <1>1, <1>2, <2>1, <2>2, <2>3, YearsFollow, NewYearIs
  <2>4. CASE z = y + 1
    <3>1. e = n + Offset(f, y + 1)
      BY <2>1, <2>4, FixedDay
    <3>2. Offset(f, y + 1) \in Int /\ (Offset(f, y + 1) = 0 \/ Offset(f, y + 1) > 100)
      BY <2>1, OffsetBounds
    <3> QED
      BY <1>1, <1>2, <3>1, <3>2
  <2> QED
    BY <2>3, <2>4
<1> HIDE DEF n
<1>3. ASSUME NEW d \in n + 2..n + 4
      PROVE  NotPayable(d) => Weekday(d) >= 5
  <2>1. d \in Int /\ ~FixedAround(y, d) /\ ~FixedAround(y, d + 1) /\ ~FixedAround(y, d - 1)
    BY <1>1, <1>2
  <2> QED
    BY <2>1, HolidayIs DEF NotPayable
<1>4. \E d \in n + 2..n + 4 : Weekday(d) < 5
  <2>1. /\ n + 2 \in n + 2..n + 4 /\ n + 3 \in n + 2..n + 4 /\ n + 4 \in n + 2..n + 4
    BY <1>1
  <2>2. Weekday(n + 2) < 5 \/ Weekday(n + 3) < 5 \/ Weekday(n + 4) < 5
    BY <1>1 DEF Weekday
  <2> QED
    BY <2>1, <2>2
<1>5. PICK d \in n + 2..n + 4 : Weekday(d) < 5
  BY <1>4
<1>6. ~NotPayable(d)
  BY <1>1, <1>3, <1>5, WeekdaysNextTo
<1>7. d - n \in 2..4 /\ d = n + (d - n)
  BY <1>1
<1> QED
  BY <1>6, <1>7 DEF n

(* The year for which the holidays were computed, and how far the search   *)
(* has come                                                                *)
DueOK(y) ==
    /\ issued + terms \in Int /\ due \in Int
    /\ NewYear(y) <= issued + terms /\ issued + terms < NewYear(y + 1)
    /\ holidays = ObservedHolidays(y)
    /\ issued + terms <= due /\ due <= NewYear(y + 1) + 4
    /\ \A day \in issued + terms..due - 1 : NotPayable(day)
    /\ returned => ~NotPayable(due)

DueInv == \E y \in Nat : y >= 2 /\ DueOK(y)

LEMMA DueInitInv == ASSUME DueInit PROVE DueInv
<1>1. PICK y \in Years : issued \in Day(y, 1, 1)..Day(y, 12, 31)
  BY DEF DueInit
<1>2. y \in Nat /\ y >= 2 /\ y + 1 \in Nat
  BY <1>1, YearAssumption
<1>3. Day(y, 12, 31) = NewYear(y + 1) - 1
  <2>1. DaysBefore[12] = 334
    BY DEF DaysBefore
  <2>2. <<12, 25>> \in FixedDates
    BY DEF FixedDates
  <2>3. Day(y, 12, 25) = NewYear(y) + 358 + LeapDay(y)
    <3>1. \A f \in FixedDates : Day(y, f[1], f[2]) = NewYear(y) + Offset(f, y)
      BY <1>2, FixedDay
    <3>2. Day(y, 12, 25) = NewYear(y) + Offset(<<12, 25>>, y)
      BY <2>2, <3>1
    <3> QED
      BY <1>2, <3>2, NewYearIs DEF Offset, LeapDay
  <2>4. Day(y, 12, 31) = Day(y, 12, 25) + 6
    <3> DEFINE base == 365 * (y - 1) + (y - 1) \div 4 - (y - 1) \div 100 + (y - 1) \div 400
    <3>1. base \in Int
      BY <1>2
    <3>2. \A d : Day(y, 12, d) = base + 334 + (IF 12 > 2 /\ Leap(y) THEN 1 ELSE 0) + d
      BY <2>1 DEF Day
    <3> HIDE DEF base
    <3> QED
      BY <3>1, <3>2
  <2>5. NewYear(y) \in Int /\ NewYear(y + 1) = NewYear(y) + 365 + LeapDay(y)
    BY <1>2, YearLength, NewYearIs
  <2>6. LeapDay(y) \in {0, 1}
    BY DEF LeapDay
  <2> QED
    BY <2>3, <2>4, <2>5, <2>6
<1>4. /\ terms \in Nat /\ terms <= 30 /\ due = issued + terms
      /\ holidays = ObservedHolidays(YearOf(due)) /\ returned = FALSE
  BY DEF DueInit, Terms
<1>5. /\ NewYear(y) \in Int /\ NewYear(y + 1) \in Int /\ NewYear((y + 1) + 1) \in Int
      /\ NewYear((y + 1) + 1) >= NewYear(y + 1) + 365
  <2>1. NewYear((y + 1) + 1) = NewYear(y + 1) + 365 + LeapDay(y + 1)
    BY <1>2, YearLength
  <2>2. \A z \in Nat : NewYear(z) \in Int
    BY NewYearIs
  <2>3. LeapDay(y + 1) \in {0, 1} /\ (y + 1) + 1 \in Nat
    BY <1>2 DEF LeapDay
  <2> QED
    BY <1>2, <2>1, <2>2, <2>3
<1>6. issued \in Int /\ NewYear(y) <= issued /\ issued < NewYear(y + 1)
  BY <1>1, <1>3, <1>5 DEF NewYear
<1>7. PICK z \in Nat : z >= 2 /\ NewYear(z) <= due /\ due < NewYear(z + 1)
  <2>1. CASE due < NewYear(y + 1)
    BY <1>2, <1>4, <1>5, <1>6, <2>1
  <2>2. CASE due >= NewYear(y + 1)
    <3>1. due < NewYear((y + 1) + 1)
      BY <1>4, <1>5, <1>6
    <3> QED
      BY <1>2, <2>2, <3>1
  <2> QED
    BY <1>4, <1>5, <1>6, <2>1, <2>2
<1>8. due \in Int /\ NewYear(z + 1) \in Int
  BY <1>4, <1>6, <1>7, NewYearIs
<1>9. YearOf(due) = z
  BY <1>7, <1>8, YearKnown
<1>10. DueOK(z)
  BY <1>4, <1>7, <1>8, <1>9 DEF DueOK
<1> QED
  BY <1>7, <1>10 DEF DueInv

LEMMA ForwardKeeps == ASSUME DueInv, Forward PROVE DueInv'
<1>1. PICK y \in Nat : y >= 2 /\ DueOK(y)
  BY DEF DueInv
<1>2. /\ ~returned /\ NotPayable(due) /\ due' = due + 1
      /\ issued' = issued /\ terms' = terms /\ holidays' = holidays /\ returned' = returned
  BY DEF Forward
<1>3. \A day : NotPayable(day)' <=> NotPayable(day)
  BY <1>2 DEF NotPayable
<1>4. /\ issued + terms \in Int /\ due \in Int /\ NewYear(y + 1) \in Int
      /\ issued + terms < NewYear(y + 1) /\ issued + terms <= due
  BY <1>1, NewYearIs DEF DueOK
<1>5. \A day \in issued + terms..due : NotPayable(day)
  <2>1. \A day \in issued + terms..due : day = due \/ day \in issued + terms..due - 1
    BY <1>4
  <2> QED
    BY <1>1, <1>2, <2>1 DEF DueOK
<1>6. due + 1 <= NewYear(y + 1) + 4
  <2> SUFFICES ASSUME due = NewYear(y + 1) + 4 PROVE FALSE
    BY <1>1, <1>4 DEF DueOK
  <2>1. \A d \in {NewYear(y + 1) + k : k \in 2..4} : d \in issued + terms..due
    BY <1>4
  <2> QED
    BY <1>1, <1>5, <2>1, WorkInJanuary DEF DueOK
<1>7. \A day \in issued' + terms'..due' - 1 : NotPayable(day)'
  BY <1>2, <1>3, <1>4, <1>5
<1>8. DueOK(y)'
  <2>1. ObservedHolidays(y)' = ObservedHolidays(y) /\ NewYear(y)' = NewYear(y)
        /\ NewYear(y + 1)' = NewYear(y + 1)
    OBVIOUS
  <2>2. /\ issued' + terms' \in Int /\ due' \in Int
        /\ NewYear(y) <= issued' + terms' /\ issued' + terms' < NewYear(y + 1)
        /\ holidays' = ObservedHolidays(y)
        /\ issued' + terms' <= due' /\ due' <= NewYear(y + 1) + 4 /\ ~returned'
    BY <1>1, <1>2, <1>4, <1>6 DEF DueOK
  <2> QED
    BY <1>7, <2>2 DEF DueOK
<1> QED
  BY <1>1, <1>8 DEF DueInv

LEMMA ReturnKeeps == ASSUME DueInv, Return PROVE DueInv'
<1>1. PICK y \in Nat : y >= 2 /\ DueOK(y)
  BY DEF DueInv
<1>2. /\ ~NotPayable(due) /\ due' = due
      /\ issued' = issued /\ terms' = terms /\ holidays' = holidays
  BY DEF Return
<1>3. \A day : NotPayable(day)' <=> NotPayable(day)
  BY <1>2 DEF NotPayable
<1>4. DueOK(y)'
  BY <1>1, <1>2, <1>3 DEF DueOK
<1> QED
  BY <1>1, <1>4 DEF DueInv

LEMMA DueIsInvariant == DueSpec => []DueInv
<1>1. DueInit => DueInv
  BY DueInitInv
<1>2. DueInv /\ [DueNext]_dueVars => DueInv'
  <2> SUFFICES ASSUME DueInv, [DueNext]_dueVars PROVE DueInv'
    OBVIOUS
  <2>1. CASE UNCHANGED dueVars
    BY <2>1 DEF dueVars, DueInv, DueOK, NotPayable
  <2> QED
    BY <2>1, ForwardKeeps, ReturnKeeps DEF DueNext
<1> QED
  BY <1>1, <1>2, PTL DEF DueSpec

LEMMA InvDue == ASSUME DueInv PROVE FirstBusinessDay
<1>1. PICK y \in Nat : y >= 2 /\ DueOK(y)
  BY DEF DueInv
<1>2. /\ issued + terms \in Int /\ due \in Int /\ NewYear(y) \in Int /\ NewYear(y + 1) \in Int
      /\ NewYear(y) <= issued + terms /\ issued + terms <= due /\ due <= NewYear(y + 1) + 4
  BY <1>1, NewYearIs DEF DueOK
<1>3. \A day \in issued + terms..due : NotPayable(day) <=> ~BusinessDay(day)
  <2> TAKE day \in issued + terms..due
  <2>1. day \in Int /\ NewYear(y) <= day /\ day <= NewYear(y + 1) + 8
    BY <1>2
  <2> QED
    BY <1>1, <2>1, NotPayableIs DEF DueOK
<1>4. due \in issued + terms..due
      /\ \A day \in issued + terms..due - 1 : day \in issued + terms..due
  BY <1>2
<1> QED
  BY <1>1, <1>3, <1>4 DEF FirstBusinessDay, DueOK

(* The due date is the first business day at or after the end of the       *)
(* terms, in whatever years invoices are issued.                           *)
THEOREM DueOnABusinessDay == DueSpec => []FirstBusinessDay
BY DueIsInvariant, InvDue, PTL
================================================================================
