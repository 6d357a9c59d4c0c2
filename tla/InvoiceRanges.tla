------------------------------ MODULE InvoiceRanges ------------------------------
(***************************************************************************)
(* The ranges "since the last invoice" of one project: which sessions they *)
(* reach (_resolve_range and _build_preview of invoices.py, and the draft  *)
(* that invoice_routes.py keeps between the preview and the generation).   *)
(*                                                                         *)
(* The end of a range is the clock with its fractions of a second; the end *)
(* of a session is the clock without them (now_utc of routes.py).          *)
(***************************************************************************)
EXTENDS Integers, Sequences

CONSTANTS
    Sessions,
    Tabs,          \* the browsers in which an administrator works
    Resolution,    \* how many instants of the clock make a second
    MaxTime,       \* bound of the clock
    MaxInvoices,   \* bound of the invoices
    Nothing

ASSUME RangesAssumption ==
    /\ Resolution \in Nat \ {0}
    /\ MaxTime \in Nat /\ MaxInvoices \in Nat

VARIABLES
    now,
    stopped,    \* the instant at which each session was stopped
    invoice,    \* the invoice that claims each session, 0 for none
    invoices,   \* [from, to, void] in the order they were issued
    drafts,     \* what each tab has previewed
    released    \* sessions that a void has released

vars == <<now, stopped, invoice, invoices, drafts, released>>

Init ==
    /\ now = 0
    /\ stopped = [e \in Sessions |-> Nothing]
    /\ invoice = [e \in Sessions |-> 0]
    /\ invoices = <<>>
    /\ drafts = [t \in Tabs |-> Nothing]
    /\ released = {}

-----------------------------------------------------------------------------
(* TimeEntry.stopped_at *)
StoppedAt(e) == stopped[e] - (stopped[e] % Resolution)

Issued == {i \in DOMAIN invoices : ~invoices[i].void}

(* The range end of the latest invoice that is not void; without one the   *)
(* range starts with the first session, and so before the end of each.     *)
LastEnd == IF Issued = {} THEN 0
           ELSE invoices[CHOOSE i \in Issued : \A j \in Issued : j <= i].to

(* Mutant: the start does not belong to the range. *)
EligibleAfter(from, to) ==
    {e \in Sessions : /\ stopped[e] # Nothing /\ invoice[e] = 0
                      /\ from < StoppedAt(e) /\ StoppedAt(e) < to}

Eligible(from, to) ==
    {e \in Sessions : /\ stopped[e] # Nothing /\ invoice[e] = 0
                      /\ from <= StoppedAt(e) /\ StoppedAt(e) < to}

StopTimer(e) ==
    /\ stopped[e] = Nothing
    /\ stopped' = [stopped EXCEPT ![e] = now]
    /\ UNCHANGED <<now, invoice, invoices, drafts, released>>

(* preview, with mode since_last *)
Preview(t) ==
    /\ LastEnd < now
    /\ Eligible(LastEnd, now) # {}
    /\ drafts' = [drafts EXCEPT ![t] = [from |-> LastEnd, to |-> now,
                                        sessions |-> Eligible(LastEnd, now)]]
    /\ UNCHANGED <<now, stopped, invoice, invoices, released>>

(* generate and create_invoice: the same bounds, and the fingerprint of    *)
(* the same sessions; otherwise a fresh preview is asked for.              *)
Generate(t) ==
    /\ drafts[t] # Nothing /\ Len(invoices) < MaxInvoices
    /\ LET draft == drafts[t]
       IN  /\ Eligible(draft.from, draft.to) = draft.sessions
           /\ invoices' = Append(invoices, [from |-> draft.from, to |-> draft.to,
                                            void |-> FALSE])
           /\ invoice' = [e \in Sessions |->
                 IF e \in draft.sessions THEN Len(invoices) + 1 ELSE invoice[e]]
    /\ drafts' = [drafts EXCEPT ![t] = Nothing]
    /\ UNCHANGED <<now, stopped, released>>

(* void_invoice *)
Void(i) ==
    /\ i \in Issued
    /\ LET claims == {e \in Sessions : invoice[e] = i}
       IN  /\ invoice' = [e \in Sessions |-> IF e \in claims THEN 0 ELSE invoice[e]]
           /\ released' = released \cup claims
    /\ invoices' = [invoices EXCEPT ![i].void = TRUE]
    /\ UNCHANGED <<now, stopped, drafts>>

Tick ==
    /\ now < MaxTime
    /\ now' = now + 1
    /\ UNCHANGED <<stopped, invoice, invoices, drafts, released>>

Next ==
    \/ \E e \in Sessions : StopTimer(e)
    \/ \E t \in Tabs : Preview(t) \/ Generate(t)
    \/ \E i \in Issued : Void(i)
    \/ Tick

Spec == Init /\ [][Next]_vars

-----------------------------------------------------------------------------
(* Whoever invoices "Since Last Invoice -> Now", from several tabs and with *)
(* sessions stopped meanwhile, leaves no session behind: once stopped       *)
(* before the end of the last range it is on an invoice, unless a void has  *)
(* released it.                                                             *)
NothingLeftBehind ==
    \A e \in Sessions :
        stopped[e] # Nothing /\ stopped[e] < LastEnd => invoice[e] # 0 \/ e \in released

(* Session e was stopped in the second in which a range ended, after that. *)
Overtaken(e) ==
    \E i \in 1..Len(invoices) : StoppedAt(e) < invoices[i].to /\ invoices[i].to <= stopped[e]

(* What holds of it for a clock that is finer than the stop times: the     *)
(* sessions that were stopped in the second in which a range ended are the *)
(* only ones that a later range may not reach.                             *)
OnlyOvertakenLeftBehind ==
    \A e \in Sessions :
        stopped[e] # Nothing /\ StoppedAt(e) < LastEnd =>
            invoice[e] # 0 \/ e \in released \/ Overtaken(e)

(* Each session is billed in the range that its end belongs to, although a *)
(* draft may be older than other invoices and voids.                       *)
RangesHoldTheirSessions ==
    \A e \in Sessions : invoice[e] # 0 =>
        LET i == invoices[invoice[e]]
        IN  ~i.void /\ i.from <= StoppedAt(e) /\ StoppedAt(e) < i.to

(* Whoever invoices since the last invoice, from several tabs and with     *)
(* sessions stopped and invoices voided meanwhile, leaves no session       *)
(* behind but those; and each is billed in the range that its end belongs  *)
(* to.                                                                     *)
RangesAreComplete == OnlyOvertakenLeftBehind /\ RangesHoldTheirSessions
=============================================================================
