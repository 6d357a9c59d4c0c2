------------------------------ MODULE Invoicing ------------------------------
(***************************************************************************)
(* Invoices and disbursements (invoices.py, disbursements.py and their     *)
(* routes).  Every operation that writes runs inside one BEGIN IMMEDIATE   *)
(* transaction that begins by dropping what the request had read, and is   *)
(* audited and committed in it: each is one step.  The preview is          *)
(* different: it is kept in the administrator's browser session, and any   *)
(* time may pass before the invoice is generated from it.                  *)
(***************************************************************************)
EXTENDS Database, InvoiceTime

CONSTANTS
    Rate,            \* contract.hourly_rate_cents, fixed at creation
    Members,         \* the users that are LLC members
    Refs,            \* transaction ids
    Disbursements,   \* disbursement ids
    MaxAmount,       \* bound of a disbursement's amount
    NoRef, NoDraft

ASSUME MoneyAssumption ==
    /\ Rate \in [Contracts -> Nat]
    /\ Members \subseteq Users
    /\ NoRef \notin Refs
    /\ MaxAmount \in Nat

VARIABLES
    invoices,        \* invoice rows by id, with their invoice_line rows
    disbursements,   \* disbursement rows by id
    draft            \* session["invoice_draft"]

billingVars == <<invoices, disbursements, draft>>

Status == {"UNPAID", "PAID", "VOID"}

Kinds == {"DISBURSEMENT", "IN_KIND", "RETAINED_EARNINGS"}

(* What a preview shows, and an invoice line keeps, of one session. *)
Line == [user: Users, task: Tasks, subtask: Subtasks \cup {NoSubtask},
         start: Time, stop: Time \cup {Running}]

LineOf(row) ==
    [user |-> row.user, task |-> row.task, subtask |-> LoadedSubtask(row.subtask),
     start |-> row.start, stop |-> row.stop]

BillingInit ==
    /\ invoices = [i \in {} |-> 0]
    /\ disbursements = [d \in {} |-> 0]
    /\ draft = NoDraft

-----------------------------------------------------------------------------
(* The preview *)

InvoicesOf(c) == {i \in DOMAIN invoices : invoices[i].contract = c}

(* The records of _build_preview: sessions that stop inside the range. *)
Eligible(c, from, to) ==
    {e \in WorkOf(c) : /\ entries[e].stop # Running
                       /\ from <= entries[e].stop
                       /\ entries[e].stop < to
                       /\ entries[e].billing = "pending_invoice"}

LinesFor(c, from, to) == [e \in Eligible(c, from, to) |-> LineOf(entries[e])]

(* The data whose hash is the fingerprint. *)
PreviewOf(c, from, to) ==
    [contract |-> c, details |-> details[c], from |-> from, to |-> to,
     lines |-> LinesFor(c, from, to)]

(* The checks of _build_preview and _resolve_range. *)
Previewable(c, from, to) ==
    /\ contracts[c] = "active"
    /\ from < to /\ to <= now
    /\ Eligible(c, from, to) # {}

(* The latest invoice that is not void.  Numbers follow the order of issue. *)
Latest(c) ==
    {i \in InvoicesOf(c) :
        /\ invoices[i].status # "VOID"
        /\ \A j \in InvoicesOf(c) :
              invoices[j].status # "VOID" => invoices[j].sequence <= invoices[i].sequence}

(* Where a range "since the last invoice" starts: at the end of the latest  *)
(* range or, on a first invoice, at the first eligible session.             *)
RangeStarts(c) ==
    IF Latest(c) # {}
    THEN {invoices[i].to : i \in Latest(c)}
    ELSE LET starts == {entries[e].start : e \in Eligible(c, 0, now)}
         IN  {s \in starts : \A other \in starts : s <= other}

PreviewCustom(c, from, to) ==
    /\ Previewable(c, from, to)
    /\ draft' = PreviewOf(c, from, to)
    /\ UNCHANGED <<dbVars, invoices, disbursements>>

PreviewSinceLast(c) ==
    \E from \in RangeStarts(c) : PreviewCustom(c, from, now)

-----------------------------------------------------------------------------
(* Invoices *)

Claimed(i) == {e \in DOMAIN entries : entries[e].invoice = i}

(* _claimed_entries, and the billing status its callers ask for *)
ClaimsAre(i, billing) ==
    /\ Claimed(i) # {}
    /\ Claimed(i) = DOMAIN invoices[i].lines
    /\ \A e \in Claimed(i) : entries[e].billing = billing

SetBilling(claims, billing, invoice) ==
    entries' = [e \in DOMAIN entries |->
                   IF e \in claims
                   THEN [entries[e] EXCEPT !.billing = billing, !.invoice = invoice]
                   ELSE entries[e]]

(* Mutant: void invoices give their number back. *)
NextLiveSequence(c) ==
    1 + Cardinality({i \in InvoicesOf(c) : invoices[i].status # "VOID"})

NextSequence(c) ==
    IF InvoicesOf(c) = {} THEN 1
    ELSE 1 + Max({invoices[i].sequence : i \in InvoicesOf(c)})

(* Mutants: generation trusts the preview; or compares only which sessions *)
(* it lists.                                                               *)
Trusted(preview) == contracts[preview.contract] = "active"

SameSessions(preview) ==
    /\ Previewable(preview.contract, preview.from, preview.to)
    /\ DOMAIN preview.lines = Eligible(preview.contract, preview.from, preview.to)

(* create_invoice: the preview is built again and must be the one reviewed *)
Unchanged(preview) ==
    /\ Previewable(preview.contract, preview.from, preview.to)
    /\ preview = PreviewOf(preview.contract, preview.from, preview.to)

NewInvoice(preview) ==
    [contract |-> preview.contract, sequence |-> NextSequence(preview.contract),
     details |-> preview.details, from |-> preview.from, to |-> preview.to,
     lines |-> preview.lines,
     status |-> "UNPAID", refunded |-> FALSE,
     paidRef |-> NoRef, refundRef |-> NoRef]

(* A second submission of the same form may still hold the draft. *)
CreateInvoice(i) ==
    /\ draft # NoDraft
    /\ Unchanged(draft)
    /\ invoices' = Put(invoices, i, NewInvoice(draft))
    /\ SetBilling(DOMAIN draft.lines, "invoiced", i)
    /\ draft' \in {draft, NoDraft}
    /\ UNCHANGED <<clients, contracts, tasks, subtasks, details, enabled,
                   requests, now, disbursements>>

(* Mutant: ids of refunds are not looked up. *)
UsedRefsExceptRefunds ==
         {disbursements[d].ref : d \in DOMAIN disbursements}
    \cup {invoices[i].paidRef : i \in DOMAIN invoices}

(* require_available_transaction_id *)
UsedRefs ==
         {disbursements[d].ref : d \in DOMAIN disbursements}
    \cup {invoices[i].paidRef : i \in DOMAIN invoices}
    \cup {invoices[i].refundRef : i \in DOMAIN invoices}

Available(ref) == ref \in Refs \ UsedRefs

MarkInvoicePaid(i, ref) ==
    /\ invoices[i].status = "UNPAID"
    /\ ClaimsAre(i, "invoiced")
    /\ Available(ref)
    /\ invoices' = [invoices EXCEPT ![i].status = "PAID", ![i].paidRef = ref]
    /\ SetBilling(Claimed(i), "client_paid", i)
    /\ UNCHANGED <<clients, contracts, tasks, subtasks, details, enabled,
                   requests, now, disbursements, draft>>

(* Mutant: a refunded invoice may be refunded again. *)
RefundAgain(i, ref) ==
    /\ invoices[i].status = "PAID"
    /\ ClaimsAre(i, "client_paid")
    /\ Available(ref)
    /\ invoices' = [invoices EXCEPT ![i].refunded = TRUE, ![i].refundRef = ref]
    /\ UNCHANGED <<dbVars, disbursements, draft>>

RefundInvoice(i, ref) ==
    /\ invoices[i].status = "PAID"
    /\ ~invoices[i].refunded
    /\ ClaimsAre(i, "client_paid")
    /\ Available(ref)
    /\ invoices' = [invoices EXCEPT ![i].refunded = TRUE, ![i].refundRef = ref]
    /\ UNCHANGED <<dbVars, disbursements, draft>>

(* Mutant: the sessions of a void invoice stay invoiced, by no invoice.    *)
VoidUnclaiming(i) ==
    /\ invoices[i].status = "UNPAID"
    /\ Operational(invoices[i].contract)
    /\ ClaimsAre(i, "invoiced")
    /\ invoices' = [invoices EXCEPT ![i].status = "VOID"]
    /\ SetBilling(Claimed(i), "invoiced", NoInvoice)
    /\ UNCHANGED <<clients, contracts, tasks, subtasks, details, enabled,
                   requests, now, disbursements, draft>>

VoidInvoice(i) ==
    /\ invoices[i].status = "UNPAID"
    /\ Operational(invoices[i].contract)
    /\ ClaimsAre(i, "invoiced")
    /\ invoices' = [invoices EXCEPT ![i].status = "VOID"]
    /\ SetBilling(Claimed(i), "pending_invoice", NoInvoice)
    /\ UNCHANGED <<clients, contracts, tasks, subtasks, details, enabled,
                   requests, now, disbursements, draft>>

-----------------------------------------------------------------------------
(* Disbursements *)

(* Mutant: a refund takes the worker's earnings back. *)
UnrefundedInvoices ==
    {i \in DOMAIN invoices : invoices[i].status = "PAID" /\ ~invoices[i].refunded}

PaidInvoices == {i \in DOMAIN invoices : invoices[i].status = "PAID"}

(* paid_earnings_cents, from the snapshots of the paid invoices *)
PaidEarnings(u) ==
    SumFunction([i \in PaidInvoices |->
                    WorkerCents(invoices[i].lines, u, Rate[invoices[i].contract])])

DisbursementsOf(u) == {d \in DOMAIN disbursements : disbursements[d].user = u}

(* outstanding_cents *)
Outstanding(u) ==
    PaidEarnings(u) - SumFunction([d \in DisbursementsOf(u) |-> disbursements[d].amount])

CreateDisbursement(d, u, kind, amount, ref) ==
    /\ kind \in {"IN_KIND", "RETAINED_EARNINGS"} => u \in Members
    /\ 0 < amount /\ amount <= Outstanding(u)
    /\ IF kind = "RETAINED_EARNINGS" THEN ref = NoRef ELSE Available(ref)
    /\ disbursements' = Put(disbursements, d,
                            [user |-> u, kind |-> kind, amount |-> amount, ref |-> ref])
    /\ UNCHANGED <<dbVars, invoices, draft>>

-----------------------------------------------------------------------------
InvoicingNext ==
    \/ \E c \in Contracts : \/ PreviewSinceLast(c)
                            \/ \E from, to \in Time : PreviewCustom(c, from, to)
    \/ \E i \in Invoices \ DOMAIN invoices : CreateInvoice(i)
    \/ \E i \in DOMAIN invoices : \/ VoidInvoice(i)
                                  \/ \E ref \in Refs : \/ MarkInvoicePaid(i, ref)
                                                       \/ RefundInvoice(i, ref)
    \/ \E d \in Disbursements \ DOMAIN disbursements, u \in Users, kind \in Kinds,
          amount \in 1..MaxAmount, ref \in Refs \cup {NoRef} :
          CreateDisbursement(d, u, kind, amount, ref)
=============================================================================
