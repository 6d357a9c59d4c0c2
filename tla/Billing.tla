------------------------------- MODULE Billing -------------------------------
(***************************************************************************)
(* Time tracking and invoicing over the same tables: requests that read    *)
(* and later commit, interleaved with the immediate transactions of        *)
(* invoices and disbursements.                                             *)
(***************************************************************************)
EXTENDS TimeTracking, Invoicing

vars == <<dbVars, billingVars>>

Next ==
    \/ TrackingNext /\ UNCHANGED billingVars
    \/ InvoicingNext

Spec == Init /\ BillingInit /\ [][Next]_vars

-----------------------------------------------------------------------------
InvoiceRow ==
    [contract: Contracts, sequence: Nat \ {0}, details: Details,
     from: Time, to: Time,
     lines: UNION {[S -> Line] : S \in SUBSET Entries},
     status: Status, refunded: BOOLEAN,
     paidRef: Refs \cup {NoRef}, refundRef: Refs \cup {NoRef}]

DisbursementRow ==
    [user: Users, kind: Kinds, amount: 1..MaxAmount, ref: Refs \cup {NoRef}]

Preview ==
    [contract: Contracts, details: Details, from: Time, to: Time,
     lines: UNION {[S -> Line] : S \in SUBSET Entries}]

BillingTablesOK ==
    /\ DOMAIN invoices \subseteq Invoices
    /\ invoices \in [DOMAIN invoices -> InvoiceRow]
    /\ DOMAIN disbursements \subseteq Disbursements
    /\ disbursements \in [DOMAIN disbursements -> DisbursementRow]
    /\ draft \in Preview \cup {NoDraft}

(* Every table, write set and draft has its type.                          *)
TypeOK == TrackingTypeOK /\ BillingTablesOK

-----------------------------------------------------------------------------
(* The sessions that an invoice claims are exactly its lines, all with the *)
(* billing status that goes with the invoice's, until it is void, when it  *)
(* claims none; and a session is pending exactly when nothing claims it.   *)
(* create_invoice, mark_invoice_paid and void_invoice each rewrite the     *)
(* sessions of an invoice, while corrections of those sessions that were   *)
(* validated before may still commit.                                      *)
BillingOf(status) == IF status = "PAID" THEN "client_paid" ELSE "invoiced"

InvoiceClaimsConsistent(i) ==
    IF invoices[i].status = "VOID"
    THEN Claimed(i) = {}
    ELSE /\ Claimed(i) = DOMAIN invoices[i].lines
         /\ \A e \in Claimed(i) :
               entries[e].billing = BillingOf(invoices[i].status)

EntryClaimConsistent(e) ==
    IF entries[e].billing = "pending_invoice"
    THEN entries[e].invoice = NoInvoice
    ELSE entries[e].invoice \in DOMAIN invoices

ClaimsConsistent ==
    /\ \A i \in DOMAIN invoices : InvoiceClaimsConsistent(i)
    /\ \A e \in DOMAIN entries : EntryClaimConsistent(e)

(* No session is on two invoices that the client owes or has paid, however *)
(* often invoices are voided and generated again from old previews.        *)
Live == {i \in DOMAIN invoices : invoices[i].status # "VOID"}

NoDoubleBilling ==
    \A i, j \in Live :
        i # j => DOMAIN invoices[i].lines \cap DOMAIN invoices[j].lines = {}

(* A transaction id stands for one payment, one refund or one disbursement *)
(* (require_available_transaction_id searches three tables).               *)
UniqueReferences ==
    /\ \A i, j \in DOMAIN invoices :
          /\ invoices[i].paidRef # NoRef => invoices[i].paidRef # invoices[j].refundRef
          /\ i # j /\ invoices[i].paidRef # NoRef
                => invoices[i].paidRef # invoices[j].paidRef
          /\ i # j /\ invoices[i].refundRef # NoRef
                => invoices[i].refundRef # invoices[j].refundRef
    /\ \A d \in DOMAIN disbursements : disbursements[d].ref # NoRef =>
          /\ \A i \in DOMAIN invoices :
                disbursements[d].ref \notin {invoices[i].paidRef, invoices[i].refundRef}
          /\ \A f \in DOMAIN disbursements :
                d # f => disbursements[d].ref # disbursements[f].ref

(* No worker is paid out more than the paid invoices earned, whatever is   *)
(* voided, refunded or generated again afterwards.                         *)
NothingOverdisbursed == \A u \in Users : Outstanding(u) >= 0

(* The invoices of a contract are numbered 1, 2, 3, ... without a gap or a *)
(* repetition, and a void invoice keeps its number.                        *)
NumberedInSequence ==
    \A c \in Contracts :
        {invoices[i].sequence : i \in InvoicesOf(c)} = 1..Cardinality(InvoicesOf(c))

(* An issued invoice keeps its lines, terms and number; VOID and refunded  *)
(* are permanent, a paid invoice is never voided, and a recorded           *)
(* transaction id never changes.                                           *)
Frozen(before, after) ==
    /\ \A column \in {"contract", "sequence", "details", "from", "to", "lines"} :
          before[column] = after[column]
    /\ before.status # after.status => before.status = "UNPAID"
    /\ before.refunded => after.refunded
    /\ before.paidRef # NoRef => after.paidRef = before.paidRef
    /\ before.refundRef # NoRef => after.refundRef = before.refundRef

InvoicesArePermanent ==
    [][\A i \in DOMAIN invoices : /\ i \in DOMAIN invoices'
                                  /\ Frozen(invoices[i], invoices'[i])]_vars

(* An invoice bills what is recorded when it is created, although its      *)
(* lines and contact come from a preview of any age: each line shows the   *)
(* session, and the invoice the contract, as it is at that moment.         *)
BillsWhatIsRecorded ==
    [][\A i \in DOMAIN invoices' \ DOMAIN invoices :
          /\ invoices'[i].details = details[invoices'[i].contract]
          /\ \A e \in DOMAIN invoices'[i].lines :
                /\ e \in VisibleEntries
                /\ invoices'[i].lines[e] = LineOf(entries[e])]_vars

(* Whatever corrections, deletions, stale previews and second submissions  *)
(* interleave, the life of each session is the one of Settlement: unbilled, *)
(* owed or paid; an invoice claims only unbilled sessions, voiding it gives *)
(* back each of them that was not deleted, and payment is final.            *)
Account(status) ==
    [i \in {j \in DOMAIN invoices : invoices[j].status = status} |->
        DOMAIN invoices[i].lines]

Settled == INSTANCE Settlement WITH
    Sessions <- Entries,
    work <- {e \in VisibleEntries : entries[e].billing = "pending_invoice"},
    deleted <- DOMAIN entries \ VisibleEntries,
    issued <- DOMAIN invoices,
    owed <- Account("UNPAID"),
    paid <- Account("PAID")

Settles == Settled!Spec

-----------------------------------------------------------------------------
(* "Sessions claimed by an invoice are no longer available for ordinary    *)
(* time corrections" (docs/architecture.md): the sessions of an invoice    *)
(* that is not void still show what its lines show.                        *)
ClaimedSessionsAreUncorrected ==
    \A i \in Live : \A e \in DOMAIN invoices[i].lines :
        /\ entries[e].visible
        /\ LineOf(entries[e]) = invoices[i].lines[e]
=============================================================================
