--------------------------- MODULE BillingProofs ---------------------------
(***************************************************************************)
(* Proofs about Billing: the types of the tables, that claims agree with   *)
(* invoices, that nothing is billed twice, and that invoices are numbered  *)
(* without gaps.  The three are one induction: a step of invoicing relies  *)
(* on the claims, the type of an invoice on the numbering, and everything  *)
(* on time tracking leaving the billing columns alone (TrackingStep).      *)
(* The refinement of Settlement follows, with the safety of time tracking; *)
(* then the references of payments and refunds, what an issued invoice     *)
(* never loses, and that nobody is paid more than the invoices earned,     *)
(* with the facts of Sums about SumFunction.                               *)
(***************************************************************************)
EXTENDS Billing, TimeTrackingProofs, Sums

Inv ==
    /\ TypeOK
    /\ ClaimsConsistent
    /\ NumberedInSequence
    /\ IsFiniteSet(DOMAIN invoices)

-----------------------------------------------------------------------------
(* Numbering *)

LEMMA MaxOfSegment == ASSUME NEW n \in Nat \ {0} PROVE Max(1..n) = n
BY DEF Max

LEMMA NextSequenceCounts ==
    ASSUME Inv, NEW c \in Contracts
    PROVE  /\ IsFiniteSet(InvoicesOf(c))
           /\ Cardinality(InvoicesOf(c)) \in Nat
           /\ NextSequence(c) = Cardinality(InvoicesOf(c)) + 1
<1> DEFINE n == Cardinality(InvoicesOf(c))
<1>1. IsFiniteSet(InvoicesOf(c))
  BY FS_Subset DEF Inv, InvoicesOf
<1>2. n \in Nat
  BY <1>1, FS_CardinalityType
<1>3. n = 0 <=> InvoicesOf(c) = {}
  BY <1>1, FS_EmptySet
<1>4. {invoices[i].sequence : i \in InvoicesOf(c)} = 1..n
  BY DEF Inv, NumberedInSequence
<1>5. CASE n = 0
  BY <1>1, <1>3, <1>5 DEF NextSequence
<1>6. CASE n # 0
  <2>1. Max({invoices[i].sequence : i \in InvoicesOf(c)}) = n
    BY <1>2, <1>4, <1>6, MaxOfSegment
  <2> QED
    BY <1>1, <1>2, <1>3, <1>6, <2>1 DEF NextSequence
<1> QED
  BY <1>5, <1>6

(* A step that keeps each invoice's contract and number keeps the numbering *)
LEMMA SameNumbering ==
    ASSUME Inv, DOMAIN invoices' = DOMAIN invoices,
           \A i \in DOMAIN invoices : /\ invoices'[i].contract = invoices[i].contract
                                      /\ invoices'[i].sequence = invoices[i].sequence
    PROVE  NumberedInSequence' /\ IsFiniteSet(DOMAIN invoices')
<1> SUFFICES ASSUME NEW c \in Contracts
             PROVE  {invoices[i].sequence : i \in InvoicesOf(c)}'
                        = (1..Cardinality(InvoicesOf(c)))'
  BY DEF Inv, NumberedInSequence
<1>1. InvoicesOf(c)' = InvoicesOf(c)
  BY DEF InvoicesOf
<1>2. {invoices[i].sequence : i \in InvoicesOf(c)}'
         = {invoices[i].sequence : i \in InvoicesOf(c)}
  BY <1>1 DEF InvoicesOf
<1> QED
  BY <1>1, <1>2 DEF Inv, NumberedInSequence

LEMMA OneMoreNumber ==
    ASSUME Inv, NEW c \in Contracts, NEW i \in Invoices \ DOMAIN invoices,
           NEW row, row.contract = c, row.sequence = NextSequence(c),
           invoices' = Put(invoices, i, row)
    PROVE  NumberedInSequence' /\ IsFiniteSet(DOMAIN invoices')
<1>1. /\ DOMAIN invoices' = DOMAIN invoices \cup {i}
      /\ invoices'[i] = row
      /\ \A j \in DOMAIN invoices : invoices'[j] = invoices[j]
  BY DEF Put
<1>2. IsFiniteSet(DOMAIN invoices')
  BY <1>1, FS_AddElement DEF Inv
<1>3. ASSUME NEW k \in Contracts, k # c
      PROVE  {invoices[j].sequence : j \in InvoicesOf(k)}'
                 = (1..Cardinality(InvoicesOf(k)))'
  <2>1. InvoicesOf(k)' = InvoicesOf(k)
    BY <1>1, <1>3 DEF InvoicesOf
  <2>2. {invoices[j].sequence : j \in InvoicesOf(k)}'
           = {invoices[j].sequence : j \in InvoicesOf(k)}
    BY <1>1, <2>1 DEF InvoicesOf
  <2> QED
    BY <2>1, <2>2 DEF Inv, NumberedInSequence
<1>4. {invoices[j].sequence : j \in InvoicesOf(c)}' = (1..Cardinality(InvoicesOf(c)))'
  <2> DEFINE n == Cardinality(InvoicesOf(c))
  <2>0. IsFiniteSet(InvoicesOf(c)) /\ n \in Nat /\ NextSequence(c) = n + 1
    BY NextSequenceCounts
  <2>1. InvoicesOf(c)' = InvoicesOf(c) \cup {i}
    BY <1>1 DEF InvoicesOf
  <2>2. i \notin InvoicesOf(c)
    BY DEF InvoicesOf
  <2>3. Cardinality(InvoicesOf(c)') = n + 1
    <3> HIDE DEF n
    <3>1. ASSUME NEW S, IsFiniteSet(S), i \notin S
          PROVE  Cardinality(S \cup {i}) = Cardinality(S) + 1
      BY <3>1, FS_AddElement
    <3>2. Cardinality(InvoicesOf(c) \cup {i}) = Cardinality(InvoicesOf(c)) + 1
      BY <2>0, <2>2, <3>1
    <3> QED  BY <2>1, <3>2 DEF n
  <2>4. {invoices[j].sequence : j \in InvoicesOf(c)}'
           = {invoices[j].sequence : j \in InvoicesOf(c)} \cup {n + 1}
    <3>1. {invoices[j].sequence : j \in InvoicesOf(c)}'
             = {invoices'[j].sequence : j \in InvoicesOf(c)'}
      OBVIOUS
    <3>2. InvoicesOf(c) \subseteq DOMAIN invoices
      BY DEF InvoicesOf
    <3>3. /\ invoices'[i].sequence = n + 1
          /\ \A j \in InvoicesOf(c) : invoices'[j].sequence = invoices[j].sequence
      BY <1>1, <2>0, <3>2
    <3> HIDE DEF n
    <3> QED
      BY <2>1, <3>1, <3>3
  <2>5. {invoices[j].sequence : j \in InvoicesOf(c)} = 1..n
    BY DEF Inv, NumberedInSequence
  <2> HIDE DEF n
  <2>6. (1..n) \cup {n + 1} = 1..(n + 1)
    BY <2>0
  <2>7. (1..Cardinality(InvoicesOf(c)))' = 1..(n + 1)
    BY <2>3
  <2> QED
    BY <2>4, <2>5, <2>6, <2>7
<1> QED
  BY <1>2, <1>3, <1>4 DEF NumberedInSequence

-----------------------------------------------------------------------------
(* Types *)

LEMMA InitInv == Init /\ BillingInit => Inv
<1> SUFFICES ASSUME Init, BillingInit PROVE Inv
  OBVIOUS
<1>1. TrackingTypeOK
  BY InitTyped
<1>2. DOMAIN invoices = {} /\ DOMAIN disbursements = {} /\ DOMAIN entries = {}
  BY DEF Init, BillingInit
<1>3. BillingTablesOK
  BY <1>2 DEF BillingInit, BillingTablesOK
<1>4. ClaimsConsistent
  BY <1>2 DEF ClaimsConsistent
<1>5. NumberedInSequence
  <2>1. ASSUME NEW c \in Contracts PROVE InvoicesOf(c) = {}
    BY <1>2 DEF InvoicesOf
  <2> QED
    BY <2>1, FS_EmptySet DEF NumberedInSequence
<1> QED
  BY <1>1, <1>2, <1>3, <1>4, <1>5, FS_EmptySet DEF Inv, TypeOK

(* What SetBilling does to the sessions table *)
LEMMA SetBillingRows ==
    ASSUME TrackingTypeOK, NEW claims, NEW billing \in BillingStatus,
           NEW i \in Invoices \cup {NoInvoice}, SetBilling(claims, billing, i)
    PROVE  /\ DOMAIN entries' = DOMAIN entries
           /\ entries' \in [DOMAIN entries -> EntryRow]
           /\ \A e \in DOMAIN entries :
                 IF e \in claims
                 THEN entries'[e].billing = billing /\ entries'[e].invoice = i
                 ELSE entries'[e] = entries[e]
<1>1. ASSUME NEW row \in EntryRow
      PROVE  LET billed == [row EXCEPT !.billing = billing, !.invoice = i]
             IN  /\ billed \in EntryRow
                 /\ billed.billing = billing
                 /\ billed.invoice = i
  BY DEF EntryRow
<1>2. entries \in [DOMAIN entries -> EntryRow]
  BY DEF TrackingTypeOK, TablesOK
<1> QED
  BY <1>1, <1>2 DEF SetBilling

(* An invoicing step leaves the other tables and the write sets alone.     *)
LEMMA InvoicingKeepsTracking ==
    ASSUME TrackingTypeOK, DOMAIN entries' = DOMAIN entries,
           entries' \in [DOMAIN entries -> EntryRow],
           UNCHANGED <<clients, contracts, tasks, subtasks, details, enabled,
                       requests, now>>
    PROVE  TrackingTypeOK'
BY DEF TrackingTypeOK, TablesOK, WritesOK, WriteOK

LEMMA PreviewTyped ==
    ASSUME TypeOK, NEW c \in Contracts, NEW from \in Time, NEW to \in Time
    PROVE  PreviewOf(c, from, to) \in Preview
<1>1. Eligible(c, from, to) \subseteq DOMAIN entries
  BY DEF Eligible, WorkOf, VisibleEntries
<1>2. \A row \in EntryRow : LineOf(row) \in Line
  BY DEF LineOf, LoadedSubtask, Line, EntryRow
<1>3. LinesFor(c, from, to) \in [Eligible(c, from, to) -> Line]
  BY <1>1, <1>2 DEF LinesFor, TypeOK, TrackingTypeOK, TablesOK
<1>4. LinesFor(c, from, to) \in UNION {[S -> Line] : S \in SUBSET Entries}
  BY <1>1, <1>3 DEF TypeOK, TrackingTypeOK, TablesOK
<1> QED
  BY <1>4 DEF PreviewOf, Preview, TypeOK, TrackingTypeOK, TablesOK

LEMMA RangeStartsAreTimes ==
    ASSUME TypeOK, NEW c \in Contracts
    PROVE  RangeStarts(c) \subseteq Time
<1>1. \A i \in DOMAIN invoices : invoices[i].to \in Time
  BY DEF TypeOK, BillingTablesOK, InvoiceRow
<1>2. \A e \in DOMAIN entries : entries[e].start \in Time
  BY DEF TypeOK, TrackingTypeOK, TablesOK, EntryRow
<1>3. Latest(c) \subseteq DOMAIN invoices
  BY DEF Latest, InvoicesOf
<1>4. Eligible(c, 0, now) \subseteq DOMAIN entries
  BY DEF Eligible, WorkOf, VisibleEntries
<1> QED
  BY <1>1, <1>2, <1>3, <1>4 DEF RangeStarts

-----------------------------------------------------------------------------
(* Invoicing, one lemma for each operation *)

LEMMA PreviewStep ==
    ASSUME Inv, NEW c \in Contracts, NEW from \in Time, NEW to \in Time,
           PreviewCustom(c, from, to)
    PROVE  Inv'
<1>1. draft' \in Preview
  BY PreviewTyped DEF PreviewCustom, Inv
<1>2. UNCHANGED <<dbVars, invoices, disbursements>>
  BY DEF PreviewCustom
<1>3. TrackingTypeOK'
  BY <1>2, InvoicingKeepsTracking DEF Inv, TypeOK, dbVars, tables, TrackingTypeOK, TablesOK
<1>4. BillingTablesOK'
  BY <1>1, <1>2 DEF Inv, TypeOK, BillingTablesOK
<1>5. ClaimsConsistent'
  BY <1>2 DEF Inv, ClaimsConsistent, InvoiceClaimsConsistent, EntryClaimConsistent,
              Claimed, dbVars, tables
<1>6. NumberedInSequence' /\ IsFiniteSet(DOMAIN invoices')
  BY <1>2, SameNumbering
<1> QED
  BY <1>3, <1>4, <1>5, <1>6 DEF Inv, TypeOK

LEMMA CreateInvoiceStep ==
    ASSUME Inv, NEW i \in Invoices \ DOMAIN invoices, CreateInvoice(i)
    PROVE  Inv'
<1> DEFINE c == draft.contract
           claims == DOMAIN draft.lines
<1>1. /\ draft \in Preview
      /\ claims = Eligible(c, draft.from, draft.to)
  <2>1. draft = PreviewOf(c, draft.from, draft.to)
    BY DEF CreateInvoice, Unchanged
  <2>2. draft.lines = LinesFor(c, draft.from, draft.to)
    BY <2>1 DEF PreviewOf
  <2> QED
    BY <2>2 DEF CreateInvoice, Inv, TypeOK, BillingTablesOK, LinesFor
<1>2. c \in Contracts
  BY <1>1 DEF Preview
<1>3. /\ claims \subseteq DOMAIN entries
      /\ \A e \in claims : entries[e].billing = "pending_invoice"
  BY <1>1 DEF Eligible, WorkOf, VisibleEntries
<1>4. /\ DOMAIN entries' = DOMAIN entries
      /\ entries' \in [DOMAIN entries -> EntryRow]
      /\ \A e \in DOMAIN entries :
            IF e \in claims
            THEN entries'[e].billing = "invoiced" /\ entries'[e].invoice = i
            ELSE entries'[e] = entries[e]
  BY SetBillingRows DEF CreateInvoice, BillingStatus, Inv, TypeOK
<1>5. /\ DOMAIN invoices' = DOMAIN invoices \cup {i}
      /\ invoices'[i] = NewInvoice(draft)
      /\ \A j \in DOMAIN invoices : invoices'[j] = invoices[j]
  BY DEF CreateInvoice, Put
<1>6. TrackingTypeOK'
  BY <1>4, InvoicingKeepsTracking DEF CreateInvoice, Inv, TypeOK
<1>7. BillingTablesOK'
  <2>1. NextSequence(c) \in Nat \ {0}
    BY <1>2, NextSequenceCounts
  <2>2. NewInvoice(draft) \in InvoiceRow
    BY <1>1, <2>1 DEF NewInvoice, InvoiceRow, Preview, Status
  <2>3. invoices' \in [DOMAIN invoices' -> InvoiceRow]
    <3>1. invoices' = [j \in DOMAIN invoices' |-> invoices'[j]]
      BY DEF CreateInvoice, Put
    <3> QED
      BY <1>5, <2>2, <3>1 DEF Inv, TypeOK, BillingTablesOK
  <2> QED
    BY <1>5, <2>3 DEF CreateInvoice, Inv, TypeOK, BillingTablesOK
<1>8. ClaimsConsistent'
  <2>1. \A e \in DOMAIN entries : entries[e].invoice # i
    BY NullAssumption DEF Inv, ClaimsConsistent, EntryClaimConsistent
  <2>2. Claimed(i)' = claims
    BY <1>3, <1>4, <2>1 DEF Claimed
  <2>3. InvoiceClaimsConsistent(i)'
    <3>1. invoices'[i].status = "UNPAID" /\ invoices'[i].lines = draft.lines
      BY <1>5 DEF NewInvoice
    <3>2. \A e \in claims : entries'[e].billing = "invoiced"
      BY <1>3, <1>4
    <3> QED
      BY <2>2, <3>1, <3>2 DEF InvoiceClaimsConsistent, BillingOf
  <2>4. ASSUME NEW j \in DOMAIN invoices PROVE InvoiceClaimsConsistent(j)'
    <3>1. \A e \in claims : entries[e].invoice = NoInvoice
      BY <1>3 DEF Inv, ClaimsConsistent, EntryClaimConsistent
    <3>2. j \in Invoices /\ j # NoInvoice /\ j # i
      BY NullAssumption DEF Inv, TypeOK, BillingTablesOK
    <3>3. Claimed(j)' = Claimed(j) /\ \A e \in Claimed(j) : entries'[e] = entries[e]
      BY <1>3, <1>4, <3>1, <3>2 DEF Claimed
    <3> QED
      BY <1>5, <3>3 DEF Inv, ClaimsConsistent, InvoiceClaimsConsistent
  <2>5. ASSUME NEW e \in DOMAIN entries PROVE EntryClaimConsistent(e)'
    BY <1>4, <1>5 DEF Inv, ClaimsConsistent, EntryClaimConsistent
  <2> QED
    BY <1>4, <1>5, <2>3, <2>4, <2>5 DEF ClaimsConsistent
<1>9. NumberedInSequence' /\ IsFiniteSet(DOMAIN invoices')
  BY <1>2, OneMoreNumber DEF CreateInvoice, NewInvoice
<1> QED
  BY <1>6, <1>7, <1>8, <1>9 DEF Inv, TypeOK

(* What settling, refunding or voiding invoice i does to its claims, which *)
(* get the billing status that goes with the new status of the invoice.    *)
LEMMA SettleStep ==
    ASSUME Inv, NEW i \in DOMAIN invoices, NEW row \in InvoiceRow,
           NEW billing \in BillingStatus, NEW holder \in {i, NoInvoice},
           invoices' = [invoices EXCEPT ![i] = row],
           row.contract = invoices[i].contract,
           row.sequence = invoices[i].sequence,
           row.lines = invoices[i].lines,
           invoices[i].status # "VOID",
           IF row.status = "VOID"
           THEN holder = NoInvoice /\ billing = "pending_invoice"
           ELSE holder = i /\ billing = BillingOf(row.status),
           SetBilling(Claimed(i), billing, holder),
           UNCHANGED <<clients, contracts, tasks, subtasks, details, enabled,
                       requests, now, disbursements, draft>>
    PROVE  Inv'
<1>0. i \in Invoices /\ i # NoInvoice
  BY NullAssumption DEF Inv, TypeOK, BillingTablesOK
<1>1. /\ DOMAIN entries' = DOMAIN entries
      /\ entries' \in [DOMAIN entries -> EntryRow]
      /\ \A e \in DOMAIN entries :
            IF e \in Claimed(i)
            THEN entries'[e].billing = billing /\ entries'[e].invoice = holder
            ELSE entries'[e] = entries[e]
  <2>1. holder \in Invoices \cup {NoInvoice} /\ TrackingTypeOK
    BY <1>0 DEF Inv, TypeOK
  <2> DEFINE claims == Claimed(i)
  <2>2. SetBilling(claims, billing, holder)
    OBVIOUS
  <2> HIDE DEF claims
  <2>3. /\ DOMAIN entries' = DOMAIN entries
        /\ entries' \in [DOMAIN entries -> EntryRow]
        /\ \A e \in DOMAIN entries :
              IF e \in claims
              THEN entries'[e].billing = billing /\ entries'[e].invoice = holder
              ELSE entries'[e] = entries[e]
    BY <2>1, <2>2, SetBillingRows
  <2> QED
    BY <2>3 DEF claims
<1>2. TrackingTypeOK'
  BY <1>1, InvoicingKeepsTracking DEF Inv, TypeOK
<1>3. /\ DOMAIN invoices' = DOMAIN invoices
      /\ invoices'[i] = row
      /\ \A j \in DOMAIN invoices : j # i => invoices'[j] = invoices[j]
  OBVIOUS
<1>4. BillingTablesOK'
  BY DEF Inv, TypeOK, BillingTablesOK
<1>5. Claimed(i) = DOMAIN invoices[i].lines /\ Claimed(i) \subseteq DOMAIN entries
  BY DEF Inv, ClaimsConsistent, InvoiceClaimsConsistent, Claimed
<1>6. InvoiceClaimsConsistent(i)'
  <2>1. CASE row.status = "VOID"
    <3>1. Claimed(i)' = {}
      BY <1>0, <1>1, <2>1 DEF Claimed
    <3> QED
      BY <1>3, <2>1, <3>1 DEF InvoiceClaimsConsistent
  <2>2. CASE row.status # "VOID"
    <3>1. Claimed(i)' = Claimed(i)
      BY <1>1, <2>2 DEF Claimed
    <3> QED
      BY <1>1, <1>3, <1>5, <2>2, <3>1 DEF InvoiceClaimsConsistent
  <2> QED
    BY <2>1, <2>2
<1>7. ASSUME NEW j \in DOMAIN invoices, j # i PROVE InvoiceClaimsConsistent(j)'
  <2>1. j # NoInvoice
    BY NullAssumption DEF Inv, TypeOK, BillingTablesOK
  <2>2. Claimed(j)' = Claimed(j) /\ \A e \in Claimed(j) : entries'[e] = entries[e]
    BY <1>1, <1>7, <2>1 DEF Claimed
  <2> QED
    BY <1>3, <1>7, <2>2 DEF Inv, ClaimsConsistent, InvoiceClaimsConsistent
<1>8. ASSUME NEW e \in DOMAIN entries PROVE EntryClaimConsistent(e)'
  BY <1>1, <1>3 DEF Inv, ClaimsConsistent, EntryClaimConsistent, BillingOf
<1>9. ClaimsConsistent'
  BY <1>1, <1>3, <1>6, <1>7, <1>8 DEF ClaimsConsistent
<1>10. NumberedInSequence' /\ IsFiniteSet(DOMAIN invoices')
  BY <1>3, SameNumbering
<1> QED
  BY <1>2, <1>4, <1>9, <1>10 DEF Inv, TypeOK

LEMMA MarkInvoicePaidStep ==
    ASSUME Inv, NEW i \in DOMAIN invoices, NEW ref \in Refs, MarkInvoicePaid(i, ref)
    PROVE  Inv'
<1> DEFINE row == [invoices[i] EXCEPT !.status = "PAID", !.paidRef = ref]
<1>1. invoices[i] \in InvoiceRow
  BY DEF Inv, TypeOK, BillingTablesOK
<1>2. /\ row \in InvoiceRow
      /\ row.contract = invoices[i].contract
      /\ row.sequence = invoices[i].sequence
      /\ row.lines = invoices[i].lines
      /\ row.status = "PAID"
  BY <1>1 DEF InvoiceRow, Status
<1>3. invoices' = [invoices EXCEPT ![i] = row]
  BY DEF MarkInvoicePaid
<1> HIDE DEF row
<1> QED
  BY <1>2, <1>3, SettleStep DEF MarkInvoicePaid, BillingOf, BillingStatus

LEMMA VoidInvoiceStep ==
    ASSUME Inv, NEW i \in DOMAIN invoices, VoidInvoice(i)
    PROVE  Inv'
<1> DEFINE row == [invoices[i] EXCEPT !.status = "VOID"]
<1>1. invoices[i] \in InvoiceRow
  BY DEF Inv, TypeOK, BillingTablesOK
<1>2. /\ row \in InvoiceRow
      /\ row.contract = invoices[i].contract
      /\ row.sequence = invoices[i].sequence
      /\ row.lines = invoices[i].lines
      /\ row.status = "VOID"
  BY <1>1 DEF InvoiceRow, Status
<1>3. invoices' = [invoices EXCEPT ![i] = row]
  BY DEF VoidInvoice
<1> HIDE DEF row
<1> QED
  BY <1>2, <1>3, SettleStep DEF VoidInvoice, BillingStatus

LEMMA RefundInvoiceStep ==
    ASSUME Inv, NEW i \in DOMAIN invoices, NEW ref \in Refs, RefundInvoice(i, ref)
    PROVE  Inv'
<1> DEFINE row == [invoices[i] EXCEPT !.refunded = TRUE, !.refundRef = ref]
<1>1. invoices[i] \in InvoiceRow
  BY DEF Inv, TypeOK, BillingTablesOK
<1>2. /\ row \in InvoiceRow
      /\ row.contract = invoices[i].contract
      /\ row.sequence = invoices[i].sequence
      /\ row.lines = invoices[i].lines
      /\ row.status = invoices[i].status
  BY <1>1 DEF InvoiceRow
<1>3. invoices' = [invoices EXCEPT ![i] = row]
  BY DEF RefundInvoice
<1> HIDE DEF row
<1>4. /\ DOMAIN invoices' = DOMAIN invoices
      /\ invoices'[i] = row
      /\ \A j \in DOMAIN invoices : j # i => invoices'[j] = invoices[j]
  BY <1>3
<1>5. UNCHANGED <<dbVars, disbursements, draft>>
  BY DEF RefundInvoice
<1>6. TrackingTypeOK'
  BY <1>5, InvoicingKeepsTracking DEF Inv, TypeOK, dbVars, tables, TrackingTypeOK, TablesOK
<1>7. BillingTablesOK'
  BY <1>2, <1>3, <1>5 DEF Inv, TypeOK, BillingTablesOK
<1>8. ClaimsConsistent'
  BY <1>2, <1>4, <1>5 DEF Inv, ClaimsConsistent, InvoiceClaimsConsistent,
                          EntryClaimConsistent, Claimed, dbVars, tables
<1>9. NumberedInSequence' /\ IsFiniteSet(DOMAIN invoices')
  BY <1>2, <1>4, SameNumbering
<1> QED
  BY <1>6, <1>7, <1>8, <1>9 DEF Inv, TypeOK

LEMMA CreateDisbursementStep ==
    ASSUME Inv, NEW d \in Disbursements \ DOMAIN disbursements, NEW u \in Users,
           NEW kind \in Kinds, NEW amount \in 1..MaxAmount,
           NEW ref \in Refs \cup {NoRef}, CreateDisbursement(d, u, kind, amount, ref)
    PROVE  Inv'
<1> DEFINE row == [user |-> u, kind |-> kind, amount |-> amount, ref |-> ref]
<1>1. row \in DisbursementRow
  BY DEF DisbursementRow
<1>2. disbursements' = Put(disbursements, d, row) /\ UNCHANGED <<dbVars, invoices, draft>>
  BY DEF CreateDisbursement
<1> HIDE DEF row
<1>3. /\ DOMAIN disbursements' \subseteq Disbursements
      /\ disbursements' \in [DOMAIN disbursements' -> DisbursementRow]
  BY <1>1, <1>2 DEF Put, Inv, TypeOK, BillingTablesOK
<1>4. TrackingTypeOK'
  BY <1>2, InvoicingKeepsTracking DEF Inv, TypeOK, dbVars, tables, TrackingTypeOK, TablesOK
<1>5. BillingTablesOK'
  BY <1>2, <1>3 DEF Inv, TypeOK, BillingTablesOK
<1>6. ClaimsConsistent'
  BY <1>2 DEF Inv, ClaimsConsistent, InvoiceClaimsConsistent, EntryClaimConsistent,
              Claimed, dbVars, tables
<1>7. NumberedInSequence' /\ IsFiniteSet(DOMAIN invoices')
  BY <1>2, SameNumbering
<1> QED
  BY <1>4, <1>5, <1>6, <1>7 DEF Inv, TypeOK

-----------------------------------------------------------------------------
(* Time tracking adds pending sessions and rebills none, so that the claims *)
(* of every invoice stay as they are.                                       *)
LEMMA TrackingKeepsInv ==
    ASSUME Inv, [TrackingNext]_dbVars, UNCHANGED billingVars
    PROVE  Inv'
<1>1. TrackingTypeOK' /\ BillingUntouched
  BY TrackingStep DEF Inv, TypeOK
<1>2. UNCHANGED <<invoices, disbursements, draft>>
  BY DEF billingVars
<1>3. BillingTablesOK'
  BY <1>2 DEF Inv, TypeOK, BillingTablesOK
<1>4. ASSUME NEW i \in DOMAIN invoices
      PROVE  /\ Claimed(i)' = Claimed(i)
             /\ \A e \in Claimed(i) : entries'[e].billing = entries[e].billing
  <2>1. i # NoInvoice
    BY NullAssumption DEF Inv, TypeOK, BillingTablesOK
  <2> QED
    BY <1>1, <2>1 DEF BillingUntouched, Claimed
<1>5. ASSUME NEW i \in DOMAIN invoices PROVE InvoiceClaimsConsistent(i)'
  BY <1>2, <1>4 DEF Inv, ClaimsConsistent, InvoiceClaimsConsistent
<1>6. ASSUME NEW e \in DOMAIN entries' PROVE EntryClaimConsistent(e)'
  BY <1>1, <1>2 DEF Inv, ClaimsConsistent, EntryClaimConsistent, BillingUntouched
<1>7. ClaimsConsistent'
  BY <1>2, <1>5, <1>6 DEF ClaimsConsistent
<1>8. NumberedInSequence' /\ IsFiniteSet(DOMAIN invoices')
  BY <1>2, SameNumbering
<1> QED
  BY <1>1, <1>3, <1>7, <1>8 DEF Inv, TypeOK

LEMMA InvoicingKeepsInv == ASSUME Inv, InvoicingNext PROVE Inv'
<1>1. ASSUME NEW c \in Contracts, PreviewSinceLast(c) PROVE Inv'
  <2>1. PICK from \in RangeStarts(c) : PreviewCustom(c, from, now)
    BY <1>1 DEF PreviewSinceLast
  <2>2. from \in Time /\ now \in Time
    BY RangeStartsAreTimes DEF Inv, TypeOK, TrackingTypeOK, TablesOK
  <2> QED
    BY <2>1, <2>2, PreviewStep
<1> QED
  BY <1>1, PreviewStep, CreateInvoiceStep, VoidInvoiceStep, MarkInvoicePaidStep,
     RefundInvoiceStep, CreateDisbursementStep
     DEF InvoicingNext

LEMMA InvIsInvariant == Spec => []Inv
<1>1. Inv /\ [Next]_vars => Inv'
  <2> SUFFICES ASSUME Inv, [Next]_vars PROVE Inv'
    OBVIOUS
  <2>1. CASE UNCHANGED vars
    BY <2>1, TrackingKeepsInv DEF vars
  <2>2. CASE TrackingNext /\ UNCHANGED billingVars
    BY <2>2, TrackingKeepsInv
  <2>3. CASE InvoicingNext
    BY <2>3, InvoicingKeepsInv
  <2> QED
    BY <2>1, <2>2, <2>3 DEF Next
<1> QED
  BY InitInv, <1>1, PTL DEF Spec

-----------------------------------------------------------------------------
(* Every table, write set and draft always has its type.                   *)
THEOREM BillingTypeCorrect == Spec => []TypeOK
<1>1. Inv => TypeOK
  BY DEF Inv
<1> QED
  BY InvIsInvariant, <1>1, PTL

(* The sessions an invoice claims are always its lines, with the billing   *)
(* status of the invoice, and a session is pending exactly when nothing    *)
(* claims it: for any number of threads, sessions and invoices.            *)
THEOREM ClaimsStayConsistent == Spec => []ClaimsConsistent
<1>1. Inv => ClaimsConsistent
  BY DEF Inv
<1> QED
  BY InvIsInvariant, <1>1, PTL

(* No session is ever on two invoices that are not void.                   *)
THEOREM NothingBilledTwice == Spec => []NoDoubleBilling
<1>1. Inv => NoDoubleBilling
  <2> SUFFICES ASSUME Inv, NEW i \in Live, NEW j \in Live, i # j,
                      NEW e \in DOMAIN invoices[i].lines,
                      e \in DOMAIN invoices[j].lines
               PROVE  FALSE
    BY DEF NoDoubleBilling
  <2>1. entries[e].invoice = i /\ entries[e].invoice = j
    BY DEF Inv, ClaimsConsistent, InvoiceClaimsConsistent, Live, Claimed
  <2> QED
    BY <2>1
<1> QED
  BY InvIsInvariant, <1>1, PTL

(* The invoices of a contract are always numbered without gap or repetition. *)
THEOREM NumbersHaveNoGaps == Spec => []NumberedInSequence
<1>1. Inv => NumberedInSequence
  BY DEF Inv
<1> QED
  BY InvIsInvariant, <1>1, PTL

(* An invoice bills its sessions and its contract as they are recorded at  *)
(* the moment it is created, however old the preview it was created from.  *)
THEOREM InvoicesBillWhatIsRecorded == Spec => BillsWhatIsRecorded
<1> DEFINE Billed ==
      \A i \in DOMAIN invoices' \ DOMAIN invoices :
          /\ invoices'[i].details = details[invoices'[i].contract]
          /\ \A e \in DOMAIN invoices'[i].lines :
                /\ e \in VisibleEntries
                /\ invoices'[i].lines[e] = LineOf(entries[e])
<1>1. [Next]_vars => [Billed]_vars
  <2> SUFFICES ASSUME [Next]_vars PROVE Billed \/ UNCHANGED vars
    OBVIOUS
  <2>1. CASE DOMAIN invoices' \subseteq DOMAIN invoices
    BY <2>1
  <2>2. ASSUME NEW i, CreateInvoice(i) PROVE Billed
    <3> DEFINE c == draft.contract
    <3>1. draft = PreviewOf(c, draft.from, draft.to)
      BY <2>2 DEF CreateInvoice, Unchanged
    <3>2. /\ draft.details = details[c]
          /\ draft.lines = LinesFor(c, draft.from, draft.to)
      BY <3>1 DEF PreviewOf
    <3>3. invoices' = Put(invoices, i, NewInvoice(draft))
      BY <2>2 DEF CreateInvoice
    <3>4. \A j \in DOMAIN invoices' \ DOMAIN invoices : invoices'[j] = NewInvoice(draft)
      BY <3>3 DEF Put
    <3>5. \A e \in DOMAIN draft.lines :
             e \in VisibleEntries /\ draft.lines[e] = LineOf(entries[e])
      BY <3>2 DEF LinesFor, Eligible, WorkOf
    <3> QED
      BY <3>2, <3>4, <3>5 DEF NewInvoice
  <2>3. CASE UNCHANGED invoices
    BY <2>3, <2>1
  <2>4. ASSUME NEW i \in DOMAIN invoices, NEW ref,
               VoidInvoice(i) \/ MarkInvoicePaid(i, ref) \/ RefundInvoice(i, ref)
        PROVE  Billed
    <3>1. DOMAIN invoices' = DOMAIN invoices
      BY <2>4 DEF VoidInvoice, MarkInvoicePaid, RefundInvoice
    <3> QED BY <3>1
  <2> QED
    BY <2>2, <2>3, <2>4 DEF Next, billingVars, InvoicingNext, PreviewSinceLast,
       PreviewCustom, CreateDisbursement
<1> QED
  BY <1>1, PTL DEF Spec, BillsWhatIsRecorded

-----------------------------------------------------------------------------
(* Billing implements Settlement: what each step does to the sessions that *)
(* may be billed and to the two accounts.                                  *)
Unbilled == {e \in VisibleEntries : entries[e].billing = "pending_invoice"}

Deleted == DOMAIN entries \ VisibleEntries

Separate == Unbilled \subseteq Entries \ (Settled!Billed \cup Deleted)

LEMMA UnbilledIsOnNoAccount == ASSUME Inv PROVE Separate
<1>1. DOMAIN entries \subseteq Entries
  BY DEF Inv, TypeOK, TrackingTypeOK, TablesOK
<1>2. ASSUME NEW e \in Unbilled, NEW i \in DOMAIN invoices,
             invoices[i].status \in {"UNPAID", "PAID"}, e \in DOMAIN invoices[i].lines
      PROVE  FALSE
  <2>1. e \in Claimed(i) /\ entries[e].billing = BillingOf(invoices[i].status)
    BY <1>2 DEF Inv, ClaimsConsistent, InvoiceClaimsConsistent
  <2> QED
    BY <1>2, <2>1 DEF Unbilled, BillingOf
<1> QED
  BY <1>1, <1>2 DEF Separate, Unbilled, Deleted, VisibleEntries, Account,
                    Settled!Billed, Settled!BilledOn

(* The invariant of time tracking, which keeps the deleted sessions deleted, *)
(* holds beside invoicing: that changes the billing columns alone.           *)
LEMMA SetBillingIsSafe ==
    ASSUME SafeInv, NEW claims, NEW billing, NEW i, SetBilling(claims, billing, i),
           UNCHANGED <<contracts, requests, now>>, TrackingTypeOK'
    PROVE  SafeInv'
<1>1. ASSUME NEW row \in EntryRow
      PROVE  LET billed == [row EXCEPT !.billing = billing, !.invoice = i]
             IN  /\ billed.user = row.user /\ billed.visible = row.visible
                 /\ billed.start = row.start /\ billed.stop = row.stop
                 /\ billed.task = row.task /\ billed.subtask = row.subtask
  BY DEF EntryRow
<1>2. /\ DOMAIN entries' = DOMAIN entries
      /\ \A e \in DOMAIN entries :
            /\ entries'[e].user = entries[e].user
            /\ entries'[e].visible = entries[e].visible
            /\ entries'[e].start = entries[e].start /\ entries'[e].stop = entries[e].stop
            /\ entries'[e].task = entries[e].task
            /\ entries'[e].subtask = entries[e].subtask
  BY <1>1 DEF SetBilling, SafeInv, TrackingTypeOK, TablesOK
<1>3. NoOverlap'
  <2>1. VisibleEntries' = VisibleEntries
    BY <1>2 DEF VisibleEntries
  <2>2. \A e, f \in VisibleEntries :
           Overlap(entries'[e], entries'[f]) <=> Overlap(entries[e], entries[f])
    BY <1>2 DEF VisibleEntries, Overlap, EndOf
  <2> QED
    BY <1>2, <2>1, <2>2 DEF SafeInv, RowsOK, NoOverlap, VisibleEntries, Overlap, EndOf
<1>4. TimesInOrder'
  BY <1>2 DEF SafeInv, RowsOK, TimesInOrder, StopsAfterStart
<1>5. SubtaskOfItsTask'
  BY <1>2 DEF SafeInv, RowsOK, SubtaskOfItsTask, SubtaskBelongs
<1>6. \A t \in Threads : PendingOK(requests[t])'
  BY DEF SafeInv, PendingOK
<1> QED
  BY <1>3, <1>4, <1>5, <1>6 DEF SafeInv, RowsOK

LEMMA InvoicingIsSafe ==
    ASSUME Inv, SafeInv, InvoicingNext PROVE SafeInv'
<1>0. TrackingTypeOK'
  BY InvoicingKeepsInv DEF Inv, TypeOK
<1>1. CASE UNCHANGED dbVars
  BY <1>1, StepIsSafe
<1>2. ASSUME NEW claims, NEW billing, NEW i, SetBilling(claims, billing, i),
             UNCHANGED <<contracts, requests, now>>
      PROVE  SafeInv'
  BY <1>0, <1>2, SetBillingIsSafe
<1>3. ASSUME NEW i, CreateInvoice(i) \/ VoidInvoice(i) PROVE SafeInv'
  BY <1>2, <1>3 DEF CreateInvoice, VoidInvoice
<1>4. ASSUME NEW i, NEW ref, MarkInvoicePaid(i, ref) PROVE SafeInv'
  BY <1>2, <1>4 DEF MarkInvoicePaid
<1>5. ASSUME NEW i, NEW ref, RefundInvoice(i, ref) PROVE SafeInv'
  BY <1>1, <1>5 DEF RefundInvoice
<1> QED
  BY <1>1, <1>3, <1>4, <1>5
     DEF InvoicingNext, PreviewSinceLast, PreviewCustom, CreateDisbursement

LEMMA BillingIsSafe == Spec => []SafeInv
<1>1. Inv /\ SafeInv /\ [Next]_vars => SafeInv'
  BY StepIsSafe, InvoicingIsSafe DEF Next, vars
<1> QED
  BY InitIsSafe, InvIsInvariant, <1>1, PTL DEF Spec

(* However invoices and corrections interleave, sessions stay apart: the   *)
(* promise of time tracking survives the composition.                      *)
THEOREM BillingKeepsSessionsApart == Spec => []NoOverlap
<1>1. SafeInv => NoOverlap
  BY DEF SafeInv, RowsOK
<1> QED
  BY BillingIsSafe, <1>1, PTL

LEMMA TrackingWorks ==
    ASSUME SafeInv, [TrackingNext]_dbVars, Separate', UNCHANGED invoices
    PROVE  Settled!Work
<1>0. Deleted \subseteq Deleted' /\ Deleted' \subseteq Entries
  <2>1. TrackingTypeOK' /\ BillingUntouched /\ SessionsKept
    BY TrackingStep, StepKeeps DEF SafeInv
  <2>2. DOMAIN entries' \subseteq Entries
    BY <2>1 DEF TrackingTypeOK, TablesOK
  <2>3. DOMAIN entries \subseteq DOMAIN entries'
    BY <2>1 DEF BillingUntouched
  <2> QED
    BY <2>1, <2>2, <2>3 DEF SessionsKept, Deleted, VisibleEntries
<1>1. Account("UNPAID")' = Account("UNPAID") /\ Account("PAID")' = Account("PAID")
  BY DEF Account
<1>2. (Settled!Billed)' = Settled!Billed
  BY <1>1 DEF Settled!Billed, Settled!BilledOn
<1>3. Unbilled' \subseteq Entries \ (Settled!Billed \cup Deleted')
  BY <1>2 DEF Separate
<1> QED
  BY <1>0, <1>1, <1>3 DEF Settled!Work, Unbilled, Deleted

(* What a change of the billing columns leaves of the sessions             *)
LEMMA BillingKeepsSessions ==
    ASSUME NEW claims, NEW billing, NEW i, SetBilling(claims, billing, i),
           entries \in [DOMAIN entries -> EntryRow]
    PROVE  /\ DOMAIN entries' = DOMAIN entries
           /\ VisibleEntries' = VisibleEntries
           /\ Deleted' = Deleted
           /\ \A e \in DOMAIN entries :
                 entries'[e].billing = IF e \in claims THEN billing ELSE entries[e].billing
<1>1. ASSUME NEW row \in EntryRow
      PROVE  LET billed == [row EXCEPT !.billing = billing, !.invoice = i]
             IN  billed.visible = row.visible /\ billed.billing = billing
  BY DEF EntryRow
<1>2. DOMAIN entries' = DOMAIN entries
  BY DEF SetBilling
<1>3. \A e \in DOMAIN entries :
         /\ entries'[e].visible = entries[e].visible
         /\ entries'[e].billing = IF e \in claims THEN billing ELSE entries[e].billing
  BY <1>1 DEF SetBilling
<1> QED
  BY <1>2, <1>3 DEF VisibleEntries, Deleted

LEMMA CreateInvoiceBills ==
    ASSUME Inv, NEW i \in Invoices \ DOMAIN invoices, CreateInvoice(i)
    PROVE  Settled!Bill(i)
<1> DEFINE S == DOMAIN draft.lines
<1>1. S = Eligible(draft.contract, draft.from, draft.to) /\ S # {}
  <2>1. draft = PreviewOf(draft.contract, draft.from, draft.to)
    BY DEF CreateInvoice, Unchanged
  <2>2. draft.lines = LinesFor(draft.contract, draft.from, draft.to)
    BY <2>1 DEF PreviewOf
  <2> QED
    BY <2>2 DEF CreateInvoice, Unchanged, Previewable, LinesFor
<1>2. S \in (SUBSET Unbilled) \ {{}}
  BY <1>1 DEF Eligible, WorkOf, Unbilled
<1>3. /\ DOMAIN entries' = DOMAIN entries
      /\ VisibleEntries' = VisibleEntries
      /\ Deleted' = Deleted
      /\ \A e \in DOMAIN entries :
            entries'[e].billing = IF e \in S THEN "invoiced" ELSE entries[e].billing
  <2>1. SetBilling(S, "invoiced", i)
    BY DEF CreateInvoice
  <2> HIDE DEF S
  <2> QED
    BY <2>1, BillingKeepsSessions DEF Inv, TypeOK, TrackingTypeOK, TablesOK
<1>4. Unbilled' = Unbilled \ S
  BY <1>3 DEF Unbilled, VisibleEntries
<1>5. /\ DOMAIN invoices' = DOMAIN invoices \cup {i}
      /\ invoices'[i].status = "UNPAID"
      /\ invoices'[i].lines = draft.lines
      /\ \A j \in DOMAIN invoices : invoices'[j] = invoices[j]
  BY DEF CreateInvoice, Put, NewInvoice
<1>6. Account("PAID")' = Account("PAID")
  BY <1>5 DEF Account
<1>7. Account("UNPAID")' = Settled!With(Account("UNPAID"), i, S)
  <2>1. DOMAIN Account("UNPAID")' = DOMAIN Account("UNPAID") \cup {i}
    BY <1>5 DEF Account
  <2>2. \A j \in DOMAIN Account("UNPAID")' :
           Account("UNPAID")'[j] = IF j = i THEN S ELSE Account("UNPAID")[j]
    BY <1>5 DEF Account
  <2>3. Account("UNPAID")' = [j \in DOMAIN Account("UNPAID")' |-> Account("UNPAID")'[j]]
    BY DEF Account
  <2> QED
    BY <2>1, <2>2, <2>3 DEF Settled!With
<1> HIDE DEF S
<1> QED
  BY <1>2, <1>3, <1>4, <1>5, <1>6, <1>7 DEF Settled!Bill, Unbilled, Deleted

(* An invoice leaves the account of what is owed.                          *)
LEMMA LeavesTheAccount ==
    ASSUME Inv, NEW i \in DOMAIN invoices, NEW status \in {"PAID", "VOID"},
           invoices[i].status = "UNPAID",
           DOMAIN invoices' = DOMAIN invoices,
           invoices'[i].status = status,
           \A j \in DOMAIN invoices : j # i => invoices'[j] = invoices[j]
    PROVE  /\ i \in DOMAIN Account("UNPAID")
           /\ Account("UNPAID")[i] = DOMAIN invoices[i].lines
           /\ Account("UNPAID")' = Settled!Without(Account("UNPAID"), i)
<1>1. DOMAIN Account("UNPAID")' = DOMAIN Account("UNPAID") \ {i}
  BY DEF Account
<1>2. \A j \in DOMAIN Account("UNPAID")' :
         Account("UNPAID")'[j] = Account("UNPAID")[j]
  BY DEF Account
<1>3. Account("UNPAID")' = [j \in DOMAIN Account("UNPAID")' |-> Account("UNPAID")'[j]]
  BY DEF Account
<1> QED
  BY <1>1, <1>2, <1>3 DEF Account, Settled!Without

LEMMA MarkInvoicePaidPays ==
    ASSUME Inv, NEW i \in DOMAIN invoices, NEW ref \in Refs, MarkInvoicePaid(i, ref)
    PROVE  Settled!Pay(i)
<1>1. invoices[i] \in InvoiceRow
  BY DEF Inv, TypeOK, BillingTablesOK
<1>2. /\ DOMAIN invoices' = DOMAIN invoices
      /\ invoices'[i].status = "PAID"
      /\ invoices'[i].lines = invoices[i].lines
      /\ \A j \in DOMAIN invoices : j # i => invoices'[j] = invoices[j]
      /\ invoices[i].status = "UNPAID"
  BY <1>1 DEF MarkInvoicePaid, InvoiceRow
<1>3. /\ i \in DOMAIN Account("UNPAID")
      /\ Account("UNPAID")[i] = DOMAIN invoices[i].lines
      /\ Account("UNPAID")' = Settled!Without(Account("UNPAID"), i)
  BY <1>2, LeavesTheAccount
<1>4. Account("PAID")' = Settled!With(Account("PAID"), i, Account("UNPAID")[i])
  <2>1. DOMAIN Account("PAID")' = DOMAIN Account("PAID") \cup {i}
    BY <1>2 DEF Account
  <2>2. \A j \in DOMAIN Account("PAID")' :
           Account("PAID")'[j] = IF j = i THEN Account("UNPAID")[i] ELSE Account("PAID")[j]
    BY <1>2, <1>3 DEF Account
  <2>3. Account("PAID")' = [j \in DOMAIN Account("PAID")' |-> Account("PAID")'[j]]
    BY DEF Account
  <2> QED
    BY <2>1, <2>2, <2>3 DEF Settled!With
<1>5. /\ DOMAIN entries' = DOMAIN entries
      /\ VisibleEntries' = VisibleEntries
      /\ Deleted' = Deleted
      /\ \A e \in DOMAIN entries :
            entries'[e].billing = IF e \in Claimed(i) THEN "client_paid" ELSE entries[e].billing
  <2> DEFINE claims == Claimed(i)
  <2>1. SetBilling(claims, "client_paid", i)
    BY DEF MarkInvoicePaid
  <2> HIDE DEF claims
  <2>2. /\ DOMAIN entries' = DOMAIN entries
        /\ VisibleEntries' = VisibleEntries
        /\ Deleted' = Deleted
        /\ \A e \in DOMAIN entries :
              entries'[e].billing = IF e \in claims THEN "client_paid" ELSE entries[e].billing
    BY <2>1, BillingKeepsSessions DEF Inv, TypeOK, TrackingTypeOK, TablesOK
  <2> QED
    BY <2>2 DEF claims
<1>6. Unbilled' = Unbilled
  <2>1. \A e \in Claimed(i) : entries[e].billing = "invoiced"
    BY DEF MarkInvoicePaid, ClaimsAre
  <2> QED
    BY <1>5, <2>1 DEF Unbilled, VisibleEntries
<1> QED
  BY <1>2, <1>3, <1>4, <1>5, <1>6 DEF Settled!Pay, Unbilled, Deleted

LEMMA VoidInvoiceReleases ==
    ASSUME Inv, NEW i \in DOMAIN invoices, VoidInvoice(i)
    PROVE  Settled!Release(i)
<1>1. invoices[i] \in InvoiceRow
  BY DEF Inv, TypeOK, BillingTablesOK
<1>2. /\ DOMAIN invoices' = DOMAIN invoices
      /\ invoices'[i].status = "VOID"
      /\ \A j \in DOMAIN invoices : j # i => invoices'[j] = invoices[j]
      /\ invoices[i].status = "UNPAID"
  BY <1>1 DEF VoidInvoice, InvoiceRow
<1>3. /\ i \in DOMAIN Account("UNPAID")
      /\ Account("UNPAID")[i] = DOMAIN invoices[i].lines
      /\ Account("UNPAID")' = Settled!Without(Account("UNPAID"), i)
  BY <1>2, LeavesTheAccount
<1>4. Account("PAID")' = Account("PAID")
  BY <1>2 DEF Account
<1>5. Claimed(i) = DOMAIN invoices[i].lines /\ Claimed(i) \subseteq DOMAIN entries
  BY DEF VoidInvoice, ClaimsAre, Claimed
<1>6. /\ DOMAIN entries' = DOMAIN entries
      /\ VisibleEntries' = VisibleEntries
      /\ Deleted' = Deleted
      /\ \A e \in DOMAIN entries :
            entries'[e].billing = IF e \in Claimed(i) THEN "pending_invoice"
                                  ELSE entries[e].billing
  <2> DEFINE claims == Claimed(i)
  <2>1. SetBilling(claims, "pending_invoice", NoInvoice)
    BY DEF VoidInvoice
  <2> HIDE DEF claims
  <2>2. /\ DOMAIN entries' = DOMAIN entries
        /\ VisibleEntries' = VisibleEntries
        /\ Deleted' = Deleted
        /\ \A e \in DOMAIN entries :
              entries'[e].billing = IF e \in claims THEN "pending_invoice"
                                    ELSE entries[e].billing
    BY <2>1, BillingKeepsSessions DEF Inv, TypeOK, TrackingTypeOK, TablesOK
  <2> QED
    BY <2>2 DEF claims
<1>7. Unbilled' = Unbilled \cup (Account("UNPAID")[i] \ Deleted)
  BY <1>3, <1>5, <1>6 DEF Unbilled, Deleted, VisibleEntries
<1> QED
  BY <1>2, <1>3, <1>4, <1>6, <1>7 DEF Settled!Release, Unbilled, Deleted

(* A step that leaves the sessions alone and every invoice its status and  *)
(* its lines is a stutter.                                                 *)
LEMMA SameAccounts ==
    ASSUME UNCHANGED entries, DOMAIN invoices' = DOMAIN invoices,
           \A i \in DOMAIN invoices : /\ invoices'[i].status = invoices[i].status
                                      /\ invoices'[i].lines = invoices[i].lines
    PROVE  UNCHANGED Settled!vars
<1>1. Account("UNPAID")' = Account("UNPAID") /\ Account("PAID")' = Account("PAID")
  BY DEF Account
<1>2. VisibleEntries' = VisibleEntries
  BY DEF VisibleEntries
<1> QED
  BY <1>1, <1>2 DEF Settled!vars

LEMMA InvoicingSettles ==
    ASSUME Inv, InvoicingNext PROVE [Settled!Next]_Settled!vars
<1>1. ASSUME NEW i \in Invoices \ DOMAIN invoices, CreateInvoice(i)
      PROVE  Settled!Next
  BY <1>1, CreateInvoiceBills DEF Settled!Next
<1>2. ASSUME NEW i \in DOMAIN invoices, VoidInvoice(i) PROVE Settled!Next
  BY <1>2, VoidInvoiceReleases DEF Settled!Next, Inv, TypeOK, BillingTablesOK
<1>3. ASSUME NEW i \in DOMAIN invoices, NEW ref \in Refs, MarkInvoicePaid(i, ref)
      PROVE  Settled!Next
  BY <1>3, MarkInvoicePaidPays DEF Settled!Next, Inv, TypeOK, BillingTablesOK
<1>4. ASSUME NEW i \in DOMAIN invoices, NEW ref \in Refs, RefundInvoice(i, ref)
      PROVE  UNCHANGED Settled!vars
  <2>1. invoices[i] \in InvoiceRow
    BY DEF Inv, TypeOK, BillingTablesOK
  <2>2. /\ DOMAIN invoices' = DOMAIN invoices
        /\ \A j \in DOMAIN invoices : /\ invoices'[j].status = invoices[j].status
                                      /\ invoices'[j].lines = invoices[j].lines
    BY <1>4, <2>1 DEF RefundInvoice, InvoiceRow
  <2> QED
    BY <1>4, <2>2, SameAccounts DEF RefundInvoice, dbVars, tables
<1>5. CASE UNCHANGED <<dbVars, invoices>>
  BY <1>5, SameAccounts DEF dbVars, tables
<1> QED
  BY <1>1, <1>2, <1>3, <1>4, <1>5
     DEF InvoicingNext, PreviewSinceLast, PreviewCustom, CreateDisbursement

(* The refinement of Settlement: whatever interleaves, each session is     *)
(* unbilled, owed on one invoice or paid on one.                           *)
THEOREM BillingSettles == Spec => Settles
<1>1. Init /\ BillingInit => Settled!Init
  BY DEF Init, BillingInit, Settled!Init, VisibleEntries, Account
<1>2. Inv => Separate
  BY UnbilledIsOnNoAccount
<1>3. Inv /\ SafeInv /\ Separate' /\ [Next]_vars => [Settled!Next]_Settled!vars
  <2> SUFFICES ASSUME Inv, SafeInv, Separate', [Next]_vars
               PROVE  [Settled!Next]_Settled!vars
    OBVIOUS
  <2>1. CASE UNCHANGED vars
    BY <2>1, TrackingWorks DEF vars, billingVars, Settled!Next
  <2>2. CASE TrackingNext /\ UNCHANGED billingVars
    BY <2>2, TrackingWorks DEF billingVars, Settled!Next
  <2>3. CASE InvoicingNext
    BY <2>3, InvoicingSettles
  <2> QED
    BY <2>1, <2>2, <2>3 DEF Next
<1> QED
  BY <1>1, <1>2, <1>3, InvIsInvariant, BillingIsSafe, PTL DEF Spec, Settles, Settled!Spec

-----------------------------------------------------------------------------
(* Transaction ids.  An invoice records an id only as it is paid and as it *)
(* is refunded, each time one that nothing else has.                       *)
RecordedWithTheirEvents ==
    \A i \in DOMAIN invoices :
        /\ invoices[i].status # "PAID" => invoices[i].paidRef = NoRef /\ ~invoices[i].refunded
        /\ ~invoices[i].refunded => invoices[i].refundRef = NoRef

RefsInv == RecordedWithTheirEvents /\ UniqueReferences

(* Recording an unused id on an invoice, in one place, keeps ids unique.   *)
LEMMA UnusedRefIsUnique ==
    ASSUME UniqueReferences, NEW i \in DOMAIN invoices, NEW ref \in Refs \ UsedRefs,
           DOMAIN invoices' = DOMAIN invoices, UNCHANGED disbursements,
           \A j \in DOMAIN invoices : j # i => invoices'[j] = invoices[j],
           \/ /\ invoices'[i].paidRef = ref
              /\ invoices'[i].refundRef = invoices[i].refundRef
           \/ /\ invoices'[i].paidRef = invoices[i].paidRef
              /\ invoices'[i].refundRef = ref
    PROVE  UniqueReferences'
<1>1. /\ \A j \in DOMAIN invoices : ref # invoices[j].paidRef /\ ref # invoices[j].refundRef
      /\ \A d \in DOMAIN disbursements : ref # disbursements[d].ref
  BY DEF UsedRefs
<1>2. CASE invoices'[i].paidRef = ref /\ invoices'[i].refundRef = invoices[i].refundRef
  BY <1>1, <1>2 DEF UniqueReferences
<1>3. CASE invoices'[i].paidRef = invoices[i].paidRef /\ invoices'[i].refundRef = ref
  BY <1>1, <1>3 DEF UniqueReferences
<1> QED
  BY <1>2, <1>3

LEMMA CreateInvoiceKeepsRefs ==
    ASSUME Inv, RefsInv, NEW i \in Invoices \ DOMAIN invoices, CreateInvoice(i)
    PROVE  RefsInv'
<1>1. /\ DOMAIN invoices' = DOMAIN invoices \cup {i}
      /\ invoices'[i] = NewInvoice(draft)
      /\ \A j \in DOMAIN invoices : invoices'[j] = invoices[j]
      /\ UNCHANGED disbursements
  BY DEF CreateInvoice, Put
<1>2. /\ invoices'[i].status = "UNPAID" /\ ~invoices'[i].refunded
      /\ invoices'[i].paidRef = NoRef /\ invoices'[i].refundRef = NoRef
  BY <1>1 DEF NewInvoice
<1>3. RecordedWithTheirEvents'
  BY <1>1, <1>2 DEF RefsInv, RecordedWithTheirEvents
<1>4. UniqueReferences'
  BY <1>1, <1>2 DEF RefsInv, UniqueReferences
<1> QED
  BY <1>3, <1>4 DEF RefsInv

LEMMA MarkInvoicePaidKeepsRefs ==
    ASSUME Inv, RefsInv, NEW i \in DOMAIN invoices, NEW ref \in Refs,
           MarkInvoicePaid(i, ref)
    PROVE  RefsInv'
<1>1. invoices[i] \in InvoiceRow
  BY DEF Inv, TypeOK, BillingTablesOK
<1>2. /\ DOMAIN invoices' = DOMAIN invoices
      /\ \A j \in DOMAIN invoices : j # i => invoices'[j] = invoices[j]
      /\ invoices'[i].status = "PAID"
      /\ invoices'[i].refunded = invoices[i].refunded
      /\ invoices'[i].paidRef = ref
      /\ invoices'[i].refundRef = invoices[i].refundRef
      /\ UNCHANGED disbursements
  BY <1>1 DEF MarkInvoicePaid, InvoiceRow
<1>3. RecordedWithTheirEvents'
  BY <1>2 DEF RefsInv, RecordedWithTheirEvents
<1>4. UniqueReferences'
  BY <1>2, UnusedRefIsUnique DEF RefsInv, MarkInvoicePaid, Available
<1> QED
  BY <1>3, <1>4 DEF RefsInv

LEMMA RefundInvoiceKeepsRefs ==
    ASSUME Inv, RefsInv, NEW i \in DOMAIN invoices, NEW ref \in Refs,
           RefundInvoice(i, ref)
    PROVE  RefsInv'
<1>1. invoices[i] \in InvoiceRow
  BY DEF Inv, TypeOK, BillingTablesOK
<1>2. /\ DOMAIN invoices' = DOMAIN invoices
      /\ \A j \in DOMAIN invoices : j # i => invoices'[j] = invoices[j]
      /\ invoices'[i].status = "PAID" /\ invoices'[i].refunded
      /\ invoices'[i].paidRef = invoices[i].paidRef
      /\ invoices'[i].refundRef = ref
      /\ UNCHANGED disbursements
  BY <1>1 DEF RefundInvoice, InvoiceRow
<1>3. RecordedWithTheirEvents'
  BY <1>2 DEF RefsInv, RecordedWithTheirEvents
<1>4. UniqueReferences'
  BY <1>2, UnusedRefIsUnique DEF RefsInv, RefundInvoice, Available
<1> QED
  BY <1>3, <1>4 DEF RefsInv

LEMMA VoidInvoiceKeepsRefs ==
    ASSUME Inv, RefsInv, NEW i \in DOMAIN invoices, VoidInvoice(i)
    PROVE  RefsInv'
<1>1. invoices[i] \in InvoiceRow
  BY DEF Inv, TypeOK, BillingTablesOK
<1>2. /\ DOMAIN invoices' = DOMAIN invoices
      /\ \A j \in DOMAIN invoices : j # i => invoices'[j] = invoices[j]
      /\ invoices[i].status = "UNPAID" /\ invoices'[i].status = "VOID"
      /\ invoices'[i].refunded = invoices[i].refunded
      /\ invoices'[i].paidRef = invoices[i].paidRef
      /\ invoices'[i].refundRef = invoices[i].refundRef
      /\ UNCHANGED disbursements
  BY <1>1 DEF VoidInvoice, InvoiceRow
<1>3. RecordedWithTheirEvents'
  BY <1>2 DEF RefsInv, RecordedWithTheirEvents
<1>4. UniqueReferences'
  <2>1. \A j \in DOMAIN invoices : /\ invoices'[j].paidRef = invoices[j].paidRef
                                   /\ invoices'[j].refundRef = invoices[j].refundRef
    BY <1>2
  <2> QED
    BY <1>2, <2>1 DEF RefsInv, UniqueReferences
<1> QED
  BY <1>3, <1>4 DEF RefsInv

LEMMA CreateDisbursementKeepsRefs ==
    ASSUME Inv, RefsInv, NEW d \in Disbursements \ DOMAIN disbursements, NEW u, NEW kind,
           NEW amount, NEW ref \in Refs \cup {NoRef},
           CreateDisbursement(d, u, kind, amount, ref)
    PROVE  RefsInv'
<1>1. /\ DOMAIN disbursements' = DOMAIN disbursements \cup {d}
      /\ disbursements'[d].ref = ref
      /\ \A f \in DOMAIN disbursements : disbursements'[f] = disbursements[f]
      /\ UNCHANGED invoices
  BY DEF CreateDisbursement, Put
<1>2. ref = NoRef \/ ref \notin UsedRefs
  BY DEF CreateDisbursement, Available
<1>3. RecordedWithTheirEvents'
  BY <1>1 DEF RefsInv, RecordedWithTheirEvents
<1>4. UniqueReferences'
  BY <1>1, <1>2 DEF RefsInv, UniqueReferences, UsedRefs
<1> QED
  BY <1>3, <1>4 DEF RefsInv

LEMMA RefsAreInvariant == Spec => []RefsInv
<1>1. Init /\ BillingInit => RefsInv
  BY DEF Init, BillingInit, RefsInv, RecordedWithTheirEvents, UniqueReferences
<1>2. Inv /\ RefsInv /\ [Next]_vars => RefsInv'
  <2> SUFFICES ASSUME Inv, RefsInv, [Next]_vars PROVE RefsInv'
    OBVIOUS
  <2>1. CASE UNCHANGED <<invoices, disbursements>>
    BY <2>1 DEF RefsInv, RecordedWithTheirEvents, UniqueReferences
  <2>2. CASE InvoicingNext
    BY <2>1, <2>2, CreateInvoiceKeepsRefs, MarkInvoicePaidKeepsRefs, RefundInvoiceKeepsRefs,
       VoidInvoiceKeepsRefs, CreateDisbursementKeepsRefs
       DEF InvoicingNext, PreviewSinceLast, PreviewCustom
  <2> QED
    BY <2>1, <2>2 DEF Next, vars, billingVars
<1> QED
  BY InvIsInvariant, <1>1, <1>2, PTL DEF Spec

(* A transaction id is never recorded twice, whether for a payment, a      *)
(* refund or a disbursement: each operation looks in all three places      *)
(* inside the transaction that records it.                                 *)
THEOREM ReferencesAreUnique == Spec => []UniqueReferences
<1>1. RefsInv => UniqueReferences
  BY DEF RefsInv
<1> QED
  BY RefsAreInvariant, <1>1, PTL

-----------------------------------------------------------------------------
(* One operation changes one invoice, whose frozen columns stay.           *)
LEMMA OneInvoiceChanges ==
    ASSUME Inv, NEW i \in DOMAIN invoices, NEW row, Frozen(invoices[i], row),
           invoices' = [invoices EXCEPT ![i] = row]
    PROVE  \A j \in DOMAIN invoices : j \in DOMAIN invoices' /\ Frozen(invoices[j], invoices'[j])
<1>1. \A j \in DOMAIN invoices : Frozen(invoices[j], invoices[j])
  BY DEF Frozen, Inv, TypeOK, BillingTablesOK, InvoiceRow
<1> QED
  BY <1>1

(* An issued invoice is never deleted; its terms, lines and number never   *)
(* change, VOID and refunded are permanent, a paid invoice is never voided *)
(* and a recorded transaction id never changes.                            *)
THEOREM InvoicesStay == Spec => InvoicesArePermanent
<1> DEFINE Stay == \A i \in DOMAIN invoices : /\ i \in DOMAIN invoices'
                                              /\ Frozen(invoices[i], invoices'[i])
<1>1. Inv /\ RefsInv /\ [Next]_vars => [Stay]_vars
  <2> SUFFICES ASSUME Inv, RefsInv, [Next]_vars PROVE Stay \/ UNCHANGED vars
    OBVIOUS
  <2>0. \A i \in DOMAIN invoices : invoices[i] \in InvoiceRow /\ Frozen(invoices[i], invoices[i])
    BY DEF Frozen, Inv, TypeOK, BillingTablesOK
  <2>1. CASE UNCHANGED invoices
    BY <2>0, <2>1
  <2>2. ASSUME NEW i \in Invoices \ DOMAIN invoices, CreateInvoice(i) PROVE Stay
    BY <2>0, <2>2 DEF CreateInvoice, Put
  <2>3. ASSUME NEW i \in DOMAIN invoices, VoidInvoice(i) PROVE Stay
    <3> DEFINE row == [invoices[i] EXCEPT !.status = "VOID"]
    <3>1. Frozen(invoices[i], row)
      BY <2>0, <2>3 DEF VoidInvoice, Frozen, InvoiceRow
    <3>2. invoices' = [invoices EXCEPT ![i] = row]
      BY <2>3 DEF VoidInvoice
    <3> HIDE DEF row
    <3> QED
      BY <3>1, <3>2, OneInvoiceChanges
  <2>4. ASSUME NEW i \in DOMAIN invoices, NEW ref \in Refs, MarkInvoicePaid(i, ref) PROVE Stay
    <3> DEFINE row == [invoices[i] EXCEPT !.status = "PAID", !.paidRef = ref]
    <3>1. invoices[i].status = "UNPAID" /\ invoices[i].paidRef = NoRef
      BY <2>4 DEF MarkInvoicePaid, RefsInv, RecordedWithTheirEvents
    <3>2. Frozen(invoices[i], row)
      BY <2>0, <3>1 DEF Frozen, InvoiceRow
    <3>3. invoices' = [invoices EXCEPT ![i] = row]
      BY <2>4 DEF MarkInvoicePaid
    <3> HIDE DEF row
    <3> QED
      BY <3>2, <3>3, OneInvoiceChanges
  <2>5. ASSUME NEW i \in DOMAIN invoices, NEW ref \in Refs, RefundInvoice(i, ref) PROVE Stay
    <3> DEFINE row == [invoices[i] EXCEPT !.refunded = TRUE, !.refundRef = ref]
    <3>1. ~invoices[i].refunded /\ invoices[i].refundRef = NoRef
      BY <2>5 DEF RefundInvoice, RefsInv, RecordedWithTheirEvents
    <3>2. Frozen(invoices[i], row)
      BY <2>0, <3>1 DEF Frozen, InvoiceRow
    <3>3. invoices' = [invoices EXCEPT ![i] = row]
      BY <2>5 DEF RefundInvoice
    <3> HIDE DEF row
    <3> QED
      BY <3>2, <3>3, OneInvoiceChanges
  <2> QED
    BY <2>1, <2>2, <2>3, <2>4, <2>5 DEF Next, billingVars, InvoicingNext,
       PreviewSinceLast, PreviewCustom, CreateDisbursement
<1> QED
  BY InvIsInvariant, RefsAreInvariant, <1>1, PTL DEF Spec, InvoicesArePermanent

-----------------------------------------------------------------------------
(* What invoices earn.  Earnings only grow: a paid invoice stays paid, with *)
(* the lines and the rate that it was issued with, and no line of it earns  *)
(* less than nothing.                                                       *)

LEMMA QuotientIsNat == ASSUME NEW a \in Nat, NEW b \in Nat \ {0} PROVE a \div b \in Nat
OBVIOUS

LEMMA DaySecondsAreNat ==
    ASSUME NEW line, line.start \in Int, line.stop \in Int, NEW d \in Days
    PROVE  DaySeconds(line, d) \in Nat
<1>1. d * DayLength \in Int /\ (d + 1) * DayLength \in Int
  BY DayAssumption
<1>2. ASSUME NEW a \in Int, NEW b \in Int PROVE Greatest(0, Least(line.stop, a) - Greatest(line.start, b)) \in Nat
  BY DEF Greatest, Least
<1> QED
  BY <1>1, <1>2 DEF DaySeconds

LEMMA RoundedQuartersAreNat == ASSUME NEW n \in Nat PROVE RoundedQuarters(n) \in Nat
<1>1. 2 * n + QuarterHour \in Nat /\ 2 * QuarterHour \in Nat \ {0}
  BY DayAssumption
<1> QED
  BY <1>1, QuotientIsNat DEF RoundedQuarters

LEMMA WorkerCentsAreNat ==
    ASSUME NEW lines, IsFiniteSet(DOMAIN lines), NEW user, NEW rate \in Nat,
           \A e \in DOMAIN lines : lines[e].start \in Int /\ lines[e].stop \in Int
    PROVE  WorkerCents(lines, user, rate) \in Nat
<1> DEFINE S == LinesOf(lines, user)
           onDay(d) == SumFunction([e \in S |-> DaySeconds(lines[e], d)])
<1>1. S \subseteq DOMAIN lines /\ IsFiniteSet(S)
  BY FS_Subset DEF LinesOf
<1>2. ASSUME NEW d \in Days PROVE onDay(d) \in Nat
  <2> HIDE DEF S
  <2>1. [e \in S |-> DaySeconds(lines[e], d)] \in [S -> Nat]
    BY <1>1, DaySecondsAreNat
  <2> QED
    BY <1>1, <2>1, SumIsNat
<1> HIDE DEF onDay
<1>3. [d \in Days |-> RoundedQuarters(onDay(d))] \in [Days -> Nat]
  BY <1>2, RoundedQuartersAreNat
<1>4. WorkerQuarters(lines, user) \in Nat
  <2>1. SumFunction([d \in Days |-> RoundedQuarters(onDay(d))]) \in Nat
    BY <1>3, SumIsNat, DayAssumption
  <2> QED
    BY <2>1 DEF WorkerQuarters, onDay
<1>5. ASSUME NEW quarters \in Nat PROVE quarters * rate + 2 \in Nat
  OBVIOUS
<1> QED
  BY <1>4, <1>5, QuotientIsNat DEF WorkerCents, TotalCents

Earnings(u) ==
    [i \in PaidInvoices |-> WorkerCents(invoices[i].lines, u, Rate[invoices[i].contract])]

LEMMA InvoicesEarn ==
    ASSUME Inv, IsFiniteSet(DOMAIN entries), NEW u \in Users,
           NEW i \in DOMAIN invoices, invoices[i].status # "VOID"
    PROVE  WorkerCents(invoices[i].lines, u, Rate[invoices[i].contract]) \in Nat
<1>1. DOMAIN invoices[i].lines \subseteq DOMAIN entries
  BY DEF Inv, ClaimsConsistent, InvoiceClaimsConsistent, Claimed
<1>2. IsFiniteSet(DOMAIN invoices[i].lines)
  BY <1>1, FS_Subset
<1>3. invoices[i] \in InvoiceRow
  BY DEF Inv, TypeOK, BillingTablesOK
<1>4. Rate[invoices[i].contract] \in Nat
  BY <1>3, MoneyAssumption DEF InvoiceRow
<1>5. \A e \in DOMAIN invoices[i].lines : invoices[i].lines[e] \in Line
  BY <1>3 DEF InvoiceRow
<1>6. \A line \in Line : line.start \in Int /\ line.stop \in Int
  BY TimeAssumption DEF Line, Time, Running
<1> QED
  BY <1>2, <1>4, <1>5, <1>6, WorkerCentsAreNat

LEMMA EarningsAreNat ==
    ASSUME Inv, IsFiniteSet(DOMAIN entries), NEW u \in Users
    PROVE  /\ IsFiniteSet(PaidInvoices)
           /\ Earnings(u) \in [PaidInvoices -> Nat]
           /\ PaidEarnings(u) \in Nat
<1>1. IsFiniteSet(PaidInvoices)
  BY FS_Subset DEF Inv, PaidInvoices
<1>2. Earnings(u) \in [PaidInvoices -> Nat]
  BY InvoicesEarn DEF Earnings, PaidInvoices
<1> QED
  BY <1>1, <1>2, SumIsNat DEF PaidEarnings, Earnings

Payments(u) == [d \in DisbursementsOf(u) |-> disbursements[d].amount]

LEMMA PaymentsAreNat ==
    ASSUME Inv, IsFiniteSet(DOMAIN disbursements), NEW u \in Users
    PROVE  /\ IsFiniteSet(DisbursementsOf(u))
           /\ Payments(u) \in [DisbursementsOf(u) -> Nat]
           /\ SumFunction(Payments(u)) \in Nat
<1>1. IsFiniteSet(DisbursementsOf(u))
  BY FS_Subset DEF DisbursementsOf
<1>2. \A d \in DOMAIN disbursements : disbursements[d].amount \in Nat
  BY MoneyAssumption DEF Inv, TypeOK, BillingTablesOK, DisbursementRow
<1>3. Payments(u) \in [DisbursementsOf(u) -> Nat]
  BY <1>2 DEF Payments, DisbursementsOf
<1> QED
  BY <1>1, <1>3, SumIsNat

(* Sessions are added one at a time, so that there are finitely many.      *)
LEMMA InsertIsFinite ==
    ASSUME IsFiniteSet(DOMAIN entries), NEW row, Insert(row)
    PROVE  IsFiniteSet(DOMAIN entries')
<1>1. PICK e \in Entries \ DOMAIN entries : entries' = Put(entries, e, row)
  BY DEF Insert
<1>2. DOMAIN entries' = DOMAIN entries \cup {e}
  BY <1>1 DEF Put
<1> QED
  BY <1>2, FS_AddElement

LEMMA TrackingIsFinite ==
    ASSUME IsFiniteSet(DOMAIN entries), TrackingNext
    PROVE  IsFiniteSet(DOMAIN entries')
<1>1. ASSUME NEW t \in Threads, EntryCommit(t) PROVE IsFiniteSet(DOMAIN entries')
  <2>1. \/ \E row \in {requests[t].row} : Insert(row)
        \/ DOMAIN entries' = DOMAIN entries
    BY <1>1 DEF EntryCommit, CommitStartTimer, CommitNewTimeEntry, CommitUpdateTimeEntry
  <2> QED
    BY <2>1, InsertIsFinite
<1>2. ASSUME NEW t \in Threads, WorkspaceCommit(t) PROVE DOMAIN entries' = DOMAIN entries
  BY <1>2 DEF WorkspaceCommit, CommitNewClient, CommitNewContract, CommitEditContract,
     CommitSetContract, CommitArchiveClient, CommitActivateClient, CommitNewTask,
     CommitNewSubtask, CommitDeleteTask, CommitDeleteSubtask, CommitSetEnabled, Hide
<1>3. ASSUME UNCHANGED tables PROVE DOMAIN entries' = DOMAIN entries
  BY <1>3 DEF tables
<1>4. ASSUME NEW t \in Threads, EntryRequest(t) \/ WorkspaceRequest(t) PROVE UNCHANGED tables
  BY <1>4, RequestsWriteNothing
<1> QED
  BY <1>1, <1>2, <1>3, <1>4 DEF TrackingNext, Tick, Abandon

PaidInv ==
    /\ IsFiniteSet(DOMAIN entries)
    /\ IsFiniteSet(DOMAIN disbursements)
    /\ NothingOverdisbursed

(* Nobody's balance changes while invoices keep their status and lines.    *)
LEMMA SameBalances ==
    ASSUME Inv, UNCHANGED disbursements, NEW u \in Users,
           PaidInvoices' = PaidInvoices,
           \A i \in PaidInvoices : /\ invoices'[i].lines = invoices[i].lines
                                   /\ invoices'[i].contract = invoices[i].contract
    PROVE  Outstanding(u)' = Outstanding(u)
<1>1. Earnings(u)' = Earnings(u)
  BY DEF Earnings
<1>2. Payments(u)' = Payments(u)
  BY DEF Payments, DisbursementsOf
<1> QED
  BY <1>1, <1>2 DEF Outstanding, PaidEarnings, Earnings, Payments

LEMMA MarkInvoicePaidEarns ==
    ASSUME Inv, PaidInv, NEW i \in DOMAIN invoices, NEW ref \in Refs, MarkInvoicePaid(i, ref),
           NEW u \in Users
    PROVE  Outstanding(u)' >= 0
<1>1. /\ invoices[i].status = "UNPAID"
      /\ invoices' = [invoices EXCEPT ![i].status = "PAID", ![i].paidRef = ref]
      /\ UNCHANGED disbursements
  BY DEF MarkInvoicePaid
<1>2. /\ DOMAIN invoices' = DOMAIN invoices
      /\ invoices'[i].status = "PAID"
      /\ invoices'[i].lines = invoices[i].lines
      /\ invoices'[i].contract = invoices[i].contract
      /\ \A j \in DOMAIN invoices : j # i => invoices'[j] = invoices[j]
  <2>1. invoices[i] \in InvoiceRow
    BY DEF Inv, TypeOK, BillingTablesOK
  <2> QED
    BY <1>1, <2>1 DEF InvoiceRow
<1>3. i \notin PaidInvoices /\ PaidInvoices' = PaidInvoices \cup {i}
  BY <1>1, <1>2 DEF PaidInvoices
<1> DEFINE g == Earnings(u)'
<1>4. /\ IsFiniteSet(PaidInvoices) /\ Earnings(u) \in [PaidInvoices -> Nat]
      /\ PaidEarnings(u) \in Nat
  BY EarningsAreNat DEF PaidInv
<1>5. g \in [PaidInvoices \cup {i} -> Nat]
  BY <1>1, <1>2, <1>3, InvoicesEarn DEF Earnings, PaidInvoices, PaidInv
<1>6. [j \in PaidInvoices |-> g[j]] = Earnings(u)
  BY <1>2, <1>3 DEF Earnings, PaidInvoices
<1> HIDE DEF g
<1>7. SumFunction(g) = g[i] + SumFunction(Earnings(u))
  BY <1>3, <1>4, <1>5, <1>6, SumExtended
<1>8. PaidEarnings(u)' = g[i] + PaidEarnings(u) /\ g[i] \in Nat
  BY <1>5, <1>7 DEF g, PaidEarnings, Earnings
<1>9. Payments(u)' = Payments(u)
  BY <1>1 DEF Payments, DisbursementsOf
<1>10. Outstanding(u) >= 0 /\ SumFunction(Payments(u)) \in Nat
  BY PaymentsAreNat DEF PaidInv, NothingOverdisbursed
<1> QED
  BY <1>4, <1>8, <1>9, <1>10 DEF Outstanding, Payments

LEMMA CreateDisbursementPays ==
    ASSUME Inv, PaidInv, NEW d \in Disbursements \ DOMAIN disbursements, NEW v \in Users,
           NEW kind, NEW amount \in 1..MaxAmount, NEW ref,
           CreateDisbursement(d, v, kind, amount, ref), NEW u \in Users
    PROVE  Outstanding(u)' >= 0
<1>1. /\ DOMAIN disbursements' = DOMAIN disbursements \cup {d}
      /\ disbursements'[d].user = v /\ disbursements'[d].amount = amount
      /\ \A f \in DOMAIN disbursements : disbursements'[f] = disbursements[f]
      /\ UNCHANGED invoices
      /\ amount <= Outstanding(v)
  BY DEF CreateDisbursement, Put
<1>2. PaidEarnings(u)' = PaidEarnings(u)
  BY <1>1 DEF PaidEarnings, PaidInvoices
<1>3. PaidEarnings(u) \in Nat /\ SumFunction(Payments(u)) \in Nat /\ amount \in Nat
  BY EarningsAreNat, PaymentsAreNat, MoneyAssumption DEF PaidInv
<1>4. CASE u # v
  <2>1. Payments(u)' = Payments(u)
    BY <1>1, <1>4 DEF Payments, DisbursementsOf
  <2> QED
    BY <1>2, <2>1 DEF PaidInv, NothingOverdisbursed, Outstanding, Payments
<1>5. CASE u = v
  <2> DEFINE g == Payments(u)'
  <2>1. /\ IsFiniteSet(DisbursementsOf(u)) /\ Payments(u) \in [DisbursementsOf(u) -> Nat]
        /\ d \notin DisbursementsOf(u)
    BY PaymentsAreNat DEF PaidInv, DisbursementsOf
  <2>2. g \in [DisbursementsOf(u) \cup {d} -> Nat]
    BY <1>1, <1>3, <1>5, <2>1 DEF Payments, DisbursementsOf
  <2>3. /\ [f \in DisbursementsOf(u) |-> g[f]] = Payments(u)
        /\ g[d] = amount
    BY <1>1, <1>5 DEF Payments, DisbursementsOf
  <2> HIDE DEF g
  <2>4. SumFunction(g) = amount + SumFunction(Payments(u))
    BY <2>1, <2>2, <2>3, SumExtended
  <2> QED
    BY <1>1, <1>2, <1>3, <1>5, <2>4 DEF Outstanding, Payments, g
<1> QED
  BY <1>4, <1>5

LEMMA PaidIsInvariant == Spec => []PaidInv
<1>1. Init /\ BillingInit => PaidInv
  <2> SUFFICES ASSUME Init, BillingInit PROVE PaidInv
    OBVIOUS
  <2>1. DOMAIN invoices = {} /\ DOMAIN disbursements = {} /\ DOMAIN entries = {}
    BY DEF Init, BillingInit
  <2>2. ASSUME NEW u \in Users PROVE Outstanding(u) >= 0
    <3>1. Inv /\ IsFiniteSet(DOMAIN entries) /\ IsFiniteSet(DOMAIN disbursements)
      BY <2>1, InitInv, FS_EmptySet
    <3>2. PaidEarnings(u) \in Nat
      BY <3>1, EarningsAreNat
    <3>3. Payments(u) \in [{} -> Nat]
      BY <2>1 DEF Payments, DisbursementsOf
    <3>4. SumFunction(Payments(u)) = 0
      BY <3>3, SumOfNone
    <3> QED
      BY <3>2, <3>4 DEF Outstanding, Payments
  <2> QED
    BY <2>1, <2>2, FS_EmptySet DEF PaidInv, NothingOverdisbursed
<1>2. Inv /\ PaidInv /\ [Next]_vars => PaidInv'
  <2> SUFFICES ASSUME Inv, PaidInv, [Next]_vars PROVE PaidInv'
    OBVIOUS
  <2>1. IsFiniteSet(DOMAIN entries')
    <3>1. CASE InvoicingNext
      <4>1. DOMAIN entries' = DOMAIN entries
        BY <3>1 DEF InvoicingNext, PreviewSinceLast, PreviewCustom, CreateInvoice, VoidInvoice,
           MarkInvoicePaid, RefundInvoice, CreateDisbursement, SetBilling, dbVars, tables
      <4> QED
        BY <4>1 DEF PaidInv
    <3> QED
      BY <3>1, TrackingIsFinite DEF Next, vars, dbVars, tables, PaidInv
  <2>2. IsFiniteSet(DOMAIN disbursements')
    <3>1. ASSUME NEW d, NEW row, disbursements' = Put(disbursements, d, row)
          PROVE  IsFiniteSet(DOMAIN disbursements')
      BY <3>1, FS_AddElement DEF Put, PaidInv
    <3> QED
      BY <3>1 DEF Next, vars, billingVars, InvoicingNext, PreviewSinceLast, PreviewCustom,
         CreateInvoice, VoidInvoice, MarkInvoicePaid, RefundInvoice, CreateDisbursement, PaidInv
  <2>3. ASSUME NEW u \in Users PROVE Outstanding(u)' >= 0
    <3>0. Outstanding(u) >= 0
      BY DEF PaidInv, NothingOverdisbursed
    <3>1. CASE UNCHANGED <<invoices, disbursements>>
      BY <3>0, <3>1, SameBalances DEF PaidInvoices
    <3>2. ASSUME NEW i \in Invoices \ DOMAIN invoices, CreateInvoice(i)
          PROVE  Outstanding(u)' >= 0
      <4>1. /\ invoices'[i].status = "UNPAID" /\ DOMAIN invoices' = DOMAIN invoices \cup {i}
            /\ \A j \in DOMAIN invoices : invoices'[j] = invoices[j]
            /\ UNCHANGED disbursements
        BY <3>2 DEF CreateInvoice, Put, NewInvoice
      <4> QED
        BY <3>0, <4>1, SameBalances DEF PaidInvoices
    <3>3. ASSUME NEW i \in DOMAIN invoices, NEW ref, VoidInvoice(i) \/ RefundInvoice(i, ref)
          PROVE  Outstanding(u)' >= 0
      <4>1. invoices[i] \in InvoiceRow
        BY DEF Inv, TypeOK, BillingTablesOK
      <4>2. /\ DOMAIN invoices' = DOMAIN invoices
            /\ \A j \in DOMAIN invoices : j # i => invoices'[j] = invoices[j]
            /\ invoices'[i].status = "PAID" <=> invoices[i].status = "PAID"
            /\ invoices'[i].lines = invoices[i].lines
            /\ invoices'[i].contract = invoices[i].contract
            /\ UNCHANGED disbursements
        BY <3>3, <4>1 DEF VoidInvoice, RefundInvoice, InvoiceRow
      <4> QED
        BY <3>0, <4>2, SameBalances DEF PaidInvoices
    <3>4. CASE InvoicingNext
      BY <3>1, <3>2, <3>3, <3>4, MarkInvoicePaidEarns, CreateDisbursementPays
         DEF InvoicingNext, PreviewSinceLast, PreviewCustom
    <3> QED
      BY <3>1, <3>4 DEF Next, vars, billingVars
  <2> QED
    BY <2>1, <2>2, <2>3 DEF PaidInv, NothingOverdisbursed
<1> QED
  BY InvIsInvariant, <1>1, <1>2, PTL DEF Spec

(* No worker is ever paid out more than the paid invoices earned, for any  *)
(* number of invoices, sessions and days, any rates, and however payments, *)
(* voids, refunds and disbursements follow each other: the balance is read *)
(* inside the transaction that pays, and nothing takes earnings back.      *)
THEOREM NobodyIsOverpaid == Spec => []NothingOverdisbursed
<1>1. PaidInv => NothingOverdisbursed
  BY DEF PaidInv
<1> QED
  BY PaidIsInvariant, <1>1, PTL
=============================================================================
