------------------------------ MODULE Settlement ------------------------------
(***************************************************************************)
(* What invoicing promises of recorded work, without tables, drafts and    *)
(* requests: every session is unbilled, owed on one invoice or paid on     *)
(* one; an invoice that is voided gives all its sessions back, and what    *)
(* was paid is never owed again.  Billing implements it.                   *)
(***************************************************************************)
CONSTANTS Sessions, Invoices

VARIABLES
    work,      \* the sessions that may be billed
    deleted,   \* the sessions that were deleted
    issued,    \* the invoices that were ever issued
    owed,      \* the sessions of each invoice that is to be paid
    paid       \* the sessions of each invoice that is paid

vars == <<work, deleted, issued, owed, paid>>

BilledOn(account) == UNION {account[i] : i \in DOMAIN account}

Billed == BilledOn(owed) \cup BilledOn(paid)

With(account, i, S) == [j \in DOMAIN account \cup {i} |-> IF j = i THEN S ELSE account[j]]

Without(account, i) == [j \in DOMAIN account \ {i} |-> account[j]]

Init ==
    /\ work \in SUBSET Sessions
    /\ deleted = {}
    /\ issued = {}
    /\ owed = [i \in {} |-> {}]
    /\ paid = [i \in {} |-> {}]

(* Sessions are recorded, corrected and deleted for good, never a billed   *)
(* one into an unbilled one.                                               *)
Work ==
    /\ deleted \subseteq deleted' /\ deleted' \subseteq Sessions
    /\ work' \subseteq Sessions \ (Billed \cup deleted')
    /\ UNCHANGED <<issued, owed, paid>>

Bill(i) ==
    /\ i \in Invoices \ issued
    /\ issued' = issued \cup {i}
    /\ \E S \in (SUBSET work) \ {{}} :
          owed' = With(owed, i, S) /\ work' = work \ S
    /\ UNCHANGED <<deleted, paid>>

Pay(i) ==
    /\ i \in DOMAIN owed
    /\ paid' = With(paid, i, owed[i])
    /\ owed' = Without(owed, i)
    /\ UNCHANGED <<work, deleted, issued>>

Release(i) ==
    /\ i \in DOMAIN owed
    /\ owed' = Without(owed, i)
    /\ work' = work \cup (owed[i] \ deleted)
    /\ UNCHANGED <<deleted, issued, paid>>

Next == Work \/ \E i \in Invoices : Bill(i) \/ Pay(i) \/ Release(i)

Spec == Init /\ [][Next]_vars
=============================================================================
