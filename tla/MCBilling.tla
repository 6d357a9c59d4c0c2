----------------------------- MODULE MCBilling -----------------------------
(* Instances of Billing for TLC, over the same tables.  The constants of    *)
(* the configuration are those of the scenario "ledger", in which invoices  *)
(* and disbursements follow each other over recorded work.  In the scenario *)
(* "races" a correction is in flight while drafts are previewed, kept and   *)
(* generated.                                                               *)
EXTENDS Billing, TLC

CONSTANTS c1, k1, a1, u1, d1, d2, r0

VARIABLE scenario

Races == INSTANCE Billing WITH
    Users <- {u1}, Details <- {d1, d2}, Refs <- {r0}, Disbursements <- {},
    MaxAmount <- 0, MaxTime <- 1

ContractClient == [k \in Contracts |-> c1]
TaskContract == [a \in Tasks |-> k1]
SubtaskTask == [s \in Subtasks |-> a1]
AllRows == Clients \cup Contracts \cup Tasks \cup Subtasks
OneRate == [k \in Contracts |-> 4]
TwoDays == {0, 1}

BillingSymmetric == Permutations(Threads) \cup Permutations(Entries)
                      \cup Permutations(Invoices)

(* A database in which work was recorded and nothing was invoiced yet, and  *)
(* which only invoices and disbursements change from then on.               *)
Recorded ==
    \E S \in SUBSET Entries :
        entries \in [S -> {PendingEntry(u, a1, NoSubtask, from, to) :
                              u \in Users, from \in Time, to \in Time}]

LedgerInit ==
    /\ Recorded
    /\ \A e \in DOMAIN entries : StopsAfterStart(entries[e])
    /\ NoOverlap
    /\ clients = [c \in Clients |-> "active"]
    /\ contracts = [c \in Contracts |-> "active"]
    /\ tasks = [k \in Tasks |-> "visible"]
    /\ subtasks = [s \in Subtasks |-> "visible"]
    /\ details \in [Contracts -> Details]
    /\ enabled = [u \in Users |-> TRUE]
    /\ requests = [t \in Threads |-> Idle]
    /\ now = MaxTime
    /\ BillingInit

MCInit ==
    \/ scenario = "ledger" /\ LedgerInit
    \/ scenario = "races" /\ Races!Init /\ Races!BillingInit

MCNext ==
    /\ \/ scenario = "ledger" /\ InvoicingNext
       \/ scenario = "races" /\ Races!Next
    /\ UNCHANGED scenario

MCSpec == MCInit /\ [][MCNext]_<<vars, scenario>>
=============================================================================
