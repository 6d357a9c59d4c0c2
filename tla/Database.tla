------------------------------ MODULE Database ------------------------------
(***************************************************************************)
(* The tables that the request handlers of grayhaven_timetracker share,    *)
(* with the integrity rules SQLite enforces on them (models.py and the     *)
(* triggers of database.py), and the request threads.                      *)
(*                                                                         *)
(* A handler reads in autocommit mode and writes at its final commit, and  *)
(* SQLAlchemy's UPDATE lists only the columns whose value the handler      *)
(* changed.  A request is therefore two steps: one that reads and          *)
(* validates, leaving a write set in requests[t], and one that commits the *)
(* write set to the tables as they then are, under the rules below.        *)
(***************************************************************************)
EXTENDS Integers, FiniteSets

CONSTANTS
    Users, Clients, Contracts, Tasks, Subtasks, Entries, Invoices,
    ClientOf,     \* the client of each contract
    ContractOf,   \* the contract of each task
    TaskOf,       \* the task of each subtask
    Details,      \* contract names and contacts, which an edit may change
    Seeded,       \* the clients, contracts, tasks and subtasks present at first
    Threads,      \* gunicorn worker threads
    NoSubtask, NoInvoice,
    MaxTime       \* bound of the clock

ASSUME ParentAssumption ==
    /\ ClientOf \in [Contracts -> Clients]
    /\ ContractOf \in [Tasks -> Contracts]
    /\ TaskOf \in [Subtasks -> Tasks]

ASSUME NullAssumption == NoSubtask \notin Subtasks /\ NoInvoice \notin Invoices

ASSUME TimeAssumption == MaxTime \in Nat

VARIABLES
    clients, contracts, tasks, subtasks,  \* row states
    details,                              \* contract name and contact
    enabled,                              \* user_account.is_enabled
    entries,                              \* time_entry rows by id
    requests,                             \* what each thread is about to write
    now                                   \* wall clock

tables == <<clients, contracts, tasks, subtasks, details, enabled, entries>>
dbVars == <<tables, requests, now>>

Time == 0..MaxTime
Running == -1             \* stopped_at IS NULL
Forever == MaxTime + 1    \* '9999-12-31 23:59:59.999999' in the triggers

BillingStatus == {"pending_invoice", "invoiced", "client_paid"}

EntryRow ==
    [user: Users, task: Tasks, subtask: Subtasks \cup {NoSubtask},
     start: Time, stop: Time \cup {Running}, visible: BOOLEAN,
     billing: BillingStatus, invoice: Invoices \cup {NoInvoice}]

(* A new session or timer: always pending, never claimed. *)
PendingEntry(u, k, s, from, to) ==
    [user |-> u, task |-> k, subtask |-> s, start |-> from, stop |-> to,
     visible |-> TRUE, billing |-> "pending_invoice", invoice |-> NoInvoice]

Idle == [op |-> "idle"]

Put(f, key, value) ==
    [x \in DOMAIN f \cup {key} |-> IF x = key THEN value ELSE f[x]]

(* A column after the flush of a row: written only if the handler changed it *)
Column(current, read, write) == IF read = write THEN current ELSE write

Later(a, b) == IF a > b THEN a ELSE b

-----------------------------------------------------------------------------
(* What the handlers' queries see *)

(* require_active_contract, which also asks for the client *)
Operational(c) == contracts[c] = "active" /\ clients[ClientOf[c]] = "active"

VisibleEntries == {e \in DOMAIN entries : entries[e].visible}

(* Sessions found by a query that joins the task: a hidden task hides them. *)
WorkOf(c) ==
    {e \in VisibleEntries : /\ ContractOf[entries[e].task] = c
                            /\ tasks[entries[e].task] = "visible"}

(* The subtask of a session as a query loads it: a hidden one is no subtask *)
LoadedSubtask(s) == IF s \in Subtasks /\ subtasks[s] = "hidden" THEN NoSubtask ELSE s

(* Mutant: only a running timer counts as pending. *)
HasActiveTimers(c) == \E e \in WorkOf(c) : entries[e].stop = Running

(* has_pending_invoice_sessions *)
HasPendingInvoiceSessions(c) ==
    \E e \in WorkOf(c) : \/ entries[e].billing = "pending_invoice"
                         \/ entries[e].stop = Running

-----------------------------------------------------------------------------
(* Constraints and triggers of the time_entry table *)

EndOf(row) == IF row.stop = Running THEN Forever ELSE row.stop

Overlap(a, b) == a.start < EndOf(b) /\ EndOf(a) > b.start

OverlapsAny(row, others) ==
    \E e \in others : /\ entries[e].visible
                      /\ entries[e].user = row.user
                      /\ Overlap(row, entries[e])

StopsAfterStart(row) == row.stop = Running \/ row.start <= row.stop

SubtaskBelongs(row) == row.subtask = NoSubtask \/ TaskOf[row.subtask] = row.task

Insertable(row) ==
    /\ StopsAfterStart(row)
    /\ SubtaskBelongs(row)
    /\ ~OverlapsAny(row, DOMAIN entries)

(* Mutants: the schema lacks the overlap update trigger, the CHECK of the  *)
(* times, or the subtask update trigger.                                   *)
UpdatableWithOverlap(e, read, write, row) ==
    StopsAfterStart(row) /\ SubtaskBelongs(row)

UpdatableBackwards(e, read, write, row) ==
    SubtaskBelongs(row) /\ ~OverlapsAny(row, DOMAIN entries \ {e})

UpdatableAnySubtask(e, read, write, row) ==
    StopsAfterStart(row) /\ ~OverlapsAny(row, DOMAIN entries \ {e})

(* An UPDATE that sets the columns in which write differs from read.  Each *)
(* trigger looks at the row only when the statement sets its columns.      *)
Updatable(e, read, write, row) ==
    /\ StopsAfterStart(row)
    /\ (read.task # write.task \/ read.subtask # write.subtask)
          => SubtaskBelongs(row)
    /\ (read.user # write.user \/ read.start # write.start
        \/ read.stop # write.stop)
          => ~OverlapsAny(row, DOMAIN entries \ {e})

-----------------------------------------------------------------------------
Init ==
    LET Present(S, state) == [x \in S |-> IF x \in Seeded THEN state ELSE "absent"]
    IN  /\ clients = Present(Clients, "active")
        /\ contracts = Present(Contracts, "active")
        /\ tasks = Present(Tasks, "visible")
        /\ subtasks = Present(Subtasks, "visible")
        /\ details \in [Contracts -> Details]
        /\ enabled = [u \in Users |-> TRUE]
        /\ entries = [e \in {} |-> 0]
        /\ requests = [t \in Threads |-> Idle]
        /\ now = 0

Tick ==
    /\ now < MaxTime
    /\ now' = now + 1
    /\ UNCHANGED <<tables, requests>>

(* The process dies between a handler's reads and its commit, or the       *)
(* commit fails (the database stays locked for longer than busy_timeout):  *)
(* the write set is lost and the tables stay.  A crash loses every         *)
(* thread's write set, which is one such step for each.                    *)
Abandon(t) ==
    /\ requests[t] # Idle
    /\ requests' = [requests EXCEPT ![t] = Idle]
    /\ UNCHANGED <<tables, now>>

(* Thread t has validated its request and is about to write w. *)
Prepare(t, w) ==
    /\ requests[t] = Idle
    /\ requests' = [requests EXCEPT ![t] = w]
    /\ UNCHANGED <<tables, now>>

(* Thread t holds a write set of kind op and now commits or rolls it back. *)
Finish(t, op) ==
    /\ requests[t].op = op
    /\ requests' = [requests EXCEPT ![t] = Idle]
    /\ UNCHANGED now
=============================================================================
