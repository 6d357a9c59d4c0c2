----------------------------- MODULE TimeEntries -----------------------------
(***************************************************************************)
(* Timers and time sessions: the handlers start_timer, stop_timer,         *)
(* new_time_entry, edit_time_entry and delete_time_entry of routes.py.     *)
(* Who the caller is matters only for the timer it starts; for the others  *)
(* the caller is an administrator, who may do what every other user may.   *)
(***************************************************************************)
EXTENDS Database

EntryWrites ==
         [op: {"startTimer"}, row: EntryRow]
    \cup [op: {"newEntry"}, row: EntryRow]
    \cup [op: {"updateEntry"}, entry: Entries, read: EntryRow, write: EntryRow]

(* parse_assignment: a visible task of the contract, or a subtask of it *)
Assignable(k, s) ==
    /\ tasks[k] = "visible"
    /\ \/ s = NoSubtask
       \/ s \in Subtasks /\ subtasks[s] = "visible" /\ TaskOf[s] = k

(* time_entry_overlaps for a session from `from` to `to`, other than those *)
(* in `excluded`                                                            *)
TimeEntryOverlaps(u, from, to, excluded) ==
    \E e \in VisibleEntries \ excluded :
        /\ entries[e].user = u
        /\ entries[e].start < to
        /\ entries[e].stop = Running \/ entries[e].stop > from

StartTimer(t, u, k, s) ==
    /\ enabled[u]
    /\ Operational(ContractOf[k])
    /\ Assignable(k, s)
    /\ Prepare(t, [op  |-> "startTimer",
                   row |-> PendingEntry(u, k, s, now, Running)])

StopTimer(t, e) ==
    /\ e \in VisibleEntries
    /\ entries[e].stop = Running
    /\ Prepare(t, [op    |-> "updateEntry", entry |-> e, read |-> entries[e],
                   write |-> [entries[e] EXCEPT !.stop = Later(now, entries[e].start)]])

NewTimeEntry(t, u, k, s, from, to) ==
    /\ Operational(ContractOf[k])
    /\ Assignable(k, s)
    /\ from <= to /\ to <= now
    /\ ~TimeEntryOverlaps(u, from, to, {})
    /\ Prepare(t, [op |-> "newEntry", row |-> PendingEntry(u, k, s, from, to)])

(* What edit_time_entry and delete_time_entry ask of the session. *)
Correctable(e) ==
    /\ e \in VisibleEntries
    /\ entries[e].stop # Running
    /\ entries[e].billing = "pending_invoice"
    /\ tasks[entries[e].task] = "visible"
    /\ Operational(ContractOf[entries[e].task])

(* Assigning the subtask that is already loaded changes no column.         *)
AssignedSubtask(e, s) ==
    IF s = LoadedSubtask(entries[e].subtask) THEN entries[e].subtask ELSE s

EditTimeEntry(t, e, u, k, s, from, to) ==
    /\ Correctable(e)
    /\ enabled[u]
    /\ Operational(ContractOf[k])
    /\ Assignable(k, s)
    /\ from <= to /\ to <= now
    /\ ~TimeEntryOverlaps(u, from, to, {e})
    /\ Prepare(t, [op    |-> "updateEntry", entry |-> e, read |-> entries[e],
                   write |-> [entries[e] EXCEPT !.user = u, !.task = k,
                                 !.subtask = AssignedSubtask(e, s), !.start = from,
                                 !.stop = to]])

DeleteTimeEntry(t, e) ==
    /\ Correctable(e)
    /\ Prepare(t, [op    |-> "updateEntry", entry |-> e, read |-> entries[e],
                   write |-> [entries[e] EXCEPT !.visible = FALSE]])

-----------------------------------------------------------------------------
Insert(row) ==
    \E e \in Entries \ DOMAIN entries : entries' = Put(entries, e, row)

(* Mutant: the INSERT trusts the earlier check of the contract. *)
TimerAcceptedUnchecked(row) == Insertable(row)

(* The INSERT ... SELECT of start_timer, which asks again that the contract *)
(* is not archived, but neither about the client, the task nor the user.    *)
TimerAccepted(row) ==
    contracts[ContractOf[row.task]] # "archived" /\ Insertable(row)

CommitStartTimer(t) ==
    /\ Finish(t, "startTimer")
    /\ LET row == requests[t].row
       IN  IF TimerAccepted(row) THEN Insert(row) ELSE UNCHANGED entries
    /\ UNCHANGED <<clients, contracts, tasks, subtasks, details, enabled>>

CommitNewTimeEntry(t) ==
    /\ Finish(t, "newEntry")
    /\ LET row == requests[t].row
       IN  IF Insertable(row) THEN Insert(row) ELSE UNCHANGED entries
    /\ UNCHANGED <<clients, contracts, tasks, subtasks, details, enabled>>

(* Mutant: the UPDATE writes every column as the handler holds it. *)
MergeWholeRow(row, read, write) == write

(* The row after an UPDATE of the columns that the handler changed: the    *)
(* others, the billing columns among them, keep what others wrote.         *)
Merge(row, read, write) ==
    [column \in DOMAIN row |-> Column(row[column], read[column], write[column])]

CommitUpdateTimeEntry(t) ==
    /\ Finish(t, "updateEntry")
    /\ LET w   == requests[t]
           row == Merge(entries[w.entry], w.read, w.write)
       IN  IF Updatable(w.entry, w.read, w.write, row)
           THEN entries' = [entries EXCEPT ![w.entry] = row]
           ELSE UNCHANGED entries
    /\ UNCHANGED <<clients, contracts, tasks, subtasks, details, enabled>>

-----------------------------------------------------------------------------
EntryRequest(t) ==
    \/ \E u \in Users, k \in Tasks, s \in Subtasks \cup {NoSubtask} :
          \/ StartTimer(t, u, k, s)
          \/ \E from, to \in Time :
                \/ NewTimeEntry(t, u, k, s, from, to)
                \/ \E e \in DOMAIN entries : EditTimeEntry(t, e, u, k, s, from, to)
    \/ \E e \in DOMAIN entries : StopTimer(t, e) \/ DeleteTimeEntry(t, e)

EntryCommit(t) ==
    \/ CommitStartTimer(t)
    \/ CommitNewTimeEntry(t)
    \/ CommitUpdateTimeEntry(t)
=============================================================================
