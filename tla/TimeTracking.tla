---------------------------- MODULE TimeTracking ----------------------------
(***************************************************************************)
(* Time tracking as a whole: the handlers of Workspace and TimeEntries     *)
(* interleaving over the shared tables.                                    *)
(***************************************************************************)
EXTENDS TimeEntries, Workspace

TrackingNext ==
    \/ Tick
    \/ \E t \in Threads : \/ EntryRequest(t) \/ EntryCommit(t)
                          \/ WorkspaceRequest(t) \/ WorkspaceCommit(t)
                          \/ Abandon(t)

TrackingSpec == Init /\ [][TrackingNext]_dbVars

-----------------------------------------------------------------------------
RowState == {"absent", "active", "archived"}
ItemState == {"absent", "visible", "hidden"}

Writes == {Idle} \cup EntryWrites \cup WorkspaceWrites

TablesOK ==
    /\ clients \in [Clients -> RowState]
    /\ contracts \in [Contracts -> RowState]
    /\ tasks \in [Tasks -> ItemState]
    /\ subtasks \in [Subtasks -> ItemState]
    /\ details \in [Contracts -> Details]
    /\ enabled \in [Users -> BOOLEAN]
    /\ DOMAIN entries \subseteq Entries
    /\ entries \in [DOMAIN entries -> EntryRow]
    /\ requests \in [Threads -> Writes]
    /\ now \in Time

WriteOK(w) ==
    /\ w.op = "updateEntry" =>
          /\ w.entry \in DOMAIN entries
          /\ w.read.billing = w.write.billing
          /\ w.read.invoice = w.write.invoice
          /\ w.write.stop # Running
    /\ w.op \in {"startTimer", "newEntry"} =>
          /\ w.row.billing = "pending_invoice"
          /\ w.row.invoice = NoInvoice
          /\ w.row.visible
    /\ w.op = "setEnabled" => w.stopped \subseteq DOMAIN entries

WritesOK == \A t \in Threads : WriteOK(requests[t])

(* Every table and every pending write set has its type.  A write set      *)
(* changes rows that exist, no handler of a session writes its billing     *)
(* columns, and a new session is pending and unclaimed.                    *)
TrackingTypeOK == TablesOK /\ WritesOK

(* No two visible sessions of one worker overlap, a running timer lasting  *)
(* for ever: in particular a worker has at most one active timer.  Every   *)
(* handler checks this before it writes and several race; the triggers of  *)
(* database.py decide at the write.                                        *)
NoOverlap ==
    \A e, f \in VisibleEntries :
        e # f /\ entries[e].user = entries[f].user
            => ~Overlap(entries[e], entries[f])

(* A session's subtask belongs to its task, although two edits of one      *)
(* session may each write only one of the two columns.                     *)
SubtaskOfItsTask == \A e \in DOMAIN entries : SubtaskBelongs(entries[e])

(* A session ends no earlier than it started and never after the present,  *)
(* although its two times may be written by different requests.            *)
TimesInOrder ==
    \A e \in DOMAIN entries : /\ StopsAfterStart(entries[e])
                              /\ entries[e].start <= now
                              /\ entries[e].stop <= now

(* A deleted session, task or subtask stays deleted: no request that read  *)
(* it before brings it back when it commits.                               *)
DeletedStaysDeleted ==
    [][/\ \A e \in DOMAIN entries : ~entries[e].visible => ~entries'[e].visible
       /\ \A k \in Tasks : tasks[k] = "hidden" => tasks'[k] = "hidden"
       /\ \A s \in Subtasks : subtasks[s] = "hidden" => subtasks'[s] = "hidden"
      ]_dbVars

(* A timer starts only while its contract is active, although start_timer  *)
(* checks the contract in an earlier read: its INSERT asks again.          *)
TimersStartOnActiveContracts ==
    [][\A e \in DOMAIN entries' :
          e \notin DOMAIN entries /\ entries'[e].stop = Running
              => contracts[ContractOf[entries'[e].task]] = "active"]_dbVars

-----------------------------------------------------------------------------
(* What the documentation and the confirmation pages say of archiving,     *)
(* disabling and deleting.  Requests that overlap break each of them:      *)
(* Overtaking says which, and ArchivedContractsHaveNoTimers has a run that *)
(* shows one.                                                              *)

(* Archiving a contract leaves no timer running on it.                     *)
ArchivedContractsHaveNoTimers ==
    \A c \in Contracts : contracts[c] = "archived" =>
        \A e \in WorkOf(c) : entries[e].stop # Running

(* No uninvoiced work on an archived contract *)
Resolved(c) ==
    contracts[c] = "archived" => \A e \in WorkOf(c) : entries[e].billing # "pending_invoice"

(* No active contract of an archived client *)
ContractsFollow(c) ==
    clients[c] = "archived" => \A k \in ContractsOf(c) : contracts[k] # "active"

(* No active timer of a disabled user *)
TimersStopped(u) == ~enabled[u] => ActiveTimersOf(u) = {}

(* No recorded time and no subtask of a deleted task *)
NothingLeftOf(k) ==
    tasks[k] = "hidden" =>
        /\ \A e \in VisibleEntries : entries[e].task # k
        /\ \A s \in Subtasks : TaskOf[s] = k => subtasks[s] # "visible"
=============================================================================
